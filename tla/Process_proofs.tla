---------------------------- MODULE Process_proofs ----------------------------
(***************************************************************************)
(* Proofs about ed::signal_child and cppprocess::process.                  *)
(*                                                                         *)
(* The first part is about signal_child alone, for any number of children, *)
(* of listeners and of stops: the safety properties of SignalChild as      *)
(* theorems of its specification.                                          *)
(*                                                                         *)
(* The second part is about process, for any size of the pipes and of the  *)
(* data: it uses ed::signal_child the way SignalChild specifies, so that   *)
(* the theorems about that component hold here as well, and when wait()    *)
(* returns the output is complete and the exit codes are known.            *)
(***************************************************************************)
EXTENDS Process, FiniteSetTheorems, TLAPS

---------------------------------------------------------------------------
(***************************************************************************)
(* The types and the count of the listeners, together: that f_count does   *)
(* not become negative follows from its being the number of listeners.     *)
(***************************************************************************)

KernelType ==
    /\ proc \in [Children -> {"none", "running", "reaped"} \cup Codes]
    /\ stops \in 0 .. MaxStops
    /\ owner \in {"none", "other", "child"}
    /\ blocked \in BOOLEAN /\ pending \in BOOLEAN
    /\ missed \subseteq Children

ListType ==
    /\ f_listeners \subseteq Listeners
    /\ added \in 0 .. MaxListeners
    /\ f_count \in Nat
    /\ in_comm \in BOOLEAN
    /\ forked \subseteq Children

LoopType ==
    /\ pc \in {"idle", "process", "waitid", "call", "callback"}
    /\ info \in [pid : Children, code : Codes]
    /\ todo \subseteq Listeners
    /\ told \in [1 .. MaxListeners -> Nat]

Counted == IsFiniteSet(f_listeners) /\ CountMatches

CInv == KernelType /\ ListType /\ LoopType /\ Counted

\* The type invariant is its three parts.
LEMMA TypeParts == TypeOK <=> KernelType /\ ListType /\ LoopType
BY Zenon DEF TypeOK, KernelType, ListType, LoopType

\* remove_listener() takes as many from the count as it removes.
LEMMA DropCounts ==
  ASSUME CInv, NEW c \in Children, DropListeners(c)
  PROVE  /\ Counted'
         /\ f_listeners' \subseteq f_listeners
         /\ f_count' \in Nat
         /\ in_comm' \in BOOLEAN
<1>1. /\ IsFiniteSet(f_listeners) /\ f_count = Cardinality(f_listeners)
      /\ in_comm = (f_count > 0) /\ f_count \in Nat
  BY DEF CInv, Counted, CountMatches, ListType
<1>2. f_listeners \cap Of(c) = Of(c) /\ Of(c) \in SUBSET f_listeners
  BY DEF Of
<1>3. /\ IsFiniteSet(f_listeners \ Of(c))
      /\ Cardinality(f_listeners \ Of(c)) = Cardinality(f_listeners) - Cardinality(Of(c))
  BY <1>1, <1>2, FS_Difference
<1>4. IsFiniteSet(f_listeners') /\ f_count' = Cardinality(f_listeners')
  BY <1>1, <1>3 DEF DropListeners
<1>5. f_count' \in Nat
  BY <1>4, FS_CardinalityType
<1>6. Of(c) = {} => f_count' = f_count
  BY <1>1, FS_EmptySet DEF DropListeners
<1>7. Of(c) # {} => f_count > 0
  <2>1. Of(c) # {} => f_listeners # {}
    BY <1>2
  <2>. QED BY <1>1, <2>1, FS_EmptySet
<1>8. in_comm' = (f_count' > 0)
  <2>1. in_comm' = (in_comm /\ ~(Of(c) # {} /\ f_count' = 0))
    BY DEF DropListeners
  <2>2. CASE Of(c) = {}
    <3>1. in_comm' = in_comm
      BY <2>1, <2>2, Zenon DEF CInv, ListType
    <3>. QED BY <1>1, <1>6, <2>2, <3>1, Zenon
  <2>3. CASE Of(c) # {}
    <3>1. in_comm
      BY <1>1, <1>7, <2>3, Zenon
    <3>2. (f_count' > 0) = (f_count' # 0)
      BY <1>5
    <3>. QED BY <2>1, <2>3, <3>1, <3>2, Zenon
  <2>. QED BY <2>2, <2>3
<1>. QED BY <1>4, <1>5, <1>8 DEF DropListeners, Counted, CountMatches

\* add_listener() adds one to the count and to the list, as the identifier
\* of the listener is new: the only lemma that needs the identifiers.
Numbered == \A l \in f_listeners \cup todo : l.id <= added

\* add_listener() counts the listener it adds.
LEMMA AddCounts ==
  ASSUME CInv, Numbered, NEW c \in Children, NEW mask \in Masks, AddListener(c, mask)
  PROVE  ListType' /\ Counted'
<1>. DEFINE l == [id |-> added + 1, child |-> c, flags |-> mask]
<1>1. /\ added \in 0 .. MaxListeners /\ added < MaxListeners /\ MaxListeners \in Nat
      /\ f_listeners' = f_listeners \cup {l} /\ added' = added + 1
      /\ f_count' = f_count + 1 /\ in_comm' = (in_comm \/ f_count = 0)
      /\ forked' = forked \ {c}
  BY MaxListenersAssumption DEF AddListener, CInv, ListType
<1>2. mask \in SUBSET Flags
  BY DEF Masks, Flags
<1>3. l \in Listeners
  BY <1>1, <1>2 DEF Listeners
<1>4. l \notin f_listeners
  BY <1>1 DEF Numbered
<1>5. IsFiniteSet(f_listeners') /\ Cardinality(f_listeners') = Cardinality(f_listeners) + 1
  BY <1>1, <1>4, FS_AddElement DEF CInv, Counted
<1>6. f_count \in Nat /\ f_count = Cardinality(f_listeners) /\ in_comm = (f_count > 0)
  BY DEF CInv, ListType, Counted, CountMatches
<1>7. f_count' = Cardinality(f_listeners') /\ f_count' \in Nat
  BY <1>1, <1>5, <1>6
<1>8. in_comm' = (f_count' > 0) /\ in_comm' \in BOOLEAN
  <2>1. f_count > 0 \/ f_count = 0
    BY <1>6
  <2>2. in_comm' = TRUE
    BY <1>1, <1>6, <2>1, Zenon
  <2>3. (f_count' > 0) = TRUE
    BY <1>1, <1>6
  <2>. QED BY <2>2, <2>3, Zenon
<1>9. f_listeners' \subseteq Listeners /\ added' \in 0 .. MaxListeners /\ forked' \subseteq Children
  BY <1>1, <1>3 DEF CInv, ListType
<1>. QED BY <1>5, <1>7, <1>8, <1>9 DEF ListType, Counted, CountMatches

\* A step that leaves a group of variables alone keeps what is known of it.
LEMMA KernelSame == ASSUME KernelType, UNCHANGED kernel PROVE KernelType'
BY Zenon DEF KernelType, kernel
\* The list of listeners does not change.
LEMMA ListSame == ASSUME ListType, Counted, UNCHANGED list PROVE ListType' /\ Counted'
BY Zenon DEF ListType, Counted, CountMatches, list
\* The event loop does not change.
LEMMA LoopSame == ASSUME LoopType, UNCHANGED loop PROVE LoopType'
BY Zenon DEF LoopType, loop

\* The steps of the kernel and of ed::signal.
LEMMA KernelSteps ==
  ASSUME KernelType, NEW c \in Children, NEW o \in {"child", "other"}, NEW u \in BOOLEAN,
         \/ Child(c)
         \/ Signal(o) \/ ReadOther \/ CloseOther(u)
  PROVE  KernelType' /\ UNCHANGED <<list, loop>>
<1>1. CASE \E code \in Dead : Die(c, code)
  <2>1. PICK code \in Dead : Die(c, code)
    BY <1>1
  <2>2. proc' \in [Children -> {"none", "running", "reaped"} \cup Codes]
    BY <2>1 DEF Die, KernelType, Codes
  <2>3. pending' \in BOOLEAN
    BY <2>1, Zenon DEF Die, Raise, KernelType
  <2>4. missed' \subseteq Children
    BY <2>1 DEF Die, KernelType
  <2>. QED BY <2>1, <2>2, <2>3, <2>4, Zenon DEF Die, KernelType
<1>2. CASE Stop(c) \/ Continue(c)
  <2>1. /\ proc' \in [Children -> {"none", "running", "reaped"} \cup Codes]
        /\ stops' \in 0 .. MaxStops
    BY <1>2, MaxStopsAssumption DEF Stop, Continue, KernelType, Codes, Paused
  <2>2. pending' \in BOOLEAN
    BY <1>2, Zenon DEF Stop, Continue, Raise, KernelType
  <2>. QED BY <1>2, <2>1, <2>2, Zenon DEF Stop, Continue, KernelType
<1>3. CASE Signal(o)
  BY <1>3 DEF Signal, KernelType
<1>4. CASE ReadOther \/ CloseOther(u)
  <2>1. missed' \subseteq Children
    BY <1>4 DEF ReadOther, CloseOther, KernelType, Zombies
  <2>2. owner' \in {"none", "other", "child"}
    BY <1>4 DEF ReadOther, CloseOther, KernelType
  <2>. QED BY <1>4, <2>1, <2>2, Zenon DEF ReadOther, CloseOther, KernelType
<1>. QED BY <1>1, <1>2, <1>3, <1>4 DEF Child

---------------------------------------------------------------------------
(***************************************************************************)
(* Who was told what. A listener was told of the death of its child only   *)
(* while that child is being handled, and the steps that follow take it    *)
(* out of the list: it is never told again.                                *)
(***************************************************************************)

Handling == pc \in {"call", "callback"}
HandlingDeath == Handling /\ info.code \in Dead

\* Identifiers are not used again, and nothing is known of the next ones.
Identified ==
    /\ \A l, m \in f_listeners \cup todo : l.id = m.id => l = m
    /\ \A i \in 1 .. MaxListeners : i > added => told[i] = 0

\* The child process_signal() handles: it stays a zombie, with no listener
\* added for it, until it is released.
Handled ==
    /\ ~Handling => todo = {}
    /\ pc \in {"process", "waitid", "call"} => forked = {}
    /\ HandlingDeath => proc[info.pid] \in Dead /\ info.pid \notin forked

Hearing ==
    /\ \A l \in todo : l.child = info.pid /\ told[l.id] = 0
    /\ \A l \in f_listeners :
         \/ told[l.id] = 0
         \/ HandlingDeath /\ l.child = info.pid /\ l \notin todo
    /\ HandlingDeath =>
         \A l \in Of(info.pid) :
            {"EXITED", "SIGNALED"} \subseteq l.flags => l \in todo \/ told[l.id] = 1

\* NoLostDeath whoever has SIGCHLD.
DeathPending ==
    \A c \in Zombies \ missed : pending \/ pc \notin {"idle", "process"}

TInv == Numbered /\ Identified /\ Handled /\ Hearing /\ DeathToldOnce

IInv == CInv /\ TInv /\ DeathPending

\* The steps of the event loop.
LEMMA LoopSteps ==
  ASSUME CInv, EventLoop
  PROVE  CInv'
<1>. USE DEF CInv
<1>1. CASE Poll \/ Return
  <2>1. LoopType'
    BY <1>1, Zenon DEF Poll, Return, LoopType
  <2>. QED BY <1>1, <2>1, KernelSame, ListSame DEF Poll, Return
<1>2. CASE Process
  <2>1. LoopType'
    BY <1>2 DEF Process, LoopType
  <2>2. KernelType'
    BY <1>2, Zenon DEF Process, KernelType
  <2>. QED BY <1>2, <2>1, <2>2, ListSame DEF Process
<1>3. CASE WaitId
  <2>1. LoopType'
    <3>1. CASE Waitable = {} /\ pc' = "process" /\ UNCHANGED <<info, todo>>
      BY <1>3, <3>1 DEF WaitId, LoopType
    <3>2. ASSUME NEW c \in Waitable,
                 info' = [pid |-> c, code |-> proc[c]],
                 todo' = {l \in Of(c) : StatusMask(proc[c]) \in l.flags},
                 pc' = "call"
          PROVE  LoopType'
      <4>1. todo' \subseteq Listeners
        BY <3>2 DEF Of, ListType
      <4>2. info' \in [pid : Children, code : Codes]
        BY <3>2 DEF Waitable
      <4>. QED BY <1>3, <3>2, <4>1, <4>2 DEF WaitId, LoopType
    <3>. QED BY <1>3, <3>1, <3>2 DEF WaitId
  <2>. QED BY <1>3, <2>1, KernelSame, ListSame DEF WaitId
<1>4. CASE Call
  <2>1. PICK l \in todo : /\ todo' = todo \ {l}
                          /\ told' = IF info.code \in Dead
                                       THEN [told EXCEPT ![l.id] = @ + 1] ELSE told
    BY <1>4 DEF Call
  <2>2. told' \in [1 .. MaxListeners -> Nat]
    BY <2>1 DEF LoopType, Listeners
  <2>3. LoopType'
    BY <1>4, <2>1, <2>2 DEF Call, LoopType
  <2>. QED BY <1>4, <2>3, KernelSame, ListSame DEF Call
<1>5. CASE Release
  <2>1. LoopType'
    BY <1>5 DEF Release, LoopType
  <2>2. KernelType'
    <3>1. proc' \in [Children -> {"none", "running", "reaped"} \cup Codes]
      BY <1>5 DEF Release, KernelType, LoopType
    <3>. QED BY <1>5, <3>1, Zenon DEF Release, KernelType
  <2>3. ListType' /\ Counted'
    <3>1. CASE DropListeners(info.pid)
      <4>1. info.pid \in Children
        BY DEF LoopType
      <4>2. /\ Counted' /\ f_listeners' \subseteq f_listeners
            /\ f_count' \in Nat /\ in_comm' \in BOOLEAN
        BY <3>1, <4>1, DropCounts
      <4>. QED BY <1>5, <4>2, Zenon DEF Release, ListType
    <3>2. CASE UNCHANGED <<f_listeners, f_count, in_comm>>
      BY <1>5, <3>2, ListSame DEF Release, list
    <3>. QED BY <1>5, <3>1, <3>2 DEF Release
  <2>. QED BY <2>1, <2>2, <2>3
<1>. QED BY <1>1, <1>2, <1>3, <1>4, <1>5 DEF EventLoop

\* Every step keeps the count of the listeners right.
LEMMA CInvStep ==
  ASSUME CInv, Numbered, [Next]_vars
  PROVE  CInv'
<1>1. CASE EventLoop
  BY <1>1, LoopSteps
<1>2. ASSUME NEW c \in Children, Child(c)
      PROVE  CInv'
  BY <1>2, KernelSteps, ListSame, LoopSame DEF CInv
<1>3. ASSUME NEW o \in {"child", "other"}, NEW u \in BOOLEAN,
             Signal(o) \/ ReadOther \/ CloseOther(u)
      PROVE  CInv'
  BY <1>3, ChildrenAssumption, KernelSteps, ListSame, LoopSame DEF CInv
<1>4. ASSUME NEW c \in Children, Fork(c)
      PROVE  CInv'
  <2>1. proc' \in [Children -> {"none", "running", "reaped"} \cup Codes]
    BY <1>4 DEF CInv, KernelType, Fork
  <2>2. KernelType'
    BY <1>4, <2>1, Zenon DEF CInv, KernelType, Fork
  <2>3. forked' \subseteq Children
    BY <1>4 DEF CInv, ListType, Fork
  <2>4. ListType' /\ Counted'
    BY <1>4, <2>3, Zenon DEF CInv, ListType, Counted, CountMatches, Fork
  <2>. QED BY <1>4, <2>2, <2>4, LoopSame DEF CInv, Fork
<1>5. ASSUME NEW c \in Children, NEW mask \in Masks, AddListener(c, mask)
      PROVE  CInv'
  BY <1>5, AddCounts, KernelSame, LoopSame DEF CInv, AddListener
<1>6. ASSUME NEW c \in Children, RemoveListener(c)
      PROVE  CInv'
  <2>1. /\ Counted' /\ f_listeners' \subseteq f_listeners
        /\ f_count' \in Nat /\ in_comm' \in BOOLEAN
    BY <1>6, DropCounts DEF RemoveListener
  <2>2. ListType'
    BY <1>6, <2>1, Zenon DEF RemoveListener, CInv, ListType
  <2>. QED BY <1>6, <2>1, <2>2, KernelSame, LoopSame DEF CInv, RemoveListener
<1>7. CASE UNCHANGED vars
  BY <1>7, KernelSame, ListSame, LoopSame DEF CInv, vars, kernel, list, loop
<1>. QED BY <1>1, <1>2, <1>3, <1>4, <1>5, <1>6, <1>7 DEF Next, User

---------------------------------------------------------------------------
(***************************************************************************)
(* TInv is preserved                                                       *)
(***************************************************************************)

\* The kernel and ed::signal change neither the listeners nor the loop, and
\* a zombie remains one.
LEMMA TInvKernel ==
  ASSUME CInv, TInv, UNCHANGED <<list, loop>>,
         \A d \in Children : proc[d] \in Dead => proc'[d] \in Dead
  PROVE  TInv'
<1>1. /\ UNCHANGED <<f_listeners, added, forked, pc, info, todo, told>>
      /\ info.pid \in Children
  BY DEF list, loop, CInv, LoopType
<1>2. Handled'
  BY <1>1 DEF TInv, Handled, Handling, HandlingDeath
<1>3. Hearing'
  BY <1>1, Zenon DEF TInv, Hearing, Handling, HandlingDeath, Of
<1>4. Numbered' /\ Identified' /\ DeathToldOnce'
  BY <1>1, Zenon DEF TInv, Numbered, Identified, DeathToldOnce
<1>. QED BY <1>2, <1>3, <1>4 DEF TInv

\* No step outside of the event loop makes a dead process disappear.
LEMMA KernelKeepsZombies ==
  ASSUME CInv, NEW c \in Children, NEW o \in {"child", "other"}, NEW u \in BOOLEAN,
         Child(c) \/ Signal(o) \/ ReadOther \/ CloseOther(u)
  PROVE  \A d \in Children : proc[d] \in Dead => proc'[d] \in Dead
<1>. USE DEF CInv, KernelType, Dead, Paused
<1>1. CASE \E code \in Dead : Die(c, code)
  BY <1>1 DEF Die, Alive
<1>2. CASE Stop(c)
  BY <1>2 DEF Stop
<1>3. CASE Continue(c)
  BY <1>3 DEF Continue
<1>4. CASE Signal(o) \/ ReadOther \/ CloseOther(u)
  BY <1>4 DEF Signal, ReadOther, CloseOther
<1>. QED BY <1>1, <1>2, <1>3, <1>4 DEF Child

\* fork() in a callback gives another child than the one being handled.
LEMMA TInvFork ==
  ASSUME CInv, TInv, NEW c \in Children, Fork(c)
  PROVE  TInv'
<1>1. /\ UNCHANGED <<f_listeners, added, pc, info, todo, told>>
      /\ forked' = forked \cup {c} /\ pc \in {"idle", "callback"}
      /\ proc' = [proc EXCEPT ![c] = "running"] /\ proc[c] = "none"
      /\ info.pid \in Children /\ proc \in [Children -> {"none", "running", "reaped"} \cup Codes]
  BY DEF Fork, loop, CInv, KernelType, LoopType
<1>2. Handled'
  BY <1>1 DEF TInv, Handled, Handling, HandlingDeath, Dead
<1>3. Hearing'
  BY <1>1, Zenon DEF TInv, Hearing, Handling, HandlingDeath, Of
<1>4. Numbered' /\ Identified' /\ DeathToldOnce'
  BY <1>1, Zenon DEF TInv, Numbered, Identified, DeathToldOnce
<1>. QED BY <1>2, <1>3, <1>4 DEF TInv

\* A new listener has a new identifier, has heard of nothing, and is not one
\* of the child being handled.
LEMMA TInvAdd ==
  ASSUME CInv, TInv, NEW c \in Children, NEW mask \in Masks, AddListener(c, mask)
  PROVE  TInv'
<1>. DEFINE l == [id |-> added + 1, child |-> c, flags |-> mask]
<1>1. /\ UNCHANGED <<proc, pc, info, todo, told>>
      /\ f_listeners' = f_listeners \cup {l} /\ added' = added + 1
      /\ forked' = forked \ {c} /\ pc \in {"idle", "callback"}
      /\ added \in 0 .. MaxListeners /\ added < MaxListeners /\ MaxListeners \in Nat
      /\ info.pid \in Children
      /\ Alive(c) \/ c \in forked
  BY MaxListenersAssumption DEF AddListener, kernel, loop, CInv, ListType, LoopType
<1>2. l.id = added + 1 /\ l.child = c
  OBVIOUS
<1>. HIDE DEF l
<1>3. \A m \in f_listeners \cup todo : m.id \in 1 .. added
  BY <1>1 DEF TInv, Numbered, CInv, ListType, LoopType, Listeners
<1>4. told[l.id] = 0 /\ l \notin todo
  BY <1>1, <1>2, <1>3 DEF TInv, Identified
<1>5. HandlingDeath => c # info.pid
  BY <1>1 DEF TInv, Handled, Alive, Dead, Paused
<1>6. Numbered'
  BY <1>1, <1>2, <1>3 DEF Numbered
<1>7. Identified'
  <2>1. \A x, y \in f_listeners \cup todo : x.id = y.id => x = y
    BY DEF TInv, Identified
  <2>2. \A x, y \in f_listeners' \cup todo' : x.id = y.id => x = y
    BY <1>1, <1>2, <1>3, <2>1
  <2>3. \A i \in 1 .. MaxListeners : i > added' => told'[i] = 0
    BY <1>1 DEF TInv, Identified
  <2>. QED BY <2>2, <2>3 DEF Identified
<1>8. Handled'
  BY <1>1 DEF TInv, Handled, Handling, HandlingDeath
<1>9. Hearing'
  <2>1. \A m \in todo' : m.child = info'.pid /\ told'[m.id] = 0
    BY <1>1 DEF TInv, Hearing
  <2>2. \A m \in f_listeners' :
          \/ told'[m.id] = 0
          \/ HandlingDeath' /\ m.child = info'.pid /\ m \notin todo'
    BY <1>1, <1>4 DEF TInv, Hearing, HandlingDeath, Handling
  <2>3. HandlingDeath' =>
          \A m \in f_listeners' :
            m.child = info'.pid /\ {"EXITED", "SIGNALED"} \subseteq m.flags =>
              m \in todo' \/ told'[m.id] = 1
    BY <1>1, <1>2, <1>5 DEF TInv, Hearing, HandlingDeath, Handling, Of
  <2>. QED BY <2>1, <2>2, <2>3 DEF Hearing, Of
<1>10. DeathToldOnce'
  BY <1>1 DEF TInv, DeathToldOnce
<1>. QED BY <1>6, <1>7, <1>8, <1>9, <1>10 DEF TInv

\* Listeners go away, whoever removes them.
LEMMA TInvRemove ==
  ASSUME CInv, TInv, NEW c \in Children, RemoveListener(c)
  PROVE  TInv'
<1>1. /\ UNCHANGED <<proc, pc, info, todo, told, added, forked>>
      /\ f_listeners' = f_listeners \ Of(c)
  BY DEF RemoveListener, DropListeners, kernel, loop
<1>2. Numbered' /\ Identified'
  BY <1>1 DEF TInv, Numbered, Identified
<1>3. Handled' /\ DeathToldOnce'
  BY <1>1 DEF TInv, Handled, Handling, HandlingDeath, DeathToldOnce
<1>4. Hearing'
  BY <1>1 DEF TInv, Hearing, HandlingDeath, Handling, Of
<1>. QED BY <1>2, <1>3, <1>4 DEF TInv

\* Entering and leaving signal::process(), and the return of a callback.
LEMMA TInvProcess ==
  ASSUME CInv, TInv, Poll \/ Process \/ Return
  PROVE  TInv'
<1>1. /\ UNCHANGED <<proc, f_listeners, added, forked, info, todo, told>>
      /\ Handling <=> Handling'
      /\ pc' \in {"process", "waitid", "call"} => forked = {}
  BY DEF Poll, Process, Return, kernel, list, Handling, TInv, Handled
<1>2. Handled'
  BY <1>1 DEF TInv, Handled, HandlingDeath
<1>3. Hearing'
  BY <1>1 DEF TInv, Hearing, HandlingDeath, Of
<1>4. Numbered' /\ Identified' /\ DeathToldOnce'
  BY <1>1, Zenon DEF TInv, Numbered, Identified, DeathToldOnce
<1>. QED BY <1>2, <1>3, <1>4 DEF TInv

\* waitid() finds a child none of whose listeners has heard of its death.
LEMMA TInvWaitId ==
  ASSUME CInv, TInv, WaitId
  PROVE  TInv'
<1>1. /\ UNCHANGED <<proc, f_listeners, added, forked, told>>
      /\ pc = "waitid"
  BY DEF WaitId, kernel, list
<1>2. ~Handling /\ todo = {} /\ forked = {} /\ \A l \in f_listeners : told[l.id] = 0
  BY <1>1 DEF TInv, Handled, Hearing, HandlingDeath, Handling
<1>3. CASE Waitable = {} /\ pc' = "process" /\ UNCHANGED <<info, todo>>
  <2>1. ~Handling' /\ ~HandlingDeath'
    BY <1>3 DEF Handling, HandlingDeath
  <2>2. Handled' /\ Hearing'
    BY <1>1, <1>2, <1>3, <2>1 DEF Handled, Hearing
  <2>3. Numbered' /\ Identified' /\ DeathToldOnce'
    BY <1>1, <1>3, Zenon DEF TInv, Numbered, Identified, DeathToldOnce
  <2>. QED BY <2>2, <2>3 DEF TInv
<1>4. ASSUME NEW c \in Waitable,
             info' = [pid |-> c, code |-> proc[c]],
             todo' = {l \in Of(c) : StatusMask(proc[c]) \in l.flags},
             pc' = "call"
      PROVE  TInv'
  <2>1. Handling' /\ info'.pid = c /\ info'.code = proc[c]
    BY <1>4 DEF Handling
  <2>2. HandlingDeath' <=> proc[c] \in Dead
    BY <2>1 DEF HandlingDeath
  <2>3. todo' \subseteq Of(c) /\ Of(c) \subseteq f_listeners /\ f_listeners' \cup todo' = f_listeners
    BY <1>1, <1>4 DEF Of
  <2>4. proc[c] \in Dead => StatusMask(proc[c]) \in {"EXITED", "SIGNALED"}
    BY DEF Dead, StatusMask, IsRunning, IsExited, IsSignaled, IsStopped, IsContinued
  <2>5. Handled'
    BY <1>1, <1>2, <1>4, <2>1, <2>2 DEF Handled
  <2>6. Hearing'
    <3>1. \A l \in todo' : l.child = info'.pid /\ told'[l.id] = 0
      BY <1>1, <1>2, <2>1, <2>3 DEF Of
    <3>2. \A l \in f_listeners' : told'[l.id] = 0
      BY <1>1, <1>2
    <3>3. HandlingDeath' =>
            \A l \in f_listeners' :
              l.child = info'.pid /\ {"EXITED", "SIGNALED"} \subseteq l.flags => l \in todo'
      BY <1>1, <1>4, <2>1, <2>2, <2>4 DEF Of
    <3>. QED BY <3>1, <3>2, <3>3 DEF Hearing, Of
  <2>7. Numbered' /\ Identified'
    BY <1>1, <1>2, <2>3 DEF TInv, Numbered, Identified
  <2>8. DeathToldOnce'
    BY <1>1 DEF TInv, DeathToldOnce
  <2>. QED BY <2>5, <2>6, <2>7, <2>8 DEF TInv
<1>. QED BY <1>3, <1>4 DEF WaitId

\* A listener that is called had not heard of the death; no other listener
\* has its identifier.
LEMMA TInvCall ==
  ASSUME CInv, TInv, Call
  PROVE  TInv'
<1>1. /\ UNCHANGED <<proc, f_listeners, added, forked, info>>
      /\ pc = "call" /\ pc' = "callback"
  BY DEF Call, kernel, list
<1>2. PICK l \in todo : /\ todo' = todo \ {l}
                        /\ told' = IF info.code \in Dead
                                     THEN [told EXCEPT ![l.id] = @ + 1] ELSE told
  BY DEF Call
<1>3. /\ l.id \in 1 .. MaxListeners /\ told[l.id] = 0 /\ l.child = info.pid /\ l.id <= added
      /\ told \in [1 .. MaxListeners -> Nat] /\ added \in Nat
      /\ \A m \in f_listeners \cup todo : m.id \in 1 .. MaxListeners
  BY DEF TInv, Hearing, Numbered, CInv, ListType, LoopType, Listeners
<1>4. Handling /\ Handling' /\ (HandlingDeath <=> info.code \in Dead)
                            /\ (HandlingDeath' <=> info.code \in Dead)
  BY <1>1 DEF Handling, HandlingDeath
<1>5. \A m \in f_listeners \cup todo : m # l => told'[m.id] = told[m.id]
  <2>1. \A m \in f_listeners \cup todo : m # l => m.id # l.id
    BY DEF TInv, Identified
  <2>. QED BY <1>2, <1>3, <2>1
<1>6. info.code \in Dead => told'[l.id] = 1
  BY <1>2, <1>3
<1>7. Numbered'
  BY <1>1, <1>2 DEF TInv, Numbered
<1>8. Identified'
  <2>1. \A x, y \in f_listeners' \cup todo' : x.id = y.id => x = y
    BY <1>1, <1>2 DEF TInv, Identified
  <2>2. \A i \in 1 .. MaxListeners : i > added' => told'[i] = 0
    BY <1>1, <1>2, <1>3 DEF TInv, Identified
  <2>. QED BY <2>1, <2>2 DEF Identified
<1>9. Handled'
  BY <1>1, <1>4 DEF TInv, Handled
<1>10. Hearing'
  <2>1. \A m \in todo' : m.child = info'.pid /\ told'[m.id] = 0
    BY <1>1, <1>2, <1>5 DEF TInv, Hearing
  <2>2. ASSUME NEW m \in f_listeners'
        PROVE  \/ told'[m.id] = 0
               \/ HandlingDeath' /\ m.child = info'.pid /\ m \notin todo'
    <3>1. CASE m # l
      BY <1>1, <1>2, <1>4, <1>5, <3>1 DEF TInv, Hearing
    <3>2. CASE m = l
      BY <1>1, <1>2, <1>3, <1>4, <3>2
    <3>. QED BY <3>1, <3>2
  <2>3. ASSUME HandlingDeath', NEW m \in f_listeners', m.child = info'.pid,
               {"EXITED", "SIGNALED"} \subseteq m.flags
        PROVE  m \in todo' \/ told'[m.id] = 1
    <3>1. m \in f_listeners /\ m.child = info.pid /\ HandlingDeath
      BY <1>1, <1>4, <2>3
    <3>2. m \in todo \/ told[m.id] = 1
      BY <2>3, <3>1 DEF TInv, Hearing, Of
    <3>. QED BY <1>2, <1>4, <1>5, <1>6, <2>3, <3>1, <3>2
  <2>. QED BY <2>1, <2>2, <2>3 DEF Hearing, Of
<1>11. DeathToldOnce'
  BY <1>2, <1>3 DEF TInv, DeathToldOnce
<1>. QED BY <1>7, <1>8, <1>9, <1>10, <1>11 DEF TInv

\* The listeners that heard of the death leave with the child.
LEMMA ReleaseDead ==
  ASSUME CInv, Release
  PROVE  \/ info.code \in Dead /\ f_listeners' = f_listeners \ Of(info.pid)
            /\ proc' = [proc EXCEPT ![info.pid] = "reaped"]
         \/ info.code \notin Dead /\ UNCHANGED <<proc, f_listeners>>
BY DEF Release, DropListeners, IsExited, IsSignaled, Dead

\* The release of the children after a pass keeps what was told.
LEMMA TInvRelease ==
  ASSUME CInv, TInv, Release
  PROVE  TInv'
<1>1. /\ UNCHANGED <<added, forked, info, todo, told>>
      /\ pc = "call" /\ todo = {} /\ pc' = "waitid"
      /\ f_listeners' \subseteq f_listeners
  BY ReleaseDead DEF Release
<1>2. ~Handling' /\ ~HandlingDeath' /\ Handling
  BY <1>1 DEF Handling, HandlingDeath
<1>3. \A l \in f_listeners' : told[l.id] = 0
  <2>1. CASE info.code \in Dead
    BY <2>1, ReleaseDead DEF TInv, Hearing, Of
  <2>2. CASE info.code \notin Dead
    BY <1>1, <2>2 DEF TInv, Hearing, HandlingDeath
  <2>. QED BY <2>1, <2>2
<1>4. Handled'
  BY <1>1, <1>2 DEF TInv, Handled
<1>5. Hearing'
  BY <1>1, <1>2, <1>3 DEF Hearing
<1>6. Numbered' /\ Identified' /\ DeathToldOnce'
  BY <1>1 DEF TInv, Numbered, Identified, DeathToldOnce
<1>. QED BY <1>4, <1>5, <1>6 DEF TInv

\* Every step keeps each death told at most once.
LEMMA TInvStep ==
  ASSUME CInv, TInv, [Next]_vars
  PROVE  TInv'
<1>1. CASE EventLoop
  BY <1>1, TInvProcess, TInvWaitId, TInvCall, TInvRelease DEF EventLoop
<1>2. ASSUME NEW c \in Children, Child(c)
      PROVE  TInv'
  BY <1>2, KernelSteps, KernelKeepsZombies, TInvKernel DEF CInv
<1>3. ASSUME NEW o \in {"child", "other"}, NEW u \in BOOLEAN,
             Signal(o) \/ ReadOther \/ CloseOther(u)
      PROVE  TInv'
  BY <1>3, ChildrenAssumption, KernelSteps, KernelKeepsZombies, TInvKernel DEF CInv
<1>4. ASSUME NEW c \in Children,
             Fork(c) \/ (\E mask \in Masks : AddListener(c, mask)) \/ RemoveListener(c)
      PROVE  TInv'
  BY <1>4, TInvFork, TInvAdd, TInvRemove
<1>5. CASE UNCHANGED vars
  BY <1>5, TInvKernel DEF vars, list, loop
<1>. QED BY <1>1, <1>2, <1>3, <1>4, <1>5 DEF Next, User

---------------------------------------------------------------------------
(***************************************************************************)
(* DeathPending is preserved                                               *)
(***************************************************************************)

\* Every step keeps a death that was not handled pending.
LEMMA PendingStep ==
  ASSUME CInv, DeathPending, [Next]_vars
  PROVE  DeathPending'
<1>1. ASSUME NEW c \in Children, Child(c)
      PROVE  DeathPending'
  <2>1. UNCHANGED pc /\ missed \subseteq missed' /\ (pending => pending')
    BY <1>1, Zenon DEF Child, Die, Stop, Continue, Raise, loop
  <2>2. \A d \in Children : d # c => proc'[d] = proc[d]
    BY <1>1 DEF Child, Die, Stop, Continue, CInv, KernelType
  <2>3. proc'[c] \in Dead => pending' \/ c \in missed'
    <3>1. ASSUME NEW code \in Dead, Die(c, code)
          PROVE  pending' \/ c \in missed'
      BY <3>1 DEF Die, Raise
    <3>2. CASE Stop(c) \/ Continue(c)
      BY <3>2 DEF Stop, Continue, Dead, CInv, KernelType
    <3>. QED BY <1>1, <3>1, <3>2 DEF Child
  <2>. QED BY <2>1, <2>2, <2>3 DEF DeathPending, Zombies
<1>2. CASE EventLoop
  <2>1. CASE Poll \/ Return
    BY <2>1 DEF Poll, Return, kernel, DeathPending, Zombies
  <2>2. CASE Process
    BY <2>2 DEF Process, DeathPending, Zombies
  <2>3. CASE WaitId
    BY <2>3 DEF WaitId, kernel, DeathPending, Zombies, Waitable, Codes
  <2>4. CASE Call \/ Release
    BY <2>4 DEF Call, Release, DeathPending
  <2>. QED BY <1>2, <2>1, <2>2, <2>3, <2>4 DEF EventLoop
<1>3. CASE User
  <2>1. ASSUME NEW o, Signal(o)
        PROVE  DeathPending'
    BY <2>1 DEF Signal, loop, DeathPending, Zombies
  <2>2. CASE ReadOther
    BY <2>2 DEF ReadOther, loop, DeathPending, Zombies
  <2>3. ASSUME NEW u \in BOOLEAN, CloseOther(u)
        PROVE  DeathPending'
    BY <2>3 DEF CloseOther, loop, DeathPending, Zombies, CInv, KernelType
  <2>4. ASSUME NEW c \in Children, Fork(c)
        PROVE  DeathPending'
    BY <2>4 DEF Fork, loop, DeathPending, Zombies, Dead, CInv, KernelType
  <2>5. ASSUME NEW c \in Children, NEW mask \in Masks, AddListener(c, mask)
        PROVE  DeathPending'
    BY <2>5 DEF AddListener, kernel, loop, DeathPending, Zombies
  <2>6. ASSUME NEW c \in Children, RemoveListener(c)
        PROVE  DeathPending'
    BY <2>6 DEF RemoveListener, kernel, loop, DeathPending, Zombies
  <2>. QED BY <1>3, <2>1, <2>2, <2>3, <2>4, <2>5, <2>6 DEF User
<1>4. CASE UNCHANGED vars
  BY <1>4 DEF vars, DeathPending, Zombies
<1>. QED BY <1>1, <1>2, <1>3, <1>4 DEF Next

---------------------------------------------------------------------------
(***************************************************************************)
(* The theorems                                                            *)
(***************************************************************************)

\* The invariant of signal_child holds at first.
LEMMA InitIInv == Init => IInv
<1>. SUFFICES ASSUME Init PROVE IInv
  OBVIOUS
<1>1. info \in [pid : Children, code : Codes]
  BY ChildrenAssumption DEF Init, Codes, Dead
<1>2. KernelType /\ ListType /\ LoopType
  <2>1. proc \in [Children -> {"none", "running", "reaped"} \cup Codes]
    BY DEF Init
  <2>2. stops \in 0 .. MaxStops /\ added \in 0 .. MaxListeners /\ f_count \in Nat
    BY MaxListenersAssumption, MaxStopsAssumption DEF Init
  <2>3. told \in [1 .. MaxListeners -> Nat]
    BY DEF Init
  <2>4. /\ owner \in {"none", "other", "child"}
        /\ pc \in {"idle", "process", "waitid", "call", "callback"}
        /\ missed \subseteq Children /\ forked \subseteq Children
        /\ f_listeners \subseteq Listeners /\ todo \subseteq Listeners
    BY DEF Init
  <2>5. blocked \in BOOLEAN /\ pending \in BOOLEAN /\ in_comm \in BOOLEAN
    BY DEF Init
  <2>. QED BY <1>1, <2>1, <2>2, <2>3, <2>4, <2>5 DEF KernelType, ListType, LoopType
<1>3. Counted
  <2>1. Cardinality(f_listeners) = 0 /\ IsFiniteSet(f_listeners)
    BY FS_EmptySet DEF Init
  <2>2. f_count = 0 /\ in_comm = FALSE
    BY DEF Init
  <2>3. (f_count > 0) = FALSE
    BY <2>2
  <2>. QED BY <2>1, <2>2, <2>3, Zenon DEF Counted, CountMatches
<1>4. TInv
  BY DEF Init, TInv, Numbered, Identified, Handled, Handling, HandlingDeath,
         Hearing, Of, DeathToldOnce
<1>5. DeathPending
  BY DEF Init, DeathPending, Zombies, Dead
<1>. QED BY <1>2, <1>3, <1>4, <1>5 DEF IInv, CInv

\* Every step keeps the invariant of signal_child.
LEMMA NextIInv == IInv /\ [Next]_vars => IInv'
<1>1. ASSUME IInv, [Next]_vars PROVE IInv'
  <2>1. CInv /\ TInv /\ DeathPending /\ Numbered
    BY <1>1 DEF IInv, TInv
  <2>2. CInv'
    BY <1>1, <2>1, CInvStep
  <2>3. TInv'
    BY <1>1, <2>1, TInvStep
  <2>4. DeathPending'
    BY <1>1, <2>1, PendingStep
  <2>. QED BY <2>2, <2>3, <2>4 DEF IInv
<1>. QED BY <1>1

\* The inductive invariant of the listeners, the count, the child that is
\* handled and what was told (signal.cpp:372-416, signal_child.cpp:431-715).
THEOREM Invariance == Spec => []IInv
BY InitIInv, NextIInv, PTL DEF Spec

\* Type correctness of ed::signal_child, for any children and listeners.
THEOREM TypeCorrect == Spec => []TypeOK
<1>1. IInv => TypeOK
  BY TypeParts DEF IInv, CInv
<1>. QED BY <1>1, Invariance, PTL

\* f_count is the number of listeners and the singleton is in the
\* communicator exactly while there are some (signal_child.cpp:431-484).
THEOREM CountCorrect == Spec => []CountMatches
<1>1. IInv => CountMatches
  BY DEF IInv, CInv, Counted
<1>. QED BY <1>1, Invariance, PTL

\* One SIGCHLD stands for any number of deaths and none is lost
\* (signal.cpp:372-416, signal_child.cpp:496-565).
THEOREM NoDeathLost == Spec => []NoLostDeath
<1>1. IInv => NoLostDeath
  BY DEF IInv, DeathPending, NoLostDeath
<1>. QED BY <1>1, Invariance, PTL

\* A listener hears of a death at most once, although it is looked at with
\* WNOWAIT (signal_child.cpp:506-563).
THEOREM ToldOnce == Spec => []DeathToldOnce
<1>1. IInv => DeathToldOnce
  BY DEF IInv, TInv
<1>. QED BY <1>1, Invariance, PTL

\* Children are released after their callbacks were called.
LEMMA ReleaseStep == Init /\ [][Next]_vars => ReleasedAfterCalls
<1>. DEFINE Told(c, l) ==
              /\ proc[c] \in Dead /\ proc'[c] = "reaped"
              /\ l \in f_listeners \ f_listeners'
              /\ {"EXITED", "SIGNALED"} \subseteq l.flags
              => told'[l.id] = 1
<1>1. ASSUME IInv, Next, NEW c \in Children, NEW l \in Of(c),
             proc[c] \in Dead, proc'[c] = "reaped",
             l \in f_listeners \ f_listeners',
             {"EXITED", "SIGNALED"} \subseteq l.flags
      PROVE  told'[l.id] = 1
  <2>1. CASE Release
    <3>1. info.code \in Dead /\ info.pid = c
      BY <1>1, <2>1, ReleaseDead DEF IInv, CInv, KernelType, Dead
    <3>2. pc = "call" /\ todo = {} /\ told' = told
      BY <2>1 DEF Release
    <3>3. HandlingDeath
      BY <3>1, <3>2 DEF HandlingDeath, Handling
    <3>. QED BY <1>1, <3>1, <3>2, <3>3 DEF IInv, TInv, Hearing
  <2>2. CASE EventLoop /\ ~Release
    <3>1. UNCHANGED proc
      BY <2>2 DEF EventLoop, Poll, Process, WaitId, Call, Return, kernel
    <3>. QED BY <1>1, <3>1 DEF Dead
  <2>3. ASSUME NEW d \in Children, Child(d)
        PROVE  FALSE
    BY <1>1, <2>3, KernelKeepsZombies DEF IInv, CInv, Dead
  <2>4. CASE User
    <3>1. \/ UNCHANGED proc
          \/ \E d \in Children : proc[d] = "none" /\ proc' = [proc EXCEPT ![d] = "running"]
      BY <2>4 DEF User, Signal, ReadOther, CloseOther, Fork, AddListener, RemoveListener, kernel
    <3>. QED BY <1>1, <3>1 DEF IInv, CInv, KernelType, Dead
  <2>. QED BY <1>1, <2>1, <2>2, <2>3, <2>4 DEF Next
<1>2. IInv /\ [Next]_vars =>
        [\A c \in Children : \A l \in Of(c) : Told(c, l)]_vars
  BY <1>1
<1>. QED BY <1>2, InitIInv, NextIInv, PTL DEF ReleasedAfterCalls

\* A child is released, and its listeners removed, after all of them were
\* called (signal_child.cpp:538-563).
THEOREM ReleasedLast == Spec => ReleasedAfterCalls
BY ReleaseStep, PTL DEF Spec


---------------------------------------------------------------------------
(***************************************************************************)
(* Where the parent is and what its children can be then                   *)
(***************************************************************************)

Looping == {"run", "write", "returned", "killed"}
Mains == {"new", "next", "started", "failed", "listen", "listen next"} \cup Looping

\* wait() has added a listener for a child.
Listened(c) == c \in {A, Last} /\ (main \in Looping \/ (main = "listen next" /\ c = A))

Control ==
    /\ main \in Mains
    /\ setup \in [next : BOOLEAN, input : BOOLEAN, output : BOOLEAN,
                  ignore : BOOLEAN, size : Inputs]
    /\ pc # "idle" => main = "run"
    /\ main = "new" => proc[A] = "none"
    /\ main \in {"new", "next"} \/ B # Last => proc[B] = "none"
    /\ main \in {"next", "listen next"} => setup.next
    /\ \A c \in Children \ {A, B} : proc[c] = "none"
    /\ \A c \in Children : proc[c] \in {"none", "running", "reaped"} \cup Dead

\* Every step of the parent, of the children and of the loop is one of
\* SignalChild or leaves its variables alone.
LEMMA StepIsNext ==
  ASSUME Control, KernelType, [ProcessNext]_allvars
  PROVE  [Next]_vars
<1>0. A \in Children /\ B \in Children
  BY ProcessAssumption
<1>1. CASE GetInstance
  BY <1>1 DEF GetInstance, Next, User
<1>2. CASE Wait
  <2>1. pc = "idle"
    BY <1>2 DEF Wait, Control
  <2>2. UNCHANGED vars \/ Signal("child")
    BY <1>2, <2>1 DEF Wait, Signal, vars, list, loop
  <2>. QED BY <2>2 DEF Next, User
<1>3. ASSUME NEW c \in Children, Listen(c) PROVE [Next]_vars
  <2>1. {"EXITED", "SIGNALED"} \in Masks
    BY DEF Masks
  <2>. QED BY <1>3, <2>1 DEF Listen, Next, User
<1>4. ASSUME NEW c \in Children, NEW ok \in BOOLEAN, StartProcess(c, ok),
             proc[c] = "none", pc = "idle"
      PROVE  [Next]_vars
  <2>1. Fork(c) \/ UNCHANGED vars
    BY <1>4 DEF StartProcess, Fork, vars, loop
  <2>. QED BY <2>1 DEF Next, User
<1>5. ASSUME NEW ok \in BOOLEAN, Start(ok) \/ StartNext(ok) PROVE [Next]_vars
  BY <1>0, <1>4, <1>5 DEF Start, StartNext, Control
<1>6. CASE RunReturns \/ CaptureEvent \/ InputEvent \/ WriteStep \/ InputGone
  BY <1>6 DEF RunReturns, CaptureEvent, InputEvent, WriteStep, InputGone
<1>7. CASE SignalEvent
  BY <1>7 DEF SignalEvent, Next, EventLoop
<1>8. ASSUME NEW c \in Children, Command(c) \/ ChildFails(c) PROVE [Next]_vars
  <2>1. \/ UNCHANGED vars
        \/ \E code \in Dead : Die(c, code)
    BY <1>8 DEF Command, ChildFails, ExecuteCommand, ChildRead, ChildWrite, ChildEnds,
       ChildDies, Dead
  <2>. QED BY <2>1 DEF Next, Child
<1>9. CASE UNCHANGED allvars
  BY <1>9 DEF allvars
<1>. QED BY <1>0, <1>1, <1>2, <1>3, <1>5, <1>6, <1>7, <1>8, <1>9 DEF ProcessNext, Parents

\* How the commands are connected does not change.
LEMMA SetupKept == ASSUME [ProcessNext]_allvars PROVE UNCHANGED setup
BY DEF ProcessNext, Parents, GetInstance, Wait, Listen, RunReturns, Start, StartNext,
   StartProcess, SignalEvent, CaptureEvent, InputEvent, WriteStep, InputGone, Command,
   ExecuteCommand, ChildRead, ChildWrite, ChildEnds, ChildDies, ChildFails, allvars, pvars

\* The two commands are children, and the last one is one of them.
LEMMA Commands == A \in Children /\ B \in Children /\ A # B
                  /\ Parent \notin Children /\ Last \in {A, B}
BY ProcessAssumption DEF Last, Parent

\* The steps that change nothing of SignalChild except for the death of a
\* child.
LEMMA ChildStep ==
  ASSUME NEW c \in Children, Command(c) \/ ChildFails(c)
  PROVE  /\ UNCHANGED <<main, f_listeners, loop, f_child, f_exit_code, done>>
         /\ \/ UNCHANGED <<vars, status>>
            \/ /\ Alive(c)
               /\ \E code \in Dead, s \in {0, 1, 9, 13} :
                    /\ code = "CLD_EXITED" <=> s \in {0, 1}
                    /\ proc' = [proc EXCEPT ![c] = code]
                    /\ status' = [status EXCEPT ![c] = s]
<1>1. CASE ExecuteCommand(c) \/ ChildRead(c) \/ ChildWrite(c)
  BY <1>1 DEF ExecuteCommand, ChildRead, ChildWrite, vars, loop
<1>2. ASSUME NEW code \in Dead, NEW s \in {0, 1, 9, 13}, ChildDies(c, code, s),
             code = "CLD_EXITED" <=> s \in {0, 1}
      PROVE  /\ UNCHANGED <<main, f_listeners, loop, f_child, f_exit_code, done>>
             /\ Alive(c)
             /\ \E code1 \in Dead, s1 \in {0, 1, 9, 13} :
                    /\ code1 = "CLD_EXITED" <=> s1 \in {0, 1}
                    /\ proc' = [proc EXCEPT ![c] = code1]
                    /\ status' = [status EXCEPT ![c] = s1]
  BY <1>2 DEF ChildDies, Die, list
<1>3. CASE ChildEnds(c) \/ ChildFails(c)
  BY <1>2, <1>3 DEF ChildEnds, ChildFails, Dead
<1>. QED BY <1>1, <1>3 DEF Command

\* Every step keeps the order of the parts of start() and wait().
LEMMA ControlStep ==
  ASSUME Control, IInv, [ProcessNext]_allvars
  PROVE  Control'
<1>0. UNCHANGED <<setup, Last>> /\ CInv /\ TInv /\ KernelType /\ LoopType
  BY SetupKept DEF Last, IInv, CInv
<1>1. CASE GetInstance \/ Wait \/ Listen(A) \/ Listen(B)
  <2>1. UNCHANGED <<proc, pc>>
    BY <1>1 DEF GetInstance, Signal, pvars, Wait, Listen, AddListener, kernel, list, loop
  <2>2. /\ main' \in {"new", "listen", "run", "listen next"}
        /\ main' = "new" => main = "new"
        /\ pc = "idle"
    BY <1>1 DEF GetInstance, Signal, pvars, Wait, Listen, Control
  <2>3. main' = "listen next" => setup.next
    <3>1. main = "listen next" => B = Last
      BY DEF Control, Last
    <3>. QED BY <1>1, <3>1, Commands DEF GetInstance, pvars, Wait, Listen, Control, Last
  <2>. QED BY <1>0, <2>1, <2>2, <2>3 DEF Control, Mains, Looping
<1>2. ASSUME NEW c \in Children, NEW ok \in BOOLEAN, StartProcess(c, ok)
      PROVE  /\ \/ UNCHANGED proc
                \/ proc' = [proc EXCEPT ![c] = "running"]
             /\ UNCHANGED pc
  BY <1>2 DEF StartProcess, loop
<1>3. ASSUME NEW ok \in BOOLEAN, Start(ok) PROVE Control'
  <2>1. /\ main = "new" /\ main' \in {"failed", "next", "started"} /\ pc' = pc
        /\ main' = "next" => setup.next
        /\ proc' = proc \/ proc' = [proc EXCEPT ![A] = "running"]
    BY <1>2, <1>3, Commands DEF Start
  <2>2. \A c \in Children : proc'[c] \in {"none", "running", "reaped"} \cup Dead
    BY <1>0, <2>1 DEF Control, KernelType
  <2>3. \A c \in Children \ {A} : proc'[c] = proc[c]
    BY <1>0, <2>1, Commands DEF KernelType
  <2>. QED BY <1>0, <2>1, <2>2, <2>3, Commands DEF Control, Mains
<1>4. ASSUME NEW ok \in BOOLEAN, StartNext(ok) PROVE Control'
  <2>1. /\ main = "next" /\ main' \in {"failed", "started"} /\ pc' = pc
        /\ proc' = proc \/ proc' = [proc EXCEPT ![B] = "running"]
    BY <1>2, <1>4, Commands DEF StartNext
  <2>2. \A c \in Children : proc'[c] \in {"none", "running", "reaped"} \cup Dead
    BY <1>0, <2>1 DEF Control, KernelType
  <2>3. B = Last /\ \A c \in Children \ {B} : proc'[c] = proc[c]
    BY <1>0, <2>1, Commands DEF Control, Last, KernelType
  <2>. QED BY <1>0, <2>1, <2>2, <2>3, Commands DEF Control, Mains
<1>5. CASE RunReturns \/ CaptureEvent \/ InputEvent \/ WriteStep \/ InputGone
  <2>1. /\ UNCHANGED <<proc, pc>> /\ main' \in Looping
        /\ pc # "idle" => main' = "run"
    BY <1>5 DEF RunReturns, CaptureEvent, InputEvent, WriteStep, InputGone, vars, Looping, Control
  <2>. QED BY <1>0, <2>1 DEF Control, Mains, Looping
<1>6. CASE SignalEvent
  <2>1. main = "run" /\ main' = "run"
    BY <1>6 DEF SignalEvent
  <2>2. \/ UNCHANGED proc
        \/ proc' = [proc EXCEPT ![info.pid] = "reaped"] /\ proc[info.pid] \in Dead
    <3>1. CASE Release
      <4>1. info.code \in Dead => HandlingDeath
        BY <3>1 DEF Release, HandlingDeath, Handling
      <4>. QED BY <1>0, <3>1, <4>1, ReleaseDead DEF TInv, Handled
    <3>2. CASE Poll \/ Process \/ WaitId \/ Return \/ Call
      BY <3>2 DEF Poll, Process, WaitId, Return, Call, kernel
    <3>. QED BY <1>6, <3>1, <3>2 DEF SignalEvent
  <2>3. \A c \in Children : proc'[c] \in {"none", "running", "reaped"} \cup Dead
    BY <1>0, <2>2 DEF Control, KernelType
  <2>4. \A c \in Children : proc[c] = "none" => proc'[c] = "none"
    BY <1>0, <2>1, <2>2, Commands DEF Control, KernelType, Dead
  <2>. QED BY <1>0, <2>1, <2>3, <2>4, Commands DEF Control, Mains, Looping
<1>7. ASSUME NEW c \in Children, Command(c) \/ ChildFails(c) PROVE Control'
  <2>1. UNCHANGED <<main, pc>>
    BY <1>7, ChildStep DEF loop
  <2>2. /\ \A d \in Children : proc[d] = "none" => proc'[d] = "none"
        /\ \A d \in Children : proc'[d] \in {"none", "running", "reaped"} \cup Dead
    BY <1>0, <1>7, ChildStep DEF Control, KernelType, Alive, Dead, Paused, vars
  <2>. QED BY <1>0, <2>1, <2>2, Commands DEF Control
<1>8. CASE UNCHANGED allvars
  BY <1>8 DEF allvars, vars, pvars, Control, Last
<1>. QED BY <1>1, <1>3, <1>4, <1>5, <1>6, <1>7, <1>8 DEF ProcessNext, Parents

---------------------------------------------------------------------------
(***************************************************************************)
(* The children that are listened to and what child_done() was told        *)
(***************************************************************************)

\* A child has one listener, from add_listener() to its release.
Listening ==
    /\ \A l \in f_listeners : Listened(l.child) /\ l.flags = {"EXITED", "SIGNALED"}
    /\ \A l, m \in f_listeners : l.child = m.child => l = m
    /\ \A c \in Children : Listened(c) /\ proc[c] # "reaped" => \E l \in f_listeners : l.child = c
    /\ todo \subseteq f_listeners
    /\ Handling => info.code = proc[info.pid]
    /\ main \notin Looping => \A c \in Children : proc[c] # "reaped"

\* child_done() was called for c.
Called(c) == proc[c] = "reaped" \/ (Handling /\ info.pid = c /\ todo = {})
Code(c) == IF status[c] \in {0, 1} THEN status[c] ELSE -1

Reported ==
    /\ status \in [Children -> Nat] /\ done \in [Children -> Nat]
    /\ f_child \in [Children -> BOOLEAN] /\ f_exit_code \in [Children -> Int]
    /\ \A c \in Children :
        /\ proc[c] = "CLD_EXITED" => status[c] \in {0, 1}
        /\ proc[c] = "CLD_KILLED" => status[c] \notin {0, 1}
        /\ Called(c) => done[c] = 1 /\ ~f_child[c] /\ f_exit_code[c] = Code(c)
        /\ ~Called(c) => done[c] = 0

DInv == Listening /\ Reported

\* Steps of the pipes: the listeners and the reports are left alone.
LEMMA DInvSame ==
  ASSUME DInv, UNCHANGED <<f_listeners, proc, todo, info, setup, status, done, f_child, f_exit_code>>,
         Handling' <=> Handling,
         main \in Looping <=> main' \in Looping,
         main = "listen next" <=> main' = "listen next"
  PROVE  DInv'
<1>1. \A c : Listened(c)' <=> Listened(c)
  BY DEF Last, Listened
<1>2. Listening'
  BY <1>1 DEF DInv, Listening
<1>3. Reported'
  BY DEF DInv, Reported, Called, Code
<1>. QED BY <1>2, <1>3 DEF DInv

\* A command that runs, or that could not be executed.
LEMMA DInvChild ==
  ASSUME DInv, Control, IInv, NEW c \in Children, Command(c) \/ ChildFails(c), UNCHANGED setup
  PROVE  DInv'
<1>1. /\ UNCHANGED <<main, f_listeners, pc, info, todo, f_child, f_exit_code, done, Last>>
      /\ proc \in [Children -> {"none", "running", "reaped"} \cup Codes]
      /\ info.pid \in Children
  BY ChildStep DEF loop, Last, IInv, CInv, KernelType, LoopType
<1>2. CASE UNCHANGED <<vars, status>>
  BY <1>1, <1>2, DInvSame DEF vars, Handling
<1>3. ASSUME NEW code \in Dead, NEW s \in {0, 1, 9, 13}, Alive(c),
             code = "CLD_EXITED" <=> s \in {0, 1},
             proc' = [proc EXCEPT ![c] = code], status' = [status EXCEPT ![c] = s]
      PROVE  DInv'
  <2>1. proc[c] = "running"
    BY <1>3 DEF Control, Alive, Dead, Paused
  <2>2. /\ proc'[c] = code /\ code \in {"CLD_EXITED", "CLD_KILLED"}
        /\ \A d \in Children : d # c => proc'[d] = proc[d]
    BY <1>1, <1>3 DEF Dead
  <2>3. Handling => info.pid # c
    BY <2>1 DEF DInv, Listening, IInv, CInv, LoopType, Codes, Dead, Paused
  <2>4. Listening'
    <3>1. \A d : Listened(d)' <=> Listened(d)
      BY <1>1 DEF Listened, Last
    <3>2. Handling' => info'.code = proc'[info'.pid]
      BY <1>1, <2>2, <2>3 DEF DInv, Listening, Handling
    <3>3. \A d \in Children : proc'[d] = "reaped" => proc[d] = "reaped"
      BY <2>2
    <3>4. \A d \in Children : proc'[d] # "reaped" => proc[d] # "reaped"
      BY <2>1, <2>2
    <3>. QED BY <1>1, <3>1, <3>2, <3>3, <3>4 DEF DInv, Listening
  <2>5. \A d \in Children : Called(d)' <=> Called(d)
    BY <1>1, <2>1, <2>2, <2>3 DEF Called, Handling
  <2>6. ~Called(c) /\ Handling' = Handling
    BY <1>1, <2>1, <2>3 DEF Called, Handling
  <2>7. /\ status' \in [Children -> Nat] /\ status'[c] = s
        /\ \A d \in Children : d # c => status'[d] = status[d]
    BY <1>3 DEF DInv, Reported
  <2>8. Reported'
    BY <1>1, <1>3, <2>2, <2>5, <2>6, <2>7 DEF DInv, Reported, Code
  <2>. QED BY <2>4, <2>8 DEF DInv
<1>. QED BY <1>2, <1>3, ChildStep

\* start(): no child was reaped or listened to.
LEMMA DInvStart ==
  ASSUME DInv, Control, IInv, UNCHANGED setup,
         NEW c \in Children, NEW ok \in BOOLEAN, StartProcess(c, ok), proc[c] = "none",
         main \in {"new", "next"}, main' \in {"next", "started", "failed"}
  PROVE  DInv'
<1>1. /\ UNCHANGED <<f_listeners, pc, info, todo, f_exit_code, done, status, Last>>
      /\ proc \in [Children -> {"none", "running", "reaped"} \cup Codes]
      /\ pc = "idle" /\ main \notin Looping /\ main' \notin Looping
      /\ main # "listen next" /\ main' # "listen next"
  BY DEF StartProcess, loop, Last, IInv, CInv, KernelType, Control, Looping
<1>2. CASE proc' = proc /\ f_child' = f_child
  <2>1. Listening'
    BY <1>1, <1>2 DEF DInv, Listening, Listened, Handling
  <2>2. Reported'
    BY <1>1, <1>2 DEF DInv, Reported, Called, Code, Handling
  <2>. QED BY <2>1, <2>2 DEF DInv
<1>3. CASE proc' = [proc EXCEPT ![c] = "running"] /\ f_child' = [f_child EXCEPT ![c] = TRUE]
  <2>1. proc'[c] = "running" /\ \A d \in Children : d # c => proc'[d] = proc[d]
    BY <1>1, <1>3
  <2>2. Listening'
    BY <1>1, <2>1 DEF DInv, Listening, Listened, Handling
  <2>3. ~Handling /\ ~Handling'
    BY <1>1 DEF Handling
  <2>4. \A d \in Children : ~Called(d) /\ ~Called(d)'
    BY <1>1, <2>1, <2>2, <2>3 DEF DInv, Called, Listening
  <2>5. f_child' \in [Children -> BOOLEAN]
    BY <1>3 DEF DInv, Reported
  <2>6. Reported'
    BY <1>1, <2>1, <2>4, <2>5 DEF DInv, Reported
  <2>. QED BY <2>2, <2>6 DEF DInv
<1>. QED BY <1>2, <1>3 DEF StartProcess

\* A listener is added for a command.
LEMMA DInvListen ==
  ASSUME DInv, Control, IInv, UNCHANGED setup, NEW c \in {A, B}, Listen(c)
  PROVE  DInv'
<1>. DEFINE l == [id |-> added + 1, child |-> c, flags |-> {"EXITED", "SIGNALED"}]
<1>1. /\ UNCHANGED <<proc, pc, info, todo, f_child, f_exit_code, done, status, Last>>
      /\ f_listeners' = f_listeners \cup {l}
      /\ main = IF c = A THEN "listen" ELSE "listen next"
      /\ main' = IF c = Last THEN "run" ELSE "listen next"
  BY DEF Listen, AddListener, kernel, loop, Last
<1>2. c \in {A, Last}
  BY <1>1, Commands DEF Control, Last
<1>3. PICK x : x = l
  OBVIOUS
<1>11. x.child = c /\ x.flags = {"EXITED", "SIGNALED"} /\ f_listeners' = f_listeners \cup {x}
  BY <1>1, <1>3
<1>. HIDE DEF l
<1>4. \A d \in Children : Listened(d)' <=> Listened(d) \/ d = c
  BY <1>1, <1>2, Commands DEF Listened, Looping
<1>5. ~Listened(c)
  BY <1>1 DEF Listened, Looping
<1>6. \A m \in f_listeners : m.child \in Children /\ m.child # c
  BY <1>5 DEF DInv, Listening, IInv, CInv, ListType, Listeners
<1>7. main \notin Looping
  BY <1>1 DEF Looping
<1>8. Handling' <=> Handling
  BY <1>1 DEF Handling
<1>9. Listening'
  <2>1. \A m \in f_listeners' : Listened(m.child)' /\ m.flags = {"EXITED", "SIGNALED"}
    BY <1>4, <1>6, <1>11, Commands DEF DInv, Listening
  <2>2. \A m, n \in f_listeners' : m.child = n.child => m = n
    BY <1>6, <1>11 DEF DInv, Listening
  <2>3. \A d \in Children : Listened(d)' /\ proc[d] # "reaped" => \E m \in f_listeners' : m.child = d
    BY <1>1, <1>4, <1>11 DEF DInv, Listening
  <2>. QED BY <1>1, <1>7, <1>8, <2>1, <2>2, <2>3 DEF DInv, Listening
<1>10. Reported'
  BY <1>1, <1>8 DEF DInv, Reported, Called, Code
<1>. QED BY <1>9, <1>10 DEF DInv

\* waitid() finds a child that has a listener, which child_done() is called
\* through.
LEMMA DInvWaitId ==
  ASSUME DInv, Control, IInv, UNCHANGED <<setup, main, f_child, f_exit_code, done, status>>,
         main = "run", WaitId
  PROVE  DInv'
<1>1. UNCHANGED <<proc, f_listeners, Last>> /\ pc = "waitid" /\ ~Handling
  BY DEF WaitId, kernel, list, Last, Handling
<1>2. \A d : Listened(d)' <=> Listened(d)
  BY <1>1 DEF Listened
<1>3. CASE Waitable = {} /\ pc' = "process" /\ UNCHANGED <<info, todo>>
  BY <1>1, <1>3, DInvSame DEF Handling
<1>4. ASSUME NEW c \in Waitable,
             info' = [pid |-> c, code |-> proc[c]],
             todo' = {l \in Of(c) : StatusMask(proc[c]) \in l.flags},
             pc' = "call"
      PROVE  DInv'
  <2>1. c \in Children /\ proc[c] \in Dead
    BY <1>4 DEF Waitable, Control, Codes, Dead, Paused
  <2>2. c \in {A, Last} /\ Listened(c)
    BY <2>1, Commands DEF Control, Listened, Looping, Dead
  <2>3. StatusMask(proc[c]) \in {"EXITED", "SIGNALED"}
    BY <2>1 DEF Dead, StatusMask, IsRunning, IsExited, IsSignaled, IsStopped, IsContinued
  <2>4. PICK l \in f_listeners : l.child = c
    BY <2>1, <2>2 DEF DInv, Listening, Dead
  <2>5. l \in todo' /\ todo' \subseteq f_listeners
    BY <1>4, <2>3, <2>4 DEF Of, DInv, Listening
  <2>6. /\ info'.pid = c /\ info'.code = proc[c] /\ Handling'
    BY <1>4 DEF Handling
  <2>7. Listening'
    BY <1>1, <1>2, <2>5, <2>6 DEF DInv, Listening
  <2>8. \A d \in Children : Called(d)' <=> Called(d)
    BY <1>1, <2>5 DEF Called
  <2>9. Reported'
    BY <1>1, <2>8 DEF DInv, Reported, Code
  <2>. QED BY <2>7, <2>9 DEF DInv
<1>. QED BY <1>3, <1>4 DEF WaitId

\* The callback gives the process its exit code, once.
LEMMA DInvCall ==
  ASSUME DInv, Control, IInv, UNCHANGED <<setup, main, status>>, Call,
         f_exit_code' = [f_exit_code EXCEPT ![info.pid] = ExitCode(info.pid, info.code)],
         f_child' = [f_child EXCEPT ![info.pid] = FALSE],
         done' = [done EXCEPT ![info.pid] = @ + 1]
  PROVE  DInv'
<1>1. /\ UNCHANGED <<proc, f_listeners, info, Last>> /\ pc = "call" /\ pc' = "callback"
      /\ info.pid \in Children
  BY DEF Call, kernel, list, Last, IInv, CInv, LoopType
<1>2. PICK l \in todo : todo' = todo \ {l}
  BY DEF Call
<1>3. Handling /\ Handling' /\ info.code = proc[info.pid]
  BY <1>1 DEF Handling, DInv, Listening
<1>4. todo' = {}
  <2>1. \A m \in todo : m.child = info.pid /\ m \in f_listeners
    BY DEF IInv, TInv, Hearing, DInv, Listening
  <2>2. \A m \in todo : m = l
    BY <2>1 DEF DInv, Listening
  <2>. QED BY <1>2, <2>2
<1>5. \A d : Listened(d)' <=> Listened(d)
  BY <1>1 DEF Listened
<1>6. Listening'
  BY <1>1, <1>3, <1>4, <1>5 DEF DInv, Listening
<1>7. proc[info.pid] \in Dead
  BY <1>1, <1>3 DEF Control, IInv, CInv, LoopType, Codes, Dead, Paused
<1>8. /\ ~Called(info.pid) /\ Called(info.pid)'
      /\ \A d \in Children : d # info.pid => (Called(d)' <=> Called(d))
  BY <1>1, <1>2, <1>3, <1>4, <1>7 DEF Called, Dead
<1>9. ExitCode(info.pid, info.code) = Code(info.pid) /\ Code(info.pid) \in Int
  BY <1>1, <1>3, <1>7 DEF ExitCode, Code, IsExited, DInv, Reported, Dead
<1>10. /\ done' \in [Children -> Nat] /\ f_child' \in [Children -> BOOLEAN]
       /\ f_exit_code' \in [Children -> Int]
       /\ done'[info.pid] = 1 /\ f_child'[info.pid] = FALSE /\ f_exit_code'[info.pid] = Code(info.pid)
       /\ \A d \in Children : d # info.pid =>
            done'[d] = done[d] /\ f_child'[d] = f_child[d] /\ f_exit_code'[d] = f_exit_code[d]
  BY <1>1, <1>8, <1>9 DEF DInv, Reported
<1>11. Reported'
  <2>1. \A d \in Children : Code(d)' = Code(d)
    BY DEF Code
  <2>. QED BY <1>1, <1>8, <1>10, <2>1 DEF DInv, Reported
<1>. QED BY <1>6, <1>11 DEF DInv

\* The child that is released was reported.
LEMMA DInvRelease ==
  ASSUME DInv, Control, IInv,
         UNCHANGED <<setup, main, f_child, f_exit_code, done, status>>, main = "run", Release
  PROVE  DInv'
<1>1. /\ UNCHANGED <<info, todo, Last>> /\ pc = "call" /\ pc' = "waitid" /\ todo = {}
      /\ info.pid \in Children /\ proc \in [Children -> {"none", "running", "reaped"} \cup Codes]
  BY DEF Release, Last, IInv, CInv, LoopType, KernelType
<1>2. Handling /\ ~Handling' /\ info.code = proc[info.pid]
  BY <1>1 DEF Handling, DInv, Listening
<1>3. info.code \in Dead
  BY <1>1, <1>2 DEF Control, IInv, CInv, LoopType, Codes, Dead, Paused
<1>4. f_listeners' = f_listeners \ Of(info.pid) /\ proc' = [proc EXCEPT ![info.pid] = "reaped"]
  BY <1>3, ReleaseDead DEF IInv
<1>5. /\ proc'[info.pid] = "reaped"
      /\ \A d \in Children : d # info.pid => proc'[d] = proc[d]
  BY <1>1, <1>4
<1>6. \A d : Listened(d)' <=> Listened(d)
  BY <1>1 DEF Listened
<1>7. main \in Looping
  BY DEF Looping
<1>8. Listening'
  BY <1>1, <1>2, <1>4, <1>5, <1>6, <1>7 DEF DInv, Listening, Of
<1>9. \A d \in Children : Called(d)' <=> Called(d)
  BY <1>1, <1>2, <1>5 DEF Called
<1>10. Reported'
  BY <1>5, <1>9 DEF DInv, Reported, Code
<1>. QED BY <1>8, <1>10 DEF DInv

\* Every step keeps what the listeners and callbacks of each command know.
LEMMA DInvStep ==
  ASSUME DInv, Control, IInv, [ProcessNext]_allvars
  PROVE  DInv'
<1>0. UNCHANGED setup
  BY SetupKept
<1>1. CASE GetInstance \/ Wait
  <2>1. /\ UNCHANGED <<f_listeners, proc, todo, info, pc, status, done, f_child, f_exit_code>>
        /\ \/ UNCHANGED main
           \/ main = "started" /\ main' = "listen"
    BY <1>1 DEF GetInstance, Signal, pvars, Wait, list, loop
  <2>2. Handling' <=> Handling
    BY <2>1 DEF Handling
  <2>. QED BY <1>0, <2>1, <2>2, DInvSame DEF Looping
<1>2. ASSUME NEW ok \in BOOLEAN, Start(ok) \/ StartNext(ok) PROVE DInv'
  BY <1>0, <1>2, Commands, DInvStart DEF Start, StartNext, Control
<1>3. CASE RunReturns \/ CaptureEvent \/ InputEvent \/ WriteStep \/ InputGone
  <2>1. /\ UNCHANGED <<f_listeners, proc, todo, info, pc, status, done, f_child, f_exit_code>>
        /\ main \in Looping /\ main' \in Looping
    BY <1>3 DEF RunReturns, CaptureEvent, InputEvent, WriteStep, InputGone, vars, Looping
  <2>2. Handling' <=> Handling
    BY <2>1 DEF Handling
  <2>. QED BY <1>0, <2>1, <2>2, DInvSame DEF Looping
<1>4. CASE SignalEvent
  <2>1. UNCHANGED <<main, status>> /\ main = "run"
    BY <1>4 DEF SignalEvent
  <2>2. CASE /\ Poll \/ Process \/ Return
             /\ UNCHANGED <<f_exit_code, f_child, done>>
    <3>1. UNCHANGED <<f_listeners, proc, todo, info>> /\ (Handling' <=> Handling)
      BY <2>2 DEF Poll, Process, Return, kernel, list, Handling
    <3>. QED BY <1>0, <2>1, <2>2, <3>1, DInvSame
  <2>3. CASE /\ WaitId \/ Release
             /\ UNCHANGED <<f_exit_code, f_child, done>>
    BY <1>0, <2>1, <2>3, DInvWaitId, DInvRelease
  <2>4. CASE Call
    <3>1. /\ f_exit_code' = [f_exit_code EXCEPT ![info.pid] = ExitCode(info.pid, info.code)]
          /\ f_child' = [f_child EXCEPT ![info.pid] = FALSE]
          /\ done' = [done EXCEPT ![info.pid] = @ + 1]
      BY <1>4, <2>4 DEF SignalEvent, Poll, Process, WaitId, Return, Release, Call
    <3>. QED BY <1>0, <2>1, <2>4, <3>1, DInvCall
  <2>. QED BY <1>4, <2>2, <2>3, <2>4 DEF SignalEvent
<1>5. ASSUME NEW c \in Children, Command(c) \/ ChildFails(c) PROVE DInv'
  BY <1>0, <1>5, DInvChild
<1>6. ASSUME NEW c \in {A, B}, Listen(c) PROVE DInv'
  BY <1>0, <1>6, DInvListen
<1>7. CASE UNCHANGED allvars
  BY <1>7, DInvSame DEF allvars, vars, pvars, Handling
<1>. QED BY <1>1, <1>2, <1>3, <1>4, <1>5, <1>6, <1>7, Commands DEF ProcessNext, Parents

---------------------------------------------------------------------------
(***************************************************************************)
(* The captured output                                                     *)
(***************************************************************************)

Ends == Children \cup {Parent}
PipeSet == [Pipes -> [data : 0 .. PipeSize, w : SUBSET Ends, r : SUBSET Ends]]

\* process_hup() has closed the output.
Closed == main \in Looping /\ "out" \notin conns

\* What was written was read or is in the pipe, and the pipe is closed only
\* when nobody is left to write to it: the parent until the last command is
\* forked, that command until it dies.
Captured ==
    /\ main \in {"new", "next"} => Parent \in pipe["out"].w
    /\ proc[Last] = "running" => Last \in pipe["out"].w
    /\ main \in {"started", "listen", "listen next"} => "out" \in conns
    /\ Closed => pipe["out"].w = {} /\ f_output = written
    /\ ~Closed => written = f_output + pipe["out"].data

OInv ==
    /\ pipe \in PipeSet /\ written \in Nat /\ f_output \in Nat
    /\ setup.output => Captured

\* What closing the ends of some pipes does to the output pipe.
LEMMA CloseEndsOf ==
  ASSUME NEW pipes \in PipeSet, NEW ps, NEW q
  PROVE  /\ CloseEnds(pipes, ps, q) \in PipeSet
         /\ CloseEnds(pipes, ps, q)["out"].data = pipes["out"].data
         /\ "out" \in ps => CloseEnds(pipes, ps, q)["out"].w = pipes["out"].w \ {q}
         /\ "out" \notin ps => CloseEnds(pipes, ps, q)["out"].w = pipes["out"].w
BY DEF CloseEnds, PipeSet, Pipes

\* What fork() does to the output pipe: the child has it, the parent keeps it.
LEMMA ForkEndsOf ==
  ASSUME pipe \in PipeSet, NEW c \in Children
  PROVE  /\ ForkEnds(c) \in PipeSet
         /\ ForkEnds(c)["out"].data = pipe["out"].data
         /\ ForkEnds(c)["out"].w \ {c, Parent} = pipe["out"].w \ {c, Parent}
         /\ Parent \in pipe["out"].w => c \in ForkEnds(c)["out"].w
         /\ Parent \in pipe["out"].w /\ c # Last => Parent \in ForkEnds(c)["out"].w
<1>. DEFINE W(p) == pipe[p].w \cup (IF Parent \in pipe[p].w THEN {c} ELSE {})
            R(p) == pipe[p].r \cup (IF Parent \in pipe[p].r THEN {c} ELSE {})
<1>1. ForkEnds(c) = [p \in Pipes |->
         [data |-> pipe[p].data,
          w |-> IF p = "out" /\ c = Last THEN W(p) \ {Parent} ELSE W(p),
          r |-> IF p = "in" /\ c = A THEN R(p) \ {Parent} ELSE R(p)]]
  BY DEF ForkEnds
<1>2. \A p \in Pipes : /\ W(p) \subseteq Ends /\ R(p) \subseteq Ends
                       /\ pipe[p].data \in 0 .. PipeSize
  BY DEF PipeSet, Ends
<1>3. /\ Parent \in pipe["out"].w => Parent \in W("out") /\ c \in W("out")
      /\ W("out") \ {c, Parent} = pipe["out"].w \ {c, Parent}
      /\ "out" \in Pipes /\ c # Parent
  BY Commands DEF Pipes
<1>. HIDE DEF W, R
<1>4. ForkEnds(c) \in PipeSet
  BY <1>1, <1>2 DEF PipeSet
<1>5. /\ ForkEnds(c)["out"].data = pipe["out"].data
      /\ ForkEnds(c)["out"].w = IF c = Last THEN W("out") \ {Parent} ELSE W("out")
  <2>1. ForkEnds(c)["out"] =
          [data |-> pipe["out"].data,
           w |-> IF c = Last THEN W("out") \ {Parent} ELSE W("out"),
           r |-> R("out")]
    BY <1>1, <1>3
  <2>. QED BY <2>1
<1>. QED BY <1>3, <1>4, <1>5

\* A step that leaves the output alone.
LEMMA OInvSame ==
  ASSUME OInv, pipe' \in PipeSet, UNCHANGED <<setup, written, f_output>>,
         setup.output => pipe'["out"].w = pipe["out"].w /\ pipe'["out"].data = pipe["out"].data,
         proc'[Last] = "running" => proc[Last] = "running",
         main' \in {"new", "next"} => main \in {"new", "next"},
         main \in Looping => main' \in Looping,
         main' \in {"started", "listen", "listen next"} => main \in {"started", "listen", "listen next"},
         main' \in Looping /\ main \notin Looping => main \in {"started", "listen", "listen next"},
         "out" \in conns <=> "out" \in conns'
  PROVE  OInv'
<1>1. Last' = Last
  BY DEF Last
<1>2. setup.output => (Closed' <=> Closed)
  BY DEF OInv, Captured, Closed, Looping
<1>3. ASSUME setup.output PROVE Captured'
  BY <1>1, <1>2, <1>3 DEF OInv, Captured
<1>. QED BY <1>3 DEF OInv

\* start(): the last command gets the write end of the output from the
\* parent, which gives it up then.
LEMMA OInvStart ==
  ASSUME OInv, Control, IInv, UNCHANGED setup,
         NEW c \in {A, B}, NEW ok \in BOOLEAN, StartProcess(c, ok), proc[c] = "none",
         main \in {"new", "next"},
         c # Last => main' \in {"next", "failed"}, c = Last => main' \in {"started", "failed"},
         main' = "failed" <=> ~ok,
         ok => pipe' = ForkEnds(c) \/ pipe' = CloseEnds(ForkEnds(c), {"mid"}, Parent)
  PROVE  OInv'
<1>1. /\ UNCHANGED <<written, f_output, Last>> /\ c \in Children /\ Parent # c
      /\ main \notin Looping /\ main' \notin Looping
      /\ pipe \in PipeSet /\ proc \in [Children -> {"none", "running", "reaped"} \cup Codes]
      /\ Last \in Children
  BY Commands DEF StartProcess, Looping, OInv, IInv, CInv, KernelType, Last
<1>2. CASE ~ok
  <2>1. UNCHANGED <<pipe, proc>> /\ main' = "failed"
    BY <1>2 DEF StartProcess
  <2>. QED BY <1>1, <2>1 DEF OInv, Captured, Closed
<1>3. CASE ok
  <2>1. /\ pipe' \in PipeSet
        /\ pipe'["out"].w = ForkEnds(c)["out"].w /\ pipe'["out"].data = ForkEnds(c)["out"].data
    <3>1. ForkEnds(c) \in PipeSet /\ "out" \in Pipes /\ "out" \notin {"mid"}
      BY <1>1, ForkEndsOf DEF Pipes
    <3>2. PICK mid : mid = {"mid"}
      OBVIOUS
    <3>3. PICK f : f = ForkEnds(c)
      OBVIOUS
    <3>4. /\ CloseEnds(f, mid, Parent) \in PipeSet
          /\ CloseEnds(f, mid, Parent)["out"].data = f["out"].data
          /\ CloseEnds(f, mid, Parent)["out"].w = f["out"].w
      <4>1. f \in PipeSet /\ "out" \notin mid
        BY <3>1, <3>2, <3>3
      <4>. QED BY <4>1, CloseEndsOf
    <3>5. pipe' = f \/ pipe' = CloseEnds(f, mid, Parent)
      BY <1>3, <3>2, <3>3, Zenon
    <3>. QED BY <3>1, <3>2, <3>3, <3>4, <3>5
  <2>2. proc' = [proc EXCEPT ![c] = "running"]
    BY <1>3 DEF StartProcess
  <2>3. ASSUME setup.output PROVE Captured'
    <3>1. c = Last => "out" \in conns'
      BY <2>3 DEF StartProcess, Exists
    <3>2. main' \in {"new", "next"} => Parent \in pipe'["out"].w
      BY <1>1, <2>1, <2>3, ForkEndsOf DEF OInv, Captured
    <3>3. proc'[Last] = "running" => Last \in pipe'["out"].w
      <4>1. CASE c = Last
        BY <1>1, <2>1, <2>3, <4>1, ForkEndsOf DEF OInv, Captured
      <4>2. CASE c # Last
        BY <1>1, <2>1, <2>2, <2>3, <4>2, ForkEndsOf DEF OInv, Captured
      <4>. QED BY <4>1, <4>2
    <3>4. written' = f_output' + pipe'["out"].data
      BY <1>1, <2>1, <2>3, ForkEndsOf DEF OInv, Captured, Closed
    <3>. QED BY <1>1, <1>3, <3>1, <3>2, <3>3, <3>4 DEF Captured, Closed
  <2>. QED BY <1>1, <2>1, <2>3 DEF OInv
<1>. QED BY <1>2, <1>3

\* The commands and their children: the last command is the only writer of
\* the output, which is open as long as that command runs.
LEMMA OInvChild ==
  ASSUME OInv, Control, IInv, UNCHANGED setup, NEW c \in Children, Command(c) \/ ChildFails(c)
  PROVE  OInv'
<1>1. /\ UNCHANGED Last /\ Last \in Children /\ Parent # c /\ "out" \in Pipes /\ pipe \in PipeSet
      /\ proc \in [Children -> {"none", "running", "reaped"} \cup Codes]
      /\ Stdin(c) \in {"in", "mid"} /\ (c # Last => Stdout(c) = "mid") /\ (c = Last => Stdout(c) = "out")
      /\ Exists("out") = setup.output
  BY Commands DEF Last, OInv, Pipes, IInv, CInv, KernelType, Stdin, Stdout, Exists
<1>2. CASE ExecuteCommand(c)
  <2>. DEFINE closed == CloseEnds(pipe, ClosedByCommand(c), c)
              more(p) == {q \in {c} : p = Stdout(c) /\ Exists(p)}
              reads(p) == {q \in {c} : p = Stdin(c) /\ Exists(p)}
  <2>1. /\ proc[c] = "running" /\ UNCHANGED <<proc, main, conns, written, f_output>>
        /\ pipe' = [p \in Pipes |-> [data |-> closed[p].data, w |-> closed[p].w \cup more(p),
                                     r |-> closed[p].r \cup reads(p)]]
    BY <1>2 DEF ExecuteCommand, vars
  <2>2. /\ closed \in PipeSet /\ closed["out"].data = pipe["out"].data
        /\ "out" \in ClosedByCommand(c) => closed["out"].w = pipe["out"].w \ {c}
        /\ "out" \notin ClosedByCommand(c) => closed["out"].w = pipe["out"].w
    BY <1>1, CloseEndsOf
  <2>3. /\ \A p \in Pipes : more(p) \subseteq Ends /\ reads(p) \subseteq Ends
        /\ setup.output => more("out") = IF c = Last THEN {c} ELSE {}
    BY <1>1 DEF Ends
  <2>4. "out" \in ClosedByCommand(c) <=> c = Last
    BY DEF ClosedByCommand
  <2>. HIDE DEF closed, more, reads
  <2>5. pipe' \in PipeSet
    BY <2>1, <2>2, <2>3 DEF PipeSet
  <2>6. pipe'["out"].w = closed["out"].w \cup more("out") /\ pipe'["out"].data = closed["out"].data
    BY <1>1, <2>1
  <2>7. setup.output => pipe'["out"].w = pipe["out"].w
    BY <2>1, <2>2, <2>3, <2>4, <2>6 DEF OInv, Captured
  <2>. QED BY <2>1, <2>2, <2>5, <2>6, <2>7, OInvSame
<1>3. CASE ChildRead(c)
  <2>1. /\ UNCHANGED <<proc, main, conns, written, f_output>>
        /\ pipe' = [pipe EXCEPT ![Stdin(c)].data = @ - 1] /\ pipe[Stdin(c)].data > 0
    BY <1>3 DEF ChildRead, vars
  <2>2. pipe' \in PipeSet /\ pipe'["out"] = pipe["out"]
    <3>1. PICK d \in Pipes : d = Stdin(c) /\ d # "out"
      BY <1>1 DEF Pipes
    <3>2. pipe[d].data - 1 \in 0 .. PipeSize
      BY <2>1, <3>1, ProcessAssumption DEF OInv, PipeSet
    <3>. QED BY <1>1, <2>1, <3>1, <3>2 DEF PipeSet
  <2>. QED BY <2>1, <2>2, OInvSame
<1>4. CASE ChildWrite(c)
  <2>1. /\ UNCHANGED <<proc, main, conns, f_output>> /\ proc[c] = "running"
        /\ written' = IF c = Last THEN written + 1 ELSE written
        /\ \/ /\ pipe[Stdout(c)].data < PipeSize /\ Exists(Stdout(c))
              /\ pipe' = [pipe EXCEPT ![Stdout(c)].data = @ + 1]
           \/ ~Exists(Stdout(c)) /\ pipe' = pipe
    BY <1>4 DEF ChildWrite, vars
  <2>2. PICK d \in Pipes : d = Stdout(c)
    BY <1>1 DEF Pipes
  <2>3. /\ pipe' \in PipeSet
        /\ \/ /\ Exists(d) /\ pipe'[d].data = pipe[d].data + 1 /\ pipe'[d].w = pipe[d].w
              /\ \A p \in Pipes : p # d => pipe'[p] = pipe[p]
           \/ ~Exists(d) /\ pipe' = pipe
    <3>1. pipe[d].data < PipeSize => pipe[d].data + 1 \in 0 .. PipeSize
      BY <2>2, ProcessAssumption DEF OInv, PipeSet
    <3>. QED BY <1>1, <2>1, <2>2, <3>1 DEF PipeSet
  <2>4. CASE c # Last
    <3>1. pipe'["out"] = pipe["out"]
      BY <1>1, <2>2, <2>3, <2>4
    <3>. QED BY <2>1, <2>3, <2>4, <3>1, OInvSame
  <2>5. CASE c = Last
    <3>1. written' = written + 1 /\ written' \in Nat
      BY <2>1, <2>5 DEF OInv
    <3>2. ASSUME setup.output PROVE Captured'
      <4>1. pipe'["out"].data = pipe["out"].data + 1 /\ pipe'["out"].w = pipe["out"].w
        BY <1>1, <2>2, <2>3, <2>5, <3>2
      <4>2. Captured /\ ~Closed /\ ~Closed'
        BY <2>1, <2>5, <3>2 DEF OInv, Captured, Closed
      <4>3. written' = f_output' + pipe'["out"].data
        <5>1. pipe["out"].data \in Nat
          BY <1>1, ProcessAssumption DEF PipeSet
        <5>2. written = f_output + pipe["out"].data /\ f_output \in Nat /\ f_output' = f_output
          BY <2>1, <4>2 DEF OInv, Captured
        <5>. QED BY <3>1, <4>1, <5>1, <5>2
      <4>. QED BY <1>1, <2>1, <4>1, <4>2, <4>3 DEF Captured
    <3>. QED BY <2>1, <2>3, <3>1, <3>2 DEF OInv
  <2>. QED BY <2>4, <2>5
<1>5. ASSUME NEW code \in Dead, NEW st, ChildDies(c, code, st) PROVE OInv'
  <2>1. /\ UNCHANGED <<main, conns, written, f_output>>
        /\ proc' = [proc EXCEPT ![c] = code] /\ code # "running"
        /\ pipe' = CloseEnds(pipe, Pipes, c)
    BY <1>5 DEF ChildDies, Die, Dead
  <2>2. /\ pipe' \in PipeSet /\ pipe'["out"].data = pipe["out"].data
        /\ pipe'["out"].w = pipe["out"].w \ {c}
    <3>1. PICK ps : ps = Pipes
      OBVIOUS
    <3>2. pipe' = CloseEnds(pipe, ps, c) /\ "out" \in ps
      BY <1>1, <2>1, <3>1
    <3>. QED BY <1>1, <3>2, CloseEndsOf
  <2>3. ASSUME setup.output PROVE Captured'
    BY <1>1, <2>1, <2>2, <2>3 DEF OInv, Captured, Closed
  <2>. QED BY <2>1, <2>2, <2>3 DEF OInv
<1>6. CASE ChildEnds(c) \/ ChildFails(c)
  BY <1>5, <1>6 DEF ChildEnds, ChildFails, Dead
<1>. QED BY <1>2, <1>3, <1>4, <1>6 DEF Command

\* process_read() empties the pipe, whose capacity is at most the size of its
\* buffer, before process_hup() closes it.
LEMMA OInvCapture ==
  ASSUME OInv, Control, UNCHANGED setup, CaptureEvent
  PROVE  OInv'
<1>. DEFINE n == IF pipe["out"].data < ReadSize THEN pipe["out"].data ELSE ReadSize
<1>1. /\ UNCHANGED <<main, proc, written, Last>> /\ main = "run" /\ "out" \in conns
      /\ f_output' = f_output + n
      /\ \/ pipe["out"].w = {} /\ PipeDone("out")
         \/ pipe' = [pipe EXCEPT !["out"].data = @ - n] /\ conns' = conns
  BY DEF CaptureEvent, vars, Last
<1>2. pipe["out"].data \in 0 .. PipeSize /\ "out" \in Pipes /\ pipe \in PipeSet
  BY DEF OInv, PipeSet, Pipes
<1>3. n = pipe["out"].data
  BY <1>2, ProcessAssumption
<1>. HIDE DEF n
<1>4. f_output' \in Nat
  BY <1>1, <1>2, <1>3, ProcessAssumption DEF OInv
<1>5. /\ pipe' \in PipeSet /\ pipe'["out"].w = pipe["out"].w
      /\ conns' = conns => pipe'["out"].data = 0
      /\ conns' # conns => pipe["out"].w = {} /\ "out" \notin conns'
  <2>1. CASE pipe["out"].w = {} /\ PipeDone("out")
    <3>0. PICK ps : ps = {"out"}
      OBVIOUS
    <3>1. pipe' = CloseEnds(pipe, ps, Parent) /\ "out" \notin conns' /\ "out" \in ps
      BY <2>1, <3>0 DEF PipeDone
    <3>2. pipe' \in PipeSet /\ pipe'["out"].w = pipe["out"].w \ {Parent}
      BY <1>2, <3>1, CloseEndsOf
    <3>. QED BY <1>1, <2>1, <3>1, <3>2
  <2>2. CASE pipe' = [pipe EXCEPT !["out"].data = @ - n] /\ conns' = conns
    <3>1. pipe["out"].data - n = 0 /\ 0 \in 0 .. PipeSize
      BY <1>2, <1>3, ProcessAssumption
    <3>2. pipe' = [pipe EXCEPT !["out"].data = 0]
      BY <2>2, <3>1
    <3>. QED BY <1>2, <2>2, <3>1, <3>2 DEF PipeSet
  <2>. QED BY <1>1, <2>1, <2>2
<1>6. ASSUME setup.output PROVE Captured'
  <2>1. ~Closed /\ written = f_output + pipe["out"].data
    BY <1>1, <1>6 DEF Closed, OInv, Captured
  <2>2. f_output' = written
    BY <1>1, <1>3, <2>1
  <2>3. CASE conns' = conns
    <3>1. pipe'["out"].data = 0 /\ ~Closed'
      BY <1>1, <1>5, <2>3 DEF Closed
    <3>. QED BY <1>1, <1>5, <1>6, <2>2, <3>1, <1>4 DEF Captured, OInv
  <2>4. CASE conns' # conns
    <3>1. pipe'["out"].w = {} /\ Closed'
      BY <1>1, <1>5, <2>4 DEF Closed, Looping
    <3>2. proc'[Last'] # "running"
      BY <1>1, <1>5, <1>6, <2>4 DEF OInv, Captured
    <3>. QED BY <1>1, <2>2, <3>1, <3>2 DEF Captured
  <2>. QED BY <2>3, <2>4
<1>. QED BY <1>1, <1>4, <1>5, <1>6 DEF OInv

\* Every step keeps the output complete: read, in the pipe or not yet written.
LEMMA OInvStep ==
  ASSUME OInv, Control, IInv, [ProcessNext]_allvars
  PROVE  OInv'
<1>0. /\ UNCHANGED setup /\ pipe \in PipeSet /\ Last \in Children
      /\ proc \in [Children -> {"none", "running", "reaped"} \cup Codes]
  BY SetupKept, Commands DEF OInv, IInv, CInv, KernelType
<1>1. CASE GetInstance \/ Wait \/ RunReturns \/ InputEvent
  <2>1. /\ UNCHANGED <<proc, pipe, conns, written, f_output>>
        /\ \/ main' = main
           \/ main = "started" /\ main' = "listen"
           \/ main = "run" /\ main' \in Looping
    BY <1>1 DEF GetInstance, Signal, pvars, Wait, RunReturns, InputEvent, vars, Looping
  <2>. QED BY <1>0, <2>1, OInvSame DEF Looping
<1>2. ASSUME NEW c \in Children, Listen(c) PROVE OInv'
  <2>1. /\ UNCHANGED <<proc, pipe, conns, written, f_output>>
        /\ main \in {"listen", "listen next"} /\ main' \in {"run", "listen next"}
    BY <1>2 DEF Listen, AddListener, kernel
  <2>. QED BY <1>0, <2>1, OInvSame DEF Looping
<1>3. ASSUME NEW ok \in BOOLEAN, Start(ok) PROVE OInv'
  <2>1. /\ main = "new" /\ StartProcess(A, ok) /\ proc[A] = "none"
        /\ A # Last => main' \in {"next", "failed"}
        /\ A = Last => main' \in {"started", "failed"}
        /\ main' = "failed" <=> ~ok
        /\ ok => pipe' = ForkEnds(A)
    BY <1>3, Commands DEF Start, Control, Last
  <2>. QED BY <1>0, <2>1, OInvStart
<1>4. ASSUME NEW ok \in BOOLEAN, StartNext(ok) PROVE OInv'
  <2>1. /\ main = "next" /\ StartProcess(B, ok) /\ proc[B] = "none" /\ B = Last
        /\ main' \in {"started", "failed"}
        /\ main' = "failed" <=> ~ok
        /\ ok => pipe' = CloseEnds(ForkEnds(B), {"mid"}, Parent)
    BY <1>4 DEF StartNext, Control, Last
  <2>. QED BY <1>0, <2>1, OInvStart
<1>5. CASE SignalEvent
  <2>1. /\ UNCHANGED <<main, pipe, conns, written, f_output>>
        /\ Poll \/ Process \/ WaitId \/ Return \/ Release \/ Call
    BY <1>5 DEF SignalEvent
  <2>2. proc' = proc \/ proc' = [proc EXCEPT ![info.pid] = "reaped"]
    BY <2>1 DEF Poll, Process, WaitId, Return, Release, Call, kernel
  <2>3. proc'[Last] = "running" => proc[Last] = "running"
    BY <1>0, <2>2
  <2>. QED BY <1>0, <2>1, <2>3, OInvSame
<1>6. CASE WriteStep \/ InputGone
  <2>1. /\ UNCHANGED <<proc, written, f_output>> /\ main \in Looping /\ main' \in Looping
        /\ conns' = conns \/ conns' = conns \ {"in"}
    BY <1>6 DEF WriteStep, InputGone, PipeDone, vars, Looping
  <2>2. pipe' \in PipeSet /\ pipe'["out"].w = pipe["out"].w /\ pipe'["out"].data = pipe["out"].data
    <3>1. CASE WriteStep
      <4>1. pipe["in"].data < PipeSize => pipe["in"].data + 1 \in 0 .. PipeSize
        BY <1>0, ProcessAssumption DEF PipeSet, Pipes
      <4>2. pipe["in"].w \ {Parent} \subseteq Ends /\ pipe["in"].r \subseteq Ends
        BY <1>0 DEF PipeSet, Pipes
      <4>3. /\ pipe["in"].data < PipeSize
            /\ \/ pipe' = [pipe EXCEPT !["in"] = [data |-> pipe["in"].data + 1,
                             w |-> pipe["in"].w \ {Parent}, r |-> pipe["in"].r]]
               \/ pipe' = [pipe EXCEPT !["in"].data = @ + 1]
        BY <3>1 DEF WriteStep
      <4>. QED BY <1>0, <4>1, <4>2, <4>3 DEF PipeSet, Pipes
    <3>2. CASE InputGone /\ PipeDone("in")
      <4>0. PICK ps : ps = {"in"}
        OBVIOUS
      <4>1. pipe' = CloseEnds(pipe, ps, Parent) /\ "out" \notin ps
        BY <3>2, <4>0 DEF PipeDone
      <4>. QED BY <1>0, <4>1, CloseEndsOf
    <3>3. CASE UNCHANGED pipe
      BY <1>0, <3>3
    <3>. QED BY <1>6, <3>1, <3>2, <3>3 DEF InputGone
  <2>. QED BY <1>0, <2>1, <2>2, OInvSame DEF Looping
<1>7. CASE CaptureEvent
  BY <1>0, <1>7, OInvCapture
<1>8. ASSUME NEW c \in Children, Command(c) \/ ChildFails(c) PROVE OInv'
  BY <1>0, <1>8, OInvChild
<1>9. CASE UNCHANGED allvars
  BY <1>0, <1>9, OInvSame DEF allvars, vars, pvars
<1>. QED BY <1>1, <1>2, <1>3, <1>4, <1>5, <1>6, <1>7, <1>8, <1>9, Commands DEF ProcessNext, Parents

---------------------------------------------------------------------------
(***************************************************************************)
(* The inductive invariant and the theorems                                *)
(***************************************************************************)

\* run() returned when nothing was left in the communicator, and nothing is
\* added to it after that.
Ended == main = "returned" => in_comm = FALSE /\ "out" \notin conns

PInv == IInv /\ Control /\ DInv /\ OInv /\ Ended

\* Every step keeps what is true once run() returned.
LEMMA EndedStep ==
  ASSUME Ended, Control, [ProcessNext]_allvars
  PROVE  Ended'
<1>1. CASE RunReturns
  BY <1>1 DEF RunReturns, vars, Ended
<1>2. ASSUME NEW c \in Children, Command(c) \/ ChildFails(c) PROVE Ended'
  <2>1. UNCHANGED <<main, in_comm, conns>>
    BY <1>2 DEF Command, ChildFails, ExecuteCommand, ChildRead, ChildWrite, ChildEnds,
       ChildDies, Die, vars, list
  <2>. QED BY <2>1 DEF Ended
<1>3. CASE \/ GetInstance \/ Wait \/ Listen(A) \/ Listen(B) \/ SignalEvent
           \/ CaptureEvent \/ InputEvent \/ WriteStep \/ InputGone
           \/ \E ok \in BOOLEAN : Start(ok) \/ StartNext(ok)
  <2>1. main' # "returned"
    BY <1>3 DEF GetInstance, pvars, Wait, Listen, SignalEvent, CaptureEvent, InputEvent,
       WriteStep, InputGone, Start, StartNext
  <2>. QED BY <2>1 DEF Ended
<1>4. CASE UNCHANGED allvars
  BY <1>4 DEF allvars, vars, pvars, Ended
<1>. QED BY <1>1, <1>2, <1>3, <1>4 DEF ProcessNext, Parents

\* The invariant holds at first.
LEMMA InitPInv == ProcessInit => PInv
<1>. SUFFICES ASSUME ProcessInit PROVE PInv
  OBVIOUS
<1>1. Init /\ IInv
  BY InitIInv DEF ProcessInit
<1>2. /\ \A c \in Children : proc[c] = "none"
      /\ main = "new" /\ pc = "idle" /\ f_listeners = {} /\ todo = {}
  BY <1>1 DEF Init, ProcessInit
<1>3. Control
  BY <1>2, Commands DEF ProcessInit, Control, Mains, Looping
<1>4. Listening
  BY <1>2 DEF Listening, Handling, Looping, Listened
<1>5. Reported
  BY <1>2 DEF ProcessInit, Reported, Called, Handling
<1>6. OInv
  <2>. DEFINE q(p) == IF Exists(p) THEN {Parent} ELSE {}
  <2>1. pipe = [p \in Pipes |-> [data |-> 0, w |-> q(p), r |-> q(p)]]
    BY DEF ProcessInit
  <2>2. \A p \in Pipes : q(p) \subseteq Ends
    BY DEF Ends
  <2>3. "out" \in Pipes /\ (setup.output => q("out") = {Parent}) /\ 0 \in 0 .. PipeSize
    BY ProcessAssumption DEF Pipes, Exists
  <2>. HIDE DEF q
  <2>4. pipe \in PipeSet
    BY <2>1, <2>2, <2>3 DEF PipeSet
  <2>5. pipe["out"].data = 0 /\ pipe["out"].w = q("out")
    BY <2>1, <2>3
  <2>6. written = 0 /\ f_output = 0 /\ proc[Last] # "running" /\ ~Closed
    BY <1>2, Commands DEF ProcessInit, Closed, Looping
  <2>7. setup.output => Captured
    BY <1>2, <2>3, <2>5, <2>6 DEF Captured
  <2>. QED BY <2>4, <2>6, <2>7 DEF OInv
<1>. QED BY <1>1, <1>2, <1>3, <1>4, <1>5, <1>6 DEF PInv, DInv, Ended

\* Every step keeps the invariant and is a step of signal_child.
LEMMA NextPInv == PInv /\ [ProcessNext]_allvars => PInv' /\ [Next]_vars
<1>1. ASSUME PInv, [ProcessNext]_allvars PROVE PInv' /\ [Next]_vars
  <2>1. IInv /\ Control /\ DInv /\ OInv /\ Ended /\ KernelType
    BY <1>1 DEF PInv, IInv, CInv
  <2>2. [Next]_vars
    BY <1>1, <2>1, StepIsNext
  <2>3. IInv'
    BY <2>1, <2>2, NextIInv
  <2>4. Control' /\ DInv' /\ OInv' /\ Ended'
    BY <1>1, <2>1, ControlStep, DInvStep, OInvStep, EndedStep
  <2>. QED BY <2>2, <2>3, <2>4 DEF PInv
<1>. QED BY <1>1

\* The inductive invariant of process: the control of start() and wait(), the
\* listeners, the reports of child_done() and the bytes of the output
\* (process.cpp:865-1263).
THEOREM ProcessInvariance == ProcessSpec => []PInv
BY InitPInv, NextPInv, PTL DEF ProcessSpec

\* process uses ed::signal_child as its specification says: forking, adding
\* its listeners and running the loop are steps of SignalChild, and nothing
\* else it does touches the state of that component (process.cpp:1176-1263).
THEOREM UsesSignalChild == ProcessSpec => Init /\ [][Next]_vars
<1>1. ProcessInit => Init
  BY DEF ProcessInit
<1>. QED BY <1>1, InitPInv, NextPInv, PTL DEF ProcessSpec

\* So the guarantees of ed::signal_child hold in every application of
\* process: the count matches, no death is lost and none is told twice
\* (signal_child.cpp:431-714 as called by process.cpp:1195-1215).
THEOREM SignalChildSafe == ProcessSpec => [](CountMatches /\ NoLostDeath /\ DeathToldOnce)
<1>1. PInv => CountMatches /\ NoLostDeath /\ DeathToldOnce
  BY DEF PInv, IInv, CInv, Counted, TInv, DeathPending, NoLostDeath
<1>. QED BY <1>1, ProcessInvariance, PTL

\* And a listener of process, which asks for both ways a child may end, is
\* removed only after its child_done() was called (signal_child.cpp:538-563
\* as used by process.cpp:1195-1215).
THEOREM ReleasedAfterDone == ProcessSpec => ReleasedAfterCalls
BY UsesSignalChild, ReleaseStep, PTL

\* wait() returns with the whole output of the last command, whatever the
\* sizes of the pipes and of the data, as long as the buffer of
\* process_read() holds what a pipe does (io_capture_pipe.cpp:56-98).
THEOREM OutputIsComplete == ProcessSpec => []OutputComplete
<1>1. PInv => OutputComplete
  BY DEF PInv, Ended, OInv, Captured, Closed, Looping, OutputComplete
<1>. QED BY <1>1, ProcessInvariance, PTL

\* wait() returns after child_done() was called exactly once for each of the
\* children, with the exit code the child ended with (process.cpp:1176-1263).
THEOREM ExitCodesKnown == ProcessSpec => []ExitCodeKnown
<1>1. ASSUME PInv, main = "returned", NEW c \in {A, Last}
      PROVE  /\ done[c] = 1 /\ proc[c] = "reaped" /\ ~f_child[c]
             /\ f_exit_code[c] = IF status[c] \in {0, 1} THEN status[c] ELSE -1
  <2>1. in_comm = FALSE /\ IsFiniteSet(f_listeners) /\ CountMatches /\ f_count \in Nat
    BY <1>1 DEF PInv, Ended, IInv, CInv, Counted, ListType
  <2>2. Cardinality(f_listeners) = 0
    <3>1. ~(f_count > 0)
      BY <2>1, Zenon DEF CountMatches
    <3>2. f_count = 0
      BY <2>1, <3>1
    <3>. QED BY <2>1, <3>2, Zenon DEF CountMatches
  <2>3. f_listeners = {}
    BY <2>1, <2>2, FS_EmptySet
  <2>4. c \in Children /\ Listened(c)
    BY <1>1, Commands DEF Listened, Looping
  <2>5. Called(c) /\ proc[c] = "reaped"
    BY <1>1, <2>3, <2>4 DEF PInv, DInv, Listening, Called
  <2>. QED BY <1>1, <2>4, <2>5 DEF PInv, DInv, Reported, Code
<1>2. PInv => ExitCodeKnown
  BY <1>1 DEF ExitCodeKnown
<1>. QED BY <1>2, ProcessInvariance, PTL

=============================================================================
