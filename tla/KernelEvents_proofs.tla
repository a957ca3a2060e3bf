-------------------------- MODULE KernelEvents_proofs --------------------------
(***************************************************************************)
(* Proofs about the two connections that ask the kernel what happens to    *)
(* something else.                                                         *)
(*                                                                         *)
(* The first part is about ed::file_changed, for any paths, files,         *)
(* patterns, events and sizes of the queue of inotify: the map agrees with *)
(* the kernel, and what process_event() is called with was asked for.      *)
(*                                                                         *)
(* The second part is about ed::socket_events, for any objects and         *)
(* addresses and any number of services that start and stop: who waits is  *)
(* asked for.                                                              *)
(***************************************************************************)
EXTENDS FileChanged, SocketEvents, SequenceTheorems, TLAPS

---------------------------------------------------------------------------
(***************************************************************************)
(* The queue of inotify                                                    *)
(***************************************************************************)

InFlags == {"IN_CREATE", "IN_CLOSE_WRITE", "IN_MOVE_SELF", "IN_DELETE_SELF",
            "IN_IGNORED", "IN_Q_OVERFLOW"}
Events == [wd : Nat, mask : {{f} : f \in InFlags}, name : Star]

\* A queue that is past its limit ends with the overflow, so that nothing is
\* added to it.
QueueOK(q) ==
    /\ q \in Seq(Events)
    /\ Len(q) <= MaxQueued + 1
    /\ Len(q) = MaxQueued + 1 => q[Len(q)] = Overflow

\* The event that says that the queue was full is an event.
LEMMA OverflowEvent == Overflow \in Events
BY DEF Overflow, Event, Events, Error, InFlags, Star

\* An event with one flag, field by field.
LEMMA OneEvent ==
  ASSUME NEW wd \in Nat, NEW flag \in InFlags, NEW name \in Star
  PROVE  /\ Event(wd, flag, name) \in Events
         /\ Event(wd, flag, name).wd = wd
         /\ Event(wd, flag, name).mask = {flag}
         /\ Event(wd, flag, name).name = name
BY DEF Event, Events

\* What is added at the end of a queue: the queue has nothing but what it had,
\* what is added, and the overflow.
LEMMA QueuedKeeps ==
  ASSUME NEW q, QueueOK(q), NEW s \in Seq(Events)
  PROVE  /\ QueueOK(Queued(q, s))
         /\ \A i \in DOMAIN Queued(q, s) :
              \/ \E j \in DOMAIN q : Queued(q, s)[i] = q[j]
              \/ \E j \in DOMAIN s : Queued(q, s)[i] = s[j]
              \/ Queued(q, s)[i] = Overflow
<1>. DEFINE room == IF Len(q) < MaxQueued THEN MaxQueued - Len(q) ELSE 0
            r == Queued(q, s)
<1>1. /\ q \in Seq(Events) /\ Len(q) \in Nat /\ Len(s) \in Nat /\ MaxQueued \in Nat
      /\ room \in Nat /\ Len(q) <= MaxQueued + 1 /\ Overflow \in Events
      /\ Len(q) < MaxQueued => room = MaxQueued - Len(q)
      /\ Len(q) >= MaxQueued => room = 0
  BY BoundsAssumption, OverflowEvent DEF QueueOK
<1>. HIDE DEF room
<1>2. CASE Len(s) <= room
  <2>1. r = q \o s
    BY <1>2 DEF Queued, room
  <2>2. r \in Seq(Events) /\ Len(r) = Len(q) + Len(s)
        /\ \A i \in 1 .. Len(r) : r[i] = IF i <= Len(q) THEN q[i] ELSE s[i - Len(q)]
    BY <1>1, <2>1
  <2>3. Len(s) = 0 \/ Len(r) <= MaxQueued
    BY <1>1, <1>2, <2>2
  <2>4. QueueOK(r)
    BY <1>1, <2>2, <2>3 DEF QueueOK
  <2>5. ASSUME NEW i \in DOMAIN r
        PROVE  (\E j \in DOMAIN q : r[i] = q[j]) \/ (\E j \in DOMAIN s : r[i] = s[j])
    <3>1. i \in 1 .. Len(r)
      BY <2>2
    <3>2. CASE i <= Len(q)
      <4>1. i \in DOMAIN q
        BY <1>1, <3>1, <3>2
      <4>2. r[i] = q[i]
        BY <2>2, <3>1, <3>2
      <4>. QED BY <4>1, <4>2
    <3>3. CASE i > Len(q)
      <4>1. i - Len(q) \in 1 .. Len(s)
        BY <1>1, <2>2, <3>1, <3>3
      <4>. QED BY <1>1, <2>2, <3>1, <3>3, <4>1
    <3>. QED BY <1>1, <3>1, <3>2, <3>3
  <2>. QED BY <2>4, <2>5
<1>3. CASE Len(s) > room /\ q # <<>> /\ room = 0 /\ q[Len(q)] = Overflow
  <2>1. r = q
    BY <1>1, <1>3 DEF Queued, room
  <2>. QED BY <2>1
<1>4. CASE Len(s) > room /\ ~(q # <<>> /\ room = 0 /\ q[Len(q)] = Overflow)
  <2>. DEFINE t == SubSeq(s, 1, room)
  <2>1. r = q \o t \o <<Overflow>>
    BY <1>1, <1>4 DEF Queued, room
  <2>2. t \in Seq(Events) /\ Len(t) = room /\ \A i \in 1 .. room : t[i] = s[i]
    BY <1>1, <1>4
  <2>. HIDE DEF t
  <2>3. /\ r \in Seq(Events) /\ Len(r) = Len(q) + room + 1
        /\ \A i \in 1 .. Len(r) : r[i] = IF i <= Len(q) THEN q[i]
                                         ELSE IF i <= Len(q) + room THEN t[i - Len(q)]
                                         ELSE Overflow
    <3>. DEFINE u == q \o t
    <3>1. /\ u \in Seq(Events) /\ Len(u) = Len(q) + room
          /\ \A i \in 1 .. Len(u) : u[i] = IF i <= Len(q) THEN q[i] ELSE t[i - Len(q)]
      BY <1>1, <2>2
    <3>2. r = u \o <<Overflow>>
      BY <2>1
    <3>. HIDE DEF u, r
    <3>3. /\ r \in Seq(Events) /\ Len(r) = Len(u) + 1
          /\ \A i \in 1 .. Len(r) : r[i] = IF i <= Len(u) THEN u[i] ELSE Overflow
      BY <1>1, <3>1, <3>2
    <3>. QED BY <1>1, <3>1, <3>3
  <2>4. Len(q) <= MaxQueued
    <3>1. CASE Len(q) = MaxQueued + 1
      BY <1>1, <1>4, <3>1 DEF QueueOK
    <3>. QED BY <1>1, <3>1
  <2>5. QueueOK(r)
    BY <1>1, <2>3, <2>4 DEF QueueOK
  <2>6. ASSUME NEW i \in DOMAIN r
        PROVE  \/ \E j \in DOMAIN q : r[i] = q[j]
               \/ \E j \in DOMAIN s : r[i] = s[j]
               \/ r[i] = Overflow
    <3>1. i \in 1 .. Len(r)
      BY <2>3
    <3>2. CASE i <= Len(q)
      <4>1. i \in DOMAIN q
        BY <1>1, <3>1, <3>2
      <4>2. r[i] = q[i]
        BY <2>3, <3>1, <3>2
      <4>. QED BY <4>1, <4>2
    <3>3. CASE i > Len(q) /\ i <= Len(q) + room
      <4>1. i - Len(q) \in 1 .. room /\ i - Len(q) \in DOMAIN s
        BY <1>1, <1>4, <3>1, <3>3
      <4>. QED BY <1>1, <2>2, <2>3, <3>1, <3>3, <4>1
    <3>4. CASE i > Len(q) + room
      BY <1>1, <2>3, <3>1, <3>4
    <3>. QED BY <1>1, <3>1, <3>2, <3>3, <3>4
  <2>. QED BY <2>5, <2>6
<1>. QED BY <1>1, <1>2, <1>3, <1>4

---------------------------------------------------------------------------
(***************************************************************************)
(* The inductive invariant                                                 *)
(***************************************************************************)

Requests == (Patterns \cup {Star}) \X EventSets

Watch(w) == w = [path |-> w.path, mask |-> w.mask]
Entry(k, w) ==
    /\ w = [path |-> w.path, patterns |-> w.patterns, watch |-> w.watch, mask |-> w.mask]
    /\ w.path \in Paths
    /\ w.patterns \subseteq Patterns
    /\ w.watch \in {-1} \cup k .. created

KernelType ==
    /\ exists \subseteq Paths
    /\ created \in 0 .. MaxWatches /\ changes \in 0 .. MaxChanges
    /\ DOMAIN watches \subseteq 1 .. created
    /\ \A wd \in DOMAIN watches : Watch(watches[wd])
    /\ QueueOK(queue)

MapType ==
    /\ DOMAIN f_watches \subseteq 1 .. created
    /\ \A k \in DOMAIN f_watches : Entry(k, f_watches[k])
    /\ asked \in [Paths -> SUBSET Requests]

LoopType ==
    /\ buffer \in Seq(Events)
    /\ pc \in {"idle", "read", "handle", "callback"}
    /\ dead \in {"no", "throws", "undefined"}

\* A path has one entry, and a watch of the kernel belongs to an entry.
OneEntry == \A j, k \in DOMAIN f_watches : f_watches[j].path = f_watches[k].path => j = k
Covered == \A wd \in DOMAIN watches : \E k \in DOMAIN f_watches : f_watches[k].watch = wd

\* The patterns of an entry were asked for since its path is watched.
PatternsAsked ==
    \A k \in DOMAIN f_watches :
        /\ f_watches[k].patterns = {} => \E r \in asked[f_watches[k].path] : r[1] = Star
        /\ \A pattern \in f_watches[k].patterns :
              \E r \in asked[f_watches[k].path] : r[1] = pattern

\* A watch that is the key of an entry, that is, that was never merged, has
\* flags that were asked for; and so have its events, wherever they are.
Asked(p, flag) == \E r \in asked[p] : flag \in events_to_mask(r[2])
MaskAsked ==
    \A wd \in DOMAIN watches : wd \in DOMAIN f_watches =>
        \A flag \in watches[wd].mask : Asked(f_watches[wd].path, flag)
EventAsked(e) ==
    /\ e.wd <= created
    /\ e.wd \in DOMAIN f_watches =>
         \A flag \in e.mask : flag = "IN_IGNORED" \/ Asked(f_watches[e.wd].path, flag)
QueueAsked == \A i \in DOMAIN queue : EventAsked(queue[i])
BufferAsked == \A i \in DOMAIN buffer : EventAsked(buffer[i])

Types == KernelType /\ MapType /\ LoopType
IInv == /\ Types /\ OneEntry /\ Covered
        /\ PatternsAsked /\ MaskAsked /\ QueueAsked /\ BufferAsked

\* What every step does with the map: an entry that remains is that of the
\* same path, nothing that was asked for it is forgotten, and a new one has
\* a new number.
MapStep ==
    /\ created' \in Nat /\ created <= created'
    /\ \A k \in DOMAIN f_watches' : k <= created =>
         /\ k \in DOMAIN f_watches
         /\ f_watches'[k].path = f_watches[k].path
         /\ asked[f_watches[k].path] \subseteq asked'[f_watches[k].path]

\* What an event tells stays asked for while the map changes.
LEMMA EventStays ==
  ASSUME Types, MapStep, NEW e \in Events, EventAsked(e)
  PROVE  EventAsked(e)'
<1>1. e.wd \in Nat /\ created \in Nat /\ created' \in Nat /\ e.wd <= created /\ created <= created'
  BY BoundsAssumption DEF Events, EventAsked, MapStep, Types, KernelType
<1>2. ASSUME e.wd \in DOMAIN f_watches', NEW flag \in e.mask, flag # "IN_IGNORED"
      PROVE  Asked(f_watches[e.wd].path, flag)'
  <2>1. /\ e.wd \in DOMAIN f_watches /\ f_watches'[e.wd].path = f_watches[e.wd].path
        /\ asked[f_watches[e.wd].path] \subseteq asked'[f_watches[e.wd].path]
    BY <1>1, <1>2 DEF MapStep
  <2>2. Asked(f_watches[e.wd].path, flag)
    BY <1>2, <2>1 DEF EventAsked
  <2>. QED BY <2>1, <2>2 DEF Asked
<1>. QED BY <1>1, <1>2 DEF EventAsked

\* What was read stays asked for.
LEMMA BufferStays ==
  ASSUME Types, MapStep, BufferAsked, UNCHANGED buffer
  PROVE  BufferAsked'
<1>. SUFFICES ASSUME NEW i \in DOMAIN buffer PROVE EventAsked(buffer[i])'
  BY DEF BufferAsked
<1>. QED BY EventStays DEF BufferAsked, Types, LoopType

\* What is in the queue stays asked for.
LEMMA QueueStays ==
  ASSUME Types, MapStep, QueueAsked, UNCHANGED queue
  PROVE  QueueAsked'
<1>. SUFFICES ASSUME NEW i \in DOMAIN queue PROVE EventAsked(queue[i])'
  BY DEF QueueAsked
<1>. QED BY EventStays DEF QueueAsked, Types, KernelType, QueueOK

\* The overflow of the queue may be told at any time.
LEMMA OverflowAsked == ASSUME Types, MapStep, MapType' PROVE EventAsked(Overflow)'
<1>1. Overflow.wd = 0
  BY DEF Overflow, Event, Error
<1>. QED BY <1>1, BoundsAssumption DEF EventAsked, Types, KernelType, MapType, MapStep

\* Events that were asked for at the end of the queue.
LEMMA QueueGrows ==
  ASSUME Types, MapStep, MapType', QueueAsked, NEW s \in Seq(Events),
         \A i \in DOMAIN s : EventAsked(s[i])',
         queue' = Queued(queue, s)
  PROVE  QueueOK(queue)' /\ QueueAsked'
<1>1. /\ QueueOK(queue')
      /\ \A i \in DOMAIN queue' :
           \/ \E j \in DOMAIN queue : queue'[i] = queue[j]
           \/ \E j \in DOMAIN s : queue'[i] = s[j]
           \/ queue'[i] = Overflow
  BY QueuedKeeps DEF Types, KernelType
<1>2. ASSUME NEW i \in DOMAIN queue'
      PROVE  EventAsked(queue[i])'
  <2>1. ASSUME NEW j \in DOMAIN queue, queue'[i] = queue[j]
        PROVE  EventAsked(queue[i])'
    <3>1. EventAsked(queue[j]) /\ queue[j] \in Events
      BY DEF QueueAsked, Types, KernelType, QueueOK
    <3>2. \A e : e = queue[j] => e \in Events /\ EventAsked(e)
      BY <3>1
    <3>. QED BY <2>1, <3>2, EventStays
  <2>. QED BY <1>1, <2>1, OverflowAsked
<1>. QED BY <1>1, <1>2 DEF QueueOK, QueueAsked

---------------------------------------------------------------------------
(***************************************************************************)
(* The steps                                                               *)
(***************************************************************************)

\* The counters are within their bounds.
LEMMA Bounds == ASSUME Types PROVE created \in Nat /\ created <= MaxWatches /\ changes \in Nat
BY BoundsAssumption DEF Types, KernelType

\* The map and what was asked for do not change.
LEMMA MapUnchanged ==
  ASSUME IInv, UNCHANGED <<f_watches, asked, created>>
  PROVE  MapStep /\ MapType'
BY Bounds DEF IInv, Types, MapType, Entry, MapStep

\* A step that leaves the map alone, and of the watches removes some.
LEMMA MapSame ==
  ASSUME IInv, UNCHANGED <<f_watches, asked, created>>,
         DOMAIN watches' \subseteq DOMAIN watches,
         \A wd \in DOMAIN watches' : watches'[wd].mask = watches[wd].mask
  PROVE  /\ MapStep /\ MapType' /\ OneEntry' /\ Covered' /\ PatternsAsked' /\ MaskAsked'
<1>1. OneEntry' /\ PatternsAsked' /\ Covered'
  BY DEF IInv, OneEntry, PatternsAsked, Covered
<1>2. MaskAsked'
  BY DEF IInv, MaskAsked, Asked
<1>. QED BY <1>1, <1>2, MapUnchanged

\* inotify_rm_watch() of any number.
LEMMA RmWatch ==
  ASSUME IInv, MapStep, MapType', NEW wd \in Int, inotify_rm_watch(wd)
  PROVE  /\ DOMAIN watches' \subseteq DOMAIN watches \ {wd}
         /\ \A w \in DOMAIN watches' : watches'[w] = watches[w]
         /\ QueueOK(queue)' /\ QueueAsked'
<1>1. CASE wd \in DOMAIN watches
  <2>. DEFINE s == <<Event(wd, "IN_IGNORED", Self)>>
  <2>1. wd \in Nat /\ wd <= created
    BY <1>1, Bounds DEF IInv, Types, KernelType
  <2>2. s \in Seq(Events) /\ \A i \in DOMAIN s : EventAsked(s[i])'
    <3>1. Event(wd, "IN_IGNORED", Self) \in Events
      BY <2>1, OneEvent DEF InFlags, Star
    <3>2. EventAsked(Event(wd, "IN_IGNORED", Self))'
      BY <2>1, Bounds DEF EventAsked, Event, MapStep, IInv
    <3>. QED BY <3>1, <3>2
  <2>3. queue' = Queued(queue, s) /\ watches' = [w \in DOMAIN watches \ {wd} |-> watches[w]]
    BY <1>1 DEF inotify_rm_watch
  <2>. QED BY <2>2, <2>3, QueueGrows DEF IInv
<1>2. CASE wd \notin DOMAIN watches
  <2>1. UNCHANGED <<watches, queue>>
    BY <1>2 DEF inotify_rm_watch
  <2>2. QueueOK(queue)'
    BY <2>1 DEF IInv, Types, KernelType, QueueOK
  <2>. QED BY <1>2, <2>1, <2>2, QueueStays DEF IInv
<1>. QED BY <1>1, <1>2

\* The entry of a path is forgotten, with its watch: stop_watch() and
\* IN_IGNORED.
LEMMA Forget ==
  ASSUME IInv, NEW k \in DOMAIN f_watches,
         inotify_rm_watch(f_watches[k].watch),
         f_watches' = [x \in DOMAIN f_watches \ {k} |-> f_watches[x]],
         asked' = [asked EXCEPT ![f_watches[k].path] = {}],
         UNCHANGED <<exists, created, changes>>
  PROVE  /\ KernelType' /\ MapType' /\ MapStep
         /\ OneEntry' /\ Covered' /\ PatternsAsked' /\ MaskAsked' /\ QueueAsked'
<1>1. /\ Entry(k, f_watches[k]) /\ f_watches[k].path \in Paths /\ f_watches[k].watch \in Int
      /\ asked \in [Paths -> SUBSET Requests]
      /\ DOMAIN f_watches \subseteq 1 .. created /\ created \in Nat
      /\ \A x \in DOMAIN f_watches : Entry(x, f_watches[x]) /\ f_watches[x].path \in Paths
  BY Bounds DEF IInv, Types, MapType, Entry
<1>2. /\ DOMAIN f_watches' = DOMAIN f_watches \ {k}
      /\ \A x \in DOMAIN f_watches' : f_watches'[x] = f_watches[x]
  OBVIOUS
<1>3. \A x \in DOMAIN f_watches' : asked'[f_watches[x].path] = asked[f_watches[x].path]
  BY <1>1, <1>2 DEF IInv, OneEntry
<1>4. MapType'
  <2>1. asked' \in [Paths -> SUBSET Requests]
    BY <1>1
  <2>. QED BY <1>1, <1>2, <2>1 DEF MapType, Entry
<1>5. MapStep
  BY <1>1, <1>2, <1>3 DEF MapStep
<1>6. /\ DOMAIN watches' \subseteq DOMAIN watches \ {f_watches[k].watch}
      /\ \A w \in DOMAIN watches' : watches'[w] = watches[w]
      /\ QueueOK(queue)' /\ QueueAsked'
  BY <1>1, <1>4, <1>5, RmWatch
<1>7. KernelType'
  BY <1>6 DEF IInv, Types, KernelType, Watch
<1>8. OneEntry'
  BY <1>2 DEF IInv, OneEntry
<1>9. Covered'
  BY <1>2, <1>6 DEF IInv, Covered
<1>10. PatternsAsked'
  BY <1>2, <1>3 DEF IInv, PatternsAsked
<1>11. MaskAsked'
  BY <1>2, <1>3, <1>6 DEF IInv, MaskAsked, Asked
<1>. QED BY <1>4, <1>5, <1>6, <1>7, <1>8, <1>9, <1>10, <1>11

\* stop_watch()
LEMMA StopWatchStep == ASSUME IInv, NEW p \in Paths, StopWatch(p) PROVE IInv'
<1>1. PICK k \in DOMAIN f_watches :
        /\ f_watches[k].path = p
        /\ inotify_rm_watch(f_watches[k].watch)
        /\ f_watches' = [x \in DOMAIN f_watches \ {k} |-> f_watches[x]]
  BY DEF StopWatch, KeysOf
<1>2. /\ asked' = [asked EXCEPT ![f_watches[k].path] = {}]
      /\ UNCHANGED <<exists, created, changes, buffer, pc, dead>>
  BY <1>1 DEF StopWatch
<1>3. /\ KernelType' /\ MapType' /\ MapStep
      /\ OneEntry' /\ Covered' /\ PatternsAsked' /\ MaskAsked' /\ QueueAsked'
  BY <1>1, <1>2, Forget
<1>4. BufferAsked'
  BY <1>2, <1>3, BufferStays DEF IInv
<1>5. LoopType'
  BY <1>2 DEF IInv, Types, LoopType
<1>. QED BY <1>3, <1>4, <1>5 DEF IInv, Types

\* The event loop, except for the end of an event.
LEMMA LoopStep == ASSUME IInv, Poll \/ Read \/ Tell \/ ReadAgain PROVE IInv'
<1>1. /\ UNCHANGED <<f_watches, asked, created, watches, exists, changes>>
      /\ \/ UNCHANGED <<buffer, queue>>
         \/ queue # <<>> /\ \E n \in 1 .. Len(queue) :
              buffer' = SubSeq(queue, 1, n) /\ queue' = SubSeq(queue, n + 1, Len(queue))
  BY DEF Poll, Read, Tell, ReadAgain, kernel, history
<1>2. /\ MapStep /\ MapType' /\ OneEntry' /\ Covered' /\ PatternsAsked' /\ MaskAsked'
  BY <1>1, MapSame
<1>3. pc' \in {"idle", "read", "handle", "callback"} /\ dead' \in {"no", "throws", "undefined"}
  BY DEF Poll, Read, Tell, ReadAgain, IInv, Types, LoopType
<1>4. CASE UNCHANGED <<buffer, queue>>
  <2>1. QueueAsked' /\ BufferAsked'
    BY <1>2, <1>4, QueueStays, BufferStays DEF IInv
  <2>2. Types'
    BY <1>1, <1>2, <1>3, <1>4 DEF IInv, Types, KernelType, LoopType, QueueOK, Watch
  <2>. QED BY <1>2, <2>1, <2>2 DEF IInv
<1>5. ASSUME NEW n \in 1 .. Len(queue),
             buffer' = SubSeq(queue, 1, n), queue' = SubSeq(queue, n + 1, Len(queue))
      PROVE  IInv'
  <2>1. queue \in Seq(Events) /\ Len(queue) <= MaxQueued + 1 /\ Len(queue) \in Nat /\ MaxQueued \in Nat
    BY BoundsAssumption DEF IInv, Types, KernelType, QueueOK
  <2>2. /\ buffer' \in Seq(Events) /\ Len(buffer') = n
        /\ \A i \in 1 .. n : buffer'[i] = queue[i]
    BY <1>5, <2>1
  <2>3. /\ queue' \in Seq(Events) /\ Len(queue') = Len(queue) - n
        /\ \A i \in 1 .. Len(queue) - n : queue'[i] = queue[n + i]
    BY <1>5, <2>1
  <2>4. QueueOK(queue)'
    BY <2>1, <2>3 DEF QueueOK
  <2>5. \A j \in 1 .. Len(queue) : EventAsked(queue[j]) /\ queue[j] \in Events
    BY <2>1 DEF IInv, QueueAsked
  <2>6. ASSUME NEW e, NEW j \in 1 .. Len(queue), e = queue[j]
        PROVE  EventAsked(e)'
    BY <1>2, <2>5, <2>6, EventStays DEF IInv
  <2>7. BufferAsked'
    <3>. SUFFICES ASSUME NEW i \in DOMAIN buffer' PROVE EventAsked(buffer[i])'
      BY DEF BufferAsked
    <3>1. i \in 1 .. Len(queue) /\ buffer'[i] = queue[i]
      BY <2>1, <2>2
    <3>. QED BY <2>6, <3>1
  <2>8. QueueAsked'
    <3>. SUFFICES ASSUME NEW i \in DOMAIN queue' PROVE EventAsked(queue[i])'
      BY DEF QueueAsked
    <3>1. i \in 1 .. Len(queue) - n
      BY <2>3
    <3>2. n + i \in 1 .. Len(queue) /\ queue'[i] = queue[n + i]
      BY <2>1, <2>3, <3>1
    <3>. QED BY <2>6, <3>2
  <2>9. Types'
    BY <1>1, <1>2, <1>3, <2>2, <2>4 DEF IInv, Types, KernelType, LoopType, Watch
  <2>. QED BY <1>2, <2>7, <2>8, <2>9 DEF IInv
<1>. QED BY <1>1, <1>4, <1>5

\* The end of an event: IN_IGNORED forgets the entry, an event nobody knows
\* has its watch removed.
LEMMA HandledStep == ASSUME IInv, dead = "no", Handled PROVE IInv'
<1>1. /\ buffer # <<>> /\ buffer' = Tail(buffer) /\ pc' = "handle"
      /\ UNCHANGED <<exists, created, changes>>
  BY DEF Handled
<1>2. /\ buffer \in Seq(Events) /\ Len(buffer) \in Nat /\ Len(buffer) > 0
      /\ E \in Events /\ E.wd \in Nat
  <2>1. buffer \in Seq(Events) /\ Len(buffer) \in Nat /\ Len(buffer) > 0
    BY <1>1 DEF IInv, Types, LoopType
  <2>2. E = buffer[1] /\ E \in Events
    BY <1>1, <2>1 DEF E
  <2>. QED BY <2>1, <2>2 DEF Events
<1>3. /\ buffer' \in Seq(Events) /\ Len(buffer') = Len(buffer) - 1
      /\ \A i \in 1 .. Len(buffer) - 1 : buffer'[i] = buffer[i + 1]
  BY <1>1, <1>2
<1>4. ASSUME MapStep PROVE BufferAsked'
  <2>. SUFFICES ASSUME NEW i \in DOMAIN buffer' PROVE EventAsked(buffer[i])'
    BY DEF BufferAsked
  <2>1. i \in 1 .. Len(buffer) - 1
    BY <1>3
  <2>2. i + 1 \in 1 .. Len(buffer) /\ buffer'[i] = buffer[i + 1]
    BY <1>2, <1>3, <2>1
  <2>3. \A e : e = buffer[i + 1] => e \in Events /\ EventAsked(e)
    BY <1>2, <2>2 DEF IInv, BufferAsked
  <2>. QED BY <1>4, <2>2, <2>3, EventStays DEF IInv
<1>5. dead' \in {"no", "throws", "undefined"}
  BY DEF Handled
<1>6. LoopType'
  BY <1>1, <1>3, <1>5 DEF LoopType
<1>7. CASE /\ Known /\ inotify_rm_watch(f_watches[E.wd].watch)
           /\ asked' = [asked EXCEPT ![f_watches[E.wd].path] = {}]
           /\ f_watches' = [k \in DOMAIN f_watches \ {E.wd} |-> f_watches[k]]
  <2>1. /\ KernelType' /\ MapType' /\ MapStep
        /\ OneEntry' /\ Covered' /\ PatternsAsked' /\ MaskAsked' /\ QueueAsked'
    BY <1>1, <1>7, Forget DEF Known
  <2>. QED BY <1>4, <1>6, <2>1 DEF IInv, Types
<1>8. CASE inotify_rm_watch(E.wd) /\ UNCHANGED <<f_watches, asked>>
  <2>1. MapStep /\ MapType'
    BY <1>1, <1>8, MapUnchanged
  <2>2. /\ DOMAIN watches' \subseteq DOMAIN watches
        /\ \A w \in DOMAIN watches' : watches'[w] = watches[w]
        /\ QueueOK(queue)' /\ QueueAsked'
    BY <1>2, <1>8, <2>1, RmWatch
  <2>3. OneEntry' /\ Covered' /\ PatternsAsked' /\ MaskAsked'
    BY <1>1, <1>8, <2>2, MapSame
  <2>4. KernelType'
    BY <1>1, <2>2 DEF IInv, Types, KernelType, Watch
  <2>. QED BY <1>4, <1>6, <2>1, <2>2, <2>3, <2>4 DEF IInv, Types
<1>9. CASE UNCHANGED <<watches, queue, f_watches, asked>>
  <2>1. /\ MapStep /\ MapType' /\ OneEntry' /\ Covered' /\ PatternsAsked' /\ MaskAsked'
    BY <1>1, <1>9, MapSame
  <2>2. QueueAsked'
    BY <1>9, <2>1, QueueStays DEF IInv
  <2>3. KernelType'
    BY <1>1, <1>9 DEF IInv, Types, KernelType, QueueOK, Watch
  <2>. QED BY <1>4, <1>6, <2>1, <2>2, <2>3 DEF IInv, Types
<1>. QED BY <1>7, <1>8, <1>9 DEF Handled

\* What others do to the files: the events of a watch are those of its mask.
LEMMA SeenAsked ==
  ASSUME IInv, MapStep, UNCHANGED <<f_watches, asked, created>>, NEW flag \in InFlags,
         NEW wd \in DOMAIN watches, flag \in watches[wd].mask \/ flag = "IN_IGNORED",
         NEW name \in Star
  PROVE  Event(wd, flag, name) \in Events /\ EventAsked(Event(wd, flag, name))'
<1>1. wd \in Nat /\ wd <= created
  BY Bounds DEF IInv, Types, KernelType
<1>2. wd \in DOMAIN f_watches /\ flag # "IN_IGNORED" => Asked(f_watches[wd].path, flag)
  BY DEF IInv, MaskAsked
<1>. QED BY <1>1, <1>2, OneEvent DEF EventAsked, Asked

\* All of them leave the map and the loop alone, and add some events.
LEMMA KernelSteps ==
  ASSUME IInv, UNCHANGED <<f_watches, asked, created, buffer, pc, dead>>,
         exists' \subseteq Paths, changes' \in 0 .. MaxChanges,
         DOMAIN watches' \subseteq DOMAIN watches,
         \A wd \in DOMAIN watches' : Watch(watches'[wd]) /\ watches'[wd].mask = watches[wd].mask,
         \/ UNCHANGED queue
         \/ \E s \in Seq(Events) :
              queue' = Queued(queue, s) /\ \A i \in DOMAIN s : EventAsked(s[i])'
  PROVE  IInv'
<1>1. /\ MapStep /\ MapType' /\ OneEntry' /\ Covered' /\ PatternsAsked' /\ MaskAsked'
  BY MapSame
<1>2. QueueOK(queue)' /\ QueueAsked'
  <2>1. CASE UNCHANGED queue
    BY <1>1, <2>1, QueueStays DEF IInv, Types, KernelType, QueueOK
  <2>2. CASE ~UNCHANGED queue
    BY <1>1, <2>2, QueueGrows DEF IInv
  <2>. QED BY <2>1, <2>2
<1>3. BufferAsked'
  BY <1>1, BufferStays DEF IInv
<1>4. KernelType'
  BY <1>2 DEF IInv, Types, KernelType
<1>5. LoopType'
  BY DEF IInv, Types, LoopType
<1>. QED BY <1>1, <1>2, <1>3, <1>4, <1>5 DEF IInv, Types

\* A file is created or written in a watched directory.
LEMMA ChangeStep ==
  ASSUME IInv, NEW p \in Paths, NEW name \in Files, NEW flag \in {"IN_CREATE", "IN_CLOSE_WRITE"},
         Change(p, name, flag)
  PROVE  IInv'
<1>1. /\ UNCHANGED <<exists, watches, f_watches, asked, created, buffer, pc, dead>>
      /\ changes' = changes + 1 /\ changes < MaxChanges
  BY DEF Change
<1>2. PICK wd \in Seen(p, flag) : queue' = Queued(queue, <<Event(wd, flag, name)>>)
  BY DEF Change
<1>3. MapStep
  BY <1>1, MapUnchanged
<1>4. Event(wd, flag, name) \in Events /\ EventAsked(Event(wd, flag, name))'
  BY <1>1, <1>2, <1>3, SeenAsked DEF Seen, InFlags, Star
<1>5. \E s \in Seq(Events) : queue' = Queued(queue, s) /\ \A i \in DOMAIN s : EventAsked(s[i])'
  <2>. DEFINE s == <<Event(wd, flag, name)>>
  <2>1. s \in Seq(Events) /\ queue' = Queued(queue, s) /\ \A i \in DOMAIN s : s[i] = Event(wd, flag, name)
    BY <1>2, <1>4
  <2>. QED BY <1>4, <2>1
<1>6. changes' \in 0 .. MaxChanges
  BY <1>1, BoundsAssumption, Bounds DEF IInv
<1>7. exists' \subseteq Paths /\ \A w \in DOMAIN watches' : Watch(watches'[w])
  BY <1>1 DEF IInv, Types, KernelType, Watch
<1>. QED BY <1>1, <1>5, <1>6, <1>7, KernelSteps

\* A watched path is renamed.
LEMMA RenameStep == ASSUME IInv, NEW p \in Paths, Rename(p) PROVE IInv'
<1>1. /\ UNCHANGED <<f_watches, asked, created, buffer, pc, dead>>
      /\ changes' = changes + 1 /\ changes < MaxChanges
      /\ exists' = exists \ {p}
      /\ watches' = [wd \in DOMAIN watches |->
                       IF watches[wd].path = p THEN [watches[wd] EXCEPT !.path = Elsewhere]
                       ELSE watches[wd]]
  BY DEF Rename, history
<1>2. \A wd \in DOMAIN watches' : Watch(watches'[wd]) /\ watches'[wd].mask = watches[wd].mask
  <2>1. \A w : Watch(w) => LET v == [w EXCEPT !.path = Elsewhere]
                           IN  Watch(v) /\ v.mask = w.mask
    BY DEF Watch
  <2>. QED BY <1>1, <2>1 DEF IInv, Types, KernelType
<1>3. MapStep
  BY <1>1, MapUnchanged
<1>4. \/ UNCHANGED queue
      \/ \E s \in Seq(Events) :
              queue' = Queued(queue, s) /\ \A i \in DOMAIN s : EventAsked(s[i])'
  <2>1. CASE \E wd \in Seen(p, "IN_MOVE_SELF") :
               queue' = Queued(queue, <<Event(wd, "IN_MOVE_SELF", Self)>>)
    <3>1. PICK wd \in Seen(p, "IN_MOVE_SELF") :
               queue' = Queued(queue, <<Event(wd, "IN_MOVE_SELF", Self)>>)
      BY <2>1
    <3>. DEFINE s == <<Event(wd, "IN_MOVE_SELF", Self)>>
    <3>2. Event(wd, "IN_MOVE_SELF", Self) \in Events /\ EventAsked(Event(wd, "IN_MOVE_SELF", Self))'
      BY <1>1, <1>3, SeenAsked DEF Seen, InFlags, Star
    <3>3. s \in Seq(Events) /\ \A i \in DOMAIN s : s[i] = Event(wd, "IN_MOVE_SELF", Self)
      BY <3>2
    <3>. QED BY <3>1, <3>2, <3>3
  <2>. QED BY <2>1 DEF Rename
<1>5. changes' \in 0 .. MaxChanges /\ exists' \subseteq Paths /\ DOMAIN watches' = DOMAIN watches
  BY <1>1, BoundsAssumption, Bounds DEF IInv, Types, KernelType
<1>. QED BY <1>1, <1>2, <1>4, <1>5, KernelSteps

\* A watched path is deleted.
LEMMA DeleteStep == ASSUME IInv, NEW p \in Paths, Delete(p) PROVE IInv'
<1>. DEFINE of == {wd \in DOMAIN watches : watches[wd].path = p}
            Told(wd) == IF wd \in Seen(p, "IN_DELETE_SELF")
                          THEN <<Event(wd, "IN_DELETE_SELF", Self)>> ELSE <<>>
<1>1. /\ UNCHANGED <<f_watches, asked, created, buffer, pc, dead>>
      /\ changes' = changes + 1 /\ changes < MaxChanges
      /\ exists' = exists \ {p}
      /\ \/ UNCHANGED <<watches, queue>>
         \/ \E wd \in of :
              /\ watches' = [w \in DOMAIN watches \ {wd} |-> watches[w]]
              /\ queue' = Queued(queue, Told(wd) \o <<Event(wd, "IN_IGNORED", Self)>>)
  BY DEF Delete, history
<1>2. /\ DOMAIN watches' \subseteq DOMAIN watches
      /\ \A wd \in DOMAIN watches' : Watch(watches'[wd]) /\ watches'[wd].mask = watches[wd].mask
  <2>1. /\ DOMAIN watches' \subseteq DOMAIN watches
        /\ \A wd \in DOMAIN watches' : watches'[wd] = watches[wd]
    BY <1>1
  <2>. QED BY <2>1 DEF IInv, Types, KernelType, Watch
<1>3. MapStep
  BY <1>1, MapUnchanged
<1>4. ASSUME NEW wd \in of
      PROVE  \E s \in Seq(Events) :
                /\ s = Told(wd) \o <<Event(wd, "IN_IGNORED", Self)>>
                /\ \A i \in DOMAIN s : EventAsked(s[i])'
  <2>1. PICK e \in Events : e = Event(wd, "IN_IGNORED", Self) /\ EventAsked(e)'
    BY <1>1, <1>3, SeenAsked DEF InFlags, Star
  <2>2. CASE wd \in Seen(p, "IN_DELETE_SELF")
    <3>1. PICK d \in Events : d = Event(wd, "IN_DELETE_SELF", Self) /\ EventAsked(d)'
      BY <1>1, <1>3, <2>2, SeenAsked DEF Seen, InFlags, Star
    <3>2. <<d>> \in Seq(Events) /\ <<e>> \in Seq(Events)
      OBVIOUS
    <3>3. PICK s : s = <<d>> \o <<e>>
      OBVIOUS
    <3>4. s \in Seq(Events) /\ Len(s) = 2 /\ s[1] = d /\ s[2] = e
      BY <3>2, <3>3
    <3>5. \A i \in DOMAIN s : s[i] = d \/ s[i] = e
      BY <3>4
    <3>6. \A i \in DOMAIN s : EventAsked(s[i])'
      BY <2>1, <3>1, <3>5
    <3>. QED BY <2>1, <2>2, <3>1, <3>3, <3>4, <3>6
  <2>3. CASE wd \notin Seen(p, "IN_DELETE_SELF")
    <3>1. PICK s : s = <<>> \o <<e>>
      OBVIOUS
    <3>2. s \in Seq(Events) /\ Len(s) = 1 /\ s[1] = e
      BY <3>1
    <3>3. \A i \in DOMAIN s : s[i] = e
      BY <3>2
    <3>4. \A i \in DOMAIN s : EventAsked(s[i])'
      BY <2>1, <3>3
    <3>. QED BY <2>1, <2>3, <3>1, <3>2, <3>4
  <2>. QED BY <2>2, <2>3
<1>5. \/ UNCHANGED queue
      \/ \E s \in Seq(Events) :
              queue' = Queued(queue, s) /\ \A i \in DOMAIN s : EventAsked(s[i])'
  <2>1. ASSUME NEW wd \in of, queue' = Queued(queue, Told(wd) \o <<Event(wd, "IN_IGNORED", Self)>>)
        PROVE  \E s \in Seq(Events) :
              queue' = Queued(queue, s) /\ \A i \in DOMAIN s : EventAsked(s[i])'
    <3>1. PICK s \in Seq(Events) : /\ s = Told(wd) \o <<Event(wd, "IN_IGNORED", Self)>>
                                   /\ \A i \in DOMAIN s : EventAsked(s[i])'
      BY <1>4
    <3>2. queue' = Queued(queue, s)
      BY <2>1, <3>1
    <3>. QED BY <3>1, <3>2
  <2>. QED BY <1>1, <2>1
<1>6. changes' \in 0 .. MaxChanges /\ exists' \subseteq Paths
  BY <1>1, BoundsAssumption, Bounds DEF IInv, Types, KernelType
<1>. QED BY <1>1, <1>2, <1>5, <1>6, KernelSteps

\* A path exists again.
LEMMA CreateStep == ASSUME IInv, NEW p \in Paths, Create(p) PROVE IInv'
<1>1. /\ UNCHANGED <<watches, queue, f_watches, asked, created, buffer, pc, dead>>
      /\ changes' = changes + 1 /\ changes < MaxChanges /\ exists' = exists \cup {p}
  BY DEF Create, history
<1>2. changes' \in 0 .. MaxChanges /\ exists' \subseteq Paths
  BY <1>1, BoundsAssumption, Bounds DEF IInv, Types, KernelType
<1>3. \A wd \in DOMAIN watches' : Watch(watches'[wd]) /\ watches'[wd].mask = watches[wd].mask
  BY <1>1 DEF IInv, Types, KernelType, Watch
<1>. QED BY <1>1, <1>2, <1>3, KernelSteps

\* A new watch has a new number: no event has it yet. Its path had no entry.
LEMMA NewWatchStep ==
  ASSUME IInv, NEW p \in Paths, NEW pattern \in Patterns \cup {Star}, NEW events \in EventSets,
         NewWatch(p, pattern, events)
  PROVE  IInv'
<1>0. PICK n : n = created + 1
  OBVIOUS
<1>. DEFINE entry == [path |-> p, patterns |-> PatternSet(pattern), watch |-> n,
                      mask |-> events_to_mask(events)]
            watch == [path |-> p, mask |-> events_to_mask(events)]
<1>1. /\ UNCHANGED <<exists, changes, buffer, pc, dead, queue>>
      /\ created' = n /\ created < MaxWatches
      /\ \A k \in DOMAIN f_watches : f_watches[k].path # p
      /\ asked' = [asked EXCEPT ![p] = {<<pattern, events>>}]
  BY <1>0 DEF NewWatch, AddWatch, KeysOf
<1>2. /\ DOMAIN watches' = DOMAIN watches \cup {n}
      /\ watches'[n] = watch
      /\ \A w \in DOMAIN watches : w # n => watches'[w] = watches[w]
  BY <1>0 DEF NewWatch, AddWatch
<1>3. /\ DOMAIN f_watches' = DOMAIN f_watches \cup {n}
      /\ f_watches'[n] = entry
      /\ \A k \in DOMAIN f_watches : k # n => f_watches'[k] = f_watches[k]
  BY <1>0 DEF NewWatch
<1>4. /\ created \in Nat /\ MaxWatches \in Nat
      /\ DOMAIN watches \subseteq 1 .. created /\ DOMAIN f_watches \subseteq 1 .. created
      /\ n \notin DOMAIN watches /\ n \notin DOMAIN f_watches
  BY <1>0, Bounds, BoundsAssumption DEF IInv, Types, KernelType, MapType
<1>5. /\ asked \in [Paths -> SUBSET Requests] /\ asked' \in [Paths -> SUBSET Requests]
      /\ asked'[p] = {<<pattern, events>>}
      /\ \A q \in Paths : q # p => asked'[q] = asked[q]
  BY <1>1 DEF IInv, Types, MapType, Requests
<1>6. n \in Nat /\ n > created /\ n = created + 1
  BY <1>0, <1>4
<1>7. KernelType'
  <2>1. DOMAIN watches' \subseteq 1 .. created' /\ created' \in 0 .. MaxWatches
    BY <1>1, <1>2, <1>4, <1>6
  <2>2. \A wd \in DOMAIN watches' : Watch(watches'[wd])
    BY <1>2, <1>4 DEF Watch, IInv, Types, KernelType
  <2>. QED BY <1>1, <2>1, <2>2 DEF IInv, Types, KernelType, QueueOK
<1>8. MapType'
  <2>1. PatternSet(pattern) \subseteq Patterns
    BY DEF PatternSet
  <2>2. Entry(n, entry)'
    BY <1>1, <1>6, <2>1 DEF Entry
  <2>3. ASSUME NEW k \in DOMAIN f_watches
        PROVE  f_watches'[k] = f_watches[k] /\ Entry(k, f_watches[k])'
    <3>1. f_watches'[k] = f_watches[k] /\ Entry(k, f_watches[k]) /\ k \in Nat /\ k <= created
      BY <1>3, <1>4 DEF IInv, Types, MapType
    <3>. QED BY <1>1, <1>4, <1>6, <3>1 DEF Entry
  <2>4. \A k \in DOMAIN f_watches' : Entry(k, f_watches[k])'
    BY <1>3, <2>2, <2>3
  <2>5. DOMAIN f_watches' \subseteq 1 .. created'
    BY <1>1, <1>3, <1>4, <1>6
  <2>. QED BY <1>5, <2>4, <2>5 DEF MapType
<1>9. \A k \in DOMAIN f_watches : /\ f_watches[k].path \in Paths /\ k # n
                                  /\ asked'[f_watches[k].path] = asked[f_watches[k].path]
                                  /\ f_watches'[k] = f_watches[k]
  BY <1>1, <1>3, <1>4, <1>5 DEF IInv, Types, MapType, Entry
<1>10. MapStep
  BY <1>1, <1>3, <1>4, <1>6, <1>9 DEF MapStep
<1>11. OneEntry'
  BY <1>1, <1>3, <1>9 DEF IInv, OneEntry
<1>12. Covered'
  <2>1. f_watches'[n].watch = n
    BY <1>3
  <2>. QED BY <1>2, <1>3, <1>9, <2>1 DEF IInv, Covered
<1>13. PatternsAsked'
  <2>1. \A q \in PatternSet(pattern) : q = pattern
    BY DEF PatternSet
  <2>2. PatternSet(pattern) = {} => pattern = Star
    BY DEF PatternSet
  <2>3. f_watches'[n].path = p /\ f_watches'[n].patterns = PatternSet(pattern)
    BY <1>3
  <2>4. <<pattern, events>> \in asked'[p] /\ <<pattern, events>>[1] = pattern
    BY <1>5
  <2>5. ASSUME NEW k \in DOMAIN f_watches'
        PROVE  /\ f_watches'[k].patterns = {} => \E r \in asked'[f_watches'[k].path] : r[1] = Star
               /\ \A q \in f_watches'[k].patterns : \E r \in asked'[f_watches'[k].path] : r[1] = q
    <3>1. CASE k = n
      BY <2>1, <2>2, <2>3, <2>4, <3>1
    <3>2. CASE k # n
      BY <1>3, <1>9, <3>2 DEF IInv, PatternsAsked
    <3>. QED BY <3>1, <3>2
  <2>. QED BY <2>5 DEF PatternsAsked
<1>14. MaskAsked'
  <2>1. f_watches'[n].path = p /\ watches'[n].mask = events_to_mask(events)
    BY <1>2, <1>3
  <2>2. <<pattern, events>> \in asked'[p] /\ <<pattern, events>>[2] = events
    BY <1>5
  <2>3. ASSUME NEW wd \in DOMAIN watches', wd \in DOMAIN f_watches',
               NEW flag \in watches'[wd].mask
        PROVE  \E r \in asked'[f_watches'[wd].path] : flag \in events_to_mask(r[2])
    <3>1. CASE wd = n
      BY <2>1, <2>2, <2>3, <3>1
    <3>2. CASE wd # n
      <4>1. wd \in DOMAIN watches /\ wd \in DOMAIN f_watches /\ watches'[wd] = watches[wd]
        BY <1>2, <1>3, <2>3, <3>2
      <4>. QED BY <1>9, <2>3, <4>1 DEF IInv, MaskAsked, Asked
    <3>. QED BY <3>1, <3>2
  <2>. QED BY <2>3 DEF MaskAsked, Asked
<1>15. QueueAsked' /\ BufferAsked'
  BY <1>1, <1>10, QueueStays, BufferStays DEF IInv
<1>16. LoopType'
  BY <1>1 DEF IInv, Types, LoopType
<1>. QED BY <1>7, <1>8, <1>11, <1>12, <1>13, <1>14, <1>15, <1>16 DEF IInv, Types

\* The map keeps the old number as the key: the watch with the new number is
\* no key, and nothing that is asked for is forgotten.
LEMMA MergeWatchStep ==
  ASSUME IInv, NEW p \in Paths, NEW pattern \in Patterns \cup {Star}, NEW events \in EventSets,
         MergeWatch(p, pattern, events)
  PROVE  IInv'
<1>1. /\ UNCHANGED <<exists, changes, buffer, pc>>
      /\ created < MaxWatches
      /\ asked' = [asked EXCEPT ![p] = @ \cup {<<pattern, events>>}]
  BY DEF MergeWatch
<1>0. PICK n : n = created + 1
  OBVIOUS
<1>. DEFINE Gone(k) == f_watches[k].watch
            Old(k) == [x \in DOMAIN watches \ {Gone(k)} |-> watches[x]]
            Q(k) == IF Gone(k) \in DOMAIN watches
                      THEN Queued(queue, <<Event(Gone(k), "IN_IGNORED", Self)>>) ELSE queue
            Mask(k) == f_watches[k].mask \cup events_to_mask(events)
            Pats(k) == IF f_watches[k].patterns = {} \/ pattern = Star THEN {}
                       ELSE f_watches[k].patterns \cup {pattern}
            Entry2(k) == [f_watches[k] EXCEPT !.patterns = Pats(k), !.mask = Mask(k)]
<1>2. PICK k \in KeysOf(p) :
        /\ queue' = Q(k)
        /\ \/ /\ AddWatch(p, Mask(k), Q(k), Old(k))
              /\ f_watches' = [f_watches EXCEPT ![k] = [Entry2(k) EXCEPT !.watch = n]]
              /\ UNCHANGED dead
           \/ /\ watches' = Old(k)
              /\ f_watches' = [f_watches EXCEPT ![k] = [Entry2(k) EXCEPT !.watch = -1]]
              /\ dead' \in {"no", "throws"}
              /\ UNCHANGED created
  BY <1>0, Zenon DEF MergeWatch, AddWatch
<1>3. /\ k \in DOMAIN f_watches /\ f_watches[k].path = p /\ Entry(k, f_watches[k])
      /\ created \in Nat /\ MaxWatches \in Nat /\ k \in Nat /\ k <= created
      /\ DOMAIN watches \subseteq 1 .. created /\ DOMAIN f_watches \subseteq 1 .. created
      /\ n \notin DOMAIN watches /\ n \notin DOMAIN f_watches
      /\ Gone(k) \in Int
  BY <1>0, Bounds, BoundsAssumption DEF KeysOf, IInv, Types, KernelType, MapType, Entry
<1>4. /\ created' \in {created, n} /\ created' \in Nat /\ created <= created' /\ created' <= MaxWatches
      /\ dead' \in {dead, "no", "throws"}
  BY <1>0, <1>1, <1>2, <1>3 DEF AddWatch
<1>5. PICK v \in {n, -1} :
        /\ f_watches' = [f_watches EXCEPT ![k] = [Entry2(k) EXCEPT !.watch = v]]
        /\ v = n => /\ created' = n
                    /\ watches' = [w \in DOMAIN Old(k) \cup {n} |->
                                     IF w = n THEN [path |-> p, mask |-> Mask(k)] ELSE Old(k)[w]]
        /\ v # n => watches' = Old(k)
  <2>1. n # -1
    BY <1>0, <1>3
  <2>. QED BY <1>0, <1>2, <2>1 DEF AddWatch
<1>6. /\ DOMAIN watches' \subseteq (DOMAIN watches \ {Gone(k)}) \cup {n}
      /\ \A w \in DOMAIN watches' : w # n => w \in DOMAIN watches /\ watches'[w] = watches[w]
      /\ n \in DOMAIN watches' => v = n /\ watches'[n] = [path |-> p, mask |-> Mask(k)]
  <2>. HIDE DEF Mask, Gone
  <2>1. /\ DOMAIN Old(k) = DOMAIN watches \ {Gone(k)}
        /\ \A x \in DOMAIN Old(k) : Old(k)[x] = watches[x]
    OBVIOUS
  <2>. HIDE DEF Old
  <2>. QED BY <1>3, <1>5, <2>1
<1>7. LET u == f_watches'[k]
      IN  /\ u.path = p /\ u.patterns = Pats(k) /\ u.watch = v
          /\ u = [path |-> u.path, patterns |-> u.patterns, watch |-> u.watch, mask |-> u.mask]
  <2>1. f_watches'[k] = [Entry2(k) EXCEPT !.watch = v]
    BY <1>3, <1>5
  <2>. HIDE DEF Mask, Pats
  <2>2. PICK x, y, z : f_watches[k] = [path |-> p, patterns |-> x, watch |-> y, mask |-> z]
    BY <1>3 DEF Entry
  <2>3. Entry2(k) = [path |-> p, patterns |-> Pats(k), watch |-> y, mask |-> Mask(k)]
    <3>1. PICK u : u = [f_watches[k] EXCEPT !.patterns = Pats(k)]
      OBVIOUS
    <3>2. u = [path |-> p, patterns |-> Pats(k), watch |-> y, mask |-> z]
      BY <2>2, <3>1
    <3>3. [u EXCEPT !.mask = Mask(k)]
             = [path |-> p, patterns |-> Pats(k), watch |-> y, mask |-> Mask(k)]
      BY <3>2
    <3>4. Entry2(k) = [u EXCEPT !.mask = Mask(k)]
      BY <3>1, Zenon
    <3>. QED BY <3>3, <3>4, Zenon
  <2>. HIDE DEF Entry2
  <2>4. f_watches'[k] = [path |-> p, patterns |-> Pats(k), watch |-> v, mask |-> Mask(k)]
    BY <2>1, <2>3
  <2>. QED BY <2>4
<1>8. /\ DOMAIN f_watches' = DOMAIN f_watches
      /\ \A x \in DOMAIN f_watches : x # k => f_watches'[x] = f_watches[x]
  BY <1>5
<1>. HIDE DEF Entry2, Old, Mask
<1>9. /\ asked \in [Paths -> SUBSET Requests] /\ asked' \in [Paths -> SUBSET Requests]
      /\ asked'[p] = asked[p] \cup {<<pattern, events>>}
      /\ \A q \in Paths : asked[q] \subseteq asked'[q]
  BY <1>1 DEF IInv, Types, MapType, Requests
<1>10. \A x \in DOMAIN f_watches : f_watches'[x].path = f_watches[x].path /\ f_watches[x].path \in Paths
  BY <1>3, <1>7, <1>8 DEF IInv, Types, MapType, Entry
<1>11. MapStep
  BY <1>4, <1>8, <1>9, <1>10 DEF MapStep
<1>12. n \in Nat /\ n = created + 1 /\ v \in {-1} \cup k .. created'
  BY <1>0, <1>3, <1>4, <1>5
<1>13. MapType'
  <2>1. Pats(k) \subseteq Patterns
    BY <1>3 DEF Entry
  <2>2. Entry(k, f_watches[k])'
    BY <1>7, <1>12, <2>1 DEF Entry
  <2>3. ASSUME NEW x \in DOMAIN f_watches, x # k
        PROVE  Entry(x, f_watches[x])'
    <3>1. f_watches'[x] = f_watches[x] /\ Entry(x, f_watches[x]) /\ x \in Nat
      BY <1>3, <1>8, <2>3 DEF IInv, Types, MapType
    <3>. QED BY <1>3, <1>4, <3>1 DEF Entry
  <2>4. DOMAIN f_watches' \subseteq 1 .. created'
    BY <1>3, <1>4, <1>8
  <2>. QED BY <1>8, <1>9, <2>2, <2>3, <2>4 DEF MapType
<1>14. QueueOK(queue)' /\ QueueAsked'
  <2>1. CASE Gone(k) \in DOMAIN watches
    <3>1. Gone(k) \in Nat /\ Gone(k) <= created
      BY <1>3, <2>1
    <3>2. PICK e \in Events : e = Event(Gone(k), "IN_IGNORED", Self)
                             /\ e.wd = Gone(k) /\ e.mask = {"IN_IGNORED"}
      BY <3>1, OneEvent DEF InFlags, Star
    <3>3. EventAsked(e)'
      BY <1>3, <1>4, <3>1, <3>2 DEF EventAsked
    <3>4. PICK s : s = <<e>> /\ s \in Seq(Events)
      <4>1. <<e>> \in Seq(Events)
        OBVIOUS
      <4>. QED BY <4>1
    <3>5. \A i \in DOMAIN s : EventAsked(s[i])'
      BY <3>3, <3>4
    <3>6. queue' = Queued(queue, s)
      BY <1>2, <2>1, <3>2, <3>4
    <3>. QED BY <1>11, <1>13, <3>4, <3>5, <3>6, QueueGrows DEF IInv
  <2>2. CASE Gone(k) \notin DOMAIN watches
    <3>1. UNCHANGED queue
      BY <1>2, <2>2
    <3>. QED BY <1>11, <3>1, QueueStays DEF IInv, Types, KernelType, QueueOK
  <2>. QED BY <2>1, <2>2
<1>15. KernelType'
  <2>1. DOMAIN watches' \subseteq 1 .. created'
    BY <1>3, <1>4, <1>5, <1>6, <1>12
  <2>2. \A wd \in DOMAIN watches' : Watch(watches'[wd])
    BY <1>6 DEF Watch, IInv, Types, KernelType
  <2>3. created' \in 0 .. MaxWatches
    BY <1>3, <1>4
  <2>. QED BY <1>1, <1>14, <2>1, <2>2, <2>3 DEF IInv, Types, KernelType
<1>16. OneEntry'
  BY <1>8, <1>10 DEF IInv, OneEntry
<1>17. Covered'
  <2>. SUFFICES ASSUME NEW wd \in DOMAIN watches'
                PROVE  \E x \in DOMAIN f_watches' : f_watches'[x].watch = wd
    BY DEF Covered
  <2>1. CASE wd = n
    BY <1>3, <1>6, <1>7, <1>8, <2>1
  <2>2. CASE wd # n
    <3>1. wd \in DOMAIN watches /\ wd # Gone(k)
      BY <1>6, <2>2
    <3>2. PICK x \in DOMAIN f_watches : f_watches[x].watch = wd
      BY <3>1 DEF IInv, Covered
    <3>3. x # k
      BY <3>1, <3>2
    <3>. QED BY <1>8, <3>2, <3>3
  <2>. QED BY <2>1, <2>2
<1>18. PatternsAsked'
  <2>. SUFFICES ASSUME NEW x \in DOMAIN f_watches
                PROVE  /\ f_watches'[x].patterns = {} =>
                              \E r \in asked'[f_watches'[x].path] : r[1] = Star
                       /\ \A q \in f_watches'[x].patterns :
                              \E r \in asked'[f_watches'[x].path] : r[1] = q
    BY <1>8 DEF PatternsAsked
  <2>1. CASE x # k
    BY <1>8, <1>9, <1>10, <2>1 DEF IInv, PatternsAsked
  <2>2. CASE x = k
    <3>1. <<pattern, events>> \in asked'[p] /\ <<pattern, events>>[1] = pattern
      BY <1>9
    <3>2. asked[p] \subseteq asked'[p]
      BY <1>9
    <3>. QED BY <1>3, <1>7, <2>2, <3>1, <3>2 DEF IInv, PatternsAsked
  <2>. QED BY <2>1, <2>2
<1>19. MaskAsked'
  <2>. SUFFICES ASSUME NEW wd \in DOMAIN watches', wd \in DOMAIN f_watches,
                       NEW flag \in watches'[wd].mask
                PROVE  \E r \in asked'[f_watches'[wd].path] : flag \in events_to_mask(r[2])
    BY <1>8 DEF MaskAsked, Asked
  <2>1. wd \in DOMAIN watches /\ watches'[wd] = watches[wd]
    BY <1>3, <1>6
  <2>. QED BY <1>9, <1>10, <2>1 DEF IInv, MaskAsked, Asked
<1>20. BufferAsked'
  BY <1>1, <1>11, BufferStays DEF IInv
<1>21. LoopType'
  BY <1>1, <1>4 DEF IInv, Types, LoopType
<1>. QED BY <1>13, <1>14, <1>15, <1>16, <1>17, <1>18, <1>19, <1>20, <1>21 DEF IInv, Types

---------------------------------------------------------------------------
(***************************************************************************)
(* The theorems                                                            *)
(***************************************************************************)

\* The invariant holds at first.
LEMMA InitIInv == Init => IInv
<1>. SUFFICES ASSUME Init PROVE IInv
  OBVIOUS
<1>1. DOMAIN watches = {} /\ DOMAIN f_watches = {} /\ DOMAIN queue = {} /\ DOMAIN buffer = {}
  BY DEF Init
<1>2. QueueOK(queue) /\ buffer \in Seq(Events)
  BY BoundsAssumption DEF Init, QueueOK
<1>3. KernelType /\ LoopType
  BY <1>1, <1>2, BoundsAssumption DEF Init, KernelType, LoopType
<1>4. MapType
  BY <1>1 DEF Init, MapType
<1>5. OneEntry /\ Covered /\ PatternsAsked /\ MaskAsked /\ QueueAsked /\ BufferAsked
  BY <1>1 DEF OneEntry, Covered, PatternsAsked, MaskAsked, QueueAsked, BufferAsked
<1>. QED BY <1>3, <1>4, <1>5 DEF IInv, Types

\* Every step keeps the invariant.
LEMMA NextIInv == IInv /\ [Next]_vars => IInv'
<1>. SUFFICES ASSUME IInv, [Next]_vars PROVE IInv'
  OBVIOUS
<1>1. CASE EventLoop
  BY <1>1, LoopStep, HandledStep DEF EventLoop
<1>2. ASSUME NEW p \in Paths, NEW name \in Files, NEW flag \in {"IN_CREATE", "IN_CLOSE_WRITE"},
             Change(p, name, flag)
      PROVE  IInv'
  BY <1>2, ChangeStep
<1>3. ASSUME NEW p \in Paths, Rename(p) \/ Delete(p) \/ Create(p) \/ StopWatch(p)
      PROVE  IInv'
  BY <1>3, RenameStep, DeleteStep, CreateStep, StopWatchStep
<1>4. ASSUME NEW p \in Paths, NEW pattern \in Patterns \cup {Star}, NEW events \in EventSets,
             NewWatch(p, pattern, events) \/ MergeWatch(p, pattern, events)
      PROVE  IInv'
  BY <1>4, NewWatchStep, MergeWatchStep
<1>5. CASE UNCHANGED vars
  <2>1. /\ MapStep /\ MapType' /\ OneEntry' /\ Covered' /\ PatternsAsked' /\ MaskAsked'
    BY <1>5, MapSame DEF vars
  <2>2. QueueAsked' /\ BufferAsked'
    BY <1>5, <2>1, QueueStays, BufferStays DEF vars, IInv
  <2>3. KernelType' /\ LoopType'
    BY <1>5 DEF vars, IInv, Types, KernelType, LoopType, QueueOK, Watch
  <2>. QED BY <2>1, <2>2, <2>3 DEF IInv, Types
<1>. QED BY <1>1, <1>2, <1>3, <1>4, <1>5 DEF Next

\* The inductive invariant of the map, of the watches of the kernel and of
\* the events in the queue and in the buffer (file_changed.cpp:344-731).
THEOREM Invariance == Spec => []IInv
BY InitIInv, NextIInv, PTL DEF Spec

\* The key of an entry is the number of its watch until its path is watched
\* again.
Keyed == \A k \in DOMAIN f_watches : f_watches[k].watch = k \/ f_watches[k].path \in merged

\* Every step keeps the keys.
LEMMA NextKeyed ==
  ASSUME IInv, Keyed, [Next]_vars
  PROVE  Keyed'
<1>1. CASE UNCHANGED <<f_watches, merged>>
  BY <1>1 DEF Keyed
<1>2. ASSUME NEW p \in Paths, NEW pattern \in Patterns \cup {Star}, NEW events \in EventSets,
             NewWatch(p, pattern, events)
      PROVE  Keyed'
  <2>1. PICK n : n = created + 1
    OBVIOUS
  <2>2. PICK w : w = [path |-> p, patterns |-> PatternSet(pattern), watch |-> n,
                      mask |-> events_to_mask(events)]
    OBVIOUS
  <2>3. /\ DOMAIN f_watches' = DOMAIN f_watches \cup {n}
        /\ f_watches'[n] = w
        /\ \A k \in DOMAIN f_watches : k # n => f_watches'[k] = f_watches[k]
        /\ merged' = merged \ {p}
        /\ KeysOf(p) = {}
    BY <1>2, <2>1, <2>2 DEF NewWatch
  <2>4. w.watch = n
    BY <2>2
  <2>. SUFFICES ASSUME NEW k \in DOMAIN f_watches'
                PROVE  f_watches'[k].watch = k \/ f_watches'[k].path \in merged'
    BY DEF Keyed
  <2>5. CASE k = n
    BY <2>3, <2>4, <2>5
  <2>6. CASE k # n
    <3>1. k \in DOMAIN f_watches /\ f_watches'[k] = f_watches[k] /\ f_watches[k].path # p
      BY <2>3, <2>6 DEF KeysOf
    <3>. QED BY <2>3, <3>1 DEF Keyed
  <2>. QED BY <2>5, <2>6
<1>3. ASSUME NEW p \in Paths, NEW pattern \in Patterns \cup {Star}, NEW events \in EventSets,
             MergeWatch(p, pattern, events)
      PROVE  Keyed'
  <2>1. merged' = merged \cup {p}
    BY <1>3 DEF MergeWatch
  <2>2. PICK k \in KeysOf(p) : \E x : \E v : \E ps : \E m :
          /\ x = [[f_watches[k] EXCEPT !.patterns = ps, !.mask = m] EXCEPT !.watch = v]
          /\ f_watches' = [f_watches EXCEPT ![k] = x]
    BY <1>3, Zenon DEF MergeWatch
  <2>3. PICK x, v, ps, m :
          /\ x = [[f_watches[k] EXCEPT !.patterns = ps, !.mask = m] EXCEPT !.watch = v]
          /\ f_watches' = [f_watches EXCEPT ![k] = x]
    BY <2>2
  <2>4. k \in DOMAIN f_watches /\ f_watches[k].path = p /\ Entry(k, f_watches[k])
    BY DEF KeysOf, IInv, Types, MapType
  <2>5. x.path = p
    BY <2>3, <2>4 DEF Entry
  <2>6. DOMAIN f_watches' = DOMAIN f_watches /\ f_watches'[k] = x
    BY <2>3, <2>4
  <2>. SUFFICES ASSUME NEW j \in DOMAIN f_watches'
                PROVE  f_watches'[j].watch = j \/ f_watches'[j].path \in merged'
    BY DEF Keyed
  <2>7. CASE j = k
    BY <2>1, <2>5, <2>6, <2>7
  <2>8. CASE j # k
    <3>1. f_watches'[j] = f_watches[j] /\ j \in DOMAIN f_watches
      BY <2>3, <2>6, <2>8
    <3>. QED BY <2>1, <3>1 DEF Keyed
  <2>. QED BY <2>7, <2>8
<1>4. ASSUME NEW k, f_watches' = [x \in DOMAIN f_watches \ {k} |-> f_watches[x]], UNCHANGED merged
      PROVE  Keyed'
  BY <1>4 DEF Keyed
<1>5. ASSUME NEW p \in Paths, StopWatch(p) PROVE Keyed'
  BY <1>4, <1>5 DEF StopWatch
<1>6. CASE Handled
  <2>1. UNCHANGED merged
    BY <1>6 DEF Handled
  <2>2. f_watches' = [x \in DOMAIN f_watches \ {E.wd} |-> f_watches[x]] \/ UNCHANGED f_watches
    BY <1>6, Zenon DEF Handled
  <2>. QED BY <1>1, <1>4, <2>1, <2>2
<1>7. CASE Poll \/ Read \/ Tell \/ ReadAgain
  BY <1>1, <1>7 DEF Poll, Read, Tell, ReadAgain, history
<1>8. ASSUME NEW p \in Paths, Rename(p) \/ Delete(p) \/ Create(p) PROVE Keyed'
  BY <1>1, <1>8 DEF Rename, Delete, Create, history
<1>9. ASSUME NEW p \in Paths, NEW name, NEW flag, Change(p, name, flag) PROVE Keyed'
  BY <1>1, <1>9 DEF Change
<1>10. CASE UNCHANGED vars
  BY <1>1, <1>10 DEF vars
<1>. QED BY <1>2, <1>3, <1>5, <1>6, <1>7, <1>8, <1>9, <1>10 DEF Next, EventLoop

\* A path has one entry, every watch of the kernel is one stop_watch() can
\* remove and process_read() finds an entry that was not merged under the
\* number of its watch, for any paths, patterns, changes and sizes of the queue
\* and in whatever order watches are merged, stopped and ignored
\* (file_changed.cpp:344-373, 489-513, 693-719).
THEOREM MapAgrees == Spec => []MapConsistent
<1>1. Init => Keyed
  BY DEF Init, Keyed
<1>2. IInv /\ Keyed /\ [Next]_vars => Keyed'
  BY NextKeyed
<1>3. IInv /\ Keyed => MapConsistent
  BY BoundsAssumption DEF IInv, Types, KernelType, MapType, LoopType, Entry, QueueOK,
     OneEntry, Covered, Keyed, MapConsistent, TypeOK
<1>. QED BY <1>1, <1>2, <1>3, Invariance, PTL DEF Spec

\* Only what was asked for since the path is watched is told, although the
\* queue and the buffer have events of watches that are gone
\* (file_changed.cpp:697-729).
THEOREM OnlyAskedTold == Spec => ToldWasAsked
<1>. DEFINE Right == pc = "handle" /\ pc' = "callback" /\ E.wd # Error =>
                        LET requests == asked[f_watches[E.wd].path]
                        IN  /\ \E r \in requests : E.name \in r[1]
                            /\ \/ "IN_IGNORED" \in E.mask
                               \/ \E r \in requests : E.mask \subseteq events_to_mask(r[2])
<1>1. ASSUME IInv, Next, pc = "handle", pc' = "callback", E.wd # Error
      PROVE  LET requests == asked[f_watches[E.wd].path]
             IN  /\ \E r \in requests : E.name \in r[1]
                 /\ \/ "IN_IGNORED" \in E.mask
                    \/ \E r \in requests : E.mask \subseteq events_to_mask(r[2])
  <2>1. Tell
    <3>1. CASE EventLoop
      BY <1>1, <3>1 DEF EventLoop, Poll, Read, Handled, ReadAgain
    <3>2. CASE ~EventLoop
      <4>1. UNCHANGED pc
        BY <1>1, <3>2 DEF Next, Change, Rename, Delete, Create, StopWatch, NewWatch, MergeWatch
      <4>. QED BY <1>1, <4>1
    <3>. QED BY <3>1, <3>2
  <2>2. buffer # <<>> /\ Wanted
    BY <1>1, <2>1 DEF Tell
  <2>3. buffer \in Seq(Events) /\ 1 \in DOMAIN buffer /\ E = buffer[1]
    BY <1>1, <2>2 DEF IInv, Types, LoopType, E
  <2>4. E \in Events /\ EventAsked(E)
    BY <1>1, <2>3 DEF IInv, BufferAsked
  <2>5. E.wd \in DOMAIN f_watches /\ match_patterns(f_watches[E.wd], E.name)
    BY <2>2 DEF Wanted, Known
  <2>6. \E r \in asked[f_watches[E.wd].path] : E.name \in r[1]
    <3>1. E.name \in Star
      BY <2>4 DEF Events
    <3>. QED BY <1>1, <2>5, <3>1 DEF match_patterns, IInv, PatternsAsked
  <2>7. PICK flag \in InFlags : E.mask = {flag}
    BY <2>4 DEF Events
  <2>8. flag = "IN_IGNORED" \/ Asked(f_watches[E.wd].path, flag)
    BY <2>4, <2>5, <2>7 DEF EventAsked
  <2>. QED BY <2>6, <2>7, <2>8 DEF Asked
<1>2. IInv /\ [Next]_vars => [Right]_vars
  BY <1>1
<1>. QED BY <1>2, Invariance, PTL DEF Spec, ToldWasAsked

---------------------------------------------------------------------------
(***************************************************************************)
(* ed::socket_events: the list of the listener                             *)
(***************************************************************************)

Values(s) == {s[i] : i \in DOMAIN s}
Unique(s) == \A i, j \in DOMAIN s : s[i] = s[j] => i = j

\* An object at the end of the list is one more of its objects, and once there.
LEMMA AppendValues ==
  ASSUME NEW s \in Seq(Objects), Unique(s), NEW o \in Objects, o \notin Values(s)
  PROVE  /\ Append(s, o) \in Seq(Objects)
         /\ Values(Append(s, o)) = Values(s) \cup {o}
         /\ Unique(Append(s, o))
<1>. DEFINE t == Append(s, o)
<1>1. /\ t \in Seq(Objects) /\ Len(t) = Len(s) + 1 /\ Len(s) \in Nat
      /\ DOMAIN s = 1 .. Len(s) /\ DOMAIN t = 1 .. Len(s) + 1
      /\ \A k \in 1 .. Len(s) : t[k] = s[k]
      /\ t[Len(s) + 1] = o
  OBVIOUS
<1>. HIDE DEF t
<1>2. Values(t) = Values(s) \cup {o}
  <2>1. ASSUME NEW v \in Values(t) PROVE v \in Values(s) \cup {o}
    BY <1>1, <2>1 DEF Values
  <2>2. ASSUME NEW v \in Values(s) \cup {o} PROVE v \in Values(t)
    BY <1>1, <2>2 DEF Values
  <2>. QED BY <2>1, <2>2
<1>3. Unique(t)
  BY <1>1 DEF Unique, Values
<1>. QED BY <1>1, <1>2, <1>3 DEF t

\* s without its item i.
Without(s, i) == SubSeq(s, 1, i - 1) \o SubSeq(s, i + 1, Len(s))

\* A concatenation, position by position.
LEMMA CatItems ==
  ASSUME NEW u \in Seq(Objects), NEW v \in Seq(Objects)
  PROVE  /\ u \o v \in Seq(Objects) /\ Len(u \o v) = Len(u) + Len(v)
         /\ \A k \in 1 .. Len(u) : (u \o v)[k] = u[k]
         /\ \A k \in 1 .. Len(v) : (u \o v)[Len(u) + k] = v[k]
OBVIOUS

\* A list without one of its objects, position by position.
LEMMA WithoutItems ==
  ASSUME NEW s \in Seq(Objects), NEW i \in Nat, 1 <= i, i <= Len(s)
  PROVE  /\ Without(s, i) \in Seq(Objects) /\ Len(Without(s, i)) = Len(s) - 1
         /\ \A k \in Nat : 1 <= k /\ k < i => Without(s, i)[k] = s[k]
         /\ \A k \in Nat : i <= k /\ k <= Len(s) - 1 => Without(s, i)[k] = s[k + 1]
<1>. DEFINE u == SubSeq(s, 1, i - 1)
            v == SubSeq(s, i + 1, Len(s))
            t == Without(s, i)
<1>1. Len(s) \in Nat
  OBVIOUS
<1>2. u \in Seq(Objects) /\ Len(u) = i - 1 /\ \A k \in 1 .. i - 1 : u[k] = s[k]
  BY <1>1
<1>3. /\ v \in Seq(Objects) /\ Len(v) = Len(s) - i
      /\ \A k \in 1 .. Len(s) - i : v[k] = s[i + k]
  BY <1>1
<1>4. t = u \o v
  BY DEF Without
<1>. HIDE DEF u, v, t
<1>5. /\ t \in Seq(Objects) /\ Len(t) = Len(u) + Len(v)
      /\ \A k \in 1 .. Len(u) : t[k] = u[k]
      /\ \A k \in 1 .. Len(v) : t[Len(u) + k] = v[k]
  BY <1>2, <1>3, <1>4, CatItems
<1>6. Len(u) = i - 1 /\ Len(v) = Len(s) - i
  BY <1>2, <1>3
<1>7. Len(t) = Len(s) - 1
  <2>1. (i - 1) + (Len(s) - i) = Len(s) - 1
    BY <1>1
  <2>2. Len(t) = (i - 1) + (Len(s) - i)
    BY <1>5, <1>6, Zenon
  <2>. QED BY <2>1, <2>2, Zenon
<1>8. ASSUME NEW k \in Nat, 1 <= k, k < i PROVE t[k] = s[k]
  <2>1. k \in 1 .. i - 1 /\ k \in 1 .. Len(u)
    BY <1>1, <1>6, <1>8
  <2>. QED BY <1>2, <1>5, <2>1
<1>9. ASSUME NEW k \in Nat, i <= k, k <= Len(s) - 1 PROVE t[k] = s[k + 1]
  <2>1. /\ k - (i - 1) \in 1 .. Len(s) - i /\ k - (i - 1) \in 1 .. Len(v)
        /\ Len(u) + (k - (i - 1)) = k /\ i + (k - (i - 1)) = k + 1
    BY <1>1, <1>6, <1>9
  <2>2. v[k - (i - 1)] = s[i + (k - (i - 1))]
    BY <1>3, <2>1, Zenon
  <2>3. t[Len(u) + (k - (i - 1))] = v[k - (i - 1)]
    BY <1>5, <2>1, Zenon
  <2>. QED BY <2>1, <2>2, <2>3, Zenon
<1>. QED BY <1>5, <1>7, <1>8, <1>9 DEF t

\* A list without one of its objects has the others, each once.
LEMMA WithoutValues ==
  ASSUME NEW s \in Seq(Objects), Unique(s), NEW i \in DOMAIN s
  PROVE  /\ Without(s, i) \in Seq(Objects)
         /\ Values(Without(s, i)) = Values(s) \ {s[i]}
         /\ Unique(Without(s, i))
<1>. DEFINE t == Without(s, i)
<1>1. Len(s) \in Nat /\ i \in Nat /\ 1 <= i /\ i <= Len(s) /\ DOMAIN s = 1 .. Len(s)
  OBVIOUS
<1>2. /\ t \in Seq(Objects) /\ Len(t) = Len(s) - 1
      /\ \A k \in Nat : 1 <= k /\ k < i => t[k] = s[k]
      /\ \A k \in Nat : i <= k /\ k <= Len(s) - 1 => t[k] = s[k + 1]
  BY <1>1, WithoutItems
<1>. HIDE DEF t
<1>3. DOMAIN t = 1 .. Len(s) - 1
  BY <1>2
\* Where an item of t comes from.
<1>4. ASSUME NEW k \in DOMAIN t
      PROVE  \E m \in DOMAIN s : t[k] = s[m] /\ m # i /\ m = IF k < i THEN k ELSE k + 1
  <2>1. k \in Nat /\ 1 <= k /\ k <= Len(s) - 1
    BY <1>1, <1>3
  <2>2. CASE k < i
    <3>1. t[k] = s[k] /\ k \in DOMAIN s
      BY <1>1, <1>2, <2>1, <2>2
    <3>. QED BY <1>1, <2>1, <2>2, <3>1
  <2>3. CASE i <= k
    <3>1. t[k] = s[k + 1]
      BY <1>2, <2>1, <2>3
    <3>2. k + 1 \in DOMAIN s /\ k + 1 # i /\ ~(k < i)
      BY <1>1, <2>1, <2>3
    <3>. QED BY <3>1, <3>2
  <2>4. k < i \/ i <= k
    BY <1>1, <2>1
  <2>. QED BY <2>2, <2>3, <2>4
<1>5. Values(t) = Values(s) \ {s[i]}
  <2>1. ASSUME NEW v \in Values(t) PROVE v \in Values(s) /\ v # s[i]
    <3>1. PICK k \in DOMAIN t : v = t[k]
      BY DEF Values
    <3>2. PICK m \in DOMAIN s : t[k] = s[m] /\ m # i
      BY <1>4
    <3>. QED BY <3>1, <3>2 DEF Values, Unique
  <2>2. ASSUME NEW v \in Values(s), v # s[i] PROVE v \in Values(t)
    <3>1. PICK k \in DOMAIN s : v = s[k]
      BY DEF Values
    <3>2. k \in Nat /\ 1 <= k /\ k <= Len(s) /\ k # i
      BY <1>1, <2>2, <3>1
    <3>3. CASE k < i
      <4>1. t[k] = s[k]
        BY <1>2, <3>2, <3>3
      <4>2. k \in DOMAIN t
        BY <1>1, <1>3, <3>2, <3>3
      <4>. QED BY <3>1, <4>1, <4>2 DEF Values
    <3>4. CASE k > i
      <4>1. k - 1 \in Nat /\ i <= k - 1 /\ k - 1 <= Len(s) - 1 /\ (k - 1) + 1 = k
        BY <1>1, <3>2, <3>4
      <4>2. t[k - 1] = s[k]
        BY <1>2, <4>1
      <4>3. k - 1 \in DOMAIN t
        BY <1>1, <1>3, <4>1
      <4>. QED BY <3>1, <4>2, <4>3 DEF Values
    <3>. QED BY <1>1, <3>2, <3>3, <3>4
  <2>. QED BY <2>1, <2>2
<1>6. Unique(t)
  <2>. SUFFICES ASSUME NEW j \in DOMAIN t, NEW k \in DOMAIN t, t[j] = t[k]
                PROVE  j = k
    BY DEF Unique
  <2>1. PICK m \in DOMAIN s : t[j] = s[m] /\ m = IF j < i THEN j ELSE j + 1
    BY <1>4
  <2>2. PICK n \in DOMAIN s : t[k] = s[n] /\ n = IF k < i THEN k ELSE k + 1
    BY <1>4
  <2>3. m = n
    BY <2>1, <2>2 DEF Unique
  <2>4. j \in Int /\ k \in Int
    BY <1>1, <1>3
  <2>. QED BY <1>1, <2>1, <2>2, <2>3, <2>4
<1>. QED BY <1>2, <1>5, <1>6 DEF t

---------------------------------------------------------------------------
(***************************************************************************)
(* The inductive invariant                                                 *)
(***************************************************************************)

States == {"none", "waiting", "connecting", "connected"}

SocketTypes ==
    /\ f_socket_events \in Seq(Objects) /\ Unique(f_socket_events)
    /\ f_listening \in [Objects -> BOOLEAN]
    /\ g_socket_listener \in BOOLEAN /\ listener_enabled \in BOOLEAN /\ calling \in BOOLEAN
    /\ app \in [Objects -> States]
    /\ server \subseteq Addresses /\ service_changes \in 0 .. MaxServiceChanges
    /\ dropped \subseteq Objects

\* process_read() is at a position of the list only while it handles an
\* answer, so that nothing is created or destroyed meanwhile.
AtPosition ==
    /\ pos \in 0 .. Len(f_socket_events)
    /\ calling => pos # 0
    /\ pos # 0 => todo # <<>> /\ Head(todo) = "read" /\ answers # <<>>

SocketAsked ==
    /\ g_socket_listener <=> Listed # {}
    /\ \A o \in Objects :
        /\ app[o] = "none" <=> o \notin Listed
        /\ app[o] = "waiting" /\ o \notin dropped => ~f_listening[o] /\ listener_enabled
        /\ app[o] \in {"connecting", "connected"} => f_listening[o]

SocketIInv == SocketTypes /\ AtPosition /\ SocketAsked

\* The objects of the list of the listener.
LEMMA ListedValues == Listed = Values(f_socket_events)
BY DEF Listed, Values

\* The invariant of the list says that who waits is asked for.
LEMMA Property == SocketIInv => WaitingIsAsked
<1>. SUFFICES ASSUME SocketIInv PROVE WaitingIsAsked
  OBVIOUS
<1>1. Listed \subseteq Objects
  BY DEF SocketIInv, SocketTypes, Listed
<1>2. SocketTypeOK
  BY <1>1 DEF SocketIInv, SocketTypes, AtPosition, SocketTypeOK, States
<1>. QED BY <1>2 DEF SocketIInv, SocketAsked, WaitingIsAsked

\* Steps that leave the list and the position of process_read() alone.
LEMMA PassStep ==
  ASSUME SocketIInv, UNCHANGED <<addr, listener, world, app, dropped>>,
         AtPosition', calling' \in BOOLEAN
  PROVE  SocketIInv'
<1>1. /\ UNCHANGED <<f_socket_events, f_listening, g_socket_listener, listener_enabled>>
      /\ UNCHANGED <<server, service_changes, app, dropped>>
  BY DEF listener, world
<1>2. SocketTypes'
  BY <1>1 DEF SocketIInv, SocketTypes
<1>3. SocketAsked'
  BY <1>1 DEF SocketIInv, SocketAsked, Listed
<1>. QED BY <1>2, <1>3 DEF SocketIInv

\* Nothing changes.
LEMMA SameState == ASSUME SocketIInv, UNCHANGED socket_vars PROVE SocketIInv'
<1>1. AtPosition' /\ calling' = calling
  BY DEF SocketIInv, AtPosition, socket_vars, listener, pass
<1>2. calling' \in BOOLEAN
  BY <1>1 DEF SocketIInv, SocketTypes
<1>. QED BY <1>1, <1>2, PassStep DEF socket_vars

---------------------------------------------------------------------------
(***************************************************************************)
(* The steps                                                               *)
(***************************************************************************)

\* The constructor of socket_events.
LEMMA SocketCreateStep == ASSUME SocketIInv, NEW o \in Objects, socket_events(o) PROVE SocketIInv'
<1>1. /\ todo = <<>> /\ app[o] = "none" /\ app' = [app EXCEPT ![o] = "waiting"]
      /\ g_socket_listener' = TRUE /\ f_socket_events' = Append(f_socket_events, o)
      /\ f_listening' = [f_listening EXCEPT ![o] = FALSE] /\ listener_enabled' = TRUE
      /\ UNCHANGED <<addr, answers, todo, pos, calling, server, service_changes, dropped>>
  BY DEF socket_events, Outside, pass, world
<1>2. /\ f_socket_events' \in Seq(Objects) /\ Unique(f_socket_events')
      /\ Listed' = Listed \cup {o}
  <2>1. o \notin Values(f_socket_events)
    BY <1>1, ListedValues DEF SocketIInv, SocketAsked
  <2>2. f_socket_events \in Seq(Objects) /\ Unique(f_socket_events)
    BY DEF SocketIInv, SocketTypes
  <2>3. Listed' = Values(f_socket_events')
    BY DEF Listed, Values
  <2>. QED BY <1>1, <2>1, <2>2, <2>3, ListedValues, AppendValues
<1>3. SocketTypes'
  BY <1>1, <1>2 DEF SocketIInv, SocketTypes, States
<1>4. AtPosition'
  <2>1. pos = 0 /\ ~calling
    BY <1>1 DEF SocketIInv, AtPosition
  <2>2. Len(f_socket_events') \in Nat
    BY <1>2
  <2>. QED BY <1>1, <2>1, <2>2 DEF AtPosition
<1>5. SocketAsked'
  BY <1>1, <1>2 DEF SocketIInv, SocketTypes, SocketAsked
<1>. QED BY <1>3, <1>4, <1>5 DEF SocketIInv

\* The destructor of socket_events.
LEMMA DestroyStep == ASSUME SocketIInv, NEW o \in Objects, remove_socket_events(o) PROVE SocketIInv'
<1>1. /\ todo = <<>> /\ app[o] # "none" /\ app' = [app EXCEPT ![o] = "none"]
      /\ g_socket_listener' = (f_socket_events' # <<>>)
      /\ listener_enabled' = (listener_enabled /\ g_socket_listener')
      /\ dropped' = dropped \ {o}
      /\ UNCHANGED <<addr, f_listening, todo, pos, calling, server, service_changes>>
  BY DEF remove_socket_events, Outside, world
<1>2. /\ f_socket_events' \in Seq(Objects) /\ Unique(f_socket_events')
      /\ Listed' = Listed \ {o}
  <2>1. PICK i \in DOMAIN f_socket_events :
          /\ f_socket_events[i] = o
          /\ f_socket_events' = Without(f_socket_events, i)
    BY DEF remove_socket_events, Without
  <2>2. f_socket_events \in Seq(Objects) /\ Unique(f_socket_events)
    BY DEF SocketIInv, SocketTypes
  <2>3. Listed' = Values(f_socket_events')
    BY DEF Listed, Values
  <2>. QED BY <2>1, <2>2, <2>3, ListedValues, WithoutValues
<1>3. f_socket_events' # <<>> <=> Listed' # {}
  BY <1>2 DEF Listed
<1>4. SocketTypes'
  BY <1>1, <1>2 DEF SocketIInv, SocketTypes, States
<1>5. AtPosition'
  <2>1. pos = 0 /\ ~calling
    BY <1>1 DEF SocketIInv, AtPosition
  <2>2. Len(f_socket_events') \in Nat
    BY <1>2
  <2>. QED BY <1>1, <2>1, <2>2 DEF AtPosition
<1>6. SocketAsked'
  <2>1. ASSUME NEW p \in Objects
        PROVE  /\ app'[p] = "none" <=> p \notin Listed'
               /\ app'[p] = "waiting" /\ p \notin dropped' => ~f_listening'[p] /\ listener_enabled'
               /\ app'[p] \in {"connecting", "connected"} => f_listening'[p]
    <3>1. CASE p = o
      BY <1>1, <1>2, <3>1 DEF SocketIInv, SocketTypes
    <3>2. CASE p # o
      <4>1. app'[p] = app[p] /\ (p \in Listed' <=> p \in Listed)
            /\ (p \in dropped' <=> p \in dropped)
        BY <1>1, <1>2, <3>2 DEF SocketIInv, SocketTypes
      <4>2. app[p] = "waiting" => g_socket_listener'
        BY <1>1, <1>3, <4>1 DEF SocketIInv, SocketAsked
      <4>. QED BY <1>1, <4>1, <4>2 DEF SocketIInv, SocketAsked
    <3>. QED BY <3>1, <3>2
  <2>. QED BY <1>1, <1>3, <2>1 DEF SocketAsked
<1>. QED BY <1>4, <1>5, <1>6 DEF SocketIInv

\* lost_connection()
LEMMA LostStep == ASSUME SocketIInv, NEW o \in Objects, Lost(o) PROVE SocketIInv'
<1>1. /\ app[o] \in {"connecting", "connected"} /\ app' = [app EXCEPT ![o] = "waiting"]
      /\ f_listening' = [f_listening EXCEPT ![o] = FALSE] /\ listener_enabled' = TRUE
      /\ dropped' = dropped \ {o}
      /\ UNCHANGED <<addr, f_socket_events, g_socket_listener, answers, todo, pos, calling,
                     server, service_changes>>
  BY DEF Lost, lost_connection, pass, world
<1>2. SocketTypes'
  BY <1>1 DEF SocketIInv, SocketTypes, States
<1>3. AtPosition'
  BY <1>1 DEF SocketIInv, AtPosition
<1>4. SocketAsked'
  BY <1>1 DEF SocketIInv, SocketTypes, SocketAsked, Listed
<1>. QED BY <1>2, <1>3, <1>4 DEF SocketIInv

\* The application connects.
LEMMA ConnectedStep == ASSUME SocketIInv, NEW o \in Objects, Connected(o) PROVE SocketIInv'
<1>1. /\ app[o] = "connecting" /\ app' = [app EXCEPT ![o] = "connected"]
      /\ UNCHANGED <<addr, f_socket_events, f_listening, g_socket_listener, listener_enabled,
                     answers, todo, pos, calling, server, service_changes, dropped>>
  BY DEF Connected, pass, world, listener
<1>2. SocketTypes'
  BY <1>1 DEF SocketIInv, SocketTypes, States
<1>3. AtPosition'
  BY <1>1 DEF SocketIInv, AtPosition
<1>4. SocketAsked'
  BY <1>1 DEF SocketIInv, SocketTypes, SocketAsked, Listed
<1>. QED BY <1>2, <1>3, <1>4 DEF SocketIInv

\* The listener is polled.
LEMMA PollStep == ASSUME SocketIInv, NEW timeout \in BOOLEAN, PollListener(timeout) PROVE SocketIInv'
<1>1. pos = 0 /\ ~calling
  BY DEF PollListener, Outside, SocketIInv, AtPosition
<1>2. AtPosition' /\ calling' = calling
  BY <1>1 DEF PollListener, SocketIInv, AtPosition, listener
<1>. QED BY <1>2, PassStep DEF PollListener, SocketIInv, SocketTypes

\* process_read() of the listener.
LEMMA ReadStep == ASSUME SocketIInv, process_read PROVE SocketIInv'
<1>1. UNCHANGED <<addr, listener, world, app, dropped>> /\ ~calling
  BY DEF process_read
<1>2. Len(f_socket_events) \in Nat /\ DOMAIN f_socket_events = 1 .. Len(f_socket_events)
  BY DEF SocketIInv, SocketTypes
<1>3. AtPosition'
  <2>1. CASE answers = <<>> /\ UNCHANGED <<answers, pos, calling>>
    <3>1. pos = 0
      BY <2>1 DEF SocketIInv, AtPosition
    <3>. QED BY <1>1, <2>1, <3>1 DEF SocketIInv, AtPosition, listener
  <2>2. CASE pos' = 0 /\ UNCHANGED <<todo, calling>>
    BY <1>1, <1>2, <2>2 DEF AtPosition, listener
  <2>3. CASE /\ answers # <<>>
             /\ \E i \in DOMAIN f_socket_events : NextMatch(i) /\ pos' = i
             /\ calling' = TRUE
             /\ UNCHANGED <<answers, todo>>
    <3>1. pos' \in 1 .. Len(f_socket_events)
      BY <1>2, <2>3
    <3>2. todo # <<>> /\ Head(todo) = "read"
      BY DEF process_read
    <3>. QED BY <1>1, <1>2, <2>3, <3>1, <3>2 DEF AtPosition, listener
  <2>. QED BY <2>1, <2>2, <2>3 DEF process_read
<1>4. calling' \in BOOLEAN
  BY DEF process_read, SocketIInv, SocketTypes
<1>. QED BY <1>1, <1>3, <1>4, PassStep

\* process_listening() of one object.
LEMMA ListeningStep == ASSUME SocketIInv, NEW o \in Objects, process_listening(o) PROVE SocketIInv'
<1>1. /\ calling /\ f_socket_events[pos] = o
      /\ f_listening' = [f_listening EXCEPT ![o] = TRUE] /\ calling' = FALSE
      /\ UNCHANGED <<addr, f_socket_events, g_socket_listener, answers, todo, pos, server, service_changes>>
  BY DEF process_listening, InCallbackOf, world
<1>2. \/ app' = [app EXCEPT ![o] = "connecting"] /\ UNCHANGED <<dropped, listener_enabled>>
      \/ app' = [app EXCEPT ![o] = "connected"] /\ UNCHANGED <<dropped, listener_enabled>>
      \/ listener_enabled' = TRUE /\ dropped' = dropped \cup {o} /\ UNCHANGED app
  BY DEF process_listening
<1>3. o \in Listed
  <2>1. pos \in 1 .. Len(f_socket_events)
    BY <1>1 DEF SocketIInv, AtPosition, SocketTypes
  <2>2. DOMAIN f_socket_events = 1 .. Len(f_socket_events)
    BY DEF SocketIInv, SocketTypes
  <2>. QED BY <1>1, <2>1, <2>2 DEF Listed
<1>4. SocketTypes'
  BY <1>1, <1>2 DEF SocketIInv, SocketTypes, States
<1>5. AtPosition'
  BY <1>1 DEF SocketIInv, AtPosition
<1>6. SocketAsked'
  <2>1. Listed' = Listed
    BY <1>1 DEF Listed
  <2>2. ASSUME NEW p \in Objects
        PROVE  /\ app'[p] = "none" <=> p \notin Listed
               /\ app'[p] = "waiting" /\ p \notin dropped' => ~f_listening'[p] /\ listener_enabled'
               /\ app'[p] \in {"connecting", "connected"} => f_listening'[p]
    <3>1. CASE p = o
      BY <1>1, <1>2, <1>3, <3>1 DEF SocketIInv, SocketTypes, SocketAsked
    <3>2. CASE p # o
      BY <1>1, <1>2, <3>2 DEF SocketIInv, SocketTypes, SocketAsked
    <3>. QED BY <3>1, <3>2
  <2>. QED BY <1>1, <2>1, <2>2 DEF SocketIInv, SocketAsked
<1>. QED BY <1>4, <1>5, <1>6 DEF SocketIInv

\* process_write() of the listener asks again, or fails.
LEMMA WriteStep == ASSUME SocketIInv, NEW ok \in BOOLEAN, process_write(ok) PROVE SocketIInv'
<1>1. /\ Head(todo) = "write" /\ UNCHANGED <<addr, listener, pos, calling, world, app, dropped>>
  BY DEF process_write
<1>2. pos = 0 /\ ~calling
  BY <1>1 DEF SocketIInv, AtPosition
<1>3. AtPosition'
  BY <1>1, <1>2 DEF SocketIInv, AtPosition, listener
<1>. QED BY <1>1, <1>3, PassStep DEF SocketIInv, SocketTypes

\* process_timeout() of the listener.
LEMMA TimeoutStep == ASSUME SocketIInv, process_timeout PROVE SocketIInv'
<1>1. /\ Head(todo) = "timeout" /\ listener_enabled' = (listener_enabled /\ Waits # {})
      /\ UNCHANGED <<addr, f_socket_events, f_listening, g_socket_listener, answers, pos,
                     calling, world, app, dropped>>
  BY DEF process_timeout
<1>2. pos = 0 /\ ~calling
  BY <1>1 DEF SocketIInv, AtPosition
<1>3. AtPosition'
  BY <1>1, <1>2 DEF SocketIInv, AtPosition
<1>4. SocketTypes'
  BY <1>1 DEF SocketIInv, SocketTypes, world
<1>5. SocketAsked'
  <2>1. Listed' = Listed
    BY <1>1 DEF Listed
  <2>2. ASSUME NEW p \in Objects, app[p] = "waiting", p \notin dropped
        PROVE  listener_enabled'
    BY <1>1, <2>2 DEF SocketIInv, SocketAsked, Waits
  <2>. QED BY <1>1, <2>1, <2>2 DEF SocketIInv, SocketAsked
<1>. QED BY <1>3, <1>4, <1>5 DEF SocketIInv

\* A service starts or stops.
LEMMA SocketChangeStep == ASSUME SocketIInv, NEW a \in Addresses, ServiceChanges(a) PROVE SocketIInv'
<1>1. /\ service_changes < MaxServiceChanges /\ service_changes' = service_changes + 1
      /\ server' = IF a \in server THEN server \ {a} ELSE server \cup {a}
      /\ UNCHANGED <<addr, f_socket_events, f_listening, g_socket_listener, listener_enabled,
                     answers, todo, pos, calling, app, dropped>>
  BY DEF ServiceChanges, listener, pass
<1>2. SocketTypes'
  <2>1. service_changes' \in 0 .. MaxServiceChanges
    BY <1>1, MaxServiceChangesAssumption DEF SocketIInv, SocketTypes
  <2>. QED BY <1>1, <2>1 DEF SocketIInv, SocketTypes
<1>3. AtPosition'
  BY <1>1 DEF SocketIInv, AtPosition
<1>4. SocketAsked'
  BY <1>1 DEF SocketIInv, SocketAsked, Listed
<1>. QED BY <1>2, <1>3, <1>4 DEF SocketIInv

---------------------------------------------------------------------------
(***************************************************************************)
(* The theorem                                                             *)
(***************************************************************************)

\* The invariant holds at first.
LEMMA SocketInitIInv == SocketInit => SocketIInv
<1>. SUFFICES ASSUME SocketInit PROVE SocketIInv
  OBVIOUS
<1>1. SocketTypes
  <2>1. f_socket_events \in Seq(Objects) /\ Unique(f_socket_events)
    BY DEF SocketInit, Unique
  <2>2. service_changes \in 0 .. MaxServiceChanges
    BY MaxServiceChangesAssumption DEF SocketInit
  <2>. QED BY <2>1, <2>2 DEF SocketInit, SocketTypes, States
<1>2. AtPosition
  BY DEF SocketInit, AtPosition
<1>3. SocketAsked
  BY DEF SocketInit, SocketAsked, Listed
<1>. QED BY <1>1, <1>2, <1>3 DEF SocketIInv

\* Every step keeps the invariant.
LEMMA SocketNextIInv == SocketIInv /\ [SocketNext]_socket_vars => SocketIInv'
<1>. SUFFICES ASSUME SocketIInv, [SocketNext]_socket_vars PROVE SocketIInv'
  OBVIOUS
<1>1. CASE Loop
  BY <1>1, PollStep, ReadStep, ListeningStep, TimeoutStep DEF Loop
<1>2. CASE Application
  BY <1>2, LostStep, ConnectedStep DEF Application
<1>3. CASE \E ok \in BOOLEAN : process_write(ok)
  BY <1>3, WriteStep
<1>4. CASE \E o \in Objects : socket_events(o) \/ remove_socket_events(o)
  BY <1>4, SocketCreateStep, DestroyStep
<1>5. CASE \E a \in Addresses : ServiceChanges(a)
  BY <1>5, SocketChangeStep
<1>6. CASE UNCHANGED socket_vars
  BY <1>6, SameState
<1>. QED BY <1>1, <1>2, <1>3, <1>4, <1>5, <1>6 DEF SocketNext

\* An object that waits for its service is one the awake listener asks the
\* kernel about, whatever was created, destroyed, lost or answered late.
THEOREM WaitersAsked == SocketSpec => []WaitingIsAsked
BY SocketInitIInv, SocketNextIInv, Property, PTL DEF SocketSpec

===============================================================================
