------------------------------ MODULE SignalChild ------------------------------
(***************************************************************************)
(* The death of children: ed::signal, which turns a Unix signal into a     *)
(* connection through signalfd(), and its singleton ed::signal_child,      *)
(* which looks for the children that changed state each time SIGCHLD is    *)
(* read and calls the listeners of those children.                         *)
(*                                                                         *)
(* The kernel side is external: SIGCHLD is not queued (any number of       *)
(* changes while it is pending are one signal), it is thrown away when it  *)
(* is not blocked (its default action is to do nothing), and waitid()      *)
(* with WNOWAIT returns a change without consuming it.                     *)
(*                                                                         *)
(* The list f_listeners is a set here: a listener is added at the end and  *)
(* has the next identifier, so that the order of the list is the order of  *)
(* the identifiers.                                                        *)
(***************************************************************************)
EXTENDS Integers, FiniteSets

CONSTANTS Children,      \* process identifiers of the children
          MaxListeners,  \* how many listeners are ever added
          MaxStops       \* how many times a child is stopped or continued

ASSUME ChildrenAssumption == Children # {}
ASSUME MaxListenersAssumption == MaxListeners \in Nat
ASSUME MaxStopsAssumption == MaxStops \in Nat

VARIABLES proc,          \* the state of each child that waitid() sees
          stops,         \* number of stops and continues so far
          owner,         \* which ed::signal object has SIGCHLD
          blocked,       \* SIGCHLD is in the mask of blocked signals
          pending,       \* SIGCHLD is pending: the signalfd can be read
          f_listeners,   \* the listeners
          added,         \* how many listeners were added so far
          f_count,       \* add_connection() less remove_connection()
          in_comm,       \* the object is in the list of the communicator
          forked,        \* children created since the last listener
          pc,            \* where process() and process_signal() are
          info,          \* the siginfo_t of the child being handled
          todo,          \* the listeners that remain to be called for it
          told,          \* history: how often a listener heard of a death
          missed         \* history: deaths SIGCHLD was not left pending for

kernel == <<proc, stops, owner, blocked, pending, missed>>
list == <<f_listeners, added, f_count, in_comm, forked>>
loop == <<pc, info, todo, told>>
vars == <<proc, stops, owner, blocked, pending, f_listeners, added, f_count,
          in_comm, forked, pc, info, todo, told, missed>>

---------------------------------------------------------------------------
(* child_status *)

Dead == {"CLD_EXITED", "CLD_KILLED"}
Paused == {"CLD_STOPPED", "CLD_CONTINUED"}
Codes == Dead \cup Paused
Flags == {"RUNNING", "EXITED", "SIGNALED", "STOPPED", "CONTINUED"}

\* CLD_DUMPED is seen as CLD_KILLED and CLD_TRAPPED as CLD_STOPPED.
IsExited(code) == code = "CLD_EXITED"
IsSignaled(code) == code = "CLD_KILLED"
IsStopped(code) == code = "CLD_STOPPED"
IsContinued(code) == code = "CLD_CONTINUED"
IsRunning(code) == ~IsExited(code) /\ ~IsSignaled(code) /\ ~IsStopped(code)

StatusMask(code) ==
    CASE IsRunning(code) -> "RUNNING"
      [] IsExited(code) -> "EXITED"
      [] IsSignaled(code) -> "SIGNALED"
      [] IsStopped(code) -> "STOPPED"
      [] OTHER -> "CONTINUED"

\* The masks listeners are added with: the default one, all of the events,
\* and the two events of job control.
Masks == {{"EXITED", "SIGNALED"}, Flags, {"STOPPED", "CONTINUED"}}

Listeners == [id : 1 .. MaxListeners, child : Children, flags : SUBSET Flags]

---------------------------------------------------------------------------
(* The children and the kernel *)

Alive(c) == proc[c] \in {"running"} \cup Paused
Zombies == {c \in Children : proc[c] \in Dead}
Waitable == {c \in Children : proc[c] \in Codes}

\* SIGCHLD is sent to the process.
Raise == pending' = (pending \/ blocked)

Fork(c) ==
    /\ pc \in {"idle", "callback"}
    /\ proc[c] = "none"
    /\ proc' = [proc EXCEPT ![c] = "running"]
    /\ forked' = forked \cup {c}
    /\ UNCHANGED <<stops, owner, blocked, pending, missed, f_listeners, added,
                   f_count, in_comm, loop>>

Die(c, code) ==
    /\ Alive(c)
    /\ code = "CLD_EXITED" => proc[c] # "CLD_STOPPED"
    /\ proc' = [proc EXCEPT ![c] = code]
    /\ Raise
    /\ missed' = IF blocked THEN missed ELSE missed \cup {c}
    /\ UNCHANGED <<stops, owner, blocked, list, loop>>

Stop(c) ==
    /\ stops < MaxStops
    /\ proc[c] \in {"running", "CLD_CONTINUED"}
    /\ proc' = [proc EXCEPT ![c] = "CLD_STOPPED"]
    /\ stops' = stops + 1
    /\ Raise
    /\ UNCHANGED <<owner, blocked, missed, list, loop>>

Continue(c) ==
    /\ stops < MaxStops
    /\ proc[c] = "CLD_STOPPED"
    /\ proc' = [proc EXCEPT ![c] = "CLD_CONTINUED"]
    /\ stops' = stops + 1
    /\ Raise
    /\ UNCHANGED <<owner, blocked, missed, list, loop>>

---------------------------------------------------------------------------
(* ed::signal *)

\* signal(SIGCHLD): the constructor throws when an object of the process
\* already has the signal; otherwise the signal is blocked and a signalfd is
\* created for it. get_instance() creates the singleton "child" once; "other"
\* is an ed::signal object of the application.
Signal(o) ==
    /\ pc = "idle"
    /\ owner = "none"
    /\ owner' = o
    /\ blocked' = TRUE
    /\ UNCHANGED <<proc, stops, pending, missed, list, loop>>

\* The application reads its own object, which takes the signal away from
\* whoever comes next, and leaves the children alone.
ReadOther ==
    /\ pc = "idle"
    /\ owner = "other"
    /\ pending
    /\ pending' = FALSE
    /\ missed' = missed \cup Zombies
    /\ UNCHANGED <<proc, stops, owner, blocked, list, loop>>

\* close() of that object; the signal is unblocked only if
\* unblock_signal_on_destruction() was called, and a pending SIGCHLD is then
\* delivered: it does nothing.
CloseOther(f_unblock) ==
    /\ pc = "idle"
    /\ owner = "other"
    /\ owner' = "none"
    /\ blocked' = (blocked /\ ~f_unblock)
    /\ pending' = (pending /\ ~f_unblock)
    /\ missed' = IF f_unblock THEN missed \cup Zombies ELSE missed
    /\ UNCHANGED <<proc, stops, list, loop>>

---------------------------------------------------------------------------
(* ed::signal_child *)

\* remove_listener(): all the listeners of a child, one remove_connection()
\* for each; the communicator forgets the object with the last one.
Of(c) == {l \in f_listeners : l.child = c}
DropListeners(c) ==
    /\ f_listeners' = f_listeners \ Of(c)
    /\ f_count' = f_count - Cardinality(Of(c))
    /\ in_comm' = (in_comm /\ ~(Of(c) # {} /\ f_count' = 0))

\* Mutant: only the first listener is counted.
AddListenerUncounted(c, mask) ==
    /\ pc \in {"idle", "callback"}
    /\ owner = "child"
    /\ added < MaxListeners
    /\ Alive(c) \/ c \in forked
    /\ added' = added + 1
    /\ f_listeners' = f_listeners \cup
                        {[id |-> added + 1, child |-> c, flags |-> mask]}
    /\ in_comm' = (in_comm \/ f_count = 0)
    /\ f_count' = IF f_count = 0 THEN 1 ELSE f_count
    /\ forked' = forked \ {c}
    /\ UNCHANGED <<kernel, loop>>

\* add_listener(): the first one adds the object to the communicator. Called
\* right after fork(), as its documentation asks for.
AddListener(c, mask) ==
    /\ pc \in {"idle", "callback"}
    /\ owner = "child"
    /\ added < MaxListeners
    /\ Alive(c) \/ c \in forked
    /\ added' = added + 1
    /\ f_listeners' = f_listeners \cup
                        {[id |-> added + 1, child |-> c, flags |-> mask]}
    /\ in_comm' = (in_comm \/ f_count = 0)
    /\ f_count' = f_count + 1
    /\ forked' = forked \ {c}
    /\ UNCHANGED <<kernel, loop>>

RemoveListener(c) ==
    /\ pc \in {"idle", "callback"}
    /\ Of(c) # {}
    /\ DropListeners(c)
    /\ UNCHANGED <<kernel, added, forked, loop>>

\* The communicator found the signalfd readable and calls signal::process().
\* The application has a listener for every child it created by then.
Poll ==
    /\ pc = "idle"
    /\ in_comm
    /\ pending
    /\ forked = {}
    /\ pc' = "process"
    /\ UNCHANGED <<kernel, list, info, todo, told>>

\* Mutant: the signal is consumed and its handler not called.
ProcessSkips ==
    /\ pc = "process"
    /\ pc' = "idle"
    /\ pending' = FALSE
    /\ UNCHANGED <<proc, stops, owner, blocked, missed, list, info, todo, told>>

\* One turn of the loop of signal::process(): the read() consumes the pending
\* signal and process_signal() is called; EAGAIN ends the loop.
Process ==
    /\ pc = "process"
    /\ pc' = IF pending THEN "waitid" ELSE "idle"
    /\ pending' = FALSE
    /\ UNCHANGED <<proc, stops, owner, blocked, missed, list, info, todo, told>>

\* waitid(P_ALL, WNOHANG | WNOWAIT) in process_signal(): any child that has
\* a change to report, which stays there. The listeners are those of the list
\* at this time, whatever the callbacks do to it.
WaitId ==
    /\ pc = "waitid"
    /\ \/ /\ Waitable = {}
          /\ pc' = "process"
          /\ UNCHANGED <<info, todo>>
       \/ \E c \in Waitable :
            /\ info' = [pid |-> c, code |-> proc[c]]
            /\ todo' = {l \in Of(c) : StatusMask(proc[c]) \in l.flags}
            /\ pc' = "call"
    /\ UNCHANGED <<kernel, list, told>>

\* Mutant: the other listeners of the child are not called.
CallFirstOnly ==
    /\ pc = "call"
    /\ \E l \in todo :
        /\ \A m \in todo : l.id <= m.id
        /\ told' = IF info.code \in Dead
                     THEN [told EXCEPT ![l.id] = @ + 1]
                     ELSE told
    /\ todo' = {}
    /\ pc' = "callback"
    /\ UNCHANGED <<kernel, list, info>>

\* The callback of the first listener that was not called yet. pc is
\* "callback" while it runs.
Call ==
    /\ pc = "call"
    /\ \E l \in todo :
        /\ \A m \in todo : l.id <= m.id
        /\ todo' = todo \ {l}
        /\ told' = IF info.code \in Dead
                     THEN [told EXCEPT ![l.id] = @ + 1]
                     ELSE told
    /\ pc' = "callback"
    /\ UNCHANGED <<kernel, list, info>>

Return ==
    /\ pc = "callback"
    /\ forked = {}
    /\ pc' = "call"
    /\ UNCHANGED <<kernel, list, info, todo, told>>

\* Mutant: one child for each signal.
ReleaseOne ==
    /\ pc = "call"
    /\ todo = {}
    /\ pc' = "process"
    /\ \/ /\ info.code \in Dead
          /\ proc' = [proc EXCEPT ![info.pid] = "reaped"]
          /\ DropListeners(info.pid)
       \/ info.code \in Paused /\ UNCHANGED <<proc, f_listeners, f_count, in_comm>>
    /\ UNCHANGED <<stops, owner, blocked, pending, missed, added, forked,
                   info, todo, told>>

\* Mutant: the zombie is not released.
ReleaseKeepsZombie ==
    /\ pc = "call"
    /\ todo = {}
    /\ pc' = "waitid"
    /\ UNCHANGED <<kernel, list, info, todo, told>>

\* All the listeners were called: the zombie of a dead child is released and
\* its listeners are removed; anything else remains as it is.
Release ==
    /\ pc = "call"
    /\ todo = {}
    /\ pc' = "waitid"
    /\ \/ /\ IsExited(info.code) \/ IsSignaled(info.code)
          /\ proc' = [proc EXCEPT ![info.pid] = "reaped"]
          /\ DropListeners(info.pid)
       \/ /\ ~IsExited(info.code)
          /\ ~IsSignaled(info.code)
          /\ UNCHANGED <<proc, f_listeners, f_count, in_comm>>
    /\ UNCHANGED <<stops, owner, blocked, pending, missed, added, forked,
                   info, todo, told>>

---------------------------------------------------------------------------

Init ==
    /\ proc = [c \in Children |-> "none"]
    /\ stops = 0
    /\ owner = "none"
    /\ blocked = FALSE
    /\ pending = FALSE
    /\ f_listeners = {}
    /\ added = 0
    /\ f_count = 0
    /\ in_comm = FALSE
    /\ forked = {}
    /\ pc = "idle"
    /\ info = [pid |-> CHOOSE c \in Children : TRUE, code |-> "CLD_EXITED"]
    /\ todo = {}
    /\ told = [i \in 1 .. MaxListeners |-> 0]
    /\ missed = {}

\* process_signal() and what calls it.
EventLoop == Poll \/ Process \/ WaitId \/ Call \/ Return \/ Release

Child(c) == (\E code \in Dead : Die(c, code)) \/ Stop(c) \/ Continue(c)

User ==
    \/ \E o \in {"child", "other"} : Signal(o)
    \/ ReadOther
    \/ \E u \in BOOLEAN : CloseOther(u)
    \/ \E c \in Children :
        \/ Fork(c)
        \/ \E mask \in Masks : AddListener(c, mask)
        \/ RemoveListener(c)

Next == EventLoop \/ User \/ \E c \in Children : Child(c)

\* The event loop goes on and a callback that ran returns. Nothing is assumed
\* of the children and of the application.
Spec == /\ Init /\ [][Next]_vars
        /\ WF_vars(EventLoop)

---------------------------------------------------------------------------
(* Properties *)

TypeOK ==
    /\ proc \in [Children -> {"none", "running", "reaped"} \cup Codes]
    /\ stops \in 0 .. MaxStops
    /\ owner \in {"none", "other", "child"}
    /\ blocked \in BOOLEAN /\ pending \in BOOLEAN /\ in_comm \in BOOLEAN
    /\ f_listeners \subseteq Listeners
    /\ added \in 0 .. MaxListeners
    /\ f_count \in Nat
    /\ forked \subseteq Children /\ missed \subseteq Children
    /\ pc \in {"idle", "process", "waitid", "call", "callback"}
    /\ info \in [pid : Children, code : Codes]
    /\ todo \subseteq Listeners
    /\ told \in [1 .. MaxListeners -> Nat]

\* The count of the singleton is the number of its listeners, whatever the
\* callbacks add and remove, so that remove_connection() never throws
\* count_mismatch, and the object is in the communicator exactly while it has
\* listeners: run() neither waits for an object nobody listens to nor drops
\* one that somebody does (signal_child.cpp:431-484, 667-714).
CountMatches ==
    /\ f_count = Cardinality(f_listeners)
    /\ in_comm = (f_count > 0)

\* No death is lost: while a child whose death found SIGCHLD blocked is a
\* zombie, the signal is still pending or process_signal() has still to call
\* waitid(), although one signal stands for any number of deaths and more
\* of them come while the callbacks of another child run
\* (signal_child.cpp:496-565, signal.cpp:372-416).
NoLostDeath ==
    owner = "child" =>
        \A c \in Zombies \ missed : pending \/ pc \notin {"idle", "process"}

\* A listener hears of the death of its child at most once, although the
\* death is looked at with WNOWAIT, is still there while the callbacks run
\* and the loop starts again after it (signal_child.cpp:506-563).
DeathToldOnce ==
    \A i \in 1 .. MaxListeners : told[i] <= 1

\* A child is released only after all the listeners of its death that were
\* in the list when it was looked at have been called
\* (signal_child.cpp:538-563).
ReleasedAfterCalls ==
    [][\A c \in Children : \A l \in Of(c) :
         /\ proc[c] \in Dead /\ proc'[c] = "reaped"
         /\ l \in f_listeners \ f_listeners'
         /\ {"EXITED", "SIGNALED"} \subseteq l.flags
         => told'[l.id] = 1]_vars

\* A death the singleton can hear of ends up handled: the child does not
\* remain a zombie, unless there is a stopped or continued child
\* (signal_child.cpp:496-565).
DeathHandled ==
    \A c \in Children :
        (/\ c \in Zombies \ missed /\ owner = "child" /\ in_comm) ~>
            (\/ c \notin Zombies \/ ~in_comm \/ forked # {}
             \/ \E d \in Children : proc[d] \in Paused)

=============================================================================
