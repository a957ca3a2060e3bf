------------------------ MODULE MCThreadsAndSockets -------------------------
(***************************************************************************)
(* InterThread and SocketEvents, which have few states, in one run. They   *)
(* share nothing: in a behaviour one of them is active and the other one   *)
(* stays as it was created.                                                *)
(***************************************************************************)
EXTENDS InterThread, SocketEvents

\* Five seconds, two milliseconds and less than one millisecond.
MCTimeouts == {5000000, 2000, 10}

CONSTANTS o1, o2
MCObjects == {o1, o2}

VARIABLE active
all_vars == <<thread_vars, socket_vars, active>>

OfThreads(A) == active = "threads" /\ A /\ UNCHANGED <<socket_vars, active>>
OfSockets(A) == active = "sockets" /\ A /\ UNCHANGED <<thread_vars, active>>

MCInit ==
    /\ active \in {"threads", "sockets"}
    /\ ThreadsInit /\ SocketInit
    /\ active = "threads" => addr = [o \in Objects |-> CHOOSE a \in Addresses : TRUE]

MCNext == OfThreads(ThreadsNext) \/ OfSockets(SocketNext)

\* The fairness of FairThreadsSpec and that of SocketSpec.
MCSpec ==
    /\ MCInit /\ [][MCNext]_all_vars
    /\ \A t \in Thread : WF_all_vars(OfThreads(Step(t)))
    /\ WF_all_vars(OfThreads(Wait))
    /\ WF_all_vars(OfThreads(RunWait))
    /\ WF_all_vars(OfSockets(Loop \/ process_write(FALSE)))
    /\ SF_all_vars(OfSockets(process_write(TRUE)))
    /\ \A o \in Objects : SF_all_vars(OfSockets(Lost(o))) /\ SF_all_vars(OfSockets(Connected(o)))
=============================================================================
