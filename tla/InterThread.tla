---------------------------- MODULE InterThread ----------------------------
(***************************************************************************)
(* inter_thread_message_connection: two threads exchange messages through  *)
(* two FIFOs (f_message_a, f_message_b), each doubled by an eventfd()      *)
(* created with EFD_SEMAPHORE (f_thread_a, f_thread_b) so that poll() can  *)
(* wait on it.  The FIFO and its semaphore are two objects: send_message() *)
(* pushes and then posts, process_read() pops and then waits, and the      *)
(* other thread runs between the two.                                      *)
(*                                                                         *)
(* Thread A created the connection; it waits in communicator::run().       *)
(* Thread B waits in inter_thread_message_connection::poll().  A message   *)
(* is named by its position in the stream of its receiver.                 *)
(***************************************************************************)
EXTENDS Integers, Sequences

CONSTANTS
  Timeouts,     \* timeouts, in microseconds, that thread B passes to poll()
  MaxSent       \* bound: messages sent to each thread

ASSUME TimeoutsAssumption == Timeouts \subseteq Int
ASSUME MaxSentAssumption == MaxSent \in Nat

VARIABLES
  queue,        \* queue[t]: f_message_a / f_message_b, the FIFO t reads
  sem,          \* sem[t]: the counter of eventfd f_thread_a / f_thread_b
  open,         \* open[t]: that eventfd was not reset by close()
  closer,       \* the thread that called close(), or "none"
  f_enabled,      \* connection::f_enabled, shared by both threads
  thread_pc,           \* pc[t]: where thread t is (see PCs)
  posting,      \* posting[t]: t is in send_message(), pushed but not posted
  timeout,      \* the local variable `timeout` of thread B's poll()
  hand,         \* hand[t]: message popped by t's process_read() (0: none)
  thread_sent,         \* sent[t]: how many messages were sent to t
  got,          \* got[t]: the last message process_message_a/b() received
  threw         \* threw[t]: process_read() of t raised runtime_error

thread_vars == <<queue, sem, open, closer, f_enabled, thread_pc, posting,
                 timeout, hand, thread_sent, got, threw>>

Thread == {"A", "B"}

Other(t) == IF t = "A" THEN "B" ELSE "A"

(***************************************************************************)
(* idle      outside of poll(); thread A: elsewhere in communicator::run() *)
(* loop      thread B at the top of the for(;;) of poll()                  *)
(* polling   blocked in ::poll()                                           *)
(* ready     ::poll() reported POLLIN, process_read() not called yet       *)
(* popped    process_read() after pop_front(), before read()               *)
(* callback  in process_message_a() or process_message_b()                 *)
(***************************************************************************)
PCs == {"idle", "loop", "polling", "ready", "popped", "callback"}

ThreadsTypeOK ==
  /\ queue \in [Thread -> Seq(Nat)]
  /\ sem \in [Thread -> Nat]
  /\ open \in [Thread -> BOOLEAN]
  /\ closer \in Thread \cup {"none"}
  /\ f_enabled \in BOOLEAN
  /\ thread_pc \in [Thread -> PCs]
  /\ posting \in [Thread -> BOOLEAN]
  /\ timeout \in Int
  /\ hand \in [Thread -> Nat]
  /\ thread_sent \in [Thread -> Nat]
  /\ got \in [Thread -> Nat]
  /\ threw \in [Thread -> BOOLEAN]

\* The constructor creates both eventfd; connections start enabled.
ThreadsInit ==
  /\ queue = [t \in Thread |-> <<>>]
  /\ sem = [t \in Thread |-> 0]
  /\ open = [t \in Thread |-> TRUE]
  /\ closer = "none"
  /\ f_enabled = TRUE
  /\ thread_pc = [t \in Thread |-> "idle"]
  /\ posting = [t \in Thread |-> FALSE]
  /\ timeout = 0
  /\ hand = [t \in Thread |-> 0]
  /\ thread_sent = [t \in Thread |-> 0]
  /\ got = [t \in Thread |-> 0]
  /\ threw = [t \in Thread |-> FALSE]

Goto(t, label) == thread_pc' = [thread_pc EXCEPT ![t] = label]

\* Thread t is inside send_message() or close().
Busy(t) == posting[t] \/ (closer = t /\ open["B"])

\* Thread t runs code of the application (where it may call send_message(),
\* close() and set_enable()): outside of poll(), in a message callback or,
\* for thread A, in the callback of another connection of the same pass.
InUserCode(t) ==
  /\ ~Busy(t)
  /\ thread_pc[t] \in {"idle", "callback"} \/ (t = "A" /\ thread_pc[t] = "ready")

-----------------------------------------------------------------------------
(***************************************************************************)
(* send_message()                                                          *)
(***************************************************************************)

\* f_message_x.push_back(msg): whatever the state of the eventfd.
Push(t) ==
  LET o == Other(t) IN
  /\ InUserCode(t)
  /\ thread_sent[o] < MaxSent
  /\ thread_sent' = [thread_sent EXCEPT ![o] = @ + 1]
  /\ queue' = [queue EXCEPT ![o] = Append(@, thread_sent[o] + 1)]
  /\ posting' = [posting EXCEPT ![t] = TRUE]
  /\ UNCHANGED <<sem, open, closer, f_enabled, thread_pc, timeout, hand, got, threw>>

\* Mutant: the sender posts its own eventfd.
PostOwn(t) ==
  /\ posting[t]
  /\ posting' = [posting EXCEPT ![t] = FALSE]
  /\ sem' = IF open[t] THEN [sem EXCEPT ![t] = @ + 1] ELSE sem
  /\ UNCHANGED <<queue, open, closer, f_enabled, thread_pc, timeout, hand, thread_sent,
                 got, threw>>

\* write(f_thread_x, 1): it fails, and send_message() returns false, once
\* the eventfd is closed.
Post(t) ==
  LET o == Other(t) IN
  /\ posting[t]
  /\ posting' = [posting EXCEPT ![t] = FALSE]
  /\ sem' = IF open[o] THEN [sem EXCEPT ![o] = @ + 1] ELSE sem
  /\ UNCHANGED <<queue, open, closer, f_enabled, thread_pc, timeout, hand, thread_sent,
                 got, threw>>

-----------------------------------------------------------------------------
(***************************************************************************)
(* poll() and, for thread A, the part of communicator::run() that waits    *)
(***************************************************************************)

\* Thread B calls poll(us).
CallPoll(us) ==
  /\ thread_pc["B"] = "idle" /\ ~Busy("B")
  /\ timeout' = us
  /\ Goto("B", "loop")
  /\ UNCHANGED <<queue, sem, open, closer, f_enabled, posting, hand, thread_sent, got,
                 threw>>

\* poll() returns -1: the socket is closed or the connection disabled.
PollRefused ==
  /\ thread_pc["B"] = "loop"
  /\ ~open["B"] \/ ~f_enabled
  /\ Goto("B", "idle")
  /\ UNCHANGED <<queue, sem, open, closer, f_enabled, posting, timeout, hand,
                 thread_sent, got, threw>>

\* Microseconds to milliseconds, at least one.  The result is assigned to
\* `timeout` itself, so the next turn of the loop divides it again.
ToMilliseconds(us) ==
  IF us > 0
  THEN IF us \div 1000 = 0 THEN 1 ELSE us \div 1000
  ELSE 0

PollWait ==
  /\ thread_pc["B"] = "loop"
  /\ open["B"] /\ f_enabled
  /\ timeout' = ToMilliseconds(timeout)
  /\ Goto("B", "polling")
  /\ UNCHANGED <<queue, sem, open, closer, f_enabled, posting, hand, thread_sent, got,
                 threw>>

\* ::poll() ends without an event: it timed out and poll() returns 0, or it
\* was interrupted while it blocked (EINTR) and poll() throws.
PollEnds ==
  /\ thread_pc["B"] = "polling"
  /\ sem["B"] = 0
  /\ Goto("B", "idle")
  /\ UNCHANGED <<queue, sem, open, closer, f_enabled, posting, timeout, hand,
                 thread_sent, got, threw>>

\* ::poll() reports POLLNVAL: the other thread closed the eventfd between
\* get_socket() and the call.  poll() loops, to find the socket closed.
PollInvalid ==
  /\ thread_pc["B"] = "polling"
  /\ ~open["B"]
  /\ Goto("B", "loop")
  /\ UNCHANGED <<queue, sem, open, closer, f_enabled, posting, timeout, hand,
                 thread_sent, got, threw>>

\* communicator::run() waits on the connections that are enabled and valid.
RunWait ==
  /\ thread_pc["A"] = "idle" /\ ~Busy("A")
  /\ open["A"] /\ f_enabled
  /\ Goto("A", "polling")
  /\ UNCHANGED <<queue, sem, open, closer, f_enabled, posting, timeout, hand,
                 thread_sent, got, threw>>

\* communicator::run() wakes up for another connection.
RunOther ==
  /\ thread_pc["A"] = "polling"
  /\ sem["A"] = 0
  /\ Goto("A", "idle")
  /\ UNCHANGED <<queue, sem, open, closer, f_enabled, posting, timeout, hand,
                 thread_sent, got, threw>>

\* ::poll() reports POLLIN: the semaphore is not zero.
Readable(t) ==
  /\ thread_pc[t] = "polling"
  /\ sem[t] > 0
  /\ Goto(t, "ready")
  /\ UNCHANGED <<queue, sem, open, closer, f_enabled, posting, timeout, hand,
                 thread_sent, got, threw>>

-----------------------------------------------------------------------------
(***************************************************************************)
(* process_read()                                                          *)
(***************************************************************************)

\* Mutant: the message is read but stays in the FIFO.
Front(t) ==
  /\ thread_pc[t] = "ready" /\ ~Busy(t)
  /\ hand' = IF queue[t] = <<>> THEN hand ELSE [hand EXCEPT ![t] = Head(queue[t])]
  /\ Goto(t, "popped")
  /\ UNCHANGED <<queue, sem, open, closer, f_enabled, posting, timeout, thread_sent, got,
                 threw>>

\* pop_front(msg, 0): returns false, without waiting, on an empty FIFO.
PopFront(t) ==
  /\ thread_pc[t] = "ready" /\ ~Busy(t)
  /\ IF queue[t] = <<>>
     THEN UNCHANGED <<hand, queue>>
     ELSE /\ hand' = [hand EXCEPT ![t] = Head(queue[t])]
          /\ queue' = [queue EXCEPT ![t] = Tail(@)]
  /\ Goto(t, "popped")
  /\ UNCHANGED <<sem, open, closer, f_enabled, posting, timeout, thread_sent, got, threw>>

\* Mutant: the eventfd was created without EFD_SEMAPHORE.
ReadWholeCounter(t) ==
  /\ thread_pc[t] = "popped"
  /\ open[t] /\ sem[t] > 0
  /\ sem' = [sem EXCEPT ![t] = 0]
  /\ got' = IF hand[t] # 0 THEN [got EXCEPT ![t] = hand[t]] ELSE got
  /\ hand' = [hand EXCEPT ![t] = 0]
  /\ Goto(t, "callback")
  /\ UNCHANGED <<queue, open, closer, f_enabled, posting, timeout, thread_sent, threw>>

\* read() of the eventfd; a message popped before is passed to the callback.
ReadEventfd(t) ==
  /\ thread_pc[t] = "popped"
  /\ open[t] /\ sem[t] > 0
  /\ sem' = [sem EXCEPT ![t] = @ - 1]
  /\ got' = IF hand[t] # 0 THEN [got EXCEPT ![t] = hand[t]] ELSE got
  /\ hand' = [hand EXCEPT ![t] = 0]
  /\ Goto(t, "callback")
  /\ UNCHANGED <<queue, open, closer, f_enabled, posting, timeout, thread_sent, threw>>

\* read() fails, the eventfd is non-blocking: process_read() throws and the
\* message in hand is gone.
ReadEventfdFails(t) ==
  /\ thread_pc[t] = "popped"
  /\ ~open[t] \/ sem[t] = 0
  /\ threw' = [threw EXCEPT ![t] = TRUE]
  /\ hand' = [hand EXCEPT ![t] = 0]
  /\ Goto(t, "idle")
  /\ UNCHANGED <<queue, sem, open, closer, f_enabled, posting, timeout, thread_sent, got>>

\* The callback returns, thread B to the top of the loop of poll().
EndCallback(t) ==
  /\ thread_pc[t] = "callback" /\ ~Busy(t)
  /\ Goto(t, IF t = "B" THEN "loop" ELSE "idle")
  /\ UNCHANGED <<queue, sem, open, closer, f_enabled, posting, timeout, hand,
                 thread_sent, got, threw>>

-----------------------------------------------------------------------------
(***************************************************************************)
(* close() and set_enable()                                                *)
(***************************************************************************)

\* close() resets f_thread_a, then f_thread_b.
CloseA(t) ==
  /\ InUserCode(t)
  /\ closer = "none"
  /\ closer' = t
  /\ open' = [open EXCEPT !["A"] = FALSE]
  /\ UNCHANGED <<queue, sem, f_enabled, thread_pc, posting, timeout, hand, thread_sent,
                 got, threw>>

CloseB ==
  /\ closer # "none" /\ open["B"]
  /\ open' = [open EXCEPT !["B"] = FALSE]
  /\ UNCHANGED <<queue, sem, closer, f_enabled, thread_pc, posting, timeout, hand,
                 thread_sent, got, threw>>

SetEnable(t) ==
  /\ InUserCode(t)
  /\ f_enabled' = ~f_enabled
  /\ UNCHANGED <<queue, sem, open, closer, thread_pc, posting, timeout, hand,
                 thread_sent, got, threw>>

-----------------------------------------------------------------------------
\* The steps thread t takes by itself once it was started.
Step(t) ==
  \/ Post(t)
  \/ Readable(t)
  \/ PopFront(t)
  \/ ReadEventfd(t)
  \/ ReadEventfdFails(t)
  \/ EndCallback(t)

\* Going back to wait: the event loop of A, the poll() loop of B.
Wait ==
  \/ \E us \in Timeouts : CallPoll(us)
  \/ PollWait
  \/ PollRefused

ThreadsNext ==
  \/ \E t \in Thread : Step(t) \/ Push(t) \/ CloseA(t) \/ SetEnable(t)
  \/ Wait
  \/ RunWait
  \/ RunOther
  \/ PollEnds
  \/ PollInvalid
  \/ CloseB

(***************************************************************************)
(* Fairness: neither thread stops for ever in the middle of a function of  *)
(* the connection or in a callback, and each goes back to wait, A because  *)
(* run() loops, B because it is the loop its owner is documented to write. *)
(***************************************************************************)
Fairness ==
  /\ \A t \in Thread : WF_thread_vars(Step(t))
  /\ WF_thread_vars(Wait)
  /\ WF_thread_vars(RunWait)

ThreadsSpec == ThreadsInit /\ [][ThreadsNext]_thread_vars

FairThreadsSpec == ThreadsSpec /\ Fairness

-----------------------------------------------------------------------------
(***************************************************************************)
(* Properties                                                              *)
(***************************************************************************)

\* The message a sender has pushed and not posted yet, the message a reader
\* has popped and not read yet: the FIFO and its semaphore differ by these.
Unposted(t) == IF posting[Other(t)] THEN 1 ELSE 0

Unread(t) == IF thread_pc[t] = "popped" THEN 1 ELSE 0

\* "got_message should always be true" (process_read()): the semaphore never
\* runs ahead of its FIFO, so a thread that was woken up finds a message.
GotMessage == \A t \in Thread : thread_pc[t] = "popped" => hand[t] # 0

\* process_read() throws only once the connection was closed: while it is
\* open the read() that follows the pop always finds the semaphore posted.
ThrowsOnlyIfClosed == \A t \in Thread : threw[t] => ~open[t]

\* A message in the FIFO of an open connection whose sender returned from
\* send_message() leaves the semaphore posted: poll() cannot sleep on it.
NoLostWakeup ==
  \A t \in Thread :
    open[t] /\ Len(queue[t]) > 0 /\ ~posting[Other(t)] => sem[t] > 0

\* Messages reach process_message_a() and process_message_b() in the order
\* send_message() was called, each one once and none skipped.
ReadInOrder ==
  [][\A t \in Thread : got'[t] # got[t] => got'[t] = got[t] + 1]_thread_vars

\* As long as the connection stays open and enabled, every message sent is
\* eventually handed over to the other thread.
Delivered ==
  <>[](f_enabled /\ closer = "none") =>
    \A t \in Thread, n \in 1 .. MaxSent : (thread_sent[t] >= n) ~> (got[t] >= n)

(***************************************************************************)
(* The inductive invariant behind the properties above.                    *)
(***************************************************************************)
\* A woken reader still finds its semaphore posted: nobody else takes from it.
WokenUp(t) == thread_pc[t] \in {"ready", "popped"} => sem[t] > 0

InHand(t) == hand[t] # 0 <=> thread_pc[t] = "popped"

\* Also on a closed eventfd, where posts are lost: never ahead of the FIFO.
SemaphoreBehind(t) ==
  /\ ~threw[t] => sem[t] + Unposted(t) <= Len(queue[t]) + Unread(t)
  /\ open[t] => sem[t] + Unposted(t) = Len(queue[t]) + Unread(t)

\* The FIFO holds the last messages sent, in order; the one in hand comes
\* right before them and the last one delivered right before that.
Consecutive(t) ==
  /\ Len(queue[t]) <= thread_sent[t]
  /\ \A i \in 1 .. Len(queue[t]) : queue[t][i] = thread_sent[t] - Len(queue[t]) + i
  /\ thread_pc[t] = "popped" => hand[t] = thread_sent[t] - Len(queue[t])
  /\ ~threw[t] => got[t] = thread_sent[t] - Len(queue[t]) - Unread(t)

Thrown(t) == threw[t] => ~open[t] /\ thread_pc[t] \in {"idle", "loop"}

Closed ==
  /\ closer = "none" => \A t \in Thread : open[t]
  /\ closer # "none" => ~open["A"]

\* All of it about the lane of messages to thread t.
Lane(t) ==
  /\ WokenUp(t)
  /\ InHand(t)
  /\ SemaphoreBehind(t)
  /\ Consecutive(t)
  /\ Thrown(t)

IInv ==
  /\ ThreadsTypeOK
  /\ Closed
  /\ \A t \in Thread : Lane(t)

\* The messages on their way to t: the one in hand, then those of the FIFO.
InTransit(t) == IF hand[t] = 0 THEN queue[t] ELSE <<hand[t]>> \o queue[t]

Transit == [t \in Thread |-> InTransit(t)]

Chan == INSTANCE Channel WITH transit <- Transit, sent <- thread_sent, closed <- (closer # "none")

\* The two-object implementation is a pair of FIFOs: a message is sent when
\* it is pushed and received when the callback gets it, and the steps in
\* between (the post, the wake up, the pop) show on neither side.
ImplementsChannel == Chan!Spec

=============================================================================
