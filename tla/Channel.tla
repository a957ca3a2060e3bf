------------------------------ MODULE Channel ------------------------------
(***************************************************************************)
(* What an inter-thread connection promises its two threads: one FIFO of   *)
(* messages per thread.  A thread appends to the other thread's FIFO and   *)
(* takes the messages of its own FIFO one by one, in order, each of them   *)
(* once.  Only once the connection was closed may a message in transit be  *)
(* dropped, and then it is the oldest one.                                 *)
(***************************************************************************)
EXTENDS Naturals, Sequences

CONSTANTS
  Thread,     \* the two threads that share the connection
  Other(_)    \* the thread on the other side

VARIABLES
  transit,    \* transit[t]: the messages on their way to thread t
  sent,       \* sent[t]: how many messages were sent to thread t
  got,        \* got[t]: the last message handed over to thread t
  closed      \* the connection was closed

chanVars == <<transit, sent, got, closed>>

Init ==
  /\ transit = [t \in Thread |-> <<>>]
  /\ sent = [t \in Thread |-> 0]
  /\ got = [t \in Thread |-> 0]
  /\ closed = FALSE

\* A message is named by its position in the stream of its receiver.
Send(t) ==
  /\ sent' = [sent EXCEPT ![Other(t)] = @ + 1]
  /\ transit' = [transit EXCEPT ![Other(t)] = Append(@, sent'[Other(t)])]
  /\ UNCHANGED <<got, closed>>

Receive(t) ==
  /\ transit[t] # <<>>
  /\ got' = [got EXCEPT ![t] = Head(transit[t])]
  /\ transit' = [transit EXCEPT ![t] = Tail(@)]
  /\ UNCHANGED <<sent, closed>>

Close ==
  /\ closed' = TRUE
  /\ UNCHANGED <<transit, sent, got>>

Drop(t) ==
  /\ closed
  /\ transit[t] # <<>>
  /\ transit' = [transit EXCEPT ![t] = Tail(@)]
  /\ UNCHANGED <<sent, got, closed>>

Next == Close \/ \E t \in Thread : Send(t) \/ Receive(t) \/ Drop(t)

Spec == Init /\ [][Next]_chanVars
=============================================================================
