---------------------------- MODULE Threads_proofs ----------------------------
(***************************************************************************)
(* Proofs about the two connections that are used from two threads.        *)
(*                                                                         *)
(* The first part is about ed::tcp_client_permanent_message_connection,    *)
(* with and without a background thread, for any pauses, addresses, calls  *)
(* and number of messages: one connection at a time, no race on the client *)
(* of the thread that connects, and messages in order.                     *)
(*                                                                         *)
(* The second part is about ed::inter_thread_message_connection, for any   *)
(* number of messages and any timeouts: its invariant, no lost wake up,    *)
(* and that it implements the channel of Channel.                          *)
(***************************************************************************)
EXTENDS PermanentConnection, InterThread, TLAPS

-----------------------------------------------------------------------------
(***************************************************************************)
(* Type correctness                                                        *)
(***************************************************************************)

(***************************************************************************)
(* TypeOK in two parts: the Boolean variables and the others.              *)
(***************************************************************************)
Flags ==
  /\ useThread \in BOOLEAN
  /\ member \in BOOLEAN
  /\ enabled \in BOOLEAN
  /\ once \in BOOLEAN
  /\ done \in BOOLEAN
  /\ implDone \in BOOLEAN
  /\ polled \in BOOLEAN
  /\ msgDone \in BOOLEAN
  /\ client \in BOOLEAN
  /\ signal \in BOOLEAN
  /\ quit \in BOOLEAN

Data ==
  /\ delay \in Nat /\ pos \in 0 .. Len(Pauses)
  /\ cache \in Seq(1 .. MaxMsg)
  /\ messenger \in {"none", "open", "closed"}
  /\ output \in Seq(1 .. MaxMsg)
  /\ thread \in {"none", "running", "finished"}
  /\ address \in 0 .. Addresses - 1
  /\ pc \in {"loop", "flush", "crash"}
  /\ sent \in 0 .. MaxMsg /\ wire \in 0 .. MaxMsg

\* The type invariant is its two parts.
LEMMA TypeParts == (TypeOK <=> Flags /\ Data) /\ (TypeOK' <=> (Flags /\ Data)')
BY Zenon DEF TypeOK, Flags, Data

\* The first pause and where the list of pauses starts again.
LEMMA PauseTypes ==
  /\ initial_timer_value \in Nat
  /\ restart \in 0 .. Len(Pauses)
<1>1. Len(Pauses) \in Nat \ {0} /\ Pauses[1] \in Int
  BY PermAssumption
<1>. QED BY <1>1 DEF initial_timer_value, restart

\* The next pause is a delay and a position in the list.
LEMMA NextPauseTypes ==
  ASSUME Data, NextPause
  PROVE  pos' \in 0 .. Len(Pauses) /\ delay' \in Nat
<1>1. Len(Pauses) \in Nat /\ pos \in 0 .. Len(Pauses) /\ delay \in Nat
  BY PermAssumption DEF Data
<1>2. get_next_delay \in Int
  <2>1. pos < Len(Pauses) => Pauses[pos + 1] \in Int
    BY <1>1, PermAssumption
  <2>. QED BY <2>1 DEF get_next_delay, Abs
<1>. QED BY <1>1, <1>2 DEF NextPause

\* The next address is one of them.
LEMMA NextAddress ==
  ASSUME address \in 0 .. Addresses - 1
  PROVE  (address + 1) % Addresses \in 0 .. Addresses - 1
<1>1. Addresses \in Nat /\ Addresses > 0 /\ address + 1 \in Nat
  BY PermAssumption
<1>. QED BY <1>1

\* The output buffer is written out: the Boolean variables.
LEMMA EmptyBufferFlags ==
  ASSUME Flags, EmptyBuffer
  PROVE  polled' \in BOOLEAN /\ msgDone' \in BOOLEAN /\ client' \in BOOLEAN /\ member' \in BOOLEAN
BY Zenon DEF Flags, EmptyBuffer, OuterRemoved, Disconnected

\* The messenger gets a message: the Boolean variables.
LEMMA SendsFlags ==
  ASSUME Flags, NEW m, MessengerSends(m)
  PROVE  polled' \in BOOLEAN /\ msgDone' \in BOOLEAN /\ client' \in BOOLEAN /\ member' \in BOOLEAN
<1>1. CASE EmptyBuffer
  BY <1>1, EmptyBufferFlags
<1>2. CASE UNCHANGED <<member, polled, msgDone, client>>
  BY <1>2, Zenon DEF Flags
<1>. QED BY <1>1, <1>2 DEF MessengerSends, msgrVars

\* The thread says that it is done: the Boolean variables.
LEMMA ThreadDoneFlags ==
  ASSUME Flags, NEW c \in BOOLEAN, ThreadDone(c)
  PROVE  polled' \in BOOLEAN /\ msgDone' \in BOOLEAN /\ signal' \in BOOLEAN /\ enabled' \in BOOLEAN
BY Zenon DEF Flags, ThreadDone, msgrVars

\* Every step keeps the types of the Boolean variables.
LEMMA FlagsStep == ASSUME Flags, [Next]_vars PROVE Flags'
<1>1. CASE SpuriousTimeout
  BY <1>1, Zenon DEF SpuriousTimeout, TimeoutCalled, Flags, msgrVars, threadVars
<1>2. ASSUME NEW ok \in BOOLEAN, StartThread(ok) PROVE Flags'
  BY <1>2, Zenon DEF StartThread, TimeoutCalled, Flags, msgrVars
<1>3. ASSUME NEW ok \in BOOLEAN, ThreadConnects(ok) PROVE Flags'
  BY <1>3, Zenon DEF ThreadConnects, Attempt, Flags, msgrVars, timerVars
<1>4. ASSUME NEW ok \in BOOLEAN, ConnectNow(ok) PROVE Flags'
  BY <1>4, ThreadDoneFlags, Zenon DEF ConnectNow, TimeoutCalled, Flags
<1>5. CASE ThreadSignaled
  <2>1. polled' \in BOOLEAN /\ msgDone' \in BOOLEAN /\ signal' \in BOOLEAN /\ enabled' \in BOOLEAN
    BY <1>5, ThreadDoneFlags DEF ThreadSignaled, Flags
  <2>. QED BY <1>5, <2>1, Zenon DEF ThreadSignaled, Flags
<1>6. CASE FlushOne
  BY <1>6, SendsFlags, Zenon DEF FlushOne, Flags, timerVars
<1>7. CASE FlushNull
  BY <1>7, Zenon DEF FlushNull, Flags, msgrVars, threadVars, timerVars
<1>8. CASE Flushed
  BY <1>8, Zenon DEF Flushed, Flags, msgrVars, threadVars
<1>9. CASE MessengerWrites
  BY <1>9, EmptyBufferFlags, Zenon DEF MessengerWrites, Flags, timerVars
<1>10. ASSUME NEW hup \in BOOLEAN, MessengerLost(hup) PROVE Flags'
  BY <1>10, Zenon DEF MessengerLost, ConnectionLost, OuterRemoved, Disconnected, Flags
<1>11. ASSUME NEW keep \in BOOLEAN, send_message(keep) PROVE Flags'
  BY <1>11, SendsFlags, Zenon DEF send_message, Flags, timerVars, msgrVars
<1>12. CASE mark_done
  BY <1>12, Zenon DEF mark_done, Flags, msgrVars, threadVars, timerVars
<1>13. CASE mark_done_messenger
  BY <1>13, Zenon DEF mark_done_messenger, is_connected, Flags, threadVars, timerVars
<1>14. ASSUME NEW hup \in BOOLEAN, disconnect(hup) PROVE Flags'
  BY <1>14, Zenon DEF disconnect, Disconnected, Flags
<1>15. CASE remove_connection
  BY <1>15, Zenon DEF remove_connection, OuterRemoved, Disconnected, Flags, timerVars
<1>16. CASE UNCHANGED vars
  BY <1>16, Zenon DEF vars, Flags, timerVars, msgrVars, threadVars
<1>. QED BY <1>1, <1>2, <1>3, <1>4, <1>5, <1>6, <1>7, <1>8, <1>9, <1>10, <1>11, <1>12, <1>13, <1>14,
            <1>15, <1>16 DEF Next, Connect, Messenger, Application

\* The first and the others of a sequence.
LEMMA HeadTailType ==
  ASSUME NEW S, NEW s \in Seq(S), s # <<>>
  PROVE  Head(s) \in S /\ Tail(s) \in Seq(S)
OBVIOUS

\* An empty buffer is a buffer.
LEMMA EmptyOutput == <<>> \in Seq(1 .. MaxMsg)
OBVIOUS

\* The output buffer is written out: the other variables.
LEMMA EmptyBufferData ==
  ASSUME Data, EmptyBuffer
  PROVE  messenger' \in {"none", "open", "closed"} /\ output' \in Seq(1 .. MaxMsg)
BY EmptyOutput, Zenon DEF Data, EmptyBuffer, OuterRemoved, Disconnected

\* The messenger gets a message: the other variables.
LEMMA SendsData ==
  ASSUME Data, NEW m \in 1 .. MaxMsg, MessengerSends(m)
  PROVE  /\ messenger' \in {"none", "open", "closed"} /\ output' \in Seq(1 .. MaxMsg)
         /\ wire' \in 0 .. MaxMsg
<1>1. CASE wire' = m /\ EmptyBuffer
  BY <1>1, EmptyBufferData, PermAssumption
<1>2. CASE output' = Append(output, m) /\ UNCHANGED <<messenger, wire>>
  BY <1>2 DEF Data
<1>3. CASE UNCHANGED <<messenger, output, wire>>
  BY <1>3 DEF Data
<1>. QED BY <1>1, <1>2, <1>3 DEF MessengerSends, msgrVars

\* The thread says that it is done: the other variables.
LEMMA ThreadDoneData ==
  ASSUME Data, NEW c \in BOOLEAN, ThreadDone(c)
  PROVE  /\ messenger' \in {"none", "open", "closed"} /\ output' \in Seq(1 .. MaxMsg)
         /\ thread' = "none" /\ pc' \in {"loop", "flush", "crash"}
BY EmptyOutput, Zenon DEF Data, ThreadDone, msgrVars

\* Every step keeps the types of the other variables.
LEMMA DataStep == ASSUME Flags, Data, [Next]_vars PROVE Data'
<1>1. CASE SpuriousTimeout
  BY <1>1 DEF SpuriousTimeout, TimeoutCalled, Data, msgrVars, threadVars
<1>2. ASSUME NEW ok \in BOOLEAN, StartThread(ok) PROVE Data'
  BY <1>2, NextPauseTypes DEF StartThread, TimeoutCalled, Data, msgrVars
<1>3. ASSUME NEW ok \in BOOLEAN, ThreadConnects(ok) PROVE Data'
  <2>1. address' \in 0 .. Addresses - 1
    BY <1>3, NextAddress DEF ThreadConnects, Attempt, Data
  <2>. QED BY <1>3, <2>1 DEF ThreadConnects, Data, msgrVars, timerVars
<1>4. ASSUME NEW ok \in BOOLEAN, ConnectNow(ok) PROVE Data'
  <2>1. address' \in 0 .. Addresses - 1
    BY <1>4, NextAddress DEF ConnectNow, Data
  <2>. QED BY <1>4, <2>1, NextPauseTypes, ThreadDoneData DEF ConnectNow, Data
<1>5. CASE ThreadSignaled
  <2>1. client \in BOOLEAN
    BY DEF Flags
  <2>. QED BY <1>5, <2>1, ThreadDoneData DEF ThreadSignaled, Data
<1>6. CASE FlushOne
  <2>1. Head(cache) \in 1 .. MaxMsg /\ Tail(cache) \in Seq(1 .. MaxMsg)
    <3>1. cache \in Seq(1 .. MaxMsg) /\ cache # <<>>
      BY <1>6 DEF FlushOne, Data
    <3>. QED BY <3>1, HeadTailType, Zenon
  <2>. QED BY <1>6, <2>1, SendsData DEF FlushOne, Data, timerVars
<1>7. CASE FlushNull
  BY <1>7 DEF FlushNull, Data, msgrVars, threadVars, timerVars
<1>8. CASE Flushed
  BY <1>8, PauseTypes DEF Flushed, Data, msgrVars, threadVars
<1>9. CASE MessengerWrites
  <2>1. wire' \in 0 .. MaxMsg
    BY <1>9, PermAssumption DEF MessengerWrites, Data
  <2>. QED BY <1>9, <2>1, EmptyBufferData DEF MessengerWrites, Data, timerVars
<1>10. ASSUME NEW hup \in BOOLEAN, MessengerLost(hup) PROVE Data'
  <2>1. messenger' \in {"none", "open", "closed"} /\ output' \in Seq(1 .. MaxMsg)
    BY <1>10, EmptyOutput, Zenon DEF MessengerLost, ConnectionLost, OuterRemoved, Disconnected, Data
  <2>. QED BY <1>10, <2>1, Zenon DEF MessengerLost, Data
<1>11. ASSUME NEW keep \in BOOLEAN, send_message(keep) PROVE Data'
  <2>1. sent + 1 \in 1 .. MaxMsg
    BY <1>11, PermAssumption DEF send_message, Data
  <2>2. CASE is_connected
    BY <1>11, <2>1, <2>2, SendsData DEF send_message, Data, timerVars
  <2>3. CASE ~is_connected
    <3>1. Append(cache, sent + 1) \in Seq(1 .. MaxMsg)
      BY <2>1 DEF Data
    <3>2. cache' \in Seq(1 .. MaxMsg)
      BY <1>11, <2>3, <3>1, Zenon DEF send_message, Data
    <3>3. sent' \in 0 .. MaxMsg
      BY <1>11, <2>1 DEF send_message
    <3>. QED BY <1>11, <2>3, <3>2, <3>3, Zenon DEF send_message, Data, timerVars, msgrVars
  <2>. QED BY <2>2, <2>3
<1>12. CASE mark_done
  BY <1>12 DEF mark_done, Data, msgrVars, threadVars, timerVars
<1>13. CASE mark_done_messenger
  BY <1>13 DEF mark_done_messenger, Data, threadVars, timerVars
<1>14. ASSUME NEW hup \in BOOLEAN, disconnect(hup) PROVE Data'
  BY <1>14 DEF disconnect, Disconnected, Data
<1>15. CASE remove_connection
  BY <1>15 DEF remove_connection, OuterRemoved, Disconnected, Data, timerVars
<1>16. CASE UNCHANGED vars
  BY <1>16 DEF vars, Data, timerVars, msgrVars, threadVars
<1>. QED BY <1>1, <1>2, <1>3, <1>4, <1>5, <1>6, <1>7, <1>8, <1>9, <1>10, <1>11, <1>12, <1>13, <1>14,
            <1>15, <1>16 DEF Next, Connect, Messenger, Application

\* Every step keeps the type invariant.
LEMMA TypeStep == ASSUME TypeOK, [Next]_vars PROVE TypeOK'
BY TypeParts, FlagsStep, DataStep

\* Type correctness: the position in the list of pauses, in particular, never
\* passes its end.
THEOREM TypeCorrect == Spec => []TypeOK
<1>1. Init => Flags
  BY Zenon DEF Init, Flags
<1>2. Init => Data
  BY PauseTypes, PermAssumption DEF Init, Data
<1>3. Init => TypeOK
  BY <1>1, <1>2, TypeParts
<1>. QED BY <1>3, TypeStep, PTL DEF Spec
-----------------------------------------------------------------------------
(***************************************************************************)
(* One connection at a time.                                               *)
(*                                                                         *)
(* OneConnection is not inductive: a connection that is lost enables the   *)
(* timer again, which is right only if no thread is connecting then.  That *)
(* is so because a thread is started by an enabled timer, hence without a  *)
(* messenger, and is joined before the messenger is created.               *)
(***************************************************************************)
Exclusive ==
  /\ pc = "loop" /\ (is_connected \/ thread # "none") => ~enabled \/ done
  /\ is_connected => thread = "none"
  /\ pc = "flush" => thread = "none"
  /\ polled => is_connected

\* Writing the output buffer never makes a connection.
LEMMA EmptyBufferMessenger ==
  ASSUME EmptyBuffer, polled => is_connected
  PROVE  (is_connected' => is_connected) /\ (polled' => is_connected')
BY DEF EmptyBuffer, OuterRemoved, Disconnected, is_connected

\* Sending a message never makes a connection.
LEMMA SendsMessenger ==
  ASSUME NEW m, MessengerSends(m), polled => is_connected
  PROVE  (is_connected' => is_connected) /\ (polled' => is_connected')
BY EmptyBufferMessenger DEF MessengerSends, is_connected, msgrVars

\* What the end of the thread changes: nothing, or there is a messenger.
LEMMA ThreadDoneLeads ==
  ASSUME NEW c, ThreadDone(c)
  PROVE  /\ thread' = "none"
         /\ \/ messenger' = messenger /\ polled' = polled /\ pc' = pc
            \/ messenger' = "open" /\ pc' = "flush"
BY Zenon DEF ThreadDone, msgrVars

\* Every step keeps a messenger, a thread and the timer apart.
LEMMA ExclusiveStep == ASSUME TypeOK, Exclusive, [Next]_vars PROVE Exclusive'
<1>. USE DEF Exclusive, is_connected
<1>1. CASE SpuriousTimeout
  BY <1>1 DEF SpuriousTimeout, msgrVars, threadVars
<1>2. ASSUME NEW ok \in BOOLEAN, StartThread(ok) PROVE Exclusive'
  <2>1. messenger = "none" /\ thread = "none" /\ pc = "loop" /\ ~polled
    BY <1>2 DEF StartThread, TimeoutCalled
  <2>2. pc' = "loop" /\ messenger' = "none" /\ ~polled'
    BY <1>2, <2>1 DEF StartThread, msgrVars
  <2>3. thread' # "none" => ~enabled'
    BY <1>2, <2>1 DEF StartThread
  <2>. QED BY <2>2, <2>3
<1>3. ASSUME NEW ok \in BOOLEAN, ThreadConnects(ok) PROVE Exclusive'
  BY <1>3 DEF ThreadConnects, msgrVars, timerVars
<1>4. ASSUME NEW ok \in BOOLEAN, ConnectNow(ok) PROVE Exclusive'
  <2>1. messenger = "none" /\ pc = "loop" /\ ~polled
    BY <1>4 DEF ConnectNow, TimeoutCalled
  <2>2. /\ thread' = "none"
        /\ \/ messenger' = messenger /\ polled' = polled /\ pc' = pc
           \/ messenger' = "open" /\ pc' = "flush"
    BY <1>4, ThreadDoneLeads, Zenon DEF ConnectNow
  <2>. QED BY <2>1, <2>2
<1>5. CASE ThreadSignaled
  <2>1. messenger = "none" /\ ~polled
    BY <1>5 DEF ThreadSignaled
  <2>2. /\ thread' = "none"
        /\ \/ messenger' = messenger /\ polled' = polled /\ pc' = pc
           \/ messenger' = "open" /\ pc' = "flush"
    BY <1>5, ThreadDoneLeads, Zenon DEF ThreadSignaled
  <2>. QED BY <1>5, <2>1, <2>2 DEF ThreadSignaled
<1>6. CASE FlushOne
  <2>1. (messenger' # "none" => messenger # "none") /\ (polled' => messenger' # "none")
    BY <1>6, SendsMessenger DEF FlushOne
  <2>. QED BY <1>6, <2>1 DEF FlushOne, timerVars
<1>7. CASE FlushNull
  BY <1>7 DEF FlushNull, msgrVars, threadVars
<1>8. CASE Flushed
  BY <1>8 DEF Flushed, msgrVars, threadVars
<1>9. CASE MessengerWrites
  <2>1. (messenger' # "none" => messenger # "none") /\ (polled' => messenger' # "none")
    BY <1>9, EmptyBufferMessenger DEF MessengerWrites
  <2>. QED BY <1>9, <2>1 DEF MessengerWrites, timerVars
<1>10. ASSUME NEW hup \in BOOLEAN, MessengerLost(hup) PROVE Exclusive'
  <2>1. messenger # "none" /\ thread = "none" /\ thread' = "none" /\ pc' = "loop" /\ done' = done
    BY <1>10 DEF MessengerLost
  <2>2. CASE done
    BY <1>10, <2>1, <2>2 DEF MessengerLost, ConnectionLost, OuterRemoved, Disconnected
  <2>3. CASE ~done
    BY <1>10, <2>1, <2>3 DEF MessengerLost, ConnectionLost, Disconnected
  <2>. QED BY <2>2, <2>3
<1>11. ASSUME NEW keep \in BOOLEAN, send_message(keep) PROVE Exclusive'
  <2>1. (messenger' # "none" => messenger # "none") /\ (polled' => messenger' # "none")
    BY <1>11, SendsMessenger DEF send_message, msgrVars
  <2>. QED BY <1>11, <2>1 DEF send_message, timerVars
<1>12. CASE mark_done
  BY <1>12 DEF mark_done, msgrVars, threadVars, timerVars
<1>13. CASE mark_done_messenger
  BY <1>13 DEF mark_done_messenger, threadVars, timerVars
<1>14. ASSUME NEW hup \in BOOLEAN, disconnect(hup) PROVE Exclusive'
  BY <1>14 DEF disconnect, Disconnected
<1>15. CASE remove_connection
  BY <1>15 DEF remove_connection, OuterRemoved, Disconnected, timerVars
<1>16. CASE UNCHANGED vars
  BY <1>16 DEF vars, timerVars, msgrVars, threadVars
<1>. QED BY <1>1, <1>2, <1>3, <1>4, <1>5, <1>6, <1>7, <1>8, <1>9, <1>10, <1>11, <1>12, <1>13, <1>14,
            <1>15, <1>16 DEF Next, Connect, Messenger, Application

\* A messenger, a thread that connects and the timer exclude each other.
LEMMA Exclusion == Spec => []Exclusive
<1>1. Init => Exclusive
  BY DEF Init, Exclusive, is_connected
<1>. QED BY <1>1, TypeCorrect, ExclusiveStep, PTL DEF Spec

\* The timer never asks for a connection while there is a messenger or a
\* thread that connects: process_timeout() cannot replace a messenger.
THEOREM SingleConnection == Spec => []OneConnection
<1>1. Exclusive => OneConnection
  BY DEF Exclusive, OneConnection
<1>. QED BY <1>1, Exclusion, PTL

\* disconnect() resets the client of the runner without the mutex, and the
\* background thread is never running then.
THEOREM NoRaceOnClient == Spec => []CloseDoesNotRace
<1>1. Exclusive => CloseDoesNotRace
  BY DEF Exclusive, CloseDoesNotRace
<1>. QED BY <1>1, Exclusion, PTL

-----------------------------------------------------------------------------
(***************************************************************************)
(* Messages stay in order.                                                 *)
(*                                                                         *)
(* The messages in the output buffer o come before those in the cache c,   *)
(* all of them after w, the last one on the wire, and none after s, the    *)
(* last one sent.                                                          *)
(***************************************************************************)
Ordered(o, c, w, s) ==
  /\ InOrder(o) /\ InOrder(c)
  /\ \A i \in DOMAIN o, j \in DOMAIN c : o[i] < c[j]
  /\ \A i \in DOMAIN o : w < o[i] /\ o[i] <= s
  /\ \A j \in DOMAIN c : w < c[j] /\ c[j] <= s
  /\ w <= s

\* The cache is empty while messages go straight to the messenger, and the
\* output buffer goes away with the messenger.
MessageOrder ==
  /\ Ordered(output, cache, wire, sent)
  /\ pc = "loop" /\ is_connected => cache = <<>>
  /\ ~is_connected => output = <<>>

\* Without messages the buffers are in order.
LEMMA OrderedNone ==
  ASSUME NEW w \in Nat, NEW s \in Nat, w <= s PROVE Ordered(<<>>, <<>>, w, s)
BY DEF Ordered, InOrder

\* A messenger that is closed loses its output buffer.
LEMMA OrderedDropOutput ==
  ASSUME NEW o \in Seq(Nat), NEW c \in Seq(Nat), NEW w \in Nat, NEW s \in Nat, Ordered(o, c, w, s)
  PROVE  Ordered(<<>>, c, w, s)
BY DEF Ordered, InOrder

\* The cache is given up.
LEMMA OrderedDropCache ==
  ASSUME NEW o \in Seq(Nat), NEW c \in Seq(Nat), NEW w \in Nat, NEW s \in Nat, Ordered(o, c, w, s)
  PROVE  Ordered(o, <<>>, w, s)
BY DEF Ordered, InOrder

\* A sequence with one more number, position by position.
LEMMA AppendAt ==
  ASSUME NEW q \in Seq(Nat), NEW m \in Nat
  PROVE  /\ Append(q, m) \in Seq(Nat)
         /\ DOMAIN Append(q, m) = DOMAIN q \cup {Len(q) + 1}
         /\ Len(q) + 1 \notin DOMAIN q
         /\ \A i \in DOMAIN q : Append(q, m)[i] = q[i] /\ i < Len(q) + 1
         /\ Append(q, m)[Len(q) + 1] = m
OBVIOUS

\* A larger number at the end keeps the order.
LEMMA AppendInOrder ==
  ASSUME NEW q \in Seq(Nat), NEW m \in Nat, InOrder(q), \A i \in DOMAIN q : q[i] < m
  PROVE  InOrder(Append(q, m))
<1>. SUFFICES ASSUME NEW i \in DOMAIN Append(q, m), NEW j \in DOMAIN Append(q, m), i < j
              PROVE  Append(q, m)[i] < Append(q, m)[j]
  BY DEF InOrder
<1>1. i \in DOMAIN q
  BY AppendAt
<1>2. CASE j \in DOMAIN q
  BY <1>1, <1>2, AppendAt DEF InOrder
<1>3. CASE j \notin DOMAIN q
  BY <1>1, <1>3, AppendAt
<1>. QED BY <1>2, <1>3

\* A new message behind everything else.
LEMMA OrderedAppendOutput ==
  ASSUME NEW o \in Seq(Nat), NEW w \in Nat, NEW s \in Nat, Ordered(o, <<>>, w, s)
  PROVE  Ordered(Append(o, s + 1), <<>>, w, s + 1)
<1>1. \A i \in DOMAIN o : o[i] \in Nat /\ o[i] < s + 1
  BY DEF Ordered
<1>2. InOrder(Append(o, s + 1))
  BY <1>1, AppendInOrder DEF Ordered
<1>3. \A i \in DOMAIN Append(o, s + 1) : w < Append(o, s + 1)[i] /\ Append(o, s + 1)[i] <= s + 1
  <2>1. s + 1 \in Nat /\ w < s + 1
    BY DEF Ordered
  <2>. QED BY <1>1, <2>1, AppendAt DEF Ordered
<1>. QED BY <1>2, <1>3 DEF Ordered, InOrder

\* A new message is cached.
LEMMA OrderedAppendCache ==
  ASSUME NEW c \in Seq(Nat), NEW w \in Nat, NEW s \in Nat, Ordered(<<>>, c, w, s)
  PROVE  Ordered(<<>>, Append(c, s + 1), w, s + 1)
<1>1. \A i \in DOMAIN c : c[i] \in Nat /\ c[i] < s + 1
  BY DEF Ordered
<1>2. InOrder(Append(c, s + 1))
  BY <1>1, AppendInOrder DEF Ordered
<1>3. \A i \in DOMAIN Append(c, s + 1) : w < Append(c, s + 1)[i] /\ Append(c, s + 1)[i] <= s + 1
  <2>1. s + 1 \in Nat /\ w < s + 1
    BY DEF Ordered
  <2>. QED BY <1>1, <2>1, AppendAt DEF Ordered
<1>. QED BY <1>2, <1>3 DEF Ordered, InOrder

\* A new message is refused.
LEMMA OrderedLater ==
  ASSUME NEW o \in Seq(Nat), NEW c \in Seq(Nat), NEW w \in Nat, NEW s \in Nat, Ordered(o, c, w, s)
  PROVE  Ordered(o, c, w, s + 1)
<1>1. \A i \in DOMAIN o : o[i] \in Nat
  OBVIOUS
<1>2. \A i \in DOMAIN c : c[i] \in Nat
  OBVIOUS
<1>. QED BY <1>1, <1>2 DEF Ordered

\* The others of a sequence, position by position.
LEMMA TailAt ==
  ASSUME NEW c \in Seq(Nat), c # <<>>
  PROVE  /\ 1 \in DOMAIN c /\ Head(c) = c[1] /\ Head(c) \in Nat /\ Tail(c) \in Seq(Nat)
         /\ \A j \in DOMAIN Tail(c) : j \in Nat /\ j > 0 /\ j + 1 \in DOMAIN c /\ Tail(c)[j] = c[j + 1]
OBVIOUS

\* The first cached message goes to the wire, is lost, or is buffered.
LEMMA OrderedTail ==
  ASSUME NEW o \in Seq(Nat), NEW c \in Seq(Nat), NEW w \in Nat, NEW s \in Nat,
         Ordered(o, c, w, s), c # <<>>
  PROVE  /\ Ordered(o, Tail(c), w, s)
         /\ Ordered(<<>>, Tail(c), Head(c), s)
         /\ Ordered(Append(o, Head(c)), Tail(c), w, s)
         /\ w < Head(c)
<1>. DEFINE h == Head(c)
            t == Tail(c)
<1>1. 1 \in DOMAIN c /\ h = c[1] /\ h \in Nat /\ t \in Seq(Nat)
  BY TailAt
<1>2. \A j \in DOMAIN t : j \in Nat /\ j > 0 /\ j + 1 \in DOMAIN c /\ t[j] = c[j + 1]
  BY TailAt
<1>3. \A j \in DOMAIN t : h < t[j] /\ w < t[j] /\ t[j] <= s
  BY <1>1, <1>2 DEF Ordered, InOrder
<1>4. InOrder(t)
  BY <1>2 DEF Ordered, InOrder
<1>5. w < h /\ h <= s /\ \A i \in DOMAIN o : o[i] < h
  BY <1>1 DEF Ordered
<1>6. Ordered(o, t, w, s)
  BY <1>2, <1>3, <1>4 DEF Ordered
<1>7. Ordered(<<>>, t, h, s)
  BY <1>3, <1>4, <1>5 DEF Ordered, InOrder
<1>8. Ordered(Append(o, h), t, w, s)
  <2>1. InOrder(Append(o, h))
    BY <1>1, <1>5, AppendInOrder DEF Ordered
  <2>2. \A i \in DOMAIN Append(o, h) : w < Append(o, h)[i] /\ Append(o, h)[i] <= s
    <3>1. \A i \in DOMAIN o : Append(o, h)[i] = o[i] /\ w < o[i] /\ o[i] <= s
      BY <1>1, AppendAt DEF Ordered
    <3>. QED BY <1>1, <1>5, <3>1, AppendAt
  <2>3. \A i \in DOMAIN Append(o, h), j \in DOMAIN t : Append(o, h)[i] < t[j]
    <3>. SUFFICES ASSUME NEW i \in DOMAIN Append(o, h), NEW j \in DOMAIN t PROVE Append(o, h)[i] < t[j]
      OBVIOUS
    <3>1. CASE i \in DOMAIN o
      <4>1. Append(o, h)[i] = o[i]
        BY <1>1, <3>1, AppendAt
      <4>. QED BY <1>6, <3>1, <4>1 DEF Ordered
    <3>2. CASE i \notin DOMAIN o
      <4>1. Append(o, h)[i] = h
        BY <1>1, <3>2, AppendAt
      <4>. QED BY <1>3, <4>1
    <3>. QED BY <3>1, <3>2
  <2>. QED BY <1>3, <1>4, <2>1, <2>2, <2>3 DEF Ordered
<1>. QED BY <1>5, <1>6, <1>7, <1>8

\* What sending the message m does to the wire and to the output buffer.
LEMMA SendsEffect ==
  ASSUME NEW m, MessengerSends(m)
  PROVE  \/ wire' = m /\ output = <<>> /\ output' = <<>>
         \/ wire' = wire /\ output' = Append(output, m) /\ messenger' = messenger
         \/ wire' = wire /\ output' = output /\ messenger' = messenger
BY Zenon DEF MessengerSends, EmptyBuffer, OuterRemoved, Disconnected, msgrVars

\* A sequence of a set is one of a larger set.
LEMMA SeqOfMore ==
  ASSUME NEW S, NEW R, S \subseteq R, NEW q \in Seq(S) PROVE q \in Seq(R)
OBVIOUS

\* The types of what the order is about.
LEMMA OrderTypes ==
  ASSUME TypeOK
  PROVE  output \in Seq(Nat) /\ cache \in Seq(Nat) /\ wire \in Nat /\ sent \in Nat
<1>1. 1 .. MaxMsg \subseteq Nat /\ 0 .. MaxMsg \subseteq Nat
  BY PermAssumption
<1>2. output \in Seq(1 .. MaxMsg) /\ cache \in Seq(1 .. MaxMsg)
  BY DEF TypeOK
<1>3. output \in Seq(Nat) /\ cache \in Seq(Nat)
  BY <1>1, <1>2, SeqOfMore, Zenon
<1>. QED BY <1>1, <1>3 DEF TypeOK

\* The messenger is released, and its output with it, or nothing changes.
LEMMA OrderReleased ==
  ASSUME TypeOK, MessageOrder,
         wire' = wire, sent' = sent, cache' = cache \/ cache' = <<>>,
         output' = output \/ output' = <<>>,
         pc' = "loop" /\ is_connected' => (pc = "loop" /\ is_connected) \/ cache' = <<>>,
         ~is_connected' => ~is_connected \/ output' = <<>>
  PROVE  MessageOrder'
<1>1. Ordered(output, cache, wire, sent)
  BY DEF MessageOrder
<1>2. Ordered(output', cache', wire, sent)
  <2>1. output \in Seq(Nat) /\ cache \in Seq(Nat) /\ wire \in Nat /\ sent \in Nat
    BY OrderTypes
  <2>2. Ordered(<<>>, cache, wire, sent) /\ Ordered(output, <<>>, wire, sent)
    BY <1>1, <2>1, OrderedDropOutput, OrderedDropCache
  <2>3. Ordered(<<>>, <<>>, wire, sent)
    BY <1>1, <2>1, OrderedNone DEF Ordered
  <2>. QED BY <1>1, <2>2, <2>3
<1>3. pc' = "loop" /\ is_connected' => cache' = <<>>
  BY DEF MessageOrder
<1>4. ~is_connected' => output' = <<>>
  BY DEF MessageOrder
<1>. QED BY <1>2, <1>3, <1>4 DEF MessageOrder

\* Nothing of what the invariant is about changes.
LEMMA OrderFrame ==
  ASSUME TypeOK, MessageOrder, wire' = wire, sent' = sent, cache' = cache, output' = output,
         messenger' = messenger, pc' = "loop" => pc = "loop" \/ cache = <<>>
  PROVE  MessageOrder'
BY OrderReleased DEF is_connected

\* Every step keeps the messages in order.
LEMMA OrderStep == ASSUME TypeOK, Exclusive, MessageOrder, [Next]_vars PROVE MessageOrder'
<1>0. output \in Seq(Nat) /\ cache \in Seq(Nat) /\ wire \in Nat /\ sent \in Nat
  BY OrderTypes
<1>1. CASE SpuriousTimeout
  BY <1>1, OrderFrame DEF SpuriousTimeout, msgrVars
<1>2. ASSUME NEW ok \in BOOLEAN, StartThread(ok) PROVE MessageOrder'
  BY <1>2, OrderFrame DEF StartThread, msgrVars
<1>3. ASSUME NEW ok \in BOOLEAN, ThreadConnects(ok) PROVE MessageOrder'
  BY <1>3, OrderFrame DEF ThreadConnects, msgrVars
<1>4. ASSUME NEW c, ThreadDone(c), wire' = wire, sent' = sent, cache' = cache PROVE MessageOrder'
  <2>1. \/ output' = output /\ messenger' = messenger /\ pc' = pc
        \/ output' = <<>> /\ messenger' = "open" /\ pc' = "flush"
    BY <1>4, Zenon DEF ThreadDone, msgrVars
  <2>2. CASE output' = output /\ messenger' = messenger /\ pc' = pc
    BY <1>4, <2>2, OrderFrame
  <2>3. CASE output' = <<>> /\ messenger' = "open" /\ pc' = "flush"
    BY <1>4, <2>3, OrderReleased DEF is_connected
  <2>. QED BY <2>1, <2>2, <2>3
<1>5. ASSUME NEW ok \in BOOLEAN, ConnectNow(ok) PROVE MessageOrder'
  BY <1>4, <1>5, Zenon DEF ConnectNow
<1>6. CASE ThreadSignaled
  BY <1>4, <1>6, Zenon DEF ThreadSignaled
<1>7. CASE FlushOne
  <2>1. cache # <<>> /\ cache' = Tail(cache) /\ sent' = sent /\ pc' = "flush"
    BY <1>7 DEF FlushOne
  <2>2. /\ Ordered(output, Tail(cache), wire, sent)
        /\ Ordered(<<>>, Tail(cache), Head(cache), sent)
        /\ Ordered(Append(output, Head(cache)), Tail(cache), wire, sent)
    BY <1>0, <2>1, OrderedTail DEF MessageOrder
  <2>3. messenger # "none"
    BY <1>7 DEF FlushOne, is_connected
  <2>4. \/ wire' = Head(cache) /\ output' = <<>>
        \/ wire' = wire /\ output' = Append(output, Head(cache)) /\ messenger' = messenger
        \/ wire' = wire /\ output' = output /\ messenger' = messenger
    BY <1>7, SendsEffect DEF FlushOne
  <2>5. Ordered(output', cache', wire', sent')
    BY <2>1, <2>2, <2>4
  <2>6. messenger' = "none" => output' = <<>>
    BY <2>3, <2>4
  <2>. QED BY <2>1, <2>5, <2>6 DEF MessageOrder, is_connected
<1>8. CASE FlushNull
  BY <1>8, OrderFrame DEF FlushNull, msgrVars
<1>9. CASE Flushed
  BY <1>9, OrderFrame DEF Flushed, msgrVars
<1>10. CASE MessengerWrites
  <2>1. cache = <<>> /\ cache' = <<>> /\ sent' = sent /\ output # <<>>
    BY <1>10 DEF MessengerWrites, MessageOrder, Exclusive
  <2>2. wire' = output[Len(output)] /\ Len(output) \in DOMAIN output /\ output[Len(output)] \in Nat
    BY <1>0, <1>10, <2>1 DEF MessengerWrites
  <2>3. wire' \in Nat /\ wire' <= sent
    BY <2>2 DEF MessageOrder, Ordered
  <2>4. output' = <<>>
    BY <1>10, Zenon DEF MessengerWrites, EmptyBuffer, OuterRemoved, Disconnected
  <2>5. Ordered(output', cache', wire', sent')
    BY <1>0, <2>1, <2>3, <2>4, OrderedNone
  <2>. QED BY <2>1, <2>4, <2>5 DEF MessageOrder
<1>11. ASSUME NEW hup \in BOOLEAN, MessengerLost(hup) PROVE MessageOrder'
  <2>1. pc = "loop" /\ is_connected /\ wire' = wire /\ sent' = sent /\ cache' = cache
    BY <1>11 DEF MessengerLost, Exclusive
  <2>2. \/ output' = <<>>
        \/ output' = output /\ messenger' \in {messenger, "closed"}
    BY <1>11, Zenon DEF MessengerLost, ConnectionLost, OuterRemoved, Disconnected
  <2>3. ~is_connected' => output' = <<>>
    BY <2>1, <2>2 DEF is_connected
  <2>. QED BY <2>1, <2>2, <2>3, OrderReleased
<1>12. ASSUME NEW keep \in BOOLEAN, send_message(keep) PROVE MessageOrder'
  <2>1. pc = "loop" /\ pc' = "loop" /\ sent' = sent + 1
    BY <1>12 DEF send_message
  <2>2. CASE is_connected
    <3>1. cache = <<>> /\ cache' = <<>>
      BY <1>12, <2>1, <2>2 DEF send_message, MessageOrder
    <3>2. \/ wire' = sent + 1 /\ output' = <<>>
          \/ wire' = wire /\ output' = Append(output, sent + 1) /\ messenger' = messenger
          \/ wire' = wire /\ output' = output /\ messenger' = messenger
      BY <1>12, <2>2, SendsEffect DEF send_message
    <3>3. /\ Ordered(<<>>, <<>>, sent + 1, sent + 1)
          /\ Ordered(Append(output, sent + 1), <<>>, wire, sent + 1)
          /\ Ordered(output, <<>>, wire, sent + 1)
      <4>1. Ordered(output, <<>>, wire, sent)
        BY <3>1 DEF MessageOrder
      <4>2. Ordered(<<>>, <<>>, sent + 1, sent + 1)
        BY <1>0, OrderedNone
      <4>3. <<>> \in Seq(Nat)
        OBVIOUS
      <4>4. Ordered(output, <<>>, wire, sent + 1)
        BY <1>0, <4>1, <4>3, OrderedLater, Zenon
      <4>5. Ordered(Append(output, sent + 1), <<>>, wire, sent + 1)
        BY <1>0, <4>1, OrderedAppendOutput, Zenon
      <4>. QED BY <4>2, <4>4, <4>5
    <3>4. Ordered(output', cache', wire', sent')
      BY <2>1, <3>1, <3>2, <3>3
    <3>5. ~is_connected' => output' = <<>>
      BY <2>2, <3>2 DEF is_connected
    <3>. QED BY <3>1, <3>4, <3>5 DEF MessageOrder
  <2>3. CASE ~is_connected
    <3>1. /\ cache' = cache \/ cache' = Append(cache, sent + 1)
          /\ output' = output /\ messenger' = messenger /\ wire' = wire
      BY <1>12, <2>3, Zenon DEF send_message, msgrVars
    <3>2. output = <<>>
      BY <2>3 DEF MessageOrder
    <3>3. Ordered(<<>>, Append(cache, sent + 1), wire, sent + 1) /\ Ordered(<<>>, cache, wire, sent + 1)
      BY <1>0, <3>2, OrderedAppendCache, OrderedLater DEF MessageOrder
    <3>4. Ordered(output', cache', wire', sent')
      BY <2>1, <3>1, <3>2, <3>3
    <3>. QED BY <2>3, <3>1, <3>2, <3>4 DEF MessageOrder, is_connected
  <2>. QED BY <2>2, <2>3
<1>13. CASE mark_done
  BY <1>13, OrderFrame DEF mark_done, msgrVars
<1>14. CASE mark_done_messenger
  BY <1>14, OrderReleased DEF mark_done_messenger, is_connected
<1>15. ASSUME NEW hup \in BOOLEAN, disconnect(hup) PROVE MessageOrder'
  <2>1. wire' = wire /\ sent' = sent /\ cache' = cache /\ output' = <<>> /\ messenger' = "none"
    BY <1>15 DEF disconnect, Disconnected
  <2>. QED BY <2>1, OrderReleased DEF is_connected
<1>16. CASE remove_connection
  <2>1. wire' = wire /\ sent' = sent /\ cache' = cache /\ pc' = pc
    BY <1>16 DEF remove_connection
  <2>2. output' = <<>> /\ messenger' = "none"
    BY <1>16, Zenon DEF remove_connection, OuterRemoved, Disconnected
  <2>. QED BY <2>1, <2>2, OrderReleased DEF is_connected
<1>17. CASE UNCHANGED vars
  BY <1>17, OrderFrame DEF vars, msgrVars
<1>. QED BY <1>1, <1>2, <1>3, <1>5, <1>6, <1>7, <1>8, <1>9, <1>10, <1>11, <1>12, <1>13, <1>14,
            <1>15, <1>16, <1>17 DEF Next, Connect, Messenger, Application

\* The output buffer and the cache are always in order.
LEMMA Ordering == Spec => []MessageOrder
<1>1. Init => MessageOrder
  BY OrderedNone DEF Init, MessageOrder, is_connected
<1>. QED BY <1>1, TypeCorrect, Exclusion, OrderStep, PTL DEF Spec

\* The output buffer followed by the cache holds messages in the order in
\* which they were sent, all of them newer than the last one written.
THEOREM BuffersOrdered == Spec => []BuffersInOrder
<1>1. ASSUME TypeOK, MessageOrder PROVE BuffersInOrder
  <2>0. output \in Seq(Nat) /\ cache \in Seq(Nat) /\ wire \in Nat
    BY <1>1, OrderTypes
  <2>. DEFINE n == Len(output)
              b == output \o cache
  <2>1. n \in Nat /\ DOMAIN output = 1 .. n
    BY <2>0
  <2>2. \A i \in DOMAIN b : /\ i \in Nat
                            /\ i <= n => i \in DOMAIN output /\ b[i] = output[i]
                            /\ i > n => i - n \in DOMAIN cache /\ b[i] = cache[i - n]
    BY <2>0
  <2>. HIDE DEF n, b
  <2>o. /\ \A i, j \in DOMAIN output : i < j => output[i] < output[j]
        /\ \A i, j \in DOMAIN cache : i < j => cache[i] < cache[j]
        /\ \A i \in DOMAIN output, j \in DOMAIN cache : output[i] < cache[j]
        /\ \A i \in DOMAIN output : wire < output[i]
        /\ \A j \in DOMAIN cache : wire < cache[j]
    BY <1>1 DEF MessageOrder, Ordered, InOrder
  <2>3. ASSUME NEW i \in DOMAIN b PROVE wire < b[i]
    <3>1. CASE i <= n
      BY <2>2, <2>o, <3>1
    <3>2. CASE i > n
      BY <2>2, <2>o, <3>2
    <3>. QED BY <2>1, <2>2, <3>1, <3>2
  <2>4. ASSUME NEW i \in DOMAIN b, NEW j \in DOMAIN b, i < j PROVE b[i] < b[j]
    <3>1. CASE j <= n
      BY <2>1, <2>2, <2>4, <2>o, <3>1
    <3>2. CASE i <= n /\ j > n
      BY <2>1, <2>2, <2>4, <2>o, <3>2
    <3>3. CASE i > n
      <4>1. i \in Nat /\ j \in Nat /\ j > n /\ i - n < j - n
        BY <2>1, <2>2, <2>4, <3>3
      <4>2. /\ i - n \in DOMAIN cache /\ b[i] = cache[i - n]
            /\ j - n \in DOMAIN cache /\ b[j] = cache[j - n]
        BY <2>2, <3>3, <4>1
      <4>. QED BY <2>o, <4>1, <4>2
    <3>. QED BY <2>1, <2>2, <2>4, <3>1, <3>2, <3>3
  <2>. QED BY <2>3, <2>4 DEF BuffersInOrder, InOrder, b
<1>. QED BY <1>1, TypeCorrect, Ordering, PTL

\* A message that is written is later than the ones before.
LEMMA WireStep ==
  ASSUME TypeOK, Exclusive, MessageOrder, [Next]_vars PROVE wire' # wire => wire' > wire
<1>0. output \in Seq(Nat) /\ cache \in Seq(Nat) /\ wire \in Nat /\ sent \in Nat
  BY OrderTypes
<1>1. CASE FlushOne
  <2>1. wire < Head(cache)
    BY <1>0, <1>1, OrderedTail DEF FlushOne, MessageOrder
  <2>2. wire' = wire \/ wire' = Head(cache)
    BY <1>1, SendsEffect DEF FlushOne
  <2>3. Head(cache) \in Nat
    BY <1>0, <1>1, TailAt DEF FlushOne
  <2>. QED BY <1>0, <2>1, <2>2, <2>3
<1>2. CASE MessengerWrites
  <2>1. output # <<>> /\ wire' = output[Len(output)]
    BY <1>2 DEF MessengerWrites
  <2>2. Len(output) \in DOMAIN output /\ output[Len(output)] \in Nat
    BY <1>0, <2>1
  <2>3. wire < output[Len(output)]
    BY <2>2 DEF MessageOrder, Ordered
  <2>. QED BY <1>0, <2>1, <2>2, <2>3
<1>3. ASSUME NEW keep \in BOOLEAN, send_message(keep) PROVE wire' # wire => wire' > wire
  <2>1. wire' = wire \/ wire' = sent + 1
    BY <1>3, SendsEffect DEF send_message
  <2>2. wire <= sent
    BY DEF MessageOrder, Ordered
  <2>. QED BY <1>0, <2>1, <2>2
<1>4. ASSUME NEW ok \in BOOLEAN, StartThread(ok) \/ ThreadConnects(ok) \/ ConnectNow(ok)
      PROVE  wire' = wire
  BY <1>4 DEF StartThread, ThreadConnects, ConnectNow
<1>5. CASE SpuriousTimeout \/ ThreadSignaled \/ FlushNull \/ Flushed
  BY <1>5 DEF SpuriousTimeout, ThreadSignaled, FlushNull, Flushed
<1>6. ASSUME NEW hup \in BOOLEAN, MessengerLost(hup) \/ disconnect(hup) PROVE wire' = wire
  BY <1>6 DEF MessengerLost, disconnect
<1>7. CASE mark_done \/ mark_done_messenger \/ remove_connection
  BY <1>7 DEF mark_done, mark_done_messenger, remove_connection
<1>8. CASE UNCHANGED vars
  BY <1>8 DEF vars
<1>. QED BY <1>1, <1>2, <1>3, <1>4, <1>5, <1>6, <1>7, <1>8 DEF Next, Connect, Messenger, Application

\* Messages reach the sockets, across any number of connections, in the order
\* of the calls of send_message() and none of them twice.
THEOREM WireOrdered == Spec => WireInOrder
<1>1. TypeOK /\ Exclusive /\ MessageOrder /\ [Next]_vars => [wire' # wire => wire' > wire]_vars
  BY WireStep
<1>. QED BY <1>1, TypeCorrect, Exclusion, Ordering, PTL DEF Spec, WireInOrder

-----------------------------------------------------------------------------
(***************************************************************************)
(* inter_thread_message_connection: the lane of each thread                *)
(***************************************************************************)

\* There are two threads.
LEMMA OtherThread == \A t \in Thread : Other(t) \in Thread /\ Other(t) # t /\ Other(Other(t)) = t
BY DEF Thread, Other

(***************************************************************************)
(* How one step changes one lane.  LaneType(t) is the part of TypeOK that  *)
(* is about the lane of thread t.                                          *)
(***************************************************************************)
LaneType(t) ==
  /\ queue[t] \in Seq(Nat)
  /\ sem[t] \in Nat
  /\ thread_sent[t] \in Nat
  /\ got[t] \in Nat
  /\ hand[t] \in Nat
  /\ thread_pc[t] \in PCs

\* The part of the type invariant that is about one lane.
LEMMA TypeOKLane == ASSUME ThreadsTypeOK, NEW t \in Thread PROVE LaneType(t)
BY DEF ThreadsTypeOK, LaneType

\* At most one message is pushed and not posted, and one popped and not read.
LEMMA Counted == ASSUME NEW t \in Thread PROVE Unposted(t) \in {0, 1} /\ Unread(t) \in {0, 1}
BY DEF Unposted, Unread

\* Nothing of the lane changes but, possibly, its eventfd being closed.
LEMMA LaneFrame ==
  ASSUME NEW t \in Thread, Lane(t),
         queue'[t] = queue[t], sem'[t] = sem[t], thread_pc'[t] = thread_pc[t], hand'[t] = hand[t],
         thread_sent'[t] = thread_sent[t], got'[t] = got[t], threw'[t] = threw[t],
         open'[t] => open[t], posting'[Other(t)] = posting[Other(t)]
  PROVE  Lane(t)'
<1>1. Unposted(t)' = Unposted(t) /\ Unread(t)' = Unread(t)
  BY DEF Unposted, Unread
<1>2. SemaphoreBehind(t)'
  BY <1>1 DEF Lane, SemaphoreBehind
<1>3. Consecutive(t)'
  BY <1>1 DEF Lane, Consecutive
<1>. QED BY <1>2, <1>3 DEF Lane, WokenUp, InHand, Thrown

\* The reader moves between labels that hold no message.
LEMMA LaneGoto ==
  ASSUME NEW t \in Thread, Lane(t),
         queue'[t] = queue[t], sem'[t] = sem[t], hand'[t] = hand[t],
         thread_sent'[t] = thread_sent[t], got'[t] = got[t], threw'[t] = threw[t],
         open'[t] = open[t], posting'[Other(t)] = posting[Other(t)],
         thread_pc[t] # "popped", thread_pc'[t] # "popped",
         thread_pc'[t] = "ready" => sem[t] > 0,
         threw[t] => thread_pc'[t] \in {"idle", "loop"}
  PROVE  Lane(t)'
<1>1. Unposted(t)' = Unposted(t) /\ Unread(t)' = Unread(t)
  BY DEF Unposted, Unread
<1>2. SemaphoreBehind(t)'
  BY <1>1 DEF Lane, SemaphoreBehind
<1>3. Consecutive(t)'
  BY <1>1 DEF Lane, Consecutive
<1>. QED BY <1>2, <1>3 DEF Lane, WokenUp, InHand, Thrown

\* push_back() on the FIFO of t.
LEMMA LanePush ==
  ASSUME NEW t \in Thread, Lane(t), LaneType(t),
         queue'[t] = Append(queue[t], thread_sent[t] + 1), thread_sent'[t] = thread_sent[t] + 1,
         sem'[t] = sem[t], thread_pc'[t] = thread_pc[t], hand'[t] = hand[t], got'[t] = got[t],
         threw'[t] = threw[t], open'[t] = open[t],
         posting[Other(t)] = FALSE, posting'[Other(t)] = TRUE
  PROVE  Lane(t)'
<1>1. Unposted(t) = 0 /\ Unposted(t)' = 1
  BY DEF Unposted
<1>2. Unread(t) \in Nat /\ Unread(t)' = Unread(t)
  BY DEF Unread
<1>3. Len(queue[t]) \in Nat /\ Len(queue'[t]) = Len(queue[t]) + 1
  BY DEF LaneType
<1>n. sem[t] \in Nat /\ thread_sent[t] \in Nat /\ got[t] \in Nat
  BY DEF LaneType
<1>4. SemaphoreBehind(t)'
  <2>. SUFFICES ASSUME SemaphoreBehind(t) PROVE SemaphoreBehind(t)'
    BY DEF Lane
  <2>. QED BY <1>n, <1>1, <1>2, <1>3 DEF SemaphoreBehind
<1>5. \A i \in 1 .. Len(queue'[t]) : queue'[t][i] = thread_sent'[t] - Len(queue'[t]) + i
  <2>1. PICK n \in Nat : n = Len(queue[t])
    BY <1>3
  <2>2. \A i \in 1 .. n : queue[t][i] = thread_sent[t] - n + i
    BY <2>1 DEF Lane, Consecutive
  <2>3. queue'[t][n + 1] = thread_sent[t] + 1 /\ \A i \in 1 .. n : queue'[t][i] = queue[t][i]
    BY <2>1 DEF LaneType
  <2>4. thread_sent'[t] = thread_sent[t] + 1 /\ Len(queue'[t]) = n + 1
    BY <1>3, <2>1
  <2>5. \A i \in 1 .. n + 1 : i = n + 1 \/ i \in 1 .. n
    BY <2>1
  <2>6. ASSUME NEW i \in 1 .. n + 1 PROVE queue'[t][i] = thread_sent'[t] - (n + 1) + i
    <3>1. CASE i = n + 1
      BY <1>n, <2>1, <2>3, <2>4, <3>1
    <3>2. CASE i \in 1 .. n
      <4>1. queue'[t][i] = thread_sent[t] - n + i
        BY <2>2, <2>3, <3>2
      <4>2. \A m, j \in Int : m - n + j = (m + 1) - (n + 1) + j
        BY <2>1
      <4>3. i \in Int /\ thread_sent[t] \in Int
        BY <1>n, <3>2
      <4>. QED BY <2>4, <4>1, <4>2, <4>3, Zenon
    <3>. QED BY <2>5, <3>1, <3>2
  <2>. QED BY <2>4, <2>6
<1>6. Consecutive(t)'
  <2>. SUFFICES ASSUME Consecutive(t) PROVE Consecutive(t)'
    BY DEF Lane
  <2>1. Len(queue'[t]) <= thread_sent'[t] /\ thread_sent'[t] - Len(queue'[t]) = thread_sent[t] - Len(queue[t])
    BY <1>n, <1>3 DEF Consecutive
  <2>. QED BY <1>2, <1>5, <2>1 DEF Consecutive
<1>. QED BY <1>4, <1>6 DEF Lane, WokenUp, InHand, Thrown

\* write() on the eventfd of t.
LEMMA LanePost ==
  ASSUME NEW t \in Thread, Lane(t), LaneType(t),
         queue'[t] = queue[t], thread_sent'[t] = thread_sent[t], thread_pc'[t] = thread_pc[t], hand'[t] = hand[t],
         got'[t] = got[t], threw'[t] = threw[t], open'[t] = open[t],
         open[t] => sem'[t] = sem[t] + 1,
         ~open[t] => sem'[t] = sem[t],
         posting[Other(t)] = TRUE, posting'[Other(t)] = FALSE
  PROVE  Lane(t)'
<1>1. Unposted(t) = 1 /\ Unposted(t)' = 0
  BY DEF Unposted
<1>2. Unread(t) \in Nat /\ Unread(t)' = Unread(t)
  BY DEF Unread
<1>3. Len(queue[t]) \in Nat /\ Len(queue'[t]) = Len(queue[t])
  BY DEF LaneType
<1>4. SemaphoreBehind(t)'
  <2>. SUFFICES ASSUME SemaphoreBehind(t) PROVE SemaphoreBehind(t)'
    BY DEF Lane
  <2>. QED BY <1>1, <1>2, <1>3 DEF SemaphoreBehind, LaneType
<1>5. Consecutive(t)'
  BY <1>2 DEF Lane, Consecutive
<1>6. WokenUp(t)'
  BY DEF Lane, WokenUp, LaneType
<1>. QED BY <1>4, <1>5, <1>6 DEF Lane, InHand, Thrown

\* pop_front() by t: the semaphore shows that the FIFO is not empty.
LEMMA ReadyQueue ==
  ASSUME NEW t \in Thread, Lane(t), LaneType(t), thread_pc[t] = "ready"
  PROVE  queue[t] # <<>> /\ Len(queue[t]) > 0 /\ ~threw[t] /\ sem[t] > 0
<1>1. ~threw[t] /\ sem[t] > 0
  BY DEF Lane, Thrown, WokenUp
<1>2. Unread(t) = 0 /\ Unposted(t) \in Nat
  BY DEF Unread, Unposted
<1>3. Len(queue[t]) > 0
  BY <1>1, <1>2 DEF Lane, SemaphoreBehind, LaneType
<1>. QED BY <1>1, <1>3 DEF LaneType

\* process_read() pops a message.
LEMMA LanePop ==
  ASSUME NEW t \in Thread, Lane(t), LaneType(t), thread_pc[t] = "ready",
         queue'[t] = Tail(queue[t]), hand'[t] = Head(queue[t]), thread_pc'[t] = "popped",
         thread_sent'[t] = thread_sent[t], sem'[t] = sem[t], got'[t] = got[t], threw'[t] = threw[t],
         open'[t] = open[t], posting'[Other(t)] = posting[Other(t)]
  PROVE  Lane(t)'
<1>1. Unread(t) = 0 /\ Unread(t)' = 1 /\ Unposted(t)' = Unposted(t) /\ Unposted(t) \in Nat
  BY DEF Unread, Unposted
<1>2. queue[t] # <<>> /\ Len(queue[t]) > 0 /\ ~threw[t] /\ sem[t] > 0
  BY ReadyQueue
<1>3. Len(queue[t]) \in Nat /\ Len(queue'[t]) = Len(queue[t]) - 1
  BY <1>2 DEF LaneType
<1>4. SemaphoreBehind(t)'
  <2>. SUFFICES ASSUME SemaphoreBehind(t) PROVE SemaphoreBehind(t)'
    BY DEF Lane
  <2>. QED BY <1>1, <1>3 DEF SemaphoreBehind, LaneType
<1>n. sem[t] \in Nat /\ thread_sent[t] \in Nat /\ got[t] \in Nat
  BY DEF LaneType
<1>5. /\ Len(queue[t]) <= thread_sent[t]
      /\ \A i \in 1 .. Len(queue[t]) : queue[t][i] = thread_sent[t] - Len(queue[t]) + i
      /\ got[t] = thread_sent[t] - Len(queue[t])
  <2>. SUFFICES ASSUME Consecutive(t) PROVE got[t] = thread_sent[t] - Len(queue[t])
    BY DEF Lane, Consecutive
  <2>. QED BY <1>n, <1>1, <1>2, <1>3 DEF Consecutive
<1>6. hand'[t] = thread_sent[t] - Len(queue[t]) + 1
  <2>1. 1 \in 1 .. Len(queue[t])
    BY <1>2, <1>3
  <2>2. queue[t][1] = thread_sent[t] - Len(queue[t]) + 1
    BY <1>5, <2>1
  <2>3. hand'[t] = queue[t][1]
    BY <1>2 DEF LaneType
  <2>. QED BY <2>2, <2>3
<1>7. \A i \in 1 .. Len(queue'[t]) : queue'[t][i] = thread_sent[t] - Len(queue'[t]) + i
  <2>. TAKE i \in 1 .. Len(queue'[t])
  <2>1. i + 1 \in 1 .. Len(queue[t])
    BY <1>3
  <2>2. queue'[t][i] = queue[t][i + 1]
    BY <1>2, <1>3 DEF LaneType
  <2>3. queue[t][i + 1] = thread_sent[t] - Len(queue[t]) + (i + 1)
    BY <1>5, <2>1
  <2>. QED BY <1>n, <1>3, <2>2, <2>3
<1>8. Consecutive(t)'
  BY <1>n, <1>1, <1>3, <1>5, <1>6, <1>7 DEF Consecutive
<1>9. hand'[t] # 0
  BY <1>n, <1>3, <1>5, <1>6
<1>. QED BY <1>2, <1>4, <1>8, <1>9 DEF Lane, WokenUp, InHand, Thrown

\* read() by t, then the callback.
LEMMA LaneRead ==
  ASSUME NEW t \in Thread, Lane(t), LaneType(t), thread_pc[t] = "popped", open[t],
         thread_pc'[t] = "callback", sem'[t] = sem[t] - 1, got'[t] = hand[t], hand'[t] = 0,
         queue'[t] = queue[t], thread_sent'[t] = thread_sent[t], threw'[t] = threw[t],
         open'[t] = open[t], posting'[Other(t)] = posting[Other(t)]
  PROVE  Lane(t)'
<1>1. Unread(t) = 1 /\ Unread(t)' = 0 /\ Unposted(t)' = Unposted(t) /\ Unposted(t) \in Nat
  BY DEF Unread, Unposted
<1>2. Len(queue[t]) \in Nat /\ sem[t] \in Nat /\ thread_sent[t] \in Nat /\ hand[t] \in Nat
  BY DEF LaneType
<1>3. SemaphoreBehind(t)'
  <2>. SUFFICES ASSUME SemaphoreBehind(t) PROVE SemaphoreBehind(t)'
    BY DEF Lane
  <2>. QED BY <1>1, <1>2 DEF SemaphoreBehind
<1>4. Consecutive(t)'
  <2>. SUFFICES ASSUME Consecutive(t) PROVE Consecutive(t)'
    BY DEF Lane
  <2>. QED BY <1>1, <1>2 DEF Consecutive
<1>. QED BY <1>3, <1>4 DEF Lane, WokenUp, InHand, Thrown

\* read() by t fails, because the eventfd is closed.
LEMMA LaneReadFails ==
  ASSUME NEW t \in Thread, Lane(t), LaneType(t), thread_pc[t] = "popped", ~open[t],
         thread_pc'[t] = "idle", threw'[t] = TRUE, hand'[t] = 0,
         sem'[t] = sem[t], got'[t] = got[t], queue'[t] = queue[t], thread_sent'[t] = thread_sent[t],
         open'[t] = open[t]
  PROVE  Lane(t)'
BY DEF Lane, WokenUp, InHand, SemaphoreBehind, Consecutive, Thrown

-----------------------------------------------------------------------------
(***************************************************************************)
(* The invariant is inductive                                              *)
(***************************************************************************)

\* The invariant holds at first.
LEMMA InitIInv == ThreadsInit => IInv
BY DEF ThreadsInit, IInv, ThreadsTypeOK, Closed, Lane, WokenUp, InHand, SemaphoreBehind, Consecutive,
       Thrown, Thread, Other, PCs, Unposted, Unread

\* process_read() fails only when the eventfd was closed under it.
LEMMA FailsOnlyIfClosed ==
  ASSUME IInv, NEW u \in Thread, ReadEventfdFails(u)
  PROVE  ~open[u] /\ closer # "none"
<1>1. sem[u] > 0
  BY DEF IInv, Lane, WokenUp, ReadEventfdFails
<1>2. ~open[u]
  BY <1>1 DEF ReadEventfdFails
<1>. QED BY <1>2 DEF IInv, Closed

\* Types.
LEMMA StepTypeOK ==
  ASSUME IInv, NEW u \in Thread, Step(u) PROVE ThreadsTypeOK'
<1>. USE DEF IInv, ThreadsTypeOK
<1>1. CASE Post(u)
  BY <1>1, OtherThread DEF Post
<1>2. CASE Readable(u)
  BY <1>2 DEF Readable, Goto, PCs
<1>3. CASE PopFront(u)
  <2>1. queue[u] \in Seq(Nat) /\ queue[u] # <<>>
    BY <1>3, TypeOKLane, ReadyQueue DEF PopFront
  <2>2. Head(queue[u]) \in Nat /\ Tail(queue[u]) \in Seq(Nat)
    BY <2>1
  <2>. QED BY <1>3, <2>1, <2>2 DEF PopFront, Goto, PCs
<1>4. CASE ReadEventfd(u)
  BY <1>4 DEF ReadEventfd, Goto, PCs
<1>5. CASE ReadEventfdFails(u)
  BY <1>5 DEF ReadEventfdFails, Goto, PCs
<1>6. CASE EndCallback(u)
  BY <1>6 DEF EndCallback, Goto, PCs
<1>. QED BY <1>1, <1>2, <1>3, <1>4, <1>5, <1>6 DEF Step

\* Every step keeps the types.
LEMMA NextTypeOK == ASSUME IInv, [ThreadsNext]_thread_vars PROVE ThreadsTypeOK'
<1>. USE DEF IInv, ThreadsTypeOK
<1>1. ASSUME NEW u \in Thread, Push(u) PROVE ThreadsTypeOK'
  <2>1. PICK o \in Thread :
          /\ thread_sent' = [thread_sent EXCEPT ![o] = thread_sent[o] + 1]
          /\ queue' = [queue EXCEPT ![o] = Append(queue[o], thread_sent[o] + 1)]
    BY <1>1, OtherThread DEF Push
  <2>2. thread_sent[o] + 1 \in Nat /\ thread_sent' \in [Thread -> Nat]
    BY <2>1
  <2>3. Append(queue[o], thread_sent[o] + 1) \in Seq(Nat)
    BY <2>2
  <2>4. queue' \in [Thread -> Seq(Nat)]
    BY <2>1, <2>3
  <2>5. posting' \in [Thread -> BOOLEAN]
    BY <1>1 DEF Push
  <2>. QED BY <1>1, <2>2, <2>4, <2>5 DEF Push
<1>2. ASSUME NEW u \in Thread, CloseA(u) PROVE ThreadsTypeOK'
  BY <1>2 DEF CloseA, Thread
<1>3. ASSUME NEW u \in Thread, SetEnable(u) PROVE ThreadsTypeOK'
  BY <1>3 DEF SetEnable
<1>4. CASE \E us \in Timeouts : CallPoll(us)
  BY <1>4, TimeoutsAssumption DEF CallPoll, Goto, PCs
<1>5. CASE PollWait
  <2>1. ToMilliseconds(timeout) \in Int
    BY DEF ToMilliseconds
  <2>. QED BY <1>5, <2>1 DEF PollWait, Goto, PCs
<1>6. CASE PollRefused \/ PollEnds \/ PollInvalid \/ RunWait \/ RunOther
  BY <1>6 DEF PollRefused, PollEnds, PollInvalid, RunWait, RunOther, Goto, PCs
<1>7. CASE CloseB
  BY <1>7 DEF CloseB
<1>8. CASE UNCHANGED thread_vars
  BY <1>8 DEF thread_vars
<1>. QED BY <1>1, <1>2, <1>3, <1>4, <1>5, <1>6, <1>7, <1>8, StepTypeOK DEF ThreadsNext, Wait

\* close() is the only code that touches the eventfd themselves.
LEMMA NextClosed == ASSUME IInv, [ThreadsNext]_thread_vars PROVE Closed'
<1>. USE DEF IInv, ThreadsTypeOK, Closed, Thread
<1>1. ASSUME NEW u \in Thread, CloseA(u) PROVE Closed'
  BY <1>1 DEF CloseA
<1>2. CASE CloseB
  BY <1>2 DEF CloseB
<1>3. ASSUME open' = open, closer' = closer PROVE Closed'
  BY <1>3
<1>4. ASSUME NEW u \in Thread, Step(u) PROVE Closed'
  BY <1>4, <1>3 DEF Step, Post, Readable, PopFront, ReadEventfd, ReadEventfdFails, EndCallback
<1>5. ASSUME NEW u \in Thread, Push(u) \/ SetEnable(u) PROVE Closed'
  BY <1>5, <1>3 DEF Push, SetEnable
<1>6. CASE Wait \/ RunWait \/ RunOther \/ PollEnds \/ PollInvalid
  BY <1>6, <1>3 DEF Wait, CallPoll, PollWait, PollRefused, RunWait, RunOther, PollEnds, PollInvalid
<1>7. CASE UNCHANGED thread_vars
  BY <1>7, <1>3 DEF thread_vars
<1>. QED BY <1>1, <1>2, <1>4, <1>5, <1>6, <1>7 DEF ThreadsNext

\* The steps of the thread that sends change the lane of the other thread,
\* the steps of the thread that reads its own.
LEMMA StepLane ==
  ASSUME IInv, NEW u \in Thread, Step(u), NEW t \in Thread PROVE Lane(t)'
<1>. USE OtherThread DEF IInv, ThreadsTypeOK
<1>0. Lane(t) /\ LaneType(t)
  BY TypeOKLane
<1>1. CASE Post(u)
  <2>1. CASE t = Other(u)
    <3>1. Other(t) = u
      BY <2>1
    <3>2. posting[Other(t)] = TRUE /\ posting'[Other(t)] = FALSE
      BY <1>1, <3>1 DEF Post
    <3>3. /\ open[t] => sem'[t] = sem[t] + 1
          /\ ~open[t] => sem'[t] = sem[t]
      BY <1>1, <2>1 DEF Post
    <3>. QED BY <1>0, <1>1, <3>2, <3>3, LanePost DEF Post
  <2>2. CASE t # Other(u)
    <3>1. Other(t) # u
      BY <2>2
    <3>2. posting'[Other(t)] = posting[Other(t)] /\ sem'[t] = sem[t]
      BY <1>1, <2>2, <3>1 DEF Post
    <3>. QED BY <1>0, <1>1, <3>2, LaneFrame DEF Post
  <2>. QED BY <2>1, <2>2
<1>2. CASE Readable(u)
  <2>1. CASE t = u
    BY <1>0, <1>2, <2>1, LaneGoto DEF Readable, Goto, Lane, Thrown
  <2>2. CASE t # u
    BY <1>0, <1>2, <2>2, LaneFrame DEF Readable, Goto
  <2>. QED BY <2>1, <2>2
<1>3. CASE PopFront(u)
  <2>1. CASE t = u
    <3>1. queue[t] # <<>> /\ thread_pc[t] = "ready"
      BY <1>0, <1>3, <2>1, ReadyQueue DEF PopFront
    <3>2. hand'[t] = Head(queue[t]) /\ queue'[t] = Tail(queue[t]) /\ thread_pc'[t] = "popped"
      BY <1>3, <2>1, <3>1 DEF PopFront, Goto
    <3>. QED BY <1>0, <1>3, <3>1, <3>2, LanePop DEF PopFront
  <2>2. CASE t # u
    <3>1. queue'[t] = queue[t] /\ hand'[t] = hand[t] /\ thread_pc'[t] = thread_pc[t]
      BY <1>3, <2>2 DEF PopFront, Goto
    <3>. QED BY <1>0, <1>3, <3>1, LaneFrame DEF PopFront
  <2>. QED BY <2>1, <2>2
<1>4. CASE ReadEventfd(u)
  <2>1. CASE t = u
    <3>1. thread_pc[t] = "popped" /\ open[t] /\ hand[t] # 0
      BY <1>0, <1>4, <2>1 DEF ReadEventfd, Lane, InHand
    <3>2. thread_pc'[t] = "callback" /\ sem'[t] = sem[t] - 1 /\ got'[t] = hand[t] /\ hand'[t] = 0
      BY <1>4, <2>1, <3>1 DEF ReadEventfd, Goto
    <3>. QED BY <1>0, <1>4, <3>1, <3>2, LaneRead DEF ReadEventfd
  <2>2. CASE t # u
    <3>1. sem'[t] = sem[t] /\ hand'[t] = hand[t] /\ thread_pc'[t] = thread_pc[t] /\ got'[t] = got[t]
      BY <1>4, <2>2 DEF ReadEventfd, Goto
    <3>. QED BY <1>0, <1>4, <3>1, LaneFrame DEF ReadEventfd
  <2>. QED BY <2>1, <2>2
<1>5. CASE ReadEventfdFails(u)
  <2>1. CASE t = u
    <3>1. thread_pc[t] = "popped" /\ ~open[t]
      BY <1>5, <2>1, FailsOnlyIfClosed DEF ReadEventfdFails
    <3>2. thread_pc'[t] = "idle" /\ threw'[t] = TRUE /\ hand'[t] = 0
      BY <1>5, <2>1 DEF ReadEventfdFails, Goto
    <3>. QED BY <1>0, <1>5, <3>1, <3>2, LaneReadFails DEF ReadEventfdFails
  <2>2. CASE t # u
    <3>1. threw'[t] = threw[t] /\ hand'[t] = hand[t] /\ thread_pc'[t] = thread_pc[t]
      BY <1>5, <2>2 DEF ReadEventfdFails, Goto
    <3>. QED BY <1>0, <1>5, <3>1, LaneFrame DEF ReadEventfdFails
  <2>. QED BY <2>1, <2>2
<1>6. CASE EndCallback(u)
  <2>1. CASE t = u
    <3>1. thread_pc[t] = "callback" /\ thread_pc'[t] \in {"idle", "loop"}
      BY <1>6, <2>1 DEF EndCallback, Goto
    <3>. QED BY <1>0, <1>6, <3>1, LaneGoto DEF EndCallback
  <2>2. CASE t # u
    BY <1>0, <1>6, <2>2, LaneFrame DEF EndCallback, Goto
  <2>. QED BY <2>1, <2>2
<1>. QED BY <1>1, <1>2, <1>3, <1>4, <1>5, <1>6 DEF Step

\* send_message() pushes a message: the lanes of both threads.
LEMMA PushLane ==
  ASSUME IInv, NEW u \in Thread, Push(u), NEW t \in Thread PROVE Lane(t)'
<1>. USE OtherThread DEF IInv, ThreadsTypeOK
<1>0. Lane(t) /\ LaneType(t)
  BY TypeOKLane
<1>1. CASE t = Other(u)
  <2>1. Other(t) = u
    BY <1>1
  <2>2. posting[Other(t)] = FALSE /\ posting'[Other(t)] = TRUE
    BY <2>1 DEF Push, InUserCode, Busy
  <2>3. queue'[t] = Append(queue[t], thread_sent[t] + 1) /\ thread_sent'[t] = thread_sent[t] + 1
    BY <1>1 DEF Push
  <2>. QED BY <1>0, <2>2, <2>3, LanePush DEF Push
<1>2. CASE t # Other(u)
  <2>1. Other(t) # u
    BY <1>2
  <2>2. posting'[Other(t)] = posting[Other(t)] /\ queue'[t] = queue[t] /\ thread_sent'[t] = thread_sent[t]
    BY <1>2, <2>1 DEF Push
  <2>. QED BY <1>0, <2>2, LaneFrame DEF Push
<1>. QED BY <1>1, <1>2

\* Waiting moves the program counter of one thread and nothing else.
LEMMA WaitLane ==
  ASSUME IInv, Wait \/ RunWait \/ RunOther \/ PollEnds \/ PollInvalid, NEW t \in Thread PROVE Lane(t)'
<1>. USE DEF IInv, ThreadsTypeOK
<1>0. Lane(t)
  OBVIOUS
<1>1. PICK u \in Thread, label \in {"idle", "loop", "polling"} :
        /\ Goto(u, label)
        /\ thread_pc[u] \in {"idle", "loop", "polling"}
        /\ label = "polling" => open[u]
        /\ UNCHANGED <<queue, sem, open, posting, hand, thread_sent, got, threw>>
  <2>1. CASE Wait
    BY <2>1 DEF Wait, CallPoll, PollWait, PollRefused, Thread
  <2>2. CASE RunWait \/ RunOther \/ PollEnds \/ PollInvalid
    BY <2>2 DEF RunWait, RunOther, PollEnds, PollInvalid, Thread
  <2>. QED BY <2>1, <2>2
<1>2. CASE t = u
  <2>1. threw[t] => ~open[t]
    BY <1>0 DEF Lane, Thrown
  <2>2. thread_pc[t] # "popped" /\ thread_pc'[t] = label /\ (threw[t] => label \in {"idle", "loop"})
    BY <1>1, <1>2, <2>1 DEF Goto
  <2>. QED BY <1>0, <1>1, <2>2, LaneGoto
<1>3. CASE t # u
  <2>1. thread_pc'[t] = thread_pc[t]
    BY <1>1, <1>3 DEF Goto
  <2>. QED BY <1>0, <1>1, <2>1, LaneFrame
<1>. QED BY <1>2, <1>3

\* Every step keeps the lane of each thread.
LEMMA NextLane == ASSUME IInv, [ThreadsNext]_thread_vars, NEW t \in Thread PROVE Lane(t)'
<1>. USE DEF IInv, ThreadsTypeOK
<1>0. Lane(t)
  OBVIOUS
<1>1. ASSUME NEW u \in Thread, CloseA(u) PROVE Lane(t)'
  <2>1. open'[t] => open[t]
    BY <1>1 DEF CloseA, Thread
  <2>. QED BY <1>0, <1>1, <2>1, LaneFrame DEF CloseA
<1>2. CASE CloseB
  <2>1. open'[t] => open[t]
    BY <1>2 DEF CloseB, Thread
  <2>. QED BY <1>0, <1>2, <2>1, LaneFrame DEF CloseB
<1>3. ASSUME NEW u \in Thread, SetEnable(u) PROVE Lane(t)'
  BY <1>0, <1>3, LaneFrame DEF SetEnable
<1>4. CASE UNCHANGED thread_vars
  BY <1>0, <1>4, LaneFrame DEF thread_vars
<1>. QED BY <1>1, <1>2, <1>3, <1>4, StepLane, PushLane, WaitLane DEF ThreadsNext

\* The invariant behind every property below holds in every state: the
\* semaphore of each lane counts the messages of its FIFO and the FIFO holds
\* consecutive messages, whatever the two threads do in between.
THEOREM Invariance == ThreadsSpec => []IInv
<1>1. ThreadsInit => IInv
  BY InitIInv
<1>2. IInv /\ [ThreadsNext]_thread_vars => IInv'
  BY NextTypeOK, NextClosed, NextLane DEF IInv
<1>. QED BY <1>1, <1>2, PTL DEF ThreadsSpec

\* Every variable keeps its type.
THEOREM ThreadTypeCorrect == ThreadsSpec => []ThreadsTypeOK
<1>1. IInv => ThreadsTypeOK
  BY DEF IInv
<1>. QED BY <1>1, Invariance, PTL

\* process_read() always has a message when it pops ("got_message should
\* always be true"), and it throws only on a closed connection.
THEOREM ReadSafe == ThreadsSpec => [](GotMessage /\ ThrowsOnlyIfClosed)
<1>1. IInv => GotMessage /\ ThrowsOnlyIfClosed
  BY DEF IInv, Lane, InHand, Thrown, GotMessage, ThrowsOnlyIfClosed
<1>. QED BY <1>1, Invariance, PTL

\* A message that send_message() delivered always wakes its reader up.
THEOREM WakeupSafe == ThreadsSpec => []NoLostWakeup
<1>1. IInv => NoLostWakeup
  <2>. SUFFICES ASSUME IInv, NEW t \in Thread, open[t], Len(queue[t]) > 0, ~posting[Other(t)]
                PROVE  sem[t] > 0
    BY DEF NoLostWakeup
  <2>1. LaneType(t) /\ SemaphoreBehind(t)
    BY TypeOKLane DEF IInv, Lane
  <2>2. Unposted(t) = 0 /\ Unread(t) \in Nat
    BY DEF Unposted, Unread
  <2>. QED BY <2>1, <2>2 DEF SemaphoreBehind, LaneType
<1>. QED BY <1>1, Invariance, PTL

\* Messages are handed over in the order they were sent, each one once, none
\* skipped.
THEOREM FifoOrder == ThreadsSpec => ReadInOrder
<1>1. IInv /\ [ThreadsNext]_thread_vars => [\A t \in Thread : got'[t] # got[t] => got'[t] = got[t] + 1]_thread_vars
  <2>. SUFFICES ASSUME IInv, [ThreadsNext]_thread_vars, NEW t \in Thread, got'[t] # got[t]
                PROVE  got'[t] = got[t] + 1
    OBVIOUS
  <2>1. PICK u \in Thread : ReadEventfd(u)
    BY DEF ThreadsNext, Step, Push, Post, Readable, PopFront, ReadEventfdFails, EndCallback, CloseA,
           SetEnable, Wait, CallPoll, PollWait, PollRefused, RunWait, RunOther, PollEnds, PollInvalid,
           CloseB, thread_vars
  <2>2. t = u /\ got'[t] = hand[t] /\ thread_pc[t] = "popped" /\ open[t]
    BY <2>1 DEF ReadEventfd, IInv, ThreadsTypeOK
  <2>3. LaneType(t) /\ Consecutive(t) /\ Thrown(t) /\ Unread(t) = 1
    BY <2>2, TypeOKLane DEF IInv, Lane, Unread
  <2>4. ~threw[t]
    BY <2>2, <2>3 DEF Thrown
  <2>. QED BY <2>2, <2>3, <2>4 DEF Consecutive, LaneType
<1>. QED BY <1>1, Invariance, PTL DEF ThreadsSpec, ReadInOrder

-----------------------------------------------------------------------------
(***************************************************************************)
(* Refinement of Channel                                                   *)
(***************************************************************************)

\* A number in front and one at the end.
LEMMA ConsAppend ==
  ASSUME NEW q \in Seq(Nat), NEW h \in Nat, NEW x \in Nat
  PROVE  <<h>> \o Append(q, x) = Append(<<h>> \o q, x)
OBVIOUS

\* The first of a sequence in front of the others.
LEMMA ConsHeadTail ==
  ASSUME NEW q \in Seq(Nat), q # <<>>
  PROVE  <<Head(q)>> \o Tail(q) = q
OBVIOUS

\* The first and the others of a sequence with a number in front.
LEMMA HeadTailCons ==
  ASSUME NEW q \in Seq(Nat), NEW h \in Nat
  PROVE  /\ <<h>> \o q # <<>>
         /\ Head(<<h>> \o q) = h
         /\ Tail(<<h>> \o q) = q
OBVIOUS

\* A step that leaves FIFO and hand alone leaves the messages in transit.
LEMMA TransitFrame ==
  ASSUME queue' = queue, hand' = hand PROVE Transit' = Transit
BY DEF Transit, InTransit

\* The push is the moment a message is sent.
LEMMA PushSends == ASSUME IInv, NEW u \in Thread, Push(u) PROVE Chan!Send(u)
<1>. DEFINE o == Other(u)
<1>0. o \in Thread
  BY OtherThread
<1>1. /\ thread_sent' = [thread_sent EXCEPT ![o] = @ + 1]
      /\ queue' = [queue EXCEPT ![o] = Append(@, thread_sent[o] + 1)]
      /\ hand' = hand /\ got' = got /\ closer' = closer
  BY DEF Push
<1>2. queue[o] \in Seq(Nat) /\ hand[o] \in Nat /\ thread_sent[o] \in Nat
  BY <1>0 DEF IInv, ThreadsTypeOK
<1>3. thread_sent'[o] = thread_sent[o] + 1 /\ queue'[o] = Append(queue[o], thread_sent[o] + 1)
  BY <1>0, <1>1 DEF IInv, ThreadsTypeOK
<1>4. InTransit(o)' = Append(InTransit(o), thread_sent'[o])
  <2>1. CASE hand[o] = 0
    BY <1>1, <1>3, <2>1 DEF InTransit
  <2>2. CASE hand[o] # 0
    BY <1>1, <1>2, <1>3, <2>2, ConsAppend DEF InTransit
  <2>. QED BY <2>1, <2>2
<1>5. \A t \in Thread : t # o => InTransit(t)' = InTransit(t)
  BY <1>1 DEF InTransit, IInv, ThreadsTypeOK
<1>6. Transit' = [Transit EXCEPT ![o] = Append(@, thread_sent'[o])]
  BY <1>0, <1>4, <1>5 DEF Transit
<1>. QED BY <1>1, <1>6 DEF Chan!Send

\* A message that is popped is still on its way.
LEMMA PopHidden == ASSUME IInv, NEW u \in Thread, PopFront(u) PROVE Transit' = Transit
<1>1. queue[u] \in Seq(Nat) /\ queue[u] # <<>>
  BY TypeOKLane, ReadyQueue DEF PopFront, IInv, LaneType
<1>2. hand[u] = 0 /\ hand'[u] # 0 /\ hand'[u] = Head(queue[u]) /\ queue'[u] = Tail(queue[u])
  <2>1. Lane(u) /\ Lane(u)' /\ thread_pc[u] = "ready" /\ thread_pc'[u] = "popped"
    BY StepLane DEF PopFront, Goto, Step, IInv, ThreadsTypeOK
  <2>2. hand[u] = 0 /\ hand'[u] # 0
    BY <2>1 DEF Lane, InHand
  <2>. QED BY <1>1, <2>2 DEF PopFront, IInv, ThreadsTypeOK
<1>3. InTransit(u)' = InTransit(u)
  BY <1>1, <1>2, ConsHeadTail DEF InTransit
<1>4. \A t \in Thread : t # u => InTransit(t)' = InTransit(t)
  BY DEF InTransit, PopFront, IInv, ThreadsTypeOK
<1>. QED BY <1>3, <1>4 DEF Transit

\* The read of the eventfd is the moment a message is received.
LEMMA ReadReceives == ASSUME IInv, NEW u \in Thread, ReadEventfd(u) PROVE Chan!Receive(u)
<1>1. hand[u] \in Nat /\ hand[u] # 0 /\ queue[u] \in Seq(Nat)
  BY DEF ReadEventfd, IInv, ThreadsTypeOK, Lane, InHand
<1>2. hand'[u] = 0 /\ queue' = queue /\ closer' = closer /\ thread_sent' = thread_sent
  BY DEF ReadEventfd, IInv, ThreadsTypeOK
<1>3. InTransit(u) = <<hand[u]>> \o queue[u] /\ InTransit(u)' = queue[u]
  BY <1>1, <1>2 DEF InTransit
<1>4. InTransit(u) # <<>> /\ Head(InTransit(u)) = hand[u] /\ InTransit(u)' = Tail(InTransit(u))
  BY <1>1, <1>3, HeadTailCons
<1>5. \A t \in Thread : t # u => InTransit(t)' = InTransit(t)
  BY DEF InTransit, ReadEventfd, IInv, ThreadsTypeOK
<1>6. Transit[u] = InTransit(u) /\ Transit' = [Transit EXCEPT ![u] = Tail(@)]
  BY <1>4, <1>5 DEF Transit
<1>7. got' = [got EXCEPT ![u] = Head(Transit[u])]
  BY <1>1, <1>4, <1>6 DEF ReadEventfd
<1>. QED BY <1>2, <1>4, <1>6, <1>7 DEF Chan!Receive

\* A message whose read fails is lost, which only a closed connection does.
LEMMA ReadFailsDrops == ASSUME IInv, NEW u \in Thread, ReadEventfdFails(u) PROVE Chan!Drop(u)
<1>1. hand[u] \in Nat /\ hand[u] # 0 /\ queue[u] \in Seq(Nat)
  BY DEF ReadEventfdFails, IInv, ThreadsTypeOK, Lane, InHand
<1>2. hand'[u] = 0 /\ queue' = queue /\ closer' = closer /\ thread_sent' = thread_sent /\ got' = got
  BY DEF ReadEventfdFails, IInv, ThreadsTypeOK
<1>3. InTransit(u) = <<hand[u]>> \o queue[u] /\ InTransit(u)' = queue[u]
  BY <1>1, <1>2 DEF InTransit
<1>4. InTransit(u) # <<>> /\ InTransit(u)' = Tail(InTransit(u))
  BY <1>1, <1>3, HeadTailCons
<1>5. \A t \in Thread : t # u => InTransit(t)' = InTransit(t)
  BY DEF InTransit, ReadEventfdFails, IInv, ThreadsTypeOK
<1>6. Transit[u] = InTransit(u) /\ Transit' = [Transit EXCEPT ![u] = Tail(@)]
  BY <1>4, <1>5 DEF Transit
<1>. QED BY <1>2, <1>4, <1>6, FailsOnlyIfClosed DEF Chan!Drop

\* The FIFO and its eventfd together are the channel of Channel: messages in
\* order, each once, and lost only to a close().
THEOREM Refinement == ThreadsSpec => ImplementsChannel
<1>1. ThreadsInit => Chan!Init
  BY DEF ThreadsInit, Chan!Init, Transit, InTransit
<1>2. IInv /\ [ThreadsNext]_thread_vars => [Chan!Next]_(Chan!chanVars)
  <2>. SUFFICES ASSUME IInv, [ThreadsNext]_thread_vars PROVE [Chan!Next]_(Chan!chanVars)
    OBVIOUS
  <2>1. ASSUME NEW u \in Thread, Push(u) PROVE Chan!Next
    BY <2>1, PushSends DEF Chan!Next
  <2>2. ASSUME NEW u \in Thread, PopFront(u) PROVE UNCHANGED Chan!chanVars
    BY <2>2, PopHidden DEF PopFront, Chan!chanVars
  <2>3. ASSUME NEW u \in Thread, ReadEventfd(u) PROVE Chan!Next
    BY <2>3, ReadReceives DEF Chan!Next
  <2>4. ASSUME NEW u \in Thread, ReadEventfdFails(u) PROVE Chan!Next
    BY <2>4, ReadFailsDrops DEF Chan!Next
  <2>5. ASSUME NEW u \in Thread, CloseA(u) PROVE Chan!Next
    <3>1. closer' # "none" /\ UNCHANGED <<queue, hand, thread_sent, got>>
      BY <2>5 DEF CloseA, Thread
    <3>. QED BY <3>1, TransitFrame DEF Chan!Next, Chan!Close
  <2>6. ASSUME UNCHANGED <<queue, hand, thread_sent, got, closer>> PROVE UNCHANGED Chan!chanVars
    BY <2>6, TransitFrame DEF Chan!chanVars
  <2>7. ASSUME NEW u \in Thread, Post(u) \/ Readable(u) \/ EndCallback(u) \/ SetEnable(u)
        PROVE  UNCHANGED Chan!chanVars
    BY <2>6, <2>7 DEF Post, Readable, EndCallback, SetEnable
  <2>8. CASE Wait \/ RunWait \/ RunOther \/ PollEnds \/ PollInvalid \/ CloseB \/ UNCHANGED thread_vars
    BY <2>6, <2>8 DEF Wait, CallPoll, PollWait, PollRefused, RunWait, RunOther, PollEnds, PollInvalid,
                      CloseB, thread_vars
  <2>. QED BY <2>1, <2>2, <2>3, <2>4, <2>5, <2>7, <2>8 DEF ThreadsNext, Step
<1>. QED BY <1>1, <1>2, Invariance, PTL DEF ThreadsSpec, ImplementsChannel, Chan!Spec

===============================================================================
