------------------------ MODULE PermanentConnection ------------------------
(***************************************************************************)
(* tcp_client_permanent_message_connection: a timer that connects, in the  *)
(* main thread or in a background thread, owns a messenger once connected, *)
(* caches messages while it is not, and starts over when the connection is *)
(* lost, until it is marked done.                                          *)
(*                                                                         *)
(* Three objects of the communicator are involved: the permanent           *)
(* connection itself (the timer), the messenger and the signal of the      *)
(* background thread.  Everything but the background thread runs in the    *)
(* event loop.                                                             *)
(***************************************************************************)
EXTENDS Integers, Sequences

CONSTANTS
  Pauses,       \* pause_durations::f_pause
  Addresses,    \* number of addresses to try in turn
  Calls,        \* the calls the application makes (see UserCalls)
  MaxMsg        \* bound: messages the application sends

UserCalls == {"mark_done", "mark_done_messenger", "disconnect", "remove"}

ASSUME PermAssumption ==
  /\ Pauses \in Seq(Int) /\ Pauses # <<>>
  /\ Addresses \in Nat \ {0}
  /\ Calls \subseteq UserCalls
  /\ MaxMsg \in Nat

VARIABLES
  useThread,    \* f_use_thread, a parameter of the constructor
  member,       \* the permanent connection is in the communicator
  enabled,      \* the timer is enabled (connection::f_enabled)
  once,         \* the timer has a timeout date
  delay,        \* the delay of the timer, 0 if it has none
  pos,          \* pause_durations::f_pause_pos
  done,         \* connection::f_done of the timer
  implDone,     \* tcp_client_permanent_message_connection_impl::f_done
  cache,        \* f_message_cache
  messenger,    \* f_messenger: "none", or its socket is "open" or "closed"
  polled,       \* the messenger is in the communicator
  msgDone,      \* connection::f_done of the messenger
  output,       \* the output buffer of the messenger
  thread,       \* the background thread: "none", "running" or "finished"
  client,       \* runner::f_tcp_connection is not null
  address,      \* runner::f_index
  signal,       \* f_thread_done is in the communicator
  pc,           \* the event loop is at "loop", in thread_done()'s "flush" or in a "crash"
  sent,         \* history: messages passed to send_message()
  wire,         \* history: the last message written to a socket
  quit          \* history: the application called disconnect()

timerVars == <<enabled, once, delay, pos>>
threadVars == <<thread, client, address, signal>>
msgrVars == <<messenger, polled, msgDone, output>>
vars == <<useThread, member, timerVars, done, implDone, cache, msgrVars, threadVars, pc, sent, wire, quit>>

TypeOK ==
  /\ useThread \in BOOLEAN
  /\ member \in BOOLEAN
  /\ enabled \in BOOLEAN /\ once \in BOOLEAN /\ delay \in Nat /\ pos \in 0 .. Len(Pauses)
  /\ done \in BOOLEAN /\ implDone \in BOOLEAN
  /\ cache \in Seq(1 .. MaxMsg)
  /\ messenger \in {"none", "open", "closed"} /\ polled \in BOOLEAN /\ msgDone \in BOOLEAN
  /\ output \in Seq(1 .. MaxMsg)
  /\ thread \in {"none", "running", "finished"}
  /\ client \in BOOLEAN /\ address \in 0 .. Addresses - 1 /\ signal \in BOOLEAN
  /\ pc \in {"loop", "flush", "crash"}
  /\ sent \in 0 .. MaxMsg /\ wire \in 0 .. MaxMsg
  /\ quit \in BOOLEAN

-----------------------------------------------------------------------------
(***************************************************************************)
(* pause_durations.  f_pause[i] of the code is Pauses[i + 1].              *)
(***************************************************************************)
Abs(n) == IF n < 0 THEN -n ELSE n

initial_timer_value == IF Pauses[1] < 0 THEN -Pauses[1] ELSE 0

restart == IF Len(Pauses) = 1 \/ Pauses[1] > 0 THEN 0 ELSE 1

\* The pauses are over once they were all used: the last one stays.
get_next_delay == IF pos < Len(Pauses) THEN Abs(Pauses[pos + 1]) ELSE -1

\* A timer created with 0 times out once, now; otherwise it ticks.  The
\* application adds it to the communicator before it runs the loop.
Init ==
  /\ useThread \in BOOLEAN
  /\ member = TRUE
  /\ enabled = TRUE
  /\ once = (initial_timer_value = 0)
  /\ delay = initial_timer_value
  /\ pos = restart
  /\ done = FALSE
  /\ implDone = FALSE
  /\ cache = <<>>
  /\ messenger = "none"
  /\ polled = FALSE
  /\ msgDone = FALSE
  /\ output = <<>>
  /\ thread = "none"
  /\ client = FALSE
  /\ address = 0
  /\ signal = FALSE
  /\ pc = "loop"
  /\ sent = 0
  /\ wire = 0
  /\ quit = FALSE

-----------------------------------------------------------------------------
(***************************************************************************)
(* Helpers shared by the handlers                                          *)
(***************************************************************************)

is_connected == messenger # "none"

\* impl::disconnect(): the messenger leaves the communicator and is released
\* with whatever is in its output buffer.
Disconnected ==
  /\ messenger' = "none"
  /\ polled' = FALSE
  /\ msgDone' = FALSE
  /\ output' = <<>>
  /\ client' = (client /\ ~is_connected)

\* remove_from_communicator() of the permanent connection: if it was in the
\* list, connection_removed() disconnects.  Otherwise the messenger is left
\* with the given state.
OuterRemoved(keep) ==
  /\ member' = FALSE
  /\ IF member THEN Disconnected ELSE keep /\ UNCHANGED <<msgDone, client>>

\* process_empty_buffer() of the messenger, then of the permanent connection.
EmptyBuffer ==
  LET emptied == polled' = (polled /\ ~msgDone) /\ output' = <<>> /\ messenger' = messenger IN
  IF done THEN OuterRemoved(emptied) ELSE emptied /\ UNCHANGED <<member, msgDone, client>>

\* Mutant: an immediate write although older data is buffered.
SendsAtOnce(m) ==
  \/ /\ messenger = "open"
     /\ wire' = m
     /\ UNCHANGED <<member, msgrVars, client>>
  \/ /\ messenger = "open"
     /\ output' = Append(output, m)
     /\ UNCHANGED <<member, messenger, polled, msgDone, client, wire>>

\* messenger::send_message(): the socket takes all of the message at once,
\* or what it does not take is buffered; nothing is sent if it was closed.
MessengerSends(m) ==
  \/ /\ messenger = "open" /\ output = <<>>
     /\ wire' = m
     /\ EmptyBuffer
  \/ /\ messenger = "open"
     /\ output' = Append(output, m)
     /\ UNCHANGED <<member, messenger, polled, msgDone, client, wire>>
  \/ /\ messenger = "closed"
     /\ UNCHANGED <<member, msgrVars, client, wire>>

\* Mutant: the timer is not enabled again.
LostForGood(hup) ==
  IF done
  THEN OuterRemoved(/\ polled' = FALSE
                    /\ messenger' = IF hup THEN "closed" ELSE messenger
                    /\ output' = output) /\ enabled' = enabled
  ELSE Disconnected /\ UNCHANGED <<enabled, member>>

\* process_error(), process_hup() and process_invalid() of the messenger,
\* which removes itself (process_hup() also closes the socket), then of the
\* permanent connection.
ConnectionLost(hup) ==
  LET kept == /\ polled' = FALSE
              /\ messenger' = IF hup THEN "closed" ELSE messenger
              /\ output' = output
  IN IF done
     THEN OuterRemoved(kept) /\ enabled' = enabled
     ELSE Disconnected /\ enabled' = TRUE /\ member' = member

-----------------------------------------------------------------------------
(***************************************************************************)
(* Connecting                                                              *)
(***************************************************************************)

\* run() calls process_timeout() of an enabled timer that has a timeout; a
\* date is reset first.  Marked done, nothing happens.
TimeoutCalled ==
  /\ pc = "loop"
  /\ member /\ enabled
  /\ once \/ delay > 0
  /\ once' = FALSE

NextPause ==
  /\ pos' = IF pos < Len(Pauses) THEN pos + 1 ELSE pos
  /\ delay' = IF get_next_delay > 0 THEN get_next_delay ELSE delay

SpuriousTimeout ==
  /\ TimeoutCalled
  /\ done
  /\ UNCHANGED <<useThread, member, enabled, delay, pos, done, implDone, cache, msgrVars, threadVars,
                 pc, sent, wire, quit>>

\* runner::connect(): on a failure the next attempt uses the next address.
Attempt(ok) ==
  /\ client' = ok
  /\ address' = IF ok THEN address ELSE (address + 1) % Addresses

\* Mutant: the timer goes on while the thread connects.
StartThreadOnly(ok) ==
  /\ useThread
  /\ TimeoutCalled
  /\ ~done
  /\ NextPause
  /\ signal' = (signal \/ (~implDone /\ thread = "none"))
  /\ thread' = IF ok /\ ~implDone /\ thread = "none" THEN "running" ELSE thread
  /\ UNCHANGED <<useThread, member, enabled, done, implDone, cache, msgrVars, client, address, pc, sent, wire, quit>>

\* background_connect(): the thread starts, and the timer stops; or it does
\* not start, and the timer goes on.
StartThread(ok) ==
  /\ useThread
  /\ TimeoutCalled
  /\ ~done
  /\ NextPause
  /\ signal' = (signal \/ (~implDone /\ thread = "none"))
  /\ thread' = IF ok /\ ~implDone /\ thread = "none" THEN "running" ELSE thread
  /\ enabled' = (thread' = thread)
  /\ UNCHANGED <<useThread, member, done, implDone, cache, msgrVars, client, address, pc, sent, wire, quit>>

\* The background thread connects or fails, then writes to the pipe of the
\* signal.
ThreadConnects(ok) ==
  /\ thread = "running"
  /\ Attempt(ok)
  /\ thread' = "finished"
  /\ UNCHANGED <<useThread, member, timerVars, done, implDone, cache, msgrVars, signal, pc, sent, wire, quit>>

\* thread_done() up to the creation of the messenger: `connected` tells
\* whether release_client() returned a client.
ThreadDone(connected) ==
  /\ signal' = FALSE
  /\ thread' = "none"
  /\ \/ /\ implDone
        /\ UNCHANGED <<enabled, msgrVars, pc>>
     \/ /\ ~implDone /\ ~connected
        /\ enabled' = TRUE
        /\ UNCHANGED <<msgrVars, pc>>
     \/ /\ ~implDone /\ connected
        /\ messenger' = "open"
        /\ polled' = TRUE
        /\ msgDone' = FALSE
        /\ output' = <<>>
        /\ pc' = "flush"
        /\ UNCHANGED enabled

\* process_read() of the signal of the thread.
ThreadSignaled ==
  /\ pc = "loop"
  /\ signal /\ thread = "finished"
  /\ ThreadDone(client)
  /\ client' = FALSE
  /\ UNCHANGED <<useThread, member, once, delay, pos, done, implDone, cache, address, sent, wire, quit>>

\* Without a thread: connect() and thread_done() in process_timeout().
ConnectNow(ok) ==
  /\ ~useThread
  /\ TimeoutCalled
  /\ ~done
  /\ NextPause
  /\ client' = FALSE
  /\ address' = IF ok THEN address ELSE (address + 1) % Addresses
  /\ ThreadDone(ok)
  /\ UNCHANGED <<useThread, member, done, implDone, cache, sent, wire, quit>>

\* thread_done(): forward the cached messages one by one.  The loop does not
\* look whether sending one of them released the messenger.
FlushOne ==
  /\ pc = "flush"
  /\ cache # <<>>
  /\ is_connected
  /\ MessengerSends(Head(cache))
  /\ cache' = Tail(cache)
  /\ UNCHANGED <<useThread, timerVars, done, implDone, thread, address, signal, pc, sent, quit>>

FlushNull ==
  /\ pc = "flush"
  /\ cache # <<>>
  /\ ~is_connected
  /\ pc' = "crash"
  /\ UNCHANGED <<useThread, member, timerVars, done, implDone, cache, msgrVars, threadVars, sent, wire, quit>>

\* Mutant: process_connected() starts the timer instead of stopping it.
FlushedEnables ==
  /\ pc = "flush"
  /\ cache = <<>>
  /\ pos' = restart
  /\ enabled' = TRUE
  /\ pc' = "loop"
  /\ UNCHANGED <<useThread, member, once, delay, done, implDone, cache, msgrVars, threadVars, sent, wire, quit>>

\* process_connected()
Flushed ==
  /\ pc = "flush"
  /\ cache = <<>>
  /\ pos' = restart
  /\ enabled' = FALSE
  /\ pc' = "loop"
  /\ UNCHANGED <<useThread, member, once, delay, done, implDone, cache, msgrVars, threadVars, sent, wire, quit>>

-----------------------------------------------------------------------------
(***************************************************************************)
(* Events of the messenger                                                 *)
(***************************************************************************)

\* process_write() empties the output buffer.
MessengerWrites ==
  /\ pc = "loop"
  /\ polled /\ output # <<>>
  /\ wire' = output[Len(output)]
  /\ EmptyBuffer
  /\ UNCHANGED <<useThread, timerVars, done, implDone, cache, thread, address, signal, pc, sent, quit>>

\* A hang up; or an error, an invalid socket or a write that failed.
MessengerLost(hup) ==
  /\ pc = "loop"
  /\ polled
  /\ ConnectionLost(hup)
  /\ UNCHANGED <<useThread, once, delay, pos, done, implDone, cache, thread, address, signal, pc, sent, wire, quit>>

-----------------------------------------------------------------------------
(***************************************************************************)
(* Calls of the application                                                *)
(***************************************************************************)

send_message(keep) ==
  LET m == sent + 1 IN
  /\ pc = "loop"
  /\ sent < MaxMsg
  /\ sent' = m
  /\ IF is_connected
     THEN MessengerSends(m) /\ UNCHANGED cache
     ELSE /\ cache' = IF keep /\ ~implDone THEN Append(cache, m) ELSE cache
          /\ UNCHANGED <<member, msgrVars, client, wire>>
  /\ UNCHANGED <<useThread, timerVars, done, implDone, thread, address, signal, pc, quit>>

mark_done ==
  /\ "mark_done" \in Calls
  /\ pc = "loop" /\ ~done
  /\ done' = TRUE
  /\ UNCHANGED <<useThread, member, timerVars, implDone, cache, msgrVars, threadVars, pc, sent, wire, quit>>

\* mark_done(true)
mark_done_messenger ==
  /\ "mark_done_messenger" \in Calls
  /\ pc = "loop" /\ ~implDone
  /\ done' = TRUE
  /\ implDone' = TRUE
  /\ cache' = <<>>
  /\ msgDone' = is_connected
  /\ UNCHANGED <<useThread, member, timerVars, messenger, polled, output, threadVars, pc, sent, wire, quit>>

\* disconnect(), called anywhere or from a callback of the messenger for
\* which poll() had also reported that the peer hung up: process_hup() is
\* then called although the messenger is gone.
disconnect(hup) ==
  /\ "disconnect" \in Calls
  /\ pc = "loop" /\ is_connected
  /\ quit' = TRUE
  /\ hup => polled
  /\ Disconnected
  /\ member' = (member /\ ~(hup /\ done))
  /\ enabled' = (enabled \/ (hup /\ ~done))
  /\ UNCHANGED <<useThread, once, delay, pos, done, implDone, cache, thread, address, signal, pc, sent, wire>>

remove_connection ==
  /\ "remove" \in Calls
  /\ pc = "loop" /\ member
  /\ OuterRemoved(UNCHANGED <<messenger, polled, output>>)
  /\ UNCHANGED <<useThread, timerVars, done, implDone, cache, thread, address, signal, pc, sent, wire, quit>>

-----------------------------------------------------------------------------
Connect ==
  \/ SpuriousTimeout
  \/ \E ok \in BOOLEAN : StartThread(ok) \/ ThreadConnects(ok) \/ ConnectNow(ok)
  \/ ThreadSignaled
  \/ FlushOne
  \/ FlushNull
  \/ Flushed

Application ==
  \/ \E keep \in BOOLEAN : send_message(keep)
  \/ mark_done
  \/ mark_done_messenger
  \/ \E hup \in BOOLEAN : disconnect(hup)
  \/ remove_connection

Messenger == MessengerWrites \/ \E hup \in BOOLEAN : MessengerLost(hup)

Next == Connect \/ Messenger \/ Application

Spec == Init /\ [][Next]_vars

(***************************************************************************)
(* Fairness: the event loop serves a timer that is due, the signal of the  *)
(* thread, the flush, and the messenger: its socket takes the output, or   *)
(* reports an error; the thread ends; an attempt made again and again      *)
(* succeeds in the end, as does starting a thread.                         *)
(***************************************************************************)
FairSpec ==
  /\ Spec
  /\ WF_vars(Connect)
  /\ WF_vars(\E ok \in BOOLEAN : ThreadConnects(ok))
  /\ WF_vars(ThreadSignaled)
  /\ WF_vars(FlushOne \/ Flushed)
  /\ WF_vars(output # <<>> /\ Messenger)
  /\ SF_vars(StartThread(TRUE))
  /\ SF_vars(ThreadConnects(TRUE))
  /\ SF_vars(ConnectNow(TRUE))

-----------------------------------------------------------------------------
(***************************************************************************)
(* Properties                                                              *)
(***************************************************************************)

\* While there is a messenger or a background thread, the timer does not ask
\* for another connection: a second messenger would replace the first one,
\* which would stay in the communicator.
OneConnection ==
  pc = "loop" /\ member /\ (is_connected \/ thread # "none") => ~enabled \/ done

\* disconnect() resets the client of the runner without a lock: never while
\* the background thread may be writing it.
CloseDoesNotRace == is_connected => thread # "running"

\* Messages reach the socket in the order in which send_message() was called,
\* cached ones before those sent once connected, none of them twice.
WireInOrder == [][wire' # wire => wire' > wire]_vars

InOrder(s) == \A i, j \in DOMAIN s : i < j => s[i] < s[j]

BuffersInOrder ==
  /\ InOrder(output \o cache)
  /\ \A i \in DOMAIN (output \o cache) : wire < (output \o cache)[i]

\* A permanent connection that is not connected, was not told to stop and
\* was not told to disconnect reconnects, whatever failed before.
Reconnects ==
  (member /\ ~done /\ ~is_connected /\ ~quit) ~> (is_connected \/ done \/ ~member \/ quit \/ pc = "crash")

\* "A cached message is forwarded as soon as a new successful connection
\* happens": the flush of the cache goes to its end.
CachedForwarded == pc # "crash"

=============================================================================
