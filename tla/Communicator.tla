---------------------------- MODULE Communicator ----------------------------
(***************************************************************************)
(* The event loop: communicator (the list of connections and run()) and    *)
(* the part of connection that run() drives (enabled flag, priority, the   *)
(* two timeouts, the default error callbacks).                             *)
(*                                                                         *)
(* Everything runs in one thread.  What makes the loop hard is that every  *)
(* pass works on a copy of the list and on flags and timestamps saved      *)
(* before poll(), while the callbacks it calls add and remove connections, *)
(* enable and disable them, move their timeouts and priorities and close   *)
(* their sockets.  Callbacks are any sequence of such calls.               *)
(*                                                                         *)
(* Time is counted in the unit of get_current_date().                      *)
(***************************************************************************)
EXTENDS Integers, Sequences, FiniteSets

CONSTANTS
  Conn,         \* the connection objects of the program
  Timer,        \* those without a file descriptor (class timer)
  Priority,     \* the priorities in use (EVENT_MIN_PRIORITY .. EVENT_MAX_PRIORITY)
  DefaultPriority,
  Date,         \* dates passed to set_timeout_date(), -1 aside
  Delay,        \* delays passed to set_timeout_delay(), -1 aside
  Reports,      \* the sets of events poll() may report on one descriptor
  Milli,        \* units of time in one millisecond of poll() (1000)
  MaxNow,       \* bound: the clock stops there
  MaxCalls      \* bound: calls made by the application

ASSUME ConnAssumption == Timer \subseteq Conn
ASSUME PriorityAssumption == Priority \subseteq Nat /\ DefaultPriority \in Priority
ASSUME ReportsAssumption == Reports \subseteq SUBSET {"in", "out", "err", "hup", "nval"} /\ {} \in Reports
ASSUME TimeAssumption ==
  /\ Date \subseteq Nat
  /\ Delay \subseteq Nat \ {0}
  /\ Milli \in Nat \ {0}
  /\ MaxNow \in Nat
  /\ MaxCalls \in Nat

VARIABLES
  list,         \* communicator::f_connections
  forceSort,    \* communicator::f_force_sort
  enabled,      \* connection::f_enabled
  prio,         \* connection::f_priority
  valid,        \* valid_socket()
  wants,        \* what is_reader()/is_listener()/is_signal() and is_writer() ask for
  date,         \* connection::f_timeout_date, -1 if not set
  delay,        \* connection::f_timeout_delay, -1 if not set
  start,        \* connection::f_timeout_delay_start_date
  next,         \* connection::f_timeout_next_date
  saved,        \* connection::f_saved_timeout_stamp
  pc,           \* where run() is (see PCs)
  result,       \* how the last run() ended
  pass,         \* run(): the copy `connections`
  live,         \* run(): the connections whose `enabled` was saved as true
  fds,          \* run(): the connections given to poll()
  wake,         \* run(): when poll() times out, or Never
  revents,      \* run(): the events poll() reported for each connection
  idx,          \* run(): position in `connections`
  todo,         \* run(): events of that connection still to be processed
  called,       \* history: the callbacks <<connection, event>> of this pass
  fresh,        \* history: the connections added since the last sort
  now,          \* get_current_date()
  calls         \* calls the application may still make

connVars == <<enabled, prio, valid, wants, date, delay, start, next>>
passVars == <<pass, live, fds, wake, saved, revents>>
vars == <<list, forceSort, connVars, passVars, pc, result, idx, todo, called, fresh, now, calls>>

Never == -1

Events == {"in", "out", "err", "hup", "nval"}

(***************************************************************************)
(* user      outside of run()                                              *)
(* top       top of the for(;;) of run()                                   *)
(* poll      in poll()                                                     *)
(* scan      between two callbacks of a pass                               *)
(* event     in a callback for an event                                    *)
(* timeout   in process_timeout()                                          *)
(***************************************************************************)
PCs == {"user", "top", "poll", "scan", "event", "timeout"}

Member(c) == \E i \in DOMAIN list : list[i] = c

TypeOK ==
  /\ list \in Seq(Conn)
  /\ forceSort \in BOOLEAN
  /\ enabled \in [Conn -> BOOLEAN]
  /\ prio \in [Conn -> Priority]
  /\ valid \in [Conn -> BOOLEAN]
  /\ wants \in [Conn -> SUBSET {"in", "out"}]
  /\ date \in [Conn -> Nat \cup {-1}]
  /\ delay \in [Conn -> Nat \cup {-1}]
  /\ start \in [Conn -> Nat]
  /\ next \in [Conn -> Nat \cup {-1}]
  /\ saved \in [Conn -> Nat \cup {-1}]
  /\ pc \in PCs
  /\ result \in {"none", "true", "false", "exception"}
  /\ pass \in Seq(Conn)
  /\ live \subseteq Conn
  /\ fds \subseteq Conn
  /\ wake \in Nat \cup {Never}
  /\ revents \in [Conn -> SUBSET Events]
  /\ idx \in Nat \ {0}
  /\ todo \subseteq Events
  /\ called \subseteq Conn \X Events
  /\ fresh \subseteq Conn
  /\ now \in Nat
  /\ calls \in Nat

Init ==
  /\ list = <<>>
  /\ forceSort = TRUE
  /\ enabled = [c \in Conn |-> TRUE]
  /\ prio = [c \in Conn |-> DefaultPriority]
  /\ valid = [c \in Conn |-> TRUE]
  /\ wants = [c \in Conn |-> IF c \in Timer THEN {} ELSE {"in"}]
  /\ date = [c \in Conn |-> -1]
  /\ delay = [c \in Conn |-> -1]
  /\ start = [c \in Conn |-> 0]
  /\ next = [c \in Conn |-> -1]
  /\ saved = [c \in Conn |-> -1]
  /\ pc = "user"
  /\ result = "none"
  /\ pass = <<>>
  /\ live = {}
  /\ fds = {}
  /\ wake = Never
  /\ revents = [c \in Conn |-> {}]
  /\ idx = 1
  /\ todo = {}
  /\ called = {}
  /\ fresh = {}
  /\ now = 0
  /\ calls = MaxCalls

-----------------------------------------------------------------------------
(***************************************************************************)
(* Calls of the application, before run() or in a callback                 *)
(***************************************************************************)

\* One call made by code outside of the library.
Call ==
  /\ pc \in {"user", "event", "timeout"}
  /\ calls > 0
  /\ calls' = calls - 1
  /\ UNCHANGED <<passVars, pc, result, idx, todo, called, now>>

\* A connection without a valid socket is refused with an exception and one
\* already in the list is ignored; f_force_sort is left alone.
add_connection(c) ==
  /\ Call
  /\ valid[c]
  /\ ~Member(c)
  /\ list' = Append(list, c)
  /\ fresh' = fresh \cup {c}
  /\ UNCHANGED <<forceSort, connVars>>

\* f_connections.erase(it)
Erase(s, i) == [j \in 1 .. Len(s) - 1 |-> IF j < i THEN s[j] ELSE s[j + 1]]

Removed(c) ==
  /\ fresh' = fresh \ {c}
  /\ IF Member(c)
     THEN \E i \in DOMAIN list : list[i] = c /\ list' = Erase(list, i)
     ELSE UNCHANGED list

remove_connection(c) ==
  /\ Call
  /\ Member(c)
  /\ Removed(c)
  /\ UNCHANGED <<forceSort, connVars>>

set_enable(c, b) ==
  /\ Call
  /\ enabled' = [enabled EXCEPT ![c] = b]
  /\ UNCHANGED <<list, fresh, forceSort, prio, valid, wants, date, delay, start, next>>

\* Mutant: a new priority does not ask for a sort.
SetPriorityOnly(c, p) ==
  /\ Call
  /\ prio' = [prio EXCEPT ![c] = p]
  /\ UNCHANGED <<list, fresh, forceSort, enabled, valid, wants, date, delay, start, next>>

set_priority(c, p) ==
  /\ Call
  /\ prio' = [prio EXCEPT ![c] = p]
  /\ forceSort' = TRUE
  /\ UNCHANGED <<list, fresh, enabled, valid, wants, date, delay, start, next>>

set_timeout_date(c, d) ==
  /\ Call
  /\ date' = [date EXCEPT ![c] = d]
  /\ UNCHANGED <<list, fresh, forceSort, enabled, prio, valid, wants, delay, start, next>>

\* The start date is kept when the delay is turned off.
set_timeout_delay(c, d) ==
  /\ Call
  /\ delay' = [delay EXCEPT ![c] = d]
  /\ start' = IF d = -1 THEN start ELSE [start EXCEPT ![c] = now]
  /\ next' = [next EXCEPT ![c] = IF d = -1 THEN -1 ELSE now + d]
  /\ UNCHANGED <<list, fresh, forceSort, enabled, prio, valid, wants, date>>

\* A connection starts or stops having data to write, closes its socket.
set_output(c, b) ==
  /\ Call
  /\ c \notin Timer
  /\ wants' = [wants EXCEPT ![c] = IF b THEN @ \cup {"out"} ELSE @ \ {"out"}]
  /\ UNCHANGED <<list, fresh, forceSort, enabled, prio, valid, date, delay, start, next>>

close(c) ==
  /\ Call
  /\ c \notin Timer
  /\ valid[c]
  /\ valid' = [valid EXCEPT ![c] = FALSE]
  /\ UNCHANGED <<list, fresh, forceSort, enabled, prio, wants, date, delay, start, next>>

-----------------------------------------------------------------------------
(***************************************************************************)
(* run(): the top of the loop                                              *)
(***************************************************************************)

RunCalled ==
  /\ pc = "user"
  /\ forceSort' = TRUE
  /\ pc' = "top"
  /\ result' = "none"
  /\ UNCHANGED <<list, fresh, connVars, passVars, idx, todo, called, now, calls>>

\* The local variables of a pass.
Forget ==
  /\ pass' = <<>>
  /\ live' = {}
  /\ fds' = {}
  /\ wake' = Never
  /\ revents' = [c \in Conn |-> {}]
  /\ idx' = 1
  /\ todo' = {}
  /\ called' = {}

\* run() ends: the copies made for the pass go away.
Return(r) ==
  /\ pc' = "user"
  /\ result' = r
  /\ Forget

ReturnTrue ==
  /\ pc = "top"
  /\ list = <<>>
  /\ Return("true")
  /\ UNCHANGED <<list, fresh, forceSort, connVars, saved, now, calls>>

\* Mutant: equal priorities change places.
SortedUnstable(s, p) ==
  \A i, j \in DOMAIN s :
    i < j => \/ prio[s[p[i]]] < prio[s[p[j]]]
             \/ prio[s[p[i]]] = prio[s[p[j]]] /\ p[i] > p[j]

\* std::stable_sort() with connection::compare(): the positions in the order
\* of the priorities, and of the list where these are the same.
SortedBy(s, p) ==
  \A i, j \in DOMAIN s :
    i < j => \/ prio[s[p[i]]] < prio[s[p[j]]]
             \/ prio[s[p[i]]] = prio[s[p[j]]] /\ p[i] < p[j]

Orders(s) == {p \in [DOMAIN s -> DOMAIN s] : SortedBy(s, p)}

\* The list once sorted, if it is to be.
Sorted(s) ==
  IF forceSort
  THEN \E p \in Orders(list) : s = [i \in DOMAIN list |-> list[p[i]]]
  ELSE s = list

\* The date has precedence over the delay.
get_timeout_timestamp(c) ==
  IF date[c] # -1 THEN date[c] ELSE IF delay[c] # -1 THEN next[c] ELSE -1

Enabled == {c \in Conn : Member(c) /\ enabled[c]}

\* Mutant: a connection with output is not polled.
PolledReaders == {c \in Enabled : wants[c] = {"in"} /\ valid[c]}

Polled == {c \in Enabled : wants[c] # {} /\ valid[c]}

Timestamps == {get_timeout_timestamp(c) : c \in Enabled} \ {-1}

\* Mutant: the last timeout instead of the first.
IsLast(t) == \A u \in Timestamps : t >= u

IsNext(t) == \A u \in Timestamps : t <= u

\* The timeout of poll() up to the date t, in milliseconds: zero for a date in
\* the past, at least one for a date to come.
PollTimeout(t) ==
  IF t < now THEN 0
  ELSE IF (t - now) \div Milli = 0 THEN 1
  ELSE (t - now) \div Milli

\* Mutant: poll() waits for events only.
WakesNever(w) == w = Never

\* poll() times out at w, or waits for ever.
Wakes(w) ==
  \/ Timestamps = {} /\ w = Never
  \/ \E t \in Timestamps : IsNext(t) /\ w = now + PollTimeout(t) * Milli

\* Copy the list, sorted if it has to be, save the enabled flags and the
\* timestamps and collect the file descriptors.
Snapshot ==
  /\ pc = "top"
  /\ list # <<>>
  /\ Sorted(list')
  /\ forceSort' = FALSE
  /\ fresh' = IF forceSort THEN {} ELSE fresh
  /\ saved' = [c \in Conn |-> IF c \in Enabled THEN get_timeout_timestamp(c) ELSE saved[c]]

\* Nothing to wait on: run() gives up.
ReturnFalse ==
  /\ Snapshot
  /\ Timestamps = {} /\ Polled = {}
  /\ Return("false")
  /\ UNCHANGED <<connVars, now, calls>>

Prepare ==
  /\ Snapshot
  /\ Timestamps # {} \/ Polled # {}
  /\ pass' = list'
  /\ live' = Enabled
  /\ fds' = Polled
  /\ Wakes(wake')
  /\ pc' = "poll"
  /\ UNCHANGED <<connVars, result, revents, idx, todo, called, now, calls>>

-----------------------------------------------------------------------------
(***************************************************************************)
(* run(): poll() and the scan of the connections                           *)
(***************************************************************************)

\* Mutant: the connections removed since are skipped.
ReportedMembers(r, i) ==
  IF i \in DOMAIN pass /\ pass[i] \in live \cap fds /\ Member(pass[i]) THEN r[pass[i]] ELSE {}

\* The events r reported for the connection at position i.
Reported(r, i) ==
  IF i \in DOMAIN pass /\ pass[i] \in live \cap fds THEN r[pass[i]] ELSE {}

\* poll() is external: it reports events that were asked for, errors and hang
\* ups, on any of the descriptors.
PollReports ==
  /\ pc = "poll"
  /\ \E r \in [Conn -> Reports] :
       /\ \E c \in fds : r[c] # {}
       /\ \A c \in Conn : /\ c \notin fds => r[c] = {}
                          /\ r[c] \subseteq wants[c] \cup {"err", "hup", "nval"}
       /\ revents' = r
       /\ todo' = Reported(r, 1)
  /\ idx' = 1
  /\ pc' = "scan"
  /\ UNCHANGED <<list, fresh, forceSort, connVars, pass, live, fds, wake, saved, called, result, now, calls>>

PollTimesOut ==
  /\ pc = "poll"
  /\ wake # Never /\ now >= wake
  /\ idx' = 1
  /\ pc' = "scan"
  /\ UNCHANGED <<list, fresh, forceSort, connVars, passVars, todo, called, result, now, calls>>

\* poll() fails (EINTR, ENOMEM...): run() throws.
PollFails ==
  /\ pc = "poll"
  /\ Return("exception")
  /\ UNCHANGED <<list, fresh, forceSort, connVars, saved, now, calls>>

\* The order in which run() tests the events of one connection.
Before(e, f) ==
  <<e, f>> \in {<<"in", "out">>, <<"in", "err">>, <<"in", "hup">>, <<"in", "nval">>,
               <<"out", "err">>, <<"out", "hup">>, <<"out", "nval">>,
               <<"err", "hup">>, <<"err", "nval">>, <<"hup", "nval">>}

\* One callback for an event of the current connection.  process_error(),
\* process_hup() and process_invalid() remove the connection.
ProcessEvent(e) ==
  /\ pc = "scan"
  /\ e \in todo
  /\ \A f \in todo : ~Before(f, e)
  /\ todo' = todo \ {e}
  /\ called' = called \cup {<<pass[idx], e>>}
  /\ IF e \in {"err", "hup", "nval"} THEN Removed(pass[idx]) ELSE UNCHANGED <<list, fresh>>
  /\ pc' = "event"
  /\ UNCHANGED <<forceSort, connVars, passVars, idx, result, now, calls>>

EndEvent ==
  /\ pc = "event"
  /\ pc' = "scan"
  /\ UNCHANGED <<list, fresh, forceSort, connVars, passVars, idx, todo, called, result, now, calls>>

\* Mutant: the next tick is a delay from now.
TickFromNow(c) ==
  IF delay[c] = -1 \/ now < next[c] THEN next[c] ELSE now + delay[c]

\* The tick after `now` on the schedule start + k * delay, or `now` itself.
NextTick(c) ==
  LET ticks == (now - start[c] + delay[c] - 1) \div delay[c]
  IN  IF delay[c] = -1 \/ now < next[c] THEN next[c] ELSE start[c] + ticks * delay[c]

\* The timeout saved before poll() is over: move both timeouts of the
\* connection, then call process_timeout().
ProcessTimeout ==
  LET c == pass[idx] IN
  /\ pc = "scan"
  /\ todo = {}
  /\ idx \in DOMAIN pass
  /\ c \in live
  /\ saved[c] # -1 /\ now >= saved[c]
  /\ next' = [next EXCEPT ![c] = NextTick(c)]
  /\ date' = IF date[c] >= 0 /\ now >= date[c] THEN [date EXCEPT ![c] = -1] ELSE date
  /\ pc' = "timeout"
  /\ UNCHANGED <<list, fresh, forceSort, enabled, prio, valid, wants, delay, start, passVars,
                 idx, todo, called, result, now, calls>>

Advance ==
  /\ idx' = idx + 1
  /\ todo' = Reported(revents, idx + 1)
  /\ pc' = "scan"
  /\ UNCHANGED <<list, fresh, forceSort, connVars, passVars, called, result, now, calls>>

EndTimeout == pc = "timeout" /\ Advance

\* No timeout for this connection, or it was disabled.
NoTimeout ==
  /\ pc = "scan"
  /\ todo = {}
  /\ idx \in DOMAIN pass
  /\ pass[idx] \in live => saved[pass[idx]] = -1 \/ now < saved[pass[idx]]
  /\ Advance

EndPass ==
  /\ pc = "scan"
  /\ idx \notin DOMAIN pass
  /\ Forget
  /\ pc' = "top"
  /\ UNCHANGED <<list, fresh, forceSort, connVars, saved, result, now, calls>>

\* A callback throws, for example because it calls run() again
\* (recursive_call): the exception goes through run().
CallbackThrows ==
  /\ pc \in {"event", "timeout"}
  /\ Return("exception")
  /\ UNCHANGED <<list, fresh, forceSort, connVars, saved, now, calls>>

-----------------------------------------------------------------------------
\* Time passes in poll() and in the code of the application.
Tick ==
  /\ pc \in {"user", "poll", "event", "timeout"}
  /\ now < MaxNow
  /\ now' = now + 1
  /\ UNCHANGED <<list, fresh, forceSort, connVars, passVars, pc, result, idx, todo, called, calls>>

Application(c) ==
  \/ add_connection(c)
  \/ remove_connection(c)
  \/ \E b \in BOOLEAN : set_enable(c, b)
  \/ \E p \in Priority : set_priority(c, p)
  \/ \E d \in Date \cup {-1} : set_timeout_date(c, d)
  \/ \E d \in Delay \cup {-1} : set_timeout_delay(c, d)
  \/ \E b \in BOOLEAN : set_output(c, b)
  \/ close(c)

\* The steps of run() that depend on nobody.
RunStep ==
  \/ ReturnTrue
  \/ ReturnFalse
  \/ Prepare
  \/ \E e \in Events : ProcessEvent(e)
  \/ ProcessTimeout
  \/ NoTimeout
  \/ EndPass

Next ==
  \/ \E c \in Conn : Application(c)
  \/ RunCalled
  \/ RunStep
  \/ PollReports
  \/ PollTimesOut
  \/ PollFails
  \/ EndEvent
  \/ EndTimeout
  \/ CallbackThrows
  \/ Tick

Spec == Init /\ [][Next]_vars

(***************************************************************************)
(* Fairness: run() goes on as long as it can, callbacks return, and poll() *)
(* returns once its timeout is over.  Nothing says that poll() ever        *)
(* reports an event.                                                       *)
(***************************************************************************)
FairSpec ==
  /\ Spec
  /\ WF_vars(RunStep)
  /\ WF_vars(EndEvent)
  /\ WF_vars(EndTimeout)
  /\ WF_vars(PollTimesOut)
  /\ WF_vars(Tick)

-----------------------------------------------------------------------------
(***************************************************************************)
(* Properties                                                              *)
(***************************************************************************)

\* A connection is in the list at most once, however often it is added,
\* removed and added again from within callbacks: run() handles each once.
NoDuplicate == \A i, j \in DOMAIN list : list[i] = list[j] => i = j

\* Every event poll() reported reaches its callback, once, before the next
\* poll(), also on a connection that an earlier callback of the same pass
\* disabled or removed.
EventsServedOnce ==
  [][/\ pc = "scan" /\ pc' = "event" => called' # called
     /\ pc = "scan" /\ pc' = "top"
          => called = {ce \in fds \X Events : ce[2] \in revents[ce[1]]}]_vars

\* Connections that were in the list at the last sort are in the order of
\* their priorities, unless a new sort is pending: whatever was added,
\* removed or changed in between.
OldConnectionsSorted ==
  ~forceSort =>
    \A i, j \in DOMAIN list :
      i < j /\ list[j] \notin fresh => prio[list[i]] <= prio[list[j]]

\* "Connections are kept in the order in which they are added": two of them
\* change places only because their priorities are in the wrong order.
OrderKept ==
  [][\A i, j \in DOMAIN list, k, l \in DOMAIN list' :
       i < j /\ k < l /\ list'[l] = list[i] /\ list'[k] = list[j]
         => prio[list[j]] < prio[list[i]]]_vars

\* run() returns false only when no connection of the list could ever end
\* the poll() it would make, and true only when the list is empty.
GivesUpOnlyIfStuck ==
  [][/\ pc = "top" /\ result' = "true" => list = <<>>
     /\ pc = "top" /\ result' = "false" =>
          \A i \in DOMAIN list :
            enabled[list[i]] =>
              /\ date[list[i]] = -1 /\ delay[list[i]] = -1
              /\ list[i] \in Timer \/ ~valid[list[i]]]_vars

\* poll() never sleeps past the timeout of an enabled connection by more
\* than the millisecond it is rounded up to; it does not sleep at all if that
\* timeout is in the past, and only then, so that the loop is not a busy one
\* while there is nothing to do (communicator.cpp:628-656). The documentation
\* differs: a timeout in the past is said to give a pause of 1 ms, to avoid
\* tight loops (connection.cpp:671-675).
PollNotLate ==
  [][pc = "top" /\ pc' = "poll" =>
       \A c \in live' :
         saved'[c] # -1 =>
           /\ wake' # Never
           /\ IF saved'[c] < now THEN wake' = now ELSE wake' <= saved'[c] + Milli
           /\ wake' = now => \E d \in live' : saved'[d] # -1 /\ saved'[d] < now]_vars

\* Ticks stay on the schedule start + k * delay however late they are served.
TickOnSchedule ==
  \A c \in Conn :
    delay[c] # -1 => next[c] >= start[c] /\ (next[c] - start[c]) % delay[c] = 0

\* When process_timeout() is called, what made the connection time out is
\* consumed: the next timeout of the connection is not in the past, and a
\* tick that moved is the first one not in the past.
TimeoutConsumed ==
  [][pc = "scan" /\ pc' = "timeout" =>
       LET c == pass[idx] IN
       /\ get_timeout_timestamp(c)' = -1 \/ get_timeout_timestamp(c)' >= now
       /\ next'[c] # next[c] => next'[c] - now < delay[c]]_vars

\* The timeout of c is over; the clock of the model goes far enough for a
\* poll() started now to end.
Due(c) ==
  /\ get_timeout_timestamp(c) # -1
  /\ get_timeout_timestamp(c) <= now
  /\ get_timeout_timestamp(c) + Milli <= MaxNow

\* The timeout of a connection that stays enabled and in the list is served
\* however many events the other connections get in the meantime.
DueServed ==
  \A c \in Conn :
    (pc # "user" /\ Member(c) /\ enabled[c] /\ Due(c))
      ~> (\/ pc = "timeout" /\ pass[idx] = c
          \/ ~Due(c) \/ ~Member(c) \/ ~enabled[c]
          \/ pc = "user")

=============================================================================
