------------------------ MODULE Communicator_proofs ------------------------
(***************************************************************************)
(* Proofs about the event loop, for any connections, priorities, dates,    *)
(* delays and events.                                                      *)
(***************************************************************************)
EXTENDS Communicator, FiniteSetTheorems, TLAPS

-----------------------------------------------------------------------------
(***************************************************************************)
(* Type correctness                                                        *)
(***************************************************************************)

\* Events are left to serve only during a scan, at a position of the copy of
\* the list.
TodoValid == todo # {} => pc \in {"scan", "event"} /\ idx \in DOMAIN pass

\* erase() leaves a list of connections.
LEMMA EraseType ==
  ASSUME NEW s \in Seq(Conn), NEW i \in DOMAIN s PROVE Erase(s, i) \in Seq(Conn)
BY DEF Erase

\* So does remove_connection(), whether it finds the connection or not.
LEMMA RemovedType ==
  ASSUME TypeOK, NEW c \in Conn, Removed(c)
  PROVE  list' \in Seq(Conn) /\ fresh' \subseteq Conn
<1>1. list' \in Seq(Conn)
  BY EraseType DEF Removed, TypeOK
<1>2. fresh' \subseteq Conn
  BY DEF Removed, TypeOK
<1>. QED BY <1>1, <1>2

\* The sort of run() gives a list of connections.
LEMMA SortedType ==
  ASSUME TypeOK, Sorted(list') PROVE list' \in Seq(Conn)
<1>1. CASE forceSort
  <2>1. PICK p \in [DOMAIN list -> DOMAIN list] : list' = [i \in DOMAIN list |-> list[p[i]]]
    BY <1>1 DEF Sorted, Orders
  <2>2. list \in Seq(Conn) /\ Len(list) \in Nat /\ DOMAIN list = 1 .. Len(list)
    BY DEF TypeOK
  <2>3. \A i \in DOMAIN list : list[p[i]] \in Conn
    BY <2>2
  <2>. QED BY <2>1, <2>2, <2>3
<1>2. CASE ~forceSort
  BY <1>2 DEF Sorted, TypeOK
<1>. QED BY <1>1, <1>2

\* A timestamp is a date or -1.
LEMMA TimestampType ==
  ASSUME TypeOK, NEW c \in Conn PROVE get_timeout_timestamp(c) \in Nat \cup {-1}
BY DEF TypeOK, get_timeout_timestamp

\* What run() saves as enabled and gives to poll() are connections.
LEMMA EnabledType == Enabled \subseteq Conn /\ Polled \subseteq Conn
BY DEF Enabled, Polled

\* The timeout given to poll() ends at a date, or never.
LEMMA WakesType ==
  ASSUME TypeOK, NEW w, Wakes(w) PROVE w \in Nat \cup {Never}
<1>1. ASSUME NEW t \in Timestamps PROVE t \in Nat
  BY <1>1, TimestampType, EnabledType DEF Timestamps
<1>2. now \in Nat /\ Milli \in Nat /\ Milli > 0
  BY TimeAssumption DEF TypeOK
<1>3. ASSUME NEW t \in Nat PROVE PollTimeout(t) \in Nat
  <2>1. ~(t < now) => (t - now) \div Milli \in Nat
    BY <1>2
  <2>. QED BY <2>1 DEF PollTimeout
<1>4. ASSUME NEW k \in Nat PROVE now + k * Milli \in Nat
  BY <1>2
<1>. QED BY <1>1, <1>3, <1>4 DEF Wakes

\* Events are reported only for a position of the copy of the list.
LEMMA ReportedType ==
  ASSUME TypeOK, NEW r \in [Conn -> SUBSET Events], NEW i
  PROVE  Reported(r, i) \subseteq Events /\ (Reported(r, i) # {} => i \in DOMAIN pass)
<1>1. i \in DOMAIN pass => pass[i] \in Conn
  BY DEF TypeOK
<1>. QED BY <1>1 DEF Reported

\* The variables of the pass that run() starts with.
LEMMA ForgetType ==
  ASSUME Forget
  PROVE  /\ pass' \in Seq(Conn) /\ live' \subseteq Conn /\ fds' \subseteq Conn
         /\ wake' \in Nat \cup {Never} /\ revents' \in [Conn -> SUBSET Events]
         /\ idx' \in Nat \ {0} /\ todo' = {} /\ called' \subseteq Conn \X Events
BY DEF Forget

\* calculate_next_tick() gives a date, or leaves the -1 of a delay not set.
LEMMA NextTickType ==
  ASSUME TypeOK, NEW c \in Conn, delay[c] # 0, delay[c] # -1 => next[c] >= start[c]
  PROVE  NextTick(c) \in Nat \cup {-1}
<1>. DEFINE d == delay[c]
            a == now - start[c] + d - 1
<1>0. now \in Nat /\ d \in Nat \cup {-1} /\ start[c] \in Nat /\ next[c] \in Nat \cup {-1}
  BY DEF TypeOK
<1>1. CASE d = -1 \/ now < next[c]
  BY <1>0, <1>1 DEF NextTick
<1>2. CASE ~(d = -1 \/ now < next[c])
  <2>1. a \in Nat /\ d \in Nat /\ d > 0
    BY <1>0, <1>2
  <2>. HIDE DEF a
  <2>2. a \div d \in Nat
    BY <2>1
  <2>3. start[c] + (a \div d) * d \in Nat
    BY <1>0, <2>1, <2>2
  <2>. QED BY <1>2, <2>3 DEF NextTick, a
<1>. QED BY <1>1, <1>2
\* The parts of the type invariant: the list, the connections, the loop.
ListType == list \in Seq(Conn) /\ forceSort \in BOOLEAN /\ fresh \subseteq Conn

ConnType ==
  /\ enabled \in [Conn -> BOOLEAN]
  /\ prio \in [Conn -> Priority]
  /\ valid \in [Conn -> BOOLEAN]
  /\ wants \in [Conn -> SUBSET {"in", "out"}]
  /\ date \in [Conn -> Nat \cup {-1}]
  /\ delay \in [Conn -> Nat \cup {-1}]
  /\ start \in [Conn -> Nat]
  /\ next \in [Conn -> Nat \cup {-1}]

PassType ==
  /\ saved \in [Conn -> Nat \cup {-1}]
  /\ pass \in Seq(Conn)
  /\ live \subseteq Conn
  /\ fds \subseteq Conn
  /\ wake \in Nat \cup {Never}
  /\ revents \in [Conn -> SUBSET Events]

LoopType ==
  /\ pc \in PCs
  /\ result \in {"none", "true", "false", "exception"}
  /\ idx \in Nat \ {0}
  /\ todo \subseteq Events
  /\ called \subseteq Conn \X Events

ClockType == now \in Nat /\ calls \in Nat

\* A delay is never zero: calculate_next_tick() divides by it.
DelaySet == \A c \in Conn : delay[c] # 0

\* The strengthening of TypeOK that the steps of Next preserve.
TInv == ListType /\ ConnType /\ PassType /\ LoopType /\ ClockType /\ DelaySet /\ TodoValid /\ TickOnSchedule

\* The parts make up the type invariant.
LEMMA TypeParts == TypeOK <=> ListType /\ ConnType /\ PassType /\ LoopType /\ ClockType
BY Zenon DEF TypeOK, ListType, ConnType, PassType, LoopType, ClockType

\* The invariant holds before the first call.
LEMMA InitTInv == Init => TInv
<1>. SUFFICES ASSUME Init PROVE TInv OBVIOUS
<1>1. ListType
  BY DEF Init, ListType
<1>2. ConnType
  <2>1. prio \in [Conn -> Priority] /\ date \in [Conn -> Nat \cup {-1}]
        /\ delay \in [Conn -> Nat \cup {-1}] /\ start \in [Conn -> Nat] /\ next \in [Conn -> Nat \cup {-1}]
    BY PriorityAssumption DEF Init
  <2>2. wants \in [Conn -> SUBSET {"in", "out"}]
    BY DEF Init
  <2>3. enabled \in [Conn -> BOOLEAN] /\ valid \in [Conn -> BOOLEAN]
    BY DEF Init
  <2>. QED BY <2>1, <2>2, <2>3, Zenon DEF ConnType
<1>3. PassType
  BY DEF Init, PassType
<1>4. LoopType
  BY DEF Init, LoopType, PCs
<1>5. ClockType /\ TodoValid
  BY TimeAssumption DEF Init, ClockType, TodoValid
<1>6. DelaySet /\ TickOnSchedule
  BY DEF Init, DelaySet, TickOnSchedule
<1>. QED BY <1>1, <1>2, <1>3, <1>4, <1>5, <1>6, Zenon DEF TInv

\* Each part depends on its own variables only.
LEMMA ListSame == ListType /\ UNCHANGED <<list, fresh, forceSort>> => ListType'
BY Zenon DEF ListType

\* The connections do not change.
LEMMA ConnSame == ConnType /\ UNCHANGED connVars => ConnType'
BY Zenon DEF ConnType, connVars

\* The schedule of the timers does not change.
LEMMA ScheduleSame ==
  DelaySet /\ TickOnSchedule /\ UNCHANGED <<delay, start, next>> => DelaySet' /\ TickOnSchedule'
BY Zenon DEF DelaySet, TickOnSchedule

\* The pass of run() does not change.
LEMMA PassSame == PassType /\ UNCHANGED passVars => PassType'
BY Zenon DEF PassType, passVars

\* A call of the application leaves the loop where it is.
LEMMA CallType ==
  ASSUME PassType, LoopType, ClockType, TodoValid, Call
  PROVE  PassType' /\ LoopType' /\ ClockType' /\ TodoValid'
<1>1. PassType'
  BY PassSame DEF Call
<1>2. LoopType'
  BY Zenon DEF Call, LoopType
<1>3. calls' \in Nat
  BY DEF Call, ClockType
<1>4. ClockType'
  BY <1>3 DEF Call, ClockType
<1>5. TodoValid'
  BY Zenon DEF Call, TodoValid, passVars
<1>. QED BY <1>1, <1>2, <1>4, <1>5

\* set_timeout_delay(): the first tick is a delay from now.
LEMMA DelayType ==
  ASSUME TInv, NEW c \in Conn, NEW d \in Delay \cup {-1}, set_timeout_delay(c, d)
  PROVE  ConnType' /\ DelaySet' /\ TickOnSchedule'
<1>1. now \in Nat /\ d \in Nat \cup {-1} /\ d # 0
  BY TimeAssumption DEF TInv, ClockType
<1>2. /\ delay' = [delay EXCEPT ![c] = d]
      /\ start' = IF d = -1 THEN start ELSE [start EXCEPT ![c] = now]
      /\ next' = [next EXCEPT ![c] = IF d = -1 THEN -1 ELSE now + d]
  BY DEF set_timeout_delay
<1>3. /\ delay \in [Conn -> Nat \cup {-1}] /\ start \in [Conn -> Nat]
      /\ next \in [Conn -> Nat \cup {-1}]
  BY DEF TInv, ConnType
<1>4. delay' \in [Conn -> Nat \cup {-1}] /\ next' \in [Conn -> Nat \cup {-1}]
  BY <1>1, <1>2, <1>3
<1>5. start' \in [Conn -> Nat]
  BY <1>1, <1>2, <1>3
<1>6. ConnType'
  BY <1>4, <1>5, Zenon DEF TInv, ConnType, set_timeout_delay
<1>7. DelaySet'
  BY <1>1, <1>2, <1>3 DEF TInv, DelaySet
<1>8. ASSUME NEW x \in Conn, delay'[x] # -1
      PROVE  next'[x] >= start'[x] /\ (next'[x] - start'[x]) % delay'[x] = 0
  <2>1. CASE x # c
    <3>1. delay'[x] = delay[x] /\ start'[x] = start[x] /\ next'[x] = next[x]
      BY <1>2, <1>3, <2>1
    <3>. QED BY <1>8, <3>1 DEF TInv, TickOnSchedule
  <2>2. CASE x = c
    <3>1. delay'[x] = d /\ d # -1
      BY <1>2, <1>3, <1>8, <2>2
    <3>2. start'[x] = now /\ next'[x] = now + d
      BY <1>2, <1>3, <2>2, <3>1
    <3>3. d \in Nat /\ d > 0
      BY <1>1, <3>1
    <3>4. (now + d) - now = d /\ d % d = 0
      BY <1>1, <3>3
    <3>. QED BY <1>1, <3>1, <3>2, <3>3, <3>4
  <2>. QED BY <2>1, <2>2
<1>9. TickOnSchedule'
  BY <1>8, Zenon DEF TickOnSchedule
<1>. QED BY <1>6, <1>7, <1>9

\* ProcessTimeout: the tick that is moved stays on the schedule.
LEMMA TickType ==
  ASSUME TInv, ProcessTimeout
  PROVE  ConnType' /\ DelaySet' /\ TickOnSchedule'
<1>. DEFINE c == pass[idx]
            d == delay[c]
            a == now - start[c] + d - 1
<1>1. c \in Conn
  BY DEF ProcessTimeout, TInv, PassType
<1>. HIDE DEF c
<1>2. /\ next' = [next EXCEPT ![c] = NextTick(c)]
      /\ date' = IF date[c] >= 0 /\ now >= date[c] THEN [date EXCEPT ![c] = -1] ELSE date
      /\ UNCHANGED <<delay, start>>
  BY DEF ProcessTimeout, c
<1>3. /\ date \in [Conn -> Nat \cup {-1}] /\ delay \in [Conn -> Nat \cup {-1}]
      /\ start \in [Conn -> Nat] /\ next \in [Conn -> Nat \cup {-1}]
      /\ now \in Nat /\ d # 0 /\ TypeOK
  BY <1>1, TypeParts DEF TInv, ConnType, ClockType, DelaySet
<1>4. d # -1 => next[c] >= start[c] /\ (next[c] - start[c]) % d = 0
  BY <1>1 DEF TInv, TickOnSchedule
<1>5. NextTick(c) \in Nat \cup {-1}
  BY <1>1, <1>3, <1>4, NextTickType
<1>6. next' \in [Conn -> Nat \cup {-1}] /\ date' \in [Conn -> Nat \cup {-1}]
  BY <1>1, <1>2, <1>3, <1>5
<1>7. ConnType'
  BY <1>6, Zenon DEF TInv, ConnType, ProcessTimeout
<1>8. DelaySet'
  BY <1>2 DEF TInv, DelaySet
<1>9. d # -1 => NextTick(c) >= start[c] /\ (NextTick(c) - start[c]) % d = 0
  <2>1. CASE d = -1 \/ now < next[c]
    BY <1>4, <2>1 DEF NextTick
  <2>2. CASE ~(d = -1 \/ now < next[c])
    <3>0. d \in Nat \cup {-1} /\ start[c] \in Nat /\ next[c] \in Nat \cup {-1}
      BY <1>1, <1>3
    <3>1. a \in Nat /\ d \in Nat /\ d > 0
      BY <1>3, <1>4, <2>2, <3>0
    <3>2. NextTick(c) = start[c] + (a \div d) * d
      BY <2>2 DEF NextTick
    <3>. HIDE DEF a, d
    <3>3. a \div d \in Nat
      BY <3>1
    <3>. DEFINE k == a \div d
    <3>. HIDE DEF k
    <3>4. k * d \in Nat /\ (k * d) % d = 0
      BY <3>1, <3>3 DEF k
    <3>5. NextTick(c) >= start[c] /\ NextTick(c) - start[c] = k * d
      BY <3>0, <3>2, <3>4 DEF k
    <3>. QED BY <3>4, <3>5
  <2>. QED BY <2>1, <2>2
<1>10. ASSUME NEW x \in Conn, delay'[x] # -1
       PROVE  next'[x] >= start'[x] /\ (next'[x] - start'[x]) % delay'[x] = 0
  <2>1. delay'[x] = delay[x] /\ start'[x] = start[x]
    BY <1>2
  <2>2. CASE x # c
    <3>1. next'[x] = next[x]
      BY <1>2, <1>3, <2>2
    <3>. QED BY <1>10, <2>1, <3>1 DEF TInv, TickOnSchedule
  <2>3. CASE x = c
    <3>1. next'[x] = NextTick(c)
      BY <1>1, <1>2, <1>3, <2>3
    <3>. QED BY <1>9, <1>10, <2>1, <2>3, <3>1
  <2>. QED BY <2>2, <2>3
<1>11. TickOnSchedule'
  BY <1>10, Zenon DEF TickOnSchedule
<1>. QED BY <1>7, <1>8, <1>11

\* The calls of the application preserve the invariant.
LEMMA ApplicationTInv ==
  ASSUME TInv, NEW c \in Conn, Application(c)
  PROVE  TInv'
<1>. USE DEF TInv
<1>0. Call => PassType' /\ LoopType' /\ ClockType' /\ TodoValid'
  BY CallType
<1>1. CASE add_connection(c)
  <2>1. ListType'
    <3>1. list' \in Seq(Conn) /\ fresh' \subseteq Conn
      BY <1>1 DEF add_connection, ListType
    <3>. QED BY <1>1, <3>1, Zenon DEF add_connection, ListType
  <2>2. ConnType' /\ DelaySet' /\ TickOnSchedule'
    BY <1>1, ConnSame, ScheduleSame, Zenon DEF add_connection, connVars
  <2>. QED BY <1>0, <1>1, <2>1, <2>2, Zenon DEF add_connection
<1>2. CASE remove_connection(c)
  <2>1. ListType'
    <3>1. list' \in Seq(Conn) /\ fresh' \subseteq Conn
      BY <1>2, RemovedType, TypeParts DEF remove_connection
    <3>. QED BY <1>2, <3>1, Zenon DEF remove_connection, ListType
  <2>2. ConnType' /\ DelaySet' /\ TickOnSchedule'
    BY <1>2, ConnSame, ScheduleSame, Zenon DEF remove_connection, connVars
  <2>. QED BY <1>0, <1>2, <2>1, <2>2, Zenon DEF remove_connection
<1>3. ASSUME NEW b \in BOOLEAN, set_enable(c, b) PROVE TInv'
  <2>1. enabled' \in [Conn -> BOOLEAN]
    BY <1>3 DEF set_enable, ConnType
  <2>2. ConnType' /\ ListType'
    BY <1>3, <2>1, Zenon DEF set_enable, ConnType, ListType
  <2>3. DelaySet' /\ TickOnSchedule'
    BY <1>3, ScheduleSame, Zenon DEF set_enable
  <2>. QED BY <1>0, <1>3, <2>2, <2>3, Zenon DEF set_enable
<1>4. ASSUME NEW p \in Priority, set_priority(c, p) PROVE TInv'
  <2>1. prio' \in [Conn -> Priority]
    BY <1>4 DEF set_priority, ConnType
  <2>2. ConnType' /\ ListType'
    BY <1>4, <2>1, Zenon DEF set_priority, ConnType, ListType
  <2>3. DelaySet' /\ TickOnSchedule'
    BY <1>4, ScheduleSame, Zenon DEF set_priority
  <2>. QED BY <1>0, <1>4, <2>2, <2>3, Zenon DEF set_priority
<1>5. ASSUME NEW d \in Date \cup {-1}, set_timeout_date(c, d) PROVE TInv'
  <2>1. date' \in [Conn -> Nat \cup {-1}]
    BY <1>5, TimeAssumption DEF set_timeout_date, ConnType
  <2>2. ConnType' /\ ListType'
    BY <1>5, <2>1, Zenon DEF set_timeout_date, ConnType, ListType
  <2>3. DelaySet' /\ TickOnSchedule'
    BY <1>5, ScheduleSame, Zenon DEF set_timeout_date
  <2>. QED BY <1>0, <1>5, <2>2, <2>3, Zenon DEF set_timeout_date
<1>6. ASSUME NEW d \in Delay \cup {-1}, set_timeout_delay(c, d) PROVE TInv'
  <2>1. ConnType' /\ DelaySet' /\ TickOnSchedule'
    BY <1>6, DelayType
  <2>2. ListType'
    BY <1>6, Zenon DEF set_timeout_delay, ListType
  <2>. QED BY <1>0, <1>6, <2>1, <2>2, Zenon DEF set_timeout_delay
<1>7. ASSUME NEW b \in BOOLEAN, set_output(c, b) PROVE TInv'
  <2>1. wants' \in [Conn -> SUBSET {"in", "out"}]
    BY <1>7 DEF set_output, ConnType
  <2>2. ConnType' /\ ListType'
    BY <1>7, <2>1, Zenon DEF set_output, ConnType, ListType
  <2>3. DelaySet' /\ TickOnSchedule'
    BY <1>7, ScheduleSame, Zenon DEF set_output
  <2>. QED BY <1>0, <1>7, <2>2, <2>3, Zenon DEF set_output
<1>8. CASE close(c)
  <2>1. valid' \in [Conn -> BOOLEAN]
    BY <1>8 DEF close, ConnType
  <2>2. ConnType' /\ ListType'
    BY <1>8, <2>1, Zenon DEF close, ConnType, ListType
  <2>3. DelaySet' /\ TickOnSchedule'
    BY <1>8, ScheduleSame, Zenon DEF close
  <2>. QED BY <1>0, <1>8, <2>2, <2>3, Zenon DEF close
<1>. QED BY <1>1, <1>2, <1>3, <1>4, <1>5, <1>6, <1>7, <1>8, Zenon DEF Application

\* The steps that leave the connections alone.
LEMMA SameConnections ==
  ASSUME TInv, UNCHANGED connVars
  PROVE  ConnType' /\ DelaySet' /\ TickOnSchedule'
BY ConnSame, ScheduleSame, Zenon DEF TInv, connVars

\* run() ends or goes to its top: nothing is left of the pass.
LEMMA ForgetTInv ==
  ASSUME TInv, Forget, pc' \in PCs, result' \in {"none", "true", "false", "exception"},
         saved' \in [Conn -> Nat \cup {-1}], ListType', UNCHANGED <<connVars, now, calls>>
  PROVE  TInv'
<1>1. ConnType' /\ DelaySet' /\ TickOnSchedule'
  BY SameConnections
<1>2. PassType' /\ LoopType' /\ TodoValid'
  BY ForgetType DEF PassType, LoopType, TodoValid
<1>3. ClockType'
  BY DEF ClockType, TInv
<1>. QED BY <1>1, <1>2, <1>3 DEF TInv

\* The sort and the timestamps saved by run().
LEMMA SnapshotType ==
  ASSUME TInv, Snapshot
  PROVE  ListType' /\ saved' \in [Conn -> Nat \cup {-1}]
<1>0. TypeOK
  BY TypeParts DEF TInv
<1>1. list' \in Seq(Conn)
  BY <1>0, SortedType DEF Snapshot
<1>2. fresh' \subseteq Conn
  BY DEF Snapshot, TInv, ListType
<1>3. forceSort' = FALSE
  BY DEF Snapshot
<1>4. ListType'
  BY <1>1, <1>2, <1>3, Zenon DEF ListType
<1>5. \A c \in Conn : get_timeout_timestamp(c) \in Nat \cup {-1} /\ saved[c] \in Nat \cup {-1}
  BY <1>0, TimestampType DEF TInv, PassType
<1>6. saved' \in [Conn -> Nat \cup {-1}]
  BY <1>5 DEF Snapshot
<1>. QED BY <1>4, <1>6

\* The scan goes on to the next connection of the copy.
LEMMA AdvanceTInv ==
  ASSUME TInv, Advance
  PROVE  TInv'
<1>1. ConnType' /\ DelaySet' /\ TickOnSchedule'
  BY SameConnections DEF Advance
<1>2. PassType' /\ ListType' /\ ClockType'
  BY PassSame, ListSame DEF Advance, TInv, ClockType
<1>3. TypeOK /\ revents \in [Conn -> SUBSET Events] /\ idx + 1 \in Nat \ {0}
  BY TypeParts DEF TInv, PassType, LoopType
<1>4. todo' \subseteq Events /\ (todo' # {} => idx' \in DOMAIN pass)
  BY <1>3, ReportedType DEF Advance
<1>5. LoopType' /\ TodoValid'
  BY <1>3, <1>4 DEF Advance, LoopType, TodoValid, TInv, passVars, PCs
<1>. QED BY <1>1, <1>2, <1>5 DEF TInv

\* Every step of the specification preserves the invariant.
LEMMA StepTInv == TInv /\ [Next]_vars => TInv'
<1>. SUFFICES ASSUME TInv, [Next]_vars PROVE TInv'
  OBVIOUS
<1>0. TypeOK
  BY TypeParts DEF TInv
<1>1. ASSUME NEW c \in Conn, Application(c) PROVE TInv'
  BY <1>1, ApplicationTInv
<1>2. CASE RunCalled
  <2>1. ConnType' /\ DelaySet' /\ TickOnSchedule'
    BY <1>2, SameConnections DEF RunCalled
  <2>2. PassType'
    BY <1>2, PassSame DEF RunCalled, TInv
  <2>3. ListType' /\ ClockType'
    BY <1>2, Zenon DEF RunCalled, TInv, ListType, ClockType
  <2>4. LoopType' /\ TodoValid'
    BY <1>2 DEF RunCalled, TInv, LoopType, TodoValid, PCs
  <2>. QED BY <2>1, <2>2, <2>3, <2>4 DEF TInv
<1>3. CASE ReturnTrue
  <2>1. ListType'
    BY <1>3, ListSame DEF ReturnTrue, TInv
  <2>. QED BY <1>3, <2>1, ForgetTInv DEF ReturnTrue, Return, TInv, PassType, PCs
<1>4. CASE ReturnFalse
  <2>1. ListType' /\ saved' \in [Conn -> Nat \cup {-1}]
    BY <1>4, SnapshotType DEF ReturnFalse
  <2>. QED BY <1>4, <2>1, ForgetTInv DEF ReturnFalse, Return, PCs
<1>5. CASE Prepare
  <2>1. ConnType' /\ DelaySet' /\ TickOnSchedule'
    BY <1>5, SameConnections DEF Prepare
  <2>2. ListType' /\ saved' \in [Conn -> Nat \cup {-1}]
    BY <1>5, SnapshotType DEF Prepare
  <2>3. wake' \in Nat \cup {Never}
    BY <1>0, <1>5, WakesType DEF Prepare
  <2>4. PassType'
    BY <1>5, <2>2, <2>3, EnabledType DEF Prepare, PassType, ListType, TInv
  <2>5. LoopType' /\ ClockType' /\ TodoValid'
    BY <1>5 DEF Prepare, Snapshot, LoopType, ClockType, TodoValid, TInv, PCs
  <2>. QED BY <2>1, <2>2, <2>4, <2>5 DEF TInv
<1>6. CASE PollReports
  <2>1. ConnType' /\ DelaySet' /\ TickOnSchedule'
    BY <1>6, SameConnections DEF PollReports
  <2>2. PICK r \in [Conn -> Reports] : revents' = r /\ todo' = Reported(r, 1)
    BY <1>6 DEF PollReports
  <2>3. r \in [Conn -> SUBSET Events]
    BY ReportsAssumption DEF Events
  <2>4. todo' \subseteq Events /\ (todo' # {} => 1 \in DOMAIN pass)
    BY <1>0, <2>2, <2>3, ReportedType
  <2>5. ListType' /\ ClockType'
    BY <1>6, ListSame DEF PollReports, TInv, ClockType
  <2>6. PassType'
    BY <1>6, <2>2, <2>3 DEF PollReports, TInv, PassType
  <2>7. LoopType' /\ TodoValid'
    BY <1>6, <2>4 DEF PollReports, TInv, LoopType, TodoValid, PCs
  <2>. QED BY <2>1, <2>5, <2>6, <2>7 DEF TInv
<1>7. CASE PollTimesOut
  <2>1. ConnType' /\ DelaySet' /\ TickOnSchedule'
    BY <1>7, SameConnections DEF PollTimesOut
  <2>2. PassType' /\ ListType' /\ ClockType'
    BY <1>7, PassSame, ListSame DEF PollTimesOut, TInv, ClockType
  <2>3. LoopType' /\ TodoValid'
    BY <1>7 DEF PollTimesOut, TInv, LoopType, TodoValid, PCs
  <2>. QED BY <2>1, <2>2, <2>3 DEF TInv
<1>8. CASE PollFails
  <2>1. ListType'
    BY <1>8, ListSame DEF PollFails, TInv
  <2>. QED BY <1>8, <2>1, ForgetTInv DEF PollFails, Return, TInv, PassType, PCs
<1>9. ASSUME NEW e \in Events, ProcessEvent(e) PROVE TInv'
  <2>1. ConnType' /\ DelaySet' /\ TickOnSchedule'
    BY <1>9, SameConnections DEF ProcessEvent
  <2>2. PassType' /\ ClockType'
    BY <1>9, PassSame DEF ProcessEvent, TInv, ClockType
  <2>3. pass[idx] \in Conn
    BY <1>9 DEF ProcessEvent, TInv, TodoValid, PassType
  <2>4. LoopType'
    BY <1>9, <2>3 DEF ProcessEvent, TInv, LoopType, PCs
  <2>5. TodoValid'
    BY <1>9 DEF ProcessEvent, TInv, TodoValid, passVars
  <2>6. list' \in Seq(Conn) /\ fresh' \subseteq Conn
    BY <1>0, <1>9, <2>3, RemovedType DEF ProcessEvent, TInv, ListType
  <2>7. ListType'
    BY <1>9, <2>6, Zenon DEF ProcessEvent, TInv, ListType
  <2>. QED BY <2>1, <2>2, <2>4, <2>5, <2>7 DEF TInv
<1>10. CASE EndEvent
  <2>1. ConnType' /\ DelaySet' /\ TickOnSchedule'
    BY <1>10, SameConnections DEF EndEvent
  <2>2. PassType' /\ ListType' /\ ClockType'
    BY <1>10, PassSame, ListSame DEF EndEvent, TInv, ClockType
  <2>3. LoopType' /\ TodoValid'
    BY <1>10 DEF EndEvent, TInv, LoopType, TodoValid, passVars, PCs
  <2>. QED BY <2>1, <2>2, <2>3 DEF TInv
<1>11. CASE ProcessTimeout
  <2>1. ConnType' /\ DelaySet' /\ TickOnSchedule'
    BY <1>11, TickType
  <2>2. PassType' /\ ListType' /\ ClockType'
    BY <1>11, PassSame, ListSame DEF ProcessTimeout, TInv, ClockType
  <2>3. LoopType' /\ TodoValid'
    BY <1>11 DEF ProcessTimeout, TInv, LoopType, TodoValid, passVars, PCs
  <2>. QED BY <2>1, <2>2, <2>3 DEF TInv
<1>12. CASE EndTimeout
  BY <1>12, AdvanceTInv DEF EndTimeout
<1>13. CASE NoTimeout
  BY <1>13, AdvanceTInv DEF NoTimeout
<1>14. CASE EndPass
  <2>1. ListType'
    BY <1>14, ListSame DEF EndPass, TInv
  <2>. QED BY <1>14, <2>1, ForgetTInv DEF EndPass, TInv, PassType, LoopType, PCs
<1>15. CASE CallbackThrows
  <2>1. ListType'
    BY <1>15, ListSame DEF CallbackThrows, TInv
  <2>. QED BY <1>15, <2>1, ForgetTInv DEF CallbackThrows, Return, TInv, PassType, PCs
<1>16. CASE Tick
  <2>1. ConnType' /\ DelaySet' /\ TickOnSchedule'
    BY <1>16, SameConnections DEF Tick
  <2>2. PassType' /\ ListType'
    BY <1>16, PassSame, ListSame DEF Tick, TInv
  <2>3. LoopType' /\ TodoValid'
    BY <1>16 DEF Tick, TInv, LoopType, TodoValid, passVars
  <2>4. ClockType'
    BY <1>16 DEF Tick, TInv, ClockType
  <2>. QED BY <2>1, <2>2, <2>3, <2>4 DEF TInv
<1>17. CASE UNCHANGED vars
  <2>1. UNCHANGED <<connVars, passVars, list, fresh, forceSort, pc, result, idx, todo, called, now, calls>>
    BY <1>17, Zenon DEF vars
  <2>2. ConnType' /\ DelaySet' /\ TickOnSchedule' /\ PassType' /\ ListType'
    BY <2>1, SameConnections, PassSame, ListSame, Zenon DEF TInv
  <2>3. LoopType' /\ TodoValid' /\ ClockType'
    BY <2>1, Zenon DEF TInv, LoopType, TodoValid, ClockType, passVars
  <2>. QED BY <2>2, <2>3 DEF TInv
<1>. QED BY <1>1, <1>2, <1>3, <1>4, <1>5, <1>6, <1>7, <1>8, <1>9, <1>10, <1>11, <1>12,
            <1>13, <1>14, <1>15, <1>16, <1>17, Zenon DEF Next, RunStep

\* Every variable of the loop keeps its type.
THEOREM TypeCorrect == Spec => []TypeOK
<1>1. TInv => TypeOK
  BY TypeParts DEF TInv
<1>. QED BY <1>1, InitTInv, StepTInv, PTL DEF Spec

\* calculate_next_tick(): however late a tick is served and whenever the
\* delay is set again or turned off, the next one is on the schedule that
\* starts when the delay was set.
THEOREM TicksOnSchedule == Spec => []TickOnSchedule
<1>1. TInv => TickOnSchedule
  BY DEF TInv
<1>. QED BY <1>1, InitTInv, StepTInv, PTL DEF Spec

-----------------------------------------------------------------------------
(***************************************************************************)
(* The list of connections                                                 *)
(***************************************************************************)

\* The steps that change the list, or what its order depends on.
Added(c) ==
  /\ ~Member(c)
  /\ list' = Append(list, c)
  /\ fresh' = fresh \cup {c}
  /\ UNCHANGED <<forceSort, prio>>

Erased(c) == Removed(c) /\ UNCHANGED <<forceSort, prio>>

Resorted == Snapshot /\ UNCHANGED prio

Kept == UNCHANGED <<list, fresh, forceSort, prio>>

ToSort == UNCHANGED <<list, fresh>> /\ forceSort' = TRUE

\* Every step is one of these.
LEMMA ListSteps ==
  ASSUME TInv, [Next]_vars
  PROVE  Kept \/ ToSort \/ Resorted \/ \E c \in Conn : Added(c) \/ Erased(c)
<1>. USE DEF connVars
<1>1. ASSUME NEW c \in Conn, Application(c) PROVE Kept \/ ToSort \/ Added(c) \/ Erased(c)
  <2>1. add_connection(c) => Added(c)
    BY Zenon DEF add_connection, Added
  <2>2. remove_connection(c) => Erased(c)
    BY Zenon DEF remove_connection, Erased
  <2>3. ASSUME NEW p, set_priority(c, p) PROVE ToSort
    BY <2>3, Zenon DEF set_priority, ToSort
  <2>4. ASSUME NEW x, set_enable(c, x) \/ set_timeout_date(c, x) \/ set_timeout_delay(c, x)
                        \/ set_output(c, x) \/ close(c)
        PROVE  Kept
    BY <2>4, Zenon DEF set_enable, set_timeout_date, set_timeout_delay, set_output, close, Kept
  <2>. QED BY <1>1, <2>1, <2>2, <2>3, <2>4, Zenon DEF Application
<1>2. RunCalled => ToSort
  BY Zenon DEF RunCalled, ToSort
<1>3. ReturnFalse \/ Prepare => Resorted
  BY Zenon DEF ReturnFalse, Prepare, Resorted
<1>4. ASSUME NEW e \in Events, ProcessEvent(e) PROVE Kept \/ \E c \in Conn : Erased(c)
  <2>1. pass[idx] \in Conn
    BY <1>4 DEF ProcessEvent, TInv, TodoValid, PassType
  <2>2. CASE e \in {"err", "hup", "nval"}
    BY <1>4, <2>1, <2>2, Zenon DEF ProcessEvent, Erased
  <2>3. CASE e \notin {"err", "hup", "nval"}
    BY <1>4, <2>3, Zenon DEF ProcessEvent, Kept
  <2>. QED BY <2>2, <2>3
<1>5. ReturnTrue \/ PollReports \/ PollTimesOut \/ PollFails \/ EndEvent => Kept
  BY Zenon DEF ReturnTrue, PollReports, PollTimesOut, PollFails, EndEvent, Kept
<1>6. ProcessTimeout \/ EndTimeout \/ NoTimeout \/ EndPass \/ CallbackThrows \/ Tick => Kept
  BY Zenon DEF ProcessTimeout, EndTimeout, NoTimeout, Advance, EndPass, CallbackThrows, Tick, Kept
<1>7. UNCHANGED vars => Kept
  BY Zenon DEF vars, Kept
<1>. QED BY <1>1, <1>2, <1>3, <1>4, <1>5, <1>6, <1>7, Zenon DEF Next, RunStep

\* Erase() closes the gap: later elements move down by one.
LEMMA EraseFacts ==
  ASSUME NEW s \in Seq(Conn), NEW i \in DOMAIN s
  PROVE  /\ i \in Nat /\ DOMAIN Erase(s, i) \subseteq Nat
         /\ \A j \in DOMAIN Erase(s, i) :
              \E k \in DOMAIN s : /\ k = (IF j < i THEN j ELSE j + 1)
                                  /\ k # i /\ Erase(s, i)[j] = s[k]
<1>1. Len(s) \in Nat /\ DOMAIN s = 1 .. Len(s)
  OBVIOUS
<1>2. DOMAIN Erase(s, i) = 1 .. Len(s) - 1
  BY DEF Erase
<1>3. ASSUME NEW j \in 1 .. Len(s) - 1
      PROVE  \E k \in DOMAIN s : /\ k = (IF j < i THEN j ELSE j + 1)
                                 /\ k # i /\ Erase(s, i)[j] = s[k]
  BY <1>1, <1>3 DEF Erase
<1>. QED BY <1>1, <1>2, <1>3

\* The sorted list is the list at the positions p[1], p[2]...
LEMMA SortFacts ==
  ASSUME TInv, NEW p \in Orders(list)
  PROVE  /\ \A i, j \in DOMAIN list : p[i] = p[j] => i = j
         /\ \A i, j \in DOMAIN list : i < j => prio[list[p[i]]] <= prio[list[p[j]]]
<1>1. list \in Seq(Conn) /\ prio \in [Conn -> Priority] /\ Priority \subseteq Nat
  BY PriorityAssumption DEF TInv, ListType, ConnType
<1>2. \A i \in DOMAIN list : p[i] \in DOMAIN list /\ p[i] \in Nat /\ prio[list[p[i]]] \in Nat /\ i \in Nat
  <2>1. \A i \in DOMAIN list : p[i] \in DOMAIN list
    BY DEF Orders
  <2>2. \A i \in DOMAIN list : i \in Nat /\ list[i] \in Conn
    BY <1>1
  <2>3. \A c \in Conn : prio[c] \in Nat
    BY <1>1
  <2>. QED BY <2>1, <2>2, <2>3
<1>3. SortedBy(list, p)
  BY DEF Orders
<1>4. ASSUME NEW i \in DOMAIN list, NEW j \in DOMAIN list, i < j
      PROVE  p[i] # p[j] /\ prio[list[p[i]]] <= prio[list[p[j]]]
  BY <1>2, <1>3, <1>4 DEF SortedBy
<1>. QED BY <1>2, <1>4

\* No step puts a connection a second time in the list.
LEMMA NoDuplicateStep ==
  ASSUME TInv, NoDuplicate, [Next]_vars
  PROVE  NoDuplicate'
<1>0. list \in Seq(Conn)
  BY DEF TInv, ListType
<1>1. CASE Kept \/ ToSort
  BY <1>1 DEF Kept, ToSort, NoDuplicate
<1>2. CASE Resorted
  <2>1. CASE forceSort
    <3>1. PICK p \in Orders(list) : list' = [i \in DOMAIN list |-> list[p[i]]]
      BY <1>2, <2>1 DEF Resorted, Snapshot, Sorted
    <3>2. \A i \in DOMAIN list : p[i] \in DOMAIN list
      BY DEF Orders
    <3>3. \A i, j \in DOMAIN list : p[i] = p[j] => i = j
      BY SortFacts
    <3>. QED BY <3>1, <3>2, <3>3 DEF NoDuplicate
  <2>2. CASE ~forceSort
    BY <1>2, <2>2 DEF Resorted, Snapshot, Sorted, NoDuplicate
  <2>. QED BY <2>1, <2>2
<1>3. ASSUME NEW c \in Conn, Added(c) PROVE NoDuplicate'
  BY <1>0, <1>3 DEF Added, Member, NoDuplicate
<1>4. ASSUME NEW c \in Conn, Erased(c) PROVE NoDuplicate'
  <2>1. CASE Member(c)
    <3>1. PICK i \in DOMAIN list : list' = Erase(list, i)
      BY <1>4, <2>1 DEF Erased, Removed
    <3>2. ASSUME NEW j \in DOMAIN list', NEW k \in DOMAIN list', list'[j] = list'[k]
          PROVE  j = k
      <4>1. PICK x \in DOMAIN list : x = (IF j < i THEN j ELSE j + 1) /\ x # i /\ list'[j] = list[x]
        BY <1>0, <3>1, EraseFacts
      <4>2. PICK y \in DOMAIN list : y = (IF k < i THEN k ELSE k + 1) /\ y # i /\ list'[k] = list[y]
        BY <1>0, <3>1, EraseFacts
      <4>3. x = y
        BY <3>2, <4>1, <4>2 DEF NoDuplicate
      <4>4. j \in Nat /\ k \in Nat /\ i \in Nat
        BY <1>0, <3>1, EraseFacts, Zenon
      <4>. QED BY <4>1, <4>2, <4>3, <4>4
    <3>. QED BY <3>2 DEF NoDuplicate
  <2>2. CASE ~Member(c)
    BY <1>4, <2>2 DEF Erased, Removed, NoDuplicate
  <2>. QED BY <2>1, <2>2
<1>. QED BY <1>1, <1>2, <1>3, <1>4, ListSteps

\* add_connection() and remove_connection() from any callback and the sort of
\* run() never leave a connection twice in the list.
THEOREM ListedOnce == Spec => []NoDuplicate
<1>1. Init => NoDuplicate
  BY DEF Init, NoDuplicate
<1>2. TInv /\ NoDuplicate /\ [Next]_vars => NoDuplicate'
  BY NoDuplicateStep
<1>. QED BY <1>1, <1>2, InitTInv, StepTInv, PTL DEF Spec

\* Every step keeps the connections that were sorted in order.
LEMMA SortedStep ==
  ASSUME TInv, NoDuplicate, OldConnectionsSorted, [Next]_vars
  PROVE  OldConnectionsSorted'
<1>0. list \in Seq(Conn)
  BY DEF TInv, ListType
<1>1. CASE Kept \/ ToSort
  BY <1>1 DEF Kept, ToSort, OldConnectionsSorted
<1>2. CASE Resorted
  <2>1. CASE forceSort
    <3>1. PICK p \in Orders(list) : list' = [i \in DOMAIN list |-> list[p[i]]]
      BY <1>2, <2>1 DEF Resorted, Snapshot, Sorted
    <3>2. \A i, j \in DOMAIN list : i < j => prio[list[p[i]]] <= prio[list[p[j]]]
      BY SortFacts
    <3>3. prio' = prio
      BY <1>2 DEF Resorted
    <3>. QED BY <3>1, <3>2, <3>3 DEF OldConnectionsSorted
  <2>2. CASE ~forceSort
    BY <1>2, <2>2 DEF Resorted, Snapshot, Sorted, OldConnectionsSorted
  <2>. QED BY <2>1, <2>2
<1>3. ASSUME NEW c \in Conn, Added(c) PROVE OldConnectionsSorted'
  <2>1. /\ list' = Append(list, c) /\ fresh' = fresh \cup {c}
        /\ forceSort' = forceSort /\ prio' = prio
    BY <1>3 DEF Added
  <2>2. ASSUME ~forceSort, NEW i \in DOMAIN list', NEW j \in DOMAIN list', i < j, list'[j] \notin fresh'
        PROVE  prio[list'[i]] <= prio[list'[j]]
    <3>1. i \in DOMAIN list /\ j \in DOMAIN list /\ list'[i] = list[i] /\ list'[j] = list[j]
      BY <1>0, <2>1, <2>2
    <3>. QED BY <2>1, <2>2, <3>1 DEF OldConnectionsSorted
  <2>. QED BY <2>1, <2>2 DEF OldConnectionsSorted
<1>4. ASSUME NEW c \in Conn, Erased(c) PROVE OldConnectionsSorted'
  <2>0. fresh' = fresh \ {c} /\ forceSort' = forceSort /\ prio' = prio
    BY <1>4 DEF Erased, Removed
  <2>1. CASE Member(c)
    <3>1. PICK i \in DOMAIN list : list[i] = c /\ list' = Erase(list, i)
      BY <1>4, <2>1 DEF Erased, Removed
    <3>2. ASSUME ~forceSort, NEW j \in DOMAIN list', NEW k \in DOMAIN list', j < k, list'[k] \notin fresh'
          PROVE  prio[list'[j]] <= prio[list'[k]]
      <4>1. PICK x \in DOMAIN list : x = (IF j < i THEN j ELSE j + 1) /\ x # i /\ list'[j] = list[x]
        BY <1>0, <3>1, EraseFacts
      <4>2. PICK y \in DOMAIN list : y = (IF k < i THEN k ELSE k + 1) /\ y # i /\ list'[k] = list[y]
        BY <1>0, <3>1, EraseFacts
      <4>3. j \in Nat /\ k \in Nat /\ i \in Nat
        BY <1>0, <3>1, EraseFacts, Zenon
      <4>4. x < y
        BY <3>2, <4>1, <4>2, <4>3
      <4>5. list[y] \notin fresh
        BY <2>0, <3>1, <3>2, <4>2 DEF NoDuplicate
      <4>. QED BY <3>2, <4>1, <4>2, <4>4, <4>5 DEF OldConnectionsSorted
    <3>. QED BY <2>0, <3>2 DEF OldConnectionsSorted
  <2>2. CASE ~Member(c)
    <3>1. list' = list /\ \A j \in DOMAIN list : list[j] # c
      BY <1>4, <2>2 DEF Erased, Removed, Member
    <3>. QED BY <2>0, <3>1 DEF OldConnectionsSorted
  <2>. QED BY <2>1, <2>2
<1>. QED BY <1>1, <1>2, <1>3, <1>4, ListSteps

\* Between two sorts only the connections added since the last one can be out
\* of the order of the priorities.
THEOREM OldStaySorted == Spec => []OldConnectionsSorted
<1>1. Init => OldConnectionsSorted
  BY DEF Init, OldConnectionsSorted
<1>2. TInv /\ NoDuplicate /\ OldConnectionsSorted /\ [Next]_vars => OldConnectionsSorted'
  BY SortedStep
<1>. QED BY <1>1, <1>2, ListedOnce, InitTInv, StepTInv, PTL DEF Spec

\* No step exchanges two connections of the list unless their priorities are
\* in the wrong order: std::stable_sort() and erase() keep the others.
THEOREM StableOrder == Spec => OrderKept
<1>1. ASSUME TInv, NoDuplicate, [Next]_vars,
             NEW i \in DOMAIN list, NEW j \in DOMAIN list,
             NEW k \in DOMAIN list', NEW l \in DOMAIN list',
             i < j, k < l, list'[l] = list[i], list'[k] = list[j]
      PROVE  prio[list[j]] < prio[list[i]]
  <2>0. list \in Seq(Conn) /\ i \in Nat /\ j \in Nat
    BY <1>1 DEF TInv, ListType
  <2>1. CASE Kept \/ ToSort
    <3>1. l = i /\ k = j
      BY <1>1, <2>1 DEF Kept, ToSort, NoDuplicate
    <3>. QED BY <1>1, <2>0, <3>1
  <2>2. CASE Resorted
    <3>1. CASE forceSort
      <4>1. PICK p \in Orders(list) : list' = [n \in DOMAIN list |-> list[p[n]]]
        BY <2>2, <3>1 DEF Resorted, Snapshot, Sorted
      <4>2. \A n \in DOMAIN list : p[n] \in DOMAIN list
        BY DEF Orders
      <4>3. p[l] = i /\ p[k] = j /\ l \in DOMAIN list /\ k \in DOMAIN list
        BY <1>1, <4>1, <4>2 DEF NoDuplicate
      <4>4. SortedBy(list, p)
        BY DEF Orders
      <4>5. \/ prio[list[j]] < prio[list[i]]
            \/ prio[list[j]] = prio[list[i]] /\ j < i
        BY <1>1, <4>3, <4>4 DEF SortedBy
      <4>. QED BY <1>1, <2>0, <4>5
    <3>2. CASE ~forceSort
      <4>1. l = i /\ k = j
        BY <1>1, <2>2, <3>2 DEF Resorted, Snapshot, Sorted, NoDuplicate
      <4>. QED BY <1>1, <2>0, <4>1
    <3>. QED BY <3>1, <3>2
  <2>3. ASSUME NEW c \in Conn, Added(c) PROVE FALSE
    <3>1. list' = Append(list, c) /\ \A n \in DOMAIN list : list[n] # c
      BY <2>3 DEF Added, Member
    <3>2. l \in DOMAIN list /\ k \in DOMAIN list /\ list'[l] = list[l] /\ list'[k] = list[k]
      BY <1>1, <2>0, <3>1
    <3>3. l = i /\ k = j
      BY <1>1, <3>2 DEF NoDuplicate
    <3>. QED BY <1>1, <2>0, <3>3
  <2>4. ASSUME NEW c \in Conn, Erased(c) PROVE FALSE
    <3>1. CASE Member(c)
      <4>1. PICK n \in DOMAIN list : list' = Erase(list, n)
        BY <2>4, <3>1 DEF Erased, Removed
      <4>2. PICK x \in DOMAIN list : x = (IF k < n THEN k ELSE k + 1) /\ list'[k] = list[x]
        BY <1>1, <2>0, <4>1, EraseFacts
      <4>3. PICK y \in DOMAIN list : y = (IF l < n THEN l ELSE l + 1) /\ list'[l] = list[y]
        BY <1>1, <2>0, <4>1, EraseFacts
      <4>4. x = j /\ y = i
        BY <1>1, <4>2, <4>3 DEF NoDuplicate
      <4>5. k \in Nat /\ l \in Nat /\ n \in Nat
        BY <1>1, <2>0, <4>1, EraseFacts, Zenon
      <4>. QED BY <1>1, <2>0, <4>2, <4>3, <4>4, <4>5
    <3>2. CASE ~Member(c)
      <4>1. l = i /\ k = j
        BY <1>1, <2>4, <3>2 DEF Erased, Removed, NoDuplicate
      <4>. QED BY <1>1, <2>0, <4>1
    <3>. QED BY <3>1, <3>2
  <2>. QED BY <1>1, <2>1, <2>2, <2>3, <2>4, ListSteps
<1>2. TInv /\ NoDuplicate /\ [Next]_vars =>
        [\A i, j \in DOMAIN list, k, l \in DOMAIN list' :
           i < j /\ k < l /\ list'[l] = list[i] /\ list'[k] = list[j]
             => prio[list[j]] < prio[list[i]]]_vars
  BY <1>1, Zenon
<1>. QED BY <1>2, ListedOnce, InitTInv, StepTInv, PTL DEF Spec, OrderKept

-----------------------------------------------------------------------------
(***************************************************************************)
(* Timeouts                                                                *)
(***************************************************************************)

\* Division with remainder, as the provers need it.
LEMMA DivFacts ==
  ASSUME NEW a \in Nat, NEW d \in Nat, d > 0
  PROVE  /\ a \div d \in Nat /\ (a \div d) * d \in Nat
         /\ (a \div d) * d <= a /\ a < (a \div d) * d + d
<1>1. a \div d \in Nat /\ a = d * (a \div d) + (a % d) /\ a % d \in 0 .. d - 1
  OBVIOUS
<1>. DEFINE q == a \div d
<1>2. q \in Nat /\ q * d = d * q /\ q * d \in Nat
  BY <1>1
<1>. QED BY <1>1, <1>2

\* The end of poll() as run() computes it from the first timestamp.
LEMMA WakesInTime ==
  ASSUME TInv, NEW w, Wakes(w), NEW c \in Enabled, get_timeout_timestamp(c) # -1
  PROVE  /\ w # Never
         /\ IF get_timeout_timestamp(c) < now THEN w = now ELSE w <= get_timeout_timestamp(c) + Milli
         /\ w = now => \E d \in Enabled : get_timeout_timestamp(d) # -1 /\ get_timeout_timestamp(d) < now
<1>0. TypeOK /\ now \in Nat /\ Milli \in Nat /\ Milli > 0
  BY TypeParts, TimeAssumption DEF TInv, ClockType
<1>1. ASSUME NEW t \in Timestamps PROVE t \in Nat
  BY <1>0, <1>1, TimestampType, EnabledType DEF Timestamps
<1>2. get_timeout_timestamp(c) \in Timestamps
  BY DEF Timestamps
<1>3. PICK t \in Timestamps : IsNext(t) /\ w = now + PollTimeout(t) * Milli
  BY <1>2 DEF Wakes
<1>4. t \in Nat /\ get_timeout_timestamp(c) \in Nat /\ t <= get_timeout_timestamp(c)
  BY <1>1, <1>2, <1>3 DEF IsNext
<1>5. CASE t < now
  <2>1. w = now
    BY <1>0, <1>3, <1>5 DEF PollTimeout
  <2>2. \E d \in Enabled : get_timeout_timestamp(d) = t /\ t # -1
    BY <1>4 DEF Timestamps
  <2>3. w # Never /\ (get_timeout_timestamp(c) >= now => w <= get_timeout_timestamp(c) + Milli)
    BY <1>0, <1>4, <2>1 DEF Never
  <2>4. get_timeout_timestamp(c) < now \/ get_timeout_timestamp(c) >= now
    BY <1>0, <1>4
  <2>. QED BY <1>5, <2>1, <2>2, <2>3, <2>4
<1>6. CASE ~(t < now)
  <2>1. t - now \in Nat
    BY <1>0, <1>4, <1>6
  <2>. DEFINE q == (t - now) \div Milli
  <2>2. q \in Nat /\ q * Milli \in Nat /\ q * Milli <= t - now /\ (q # 0 => q * Milli > 0)
    BY <1>0, <2>1, DivFacts
  <2>. HIDE DEF q
  <2>3. PollTimeout(t) = IF q = 0 THEN 1 ELSE q
    BY <1>6 DEF PollTimeout, q
  <2>4. (q = 0 /\ w = now + Milli) \/ (q # 0 /\ w = now + q * Milli)
    BY <1>0, <1>3, <2>3
  <2>5. w # Never /\ w <= get_timeout_timestamp(c) + Milli /\ w # now /\ ~(get_timeout_timestamp(c) < now)
    BY <1>0, <1>4, <1>6, <2>2, <2>4 DEF Never
  <2>. QED BY <2>5
<1>. QED BY <1>5, <1>6

\* run() gives poll() a timeout that ends no more than a millisecond after
\* the first timestamp of the connections it saved as enabled, and no timeout
\* of zero unless one of them is in the past (communicator.cpp:628-656).
THEOREM PollInTime == Spec => PollNotLate
<1>. DEFINE InTime(l, s, w) ==
       \A c \in l : s[c] # -1 =>
           /\ w # Never
           /\ IF s[c] < now THEN w = now ELSE w <= s[c] + Milli
           /\ w = now => \E d \in l : s[d] # -1 /\ s[d] < now
<1>1. ASSUME TInv, [Next]_vars, pc = "top", pc' = "poll" PROVE InTime(live', saved', wake')
  <2>1. CASE Prepare
    <3>1. live' = Enabled /\ Wakes(wake') /\ Enabled \subseteq Conn
      BY <2>1, EnabledType DEF Prepare
    <3>2. \A c \in Enabled : saved'[c] = get_timeout_timestamp(c)
      BY <2>1, <3>1 DEF Prepare, Snapshot
    <3>. QED BY <1>1, <3>1, <3>2, WakesInTime
  <2>2. ASSUME NEW c \in Conn, Application(c) PROVE UNCHANGED pc
    <3>1. Call => UNCHANGED pc
      BY Zenon DEF Call
    <3>. QED BY <2>2, <3>1, Zenon DEF Application, add_connection, remove_connection, set_enable,
            set_priority, set_timeout_date, set_timeout_delay, set_output, close
  <2>3. RunCalled \/ ReturnTrue \/ ReturnFalse \/ PollReports \/ PollTimesOut \/ PollFails => pc' # "poll"
    BY DEF RunCalled, ReturnTrue, ReturnFalse, Return, PollReports, PollTimesOut, PollFails
  <2>4. ProcessTimeout \/ EndTimeout \/ NoTimeout \/ EndPass \/ CallbackThrows \/ EndEvent => pc' # "poll"
    BY DEF ProcessTimeout, EndTimeout, NoTimeout, Advance, EndPass, CallbackThrows, Return, EndEvent
  <2>5. ASSUME NEW e \in Events, ProcessEvent(e) PROVE pc' # "poll"
    BY <2>5 DEF ProcessEvent
  <2>6. Tick => UNCHANGED pc
    BY Zenon DEF Tick
  <2>7. UNCHANGED vars => UNCHANGED pc
    BY Zenon DEF vars
  <2>. QED BY <1>1, <2>1, <2>2, <2>3, <2>4, <2>5, <2>6, <2>7, Zenon DEF Next, RunStep
<1>2. TInv /\ [Next]_vars =>
        [pc = "top" /\ pc' = "poll" =>
           \A c \in live' :
             saved'[c] # -1 =>
               /\ wake' # Never
               /\ IF saved'[c] < now THEN wake' = now ELSE wake' <= saved'[c] + Milli
               /\ wake' = now => \E d \in live' : saved'[d] # -1 /\ saved'[d] < now]_vars
  BY <1>1
<1>. QED BY <1>2, InitTInv, StepTInv, PTL DEF Spec, PollNotLate

\* run() consumes a timeout before it calls process_timeout(): the next one
\* is not in the past, and a tick that moved is the first not in the past.
THEOREM TimeoutsConsumed == Spec => TimeoutConsumed
<1>1. ASSUME TInv, ProcessTimeout
      PROVE  LET c == pass[idx] IN
             /\ get_timeout_timestamp(c)' = -1 \/ get_timeout_timestamp(c)' >= now
             /\ next'[c] # next[c] => next'[c] - now < delay[c]
  <2>. DEFINE c == pass[idx]
              d == delay[c]
              a == now - start[c] + d - 1
  <2>1. c \in Conn
    BY <1>1 DEF ProcessTimeout, TInv, PassType
  <2>. HIDE DEF c
  <2>2. /\ next' = [next EXCEPT ![c] = NextTick(c)]
        /\ date' = IF date[c] >= 0 /\ now >= date[c] THEN [date EXCEPT ![c] = -1] ELSE date
        /\ UNCHANGED <<delay, start, pass, idx>>
    BY <1>1 DEF ProcessTimeout, c, passVars
  <2>3. /\ date \in [Conn -> Nat \cup {-1}] /\ delay \in [Conn -> Nat \cup {-1}]
        /\ start \in [Conn -> Nat] /\ next \in [Conn -> Nat \cup {-1}]
        /\ now \in Nat /\ d # 0
    BY <1>1, <2>1 DEF TInv, ConnType, ClockType, DelaySet
  <2>4. d # -1 => next[c] >= start[c]
    BY <1>1, <2>1 DEF TInv, TickOnSchedule
  <2>5. next'[c] = NextTick(c) /\ delay'[c] = d /\ date'[c] \in Nat \cup {-1}
        /\ (date'[c] # -1 => date'[c] >= now)
    BY <2>1, <2>2, <2>3
  <2>6. d # -1 => /\ NextTick(c) >= now
                  /\ NextTick(c) # next[c] => NextTick(c) - now < d
    <3>1. CASE d = -1 \/ now < next[c]
      BY <2>1, <2>3, <3>1 DEF NextTick
    <3>2. CASE ~(d = -1 \/ now < next[c])
      <4>0. d \in Nat \cup {-1} /\ start[c] \in Nat /\ next[c] \in Nat \cup {-1}
        BY <2>1, <2>3
      <4>1. a \in Nat /\ d \in Nat /\ d > 0
        BY <2>3, <2>4, <3>2, <4>0
      <4>2. NextTick(c) = start[c] + (a \div d) * d
        BY <3>2 DEF NextTick
      <4>3. (a \div d) * d \in Nat /\ (a \div d) * d <= a /\ a < (a \div d) * d + d
        BY <4>1, DivFacts
      <4>. DEFINE m == (a \div d) * d
      <4>. HIDE DEF m
      <4>4. m \in Nat /\ m <= now - start[c] + d - 1 /\ now - start[c] + d - 1 < m + d
            /\ NextTick(c) = start[c] + m
        BY <4>2, <4>3 DEF m
      <4>. QED BY <2>3, <4>0, <4>1, <4>4
    <3>. QED BY <3>1, <3>2
  <2>7. d = -1 => NextTick(c) = next[c]
    BY DEF NextTick
  <2>8. c' = c
    BY <2>2 DEF c
  <2>9. get_timeout_timestamp(c)' = -1 \/ get_timeout_timestamp(c)' >= now
    BY <2>5, <2>6, <2>8 DEF get_timeout_timestamp
  <2>10. next'[c] # next[c] => next'[c] - now < delay[c]
    BY <2>5, <2>6, <2>7
  <2>. QED BY <2>9, <2>10 DEF c
<1>2. TInv /\ [Next]_vars =>
        [pc = "scan" /\ pc' = "timeout" =>
           LET c == pass[idx] IN
           /\ get_timeout_timestamp(c)' = -1 \/ get_timeout_timestamp(c)' >= now
           /\ next'[c] # next[c] => next'[c] - now < delay[c]]_vars
  <2>1. ASSUME TInv, Next, pc = "scan", pc' = "timeout" PROVE ProcessTimeout
    <3>1. ASSUME NEW c \in Conn, Application(c) PROVE pc' = pc
      <4>1. Call => pc' = pc
        BY Zenon DEF Call
      <4>. QED BY <3>1, <4>1, Zenon DEF Application, add_connection, remove_connection, set_enable,
              set_priority, set_timeout_date, set_timeout_delay, set_output, close
    <3>2. RunCalled \/ ReturnTrue \/ ReturnFalse \/ Prepare \/ PollReports \/ PollTimesOut \/ PollFails
            => pc' # "timeout"
      BY DEF RunCalled, ReturnTrue, ReturnFalse, Prepare, Return, PollReports, PollTimesOut, PollFails
    <3>3. EndTimeout \/ NoTimeout \/ EndPass \/ CallbackThrows \/ EndEvent => pc' # "timeout"
      BY DEF EndTimeout, NoTimeout, Advance, EndPass, CallbackThrows, Return, EndEvent
    <3>4. ASSUME NEW e \in Events, ProcessEvent(e) PROVE pc' # "timeout"
      BY <3>4 DEF ProcessEvent
    <3>5. Tick => pc' = pc
      BY DEF Tick
    <3>6. pc' # pc
      BY <2>1
    <3>. QED BY <2>1, <3>1, <3>2, <3>3, <3>4, <3>5, <3>6, Zenon DEF Next, RunStep
  <2>. QED BY <1>1, <2>1, Zenon
<1>. QED BY <1>2, InitTInv, StepTInv, PTL DEF Spec, TimeoutConsumed

-----------------------------------------------------------------------------
(***************************************************************************)
(* The end of run() and the events of a pass                               *)
(***************************************************************************)

\* The callers of run() see a result only when it returned, and everything
\* with a file descriptor is read.
ResultInv ==
  /\ pc # "user" => result = "none"
  /\ \A c \in Conn \ Timer : "in" \in wants[c]

\* Every step preserves ResultInv.
LEMMA ResultStep ==
  ASSUME TInv, ResultInv, [Next]_vars
  PROVE  ResultInv'
<1>. USE DEF connVars
<1>1. ASSUME NEW c \in Conn, Application(c) PROVE ResultInv'
  <2>1. Call => UNCHANGED <<pc, result>>
    BY Zenon DEF Call
  <2>2. ASSUME NEW b \in BOOLEAN, set_output(c, b) PROVE ResultInv'
    BY <2>1, <2>2 DEF set_output, ResultInv, TInv, ConnType
  <2>3. (\/ add_connection(c) \/ remove_connection(c) \/ close(c)
         \/ \E x : set_enable(c, x) \/ set_priority(c, x) \/ set_timeout_date(c, x)
                     \/ set_timeout_delay(c, x))
        => ResultInv'
    BY <2>1, Zenon DEF add_connection, remove_connection, close, set_enable, set_priority,
                       set_timeout_date, set_timeout_delay, ResultInv
  <2>. QED BY <1>1, <2>2, <2>3, Zenon DEF Application
<1>2. RunCalled \/ ReturnTrue \/ ReturnFalse \/ PollFails \/ CallbackThrows => ResultInv'
  BY DEF RunCalled, ReturnTrue, ReturnFalse, PollFails, CallbackThrows, Return, ResultInv
<1>3. Prepare \/ PollReports \/ PollTimesOut \/ EndEvent => ResultInv'
  BY DEF Prepare, Snapshot, PollReports, PollTimesOut, EndEvent, ResultInv
<1>4. ProcessTimeout \/ EndTimeout \/ NoTimeout \/ EndPass => ResultInv'
  BY DEF ProcessTimeout, EndTimeout, NoTimeout, Advance, EndPass, ResultInv
<1>5. ASSUME NEW e \in Events, ProcessEvent(e) PROVE ResultInv'
  BY <1>5 DEF ProcessEvent, ResultInv
<1>6. Tick => ResultInv'
  BY DEF Tick, ResultInv
<1>7. UNCHANGED vars => ResultInv'
  BY Zenon DEF vars, ResultInv
<1>. QED BY <1>1, <1>2, <1>3, <1>4, <1>5, <1>6, <1>7, Zenon DEF Next, RunStep

\* At the top of its loop run() can only return or prepare a poll().
LEMMA TopSteps ==
  ASSUME Next, pc = "top" PROVE ReturnTrue \/ ReturnFalse \/ Prepare
<1>1. ASSUME NEW c \in Conn, Application(c) PROVE FALSE
  <2>1. ~Call
    BY DEF Call
  <2>. QED BY <1>1, <2>1, Zenon DEF Application, add_connection, remove_connection, set_enable,
          set_priority, set_timeout_date, set_timeout_delay, set_output, close
<1>2. /\ ~RunCalled /\ ~PollReports /\ ~PollTimesOut /\ ~PollFails /\ ~EndEvent
      /\ ~EndTimeout /\ ~CallbackThrows /\ ~Tick /\ ~ProcessTimeout /\ ~NoTimeout /\ ~EndPass
  BY DEF RunCalled, PollReports, PollTimesOut, PollFails, EndEvent, EndTimeout, CallbackThrows,
         Tick, ProcessTimeout, NoTimeout, EndPass
<1>3. ASSUME NEW e \in Events, ProcessEvent(e) PROVE FALSE
  BY <1>3 DEF ProcessEvent
<1>. QED BY <1>1, <1>2, <1>3, Zenon DEF Next, RunStep

\* run() returns true only with an empty list, and false only when none of
\* the enabled connections has a timeout or a descriptor to wait on.
THEOREM GivesUpRightly == Spec => GivesUpOnlyIfStuck
<1>1. ASSUME TInv, ResultInv, Next, pc = "top"
      PROVE  /\ result' = "true" => list = <<>>
             /\ result' = "false" =>
                  \A i \in DOMAIN list :
                    enabled[list[i]] =>
                      /\ date[list[i]] = -1 /\ delay[list[i]] = -1
                      /\ list[i] \in Timer \/ ~valid[list[i]]
  <2>1. CASE ReturnTrue
    BY <2>1 DEF ReturnTrue, Return
  <2>2. CASE Prepare
    BY <1>1, <2>2 DEF Prepare, ResultInv
  <2>3. CASE ReturnFalse
    <3>1. Timestamps = {} /\ Polled = {} /\ result' = "false"
      BY <2>3 DEF ReturnFalse, Return
    <3>2. ASSUME NEW i \in DOMAIN list, enabled[list[i]]
          PROVE  /\ date[list[i]] = -1 /\ delay[list[i]] = -1
                 /\ list[i] \in Timer \/ ~valid[list[i]]
      <4>1. list[i] \in Conn /\ list[i] \in Enabled
        BY <1>1, <3>2 DEF TInv, ListType, Enabled, Member
      <4>2. get_timeout_timestamp(list[i]) = -1
        BY <3>1, <4>1 DEF Timestamps
      <4>3. delay[list[i]] # -1 => next[list[i]] # -1
        BY <1>1, <4>1 DEF TInv, TickOnSchedule, ConnType
      <4>4. date[list[i]] = -1 /\ delay[list[i]] = -1
        BY <4>2, <4>3 DEF get_timeout_timestamp
      <4>5. list[i] \in Timer \/ ~valid[list[i]]
        BY <1>1, <3>1, <4>1 DEF Polled, ResultInv
      <4>. QED BY <4>4, <4>5
    <3>. QED BY <3>1, <3>2
  <2>. QED BY <1>1, <2>1, <2>2, <2>3, TopSteps
<1>2. TInv /\ ResultInv /\ [Next]_vars =>
        [/\ pc = "top" /\ result' = "true" => list = <<>>
         /\ pc = "top" /\ result' = "false" =>
              \A i \in DOMAIN list :
                enabled[list[i]] =>
                  /\ date[list[i]] = -1 /\ delay[list[i]] = -1
                  /\ list[i] \in Timer \/ ~valid[list[i]]]_vars
  BY <1>1, Zenon
<1>3. Init => ResultInv
  BY DEF Init, ResultInv
<1>4. TInv /\ ResultInv /\ [Next]_vars => ResultInv'
  BY ResultStep
<1>. QED BY <1>2, <1>3, <1>4, InitTInv, StepTInv, PTL DEF Spec, GivesUpOnlyIfStuck

\* The sort loses no connection.
LEMMA SortKeeps ==
  ASSUME TInv, Sorted(list'), NEW c, Member(c)
  PROVE  \E i \in DOMAIN list' : list'[i] = c
<1>1. CASE forceSort
  <2>1. PICK p \in Orders(list) : list' = [i \in DOMAIN list |-> list[p[i]]]
    BY <1>1 DEF Sorted
  <2>2. PICK n \in DOMAIN list : list[n] = c
    BY DEF Member
  <2>3. p \in [DOMAIN list -> DOMAIN list]
    BY DEF Orders
  <2>4. p \in Injection(DOMAIN list, DOMAIN list)
    BY <2>3, SortFacts DEF Injection, IsInjective
  <2>5. list \in Seq(Conn)
    BY DEF TInv, ListType
  <2>6. IsFiniteSet(DOMAIN list)
    BY <2>5, FS_Interval
  <2>7. p \in Surjection(DOMAIN list, DOMAIN list)
    BY <2>4, <2>6, FS_Injection
  <2>8. PICK i \in DOMAIN list : p[i] = n
    BY <2>7 DEF Surjection
  <2>. QED BY <2>1, <2>2, <2>8
<1>2. CASE ~forceSort
  BY <1>2 DEF Sorted, Member
<1>. QED BY <1>1, <1>2

\* The callbacks that a scan has made when it is at position idx: those of
\* the events reported for the connections before, and for the current one
\* all but the ones still to do.
ServedSoFar ==
  {ce \in fds \X Events :
     /\ ce[2] \in revents[ce[1]]
     /\ \E i \in DOMAIN pass : /\ pass[i] = ce[1]
                               /\ i < idx \/ (i = idx /\ ce[2] \notin todo)}

\* During a pass: the copy of the list holds every polled connection, once,
\* and the callbacks made are the ones due so far.
PassInv ==
  /\ pc \in {"user", "top", "poll"} => called = {} /\ revents = [c \in Conn |-> {}]
  /\ pc \notin {"user", "top"} =>
       /\ \A i, j \in DOMAIN pass : pass[i] = pass[j] => i = j
       /\ fds \subseteq live
       /\ \A c \in fds : \E i \in DOMAIN pass : pass[i] = c
  /\ pc \in {"scan", "event", "timeout"} =>
       /\ called = ServedSoFar
       /\ todo \subseteq Reported(revents, idx)
  /\ pc = "timeout" => todo = {}

\* What PassInv depends on.
passState == <<pc, called, revents, pass, fds, live, idx, todo>>

\* Steps that leave all of it alone.
LEMMA PassInvSame ==
  ASSUME PassInv, UNCHANGED passState
  PROVE  PassInv'
<1>1. UNCHANGED <<pc, called, revents, pass, fds, live, idx, todo>>
  BY Zenon DEF passState
<1>2. ServedSoFar' = ServedSoFar
  BY <1>1, Zenon DEF ServedSoFar
<1>3. Reported(revents, idx)' = Reported(revents, idx)
  BY <1>1, Zenon DEF Reported
<1>. QED BY <1>1, <1>2, <1>3 DEF PassInv

\* The start of a scan.
LEMMA ScanStarts ==
  ASSUME TInv, PassInv, pc = "poll", pc' = "scan", idx' = 1, todo' = Reported(revents', 1),
         UNCHANGED <<pass, fds, live, called>>
  PROVE  PassInv'
<1>1. ServedSoFar' = {}
  <2>1. ASSUME NEW ce \in ServedSoFar' PROVE FALSE
    <3>1. PICK i \in DOMAIN pass : /\ pass[i] = ce[1] /\ ce[1] \in fds /\ ce[2] \in revents'[ce[1]]
                                   /\ i < 1 \/ (i = 1 /\ ce[2] \notin todo')
      BY <2>1 DEF ServedSoFar
    <3>2. i = 1
      BY <3>1 DEF TInv, PassType
    <3>3. ce[1] \in live
      BY <3>1 DEF PassInv
    <3>. QED BY <3>1, <3>2, <3>3 DEF Reported
  <2>. QED BY <2>1
<1>2. called' = {}
  BY DEF PassInv
<1>3. todo' = Reported(revents, idx)'
  BY DEF Reported
<1>4. /\ \A i, j \in DOMAIN pass' : pass'[i] = pass'[j] => i = j
      /\ fds' \subseteq live'
      /\ \A c \in fds' : \E i \in DOMAIN pass' : pass'[i] = c
  BY DEF PassInv
<1>. QED BY <1>1, <1>2, <1>3, <1>4 DEF PassInv

\* The scan goes on to the next connection.
LEMMA ScanAdvances ==
  ASSUME TInv, PassInv, pc \in {"scan", "timeout"}, todo = {}, Advance
  PROVE  PassInv'
<1>0. idx \in Nat /\ pass \in Seq(Conn)
  BY DEF TInv, LoopType, PassType
<1>1. /\ UNCHANGED <<pass, fds, live, called, revents>> /\ pc' = "scan" /\ idx' = idx + 1
      /\ todo' = Reported(revents, idx + 1)
  BY Zenon DEF Advance, passVars
<1>2. ASSUME NEW ce \in fds \X Events, ce[2] \in revents[ce[1]], NEW i \in DOMAIN pass, pass[i] = ce[1]
      PROVE  (i < idx \/ (i = idx /\ ce[2] \notin todo))
                <=> (i < idx + 1 \/ (i = idx + 1 /\ ce[2] \notin todo'))
  <2>1. i = idx + 1 => ce[2] \in todo'
    <3>1. ce[1] \in live \cap fds
      BY DEF PassInv
    <3>. QED BY <1>1, <1>2, <3>1 DEF Reported
  <2>2. i \in Nat
    BY <1>0
  <2>. QED BY <1>0, <2>1, <2>2
<1>3. ServedSoFar' = ServedSoFar
  <2>1. ServedSoFar' =
          {ce \in fds \X Events :
             /\ ce[2] \in revents[ce[1]]
             /\ \E i \in DOMAIN pass : /\ pass[i] = ce[1]
                                       /\ i < idx + 1 \/ (i = idx + 1 /\ ce[2] \notin todo')}
    BY <1>1, Zenon DEF ServedSoFar
  <2>. QED BY <1>2, <2>1, Zenon DEF ServedSoFar
<1>4. called' = ServedSoFar'
  BY <1>1, <1>3 DEF PassInv
<1>5. todo' = Reported(revents, idx)'
  BY <1>1, Zenon DEF Reported
<1>. QED BY <1>1, <1>4, <1>5 DEF PassInv

\* One event of the current connection is served: it was not before.
LEMMA EventServed ==
  ASSUME TInv, PassInv, NEW e \in Events, ProcessEvent(e)
  PROVE  PassInv' /\ called' # called
<1>1. /\ UNCHANGED <<pass, fds, live, revents, idx>> /\ pc' = "event" /\ pc = "scan"
      /\ todo' = todo \ {e} /\ e \in todo /\ called' = called \cup {<<pass[idx], e>>}
  BY Zenon DEF ProcessEvent, passVars
<1>2. /\ idx \in DOMAIN pass /\ pass[idx] \in fds /\ e \in revents[pass[idx]]
      /\ \A i, j \in DOMAIN pass : pass[i] = pass[j] => i = j
      /\ called = ServedSoFar
  BY <1>1 DEF PassInv, Reported
<1>3. idx \in Nat /\ \A i \in DOMAIN pass : i \in Nat
  BY DEF TInv, LoopType, PassType
<1>4. <<pass[idx], e>> \notin called
  <2>1. ASSUME <<pass[idx], e>> \in ServedSoFar PROVE FALSE
    <3>1. PICK i \in DOMAIN pass : pass[i] = pass[idx] /\ (i < idx \/ (i = idx /\ e \notin todo))
      BY <2>1 DEF ServedSoFar
    <3>2. i = idx
      BY <1>2, <3>1
    <3>. QED BY <1>1, <1>3, <3>1, <3>2
  <2>. QED BY <1>2, <2>1
<1>5. ASSUME NEW ce \in fds \X Events, ce[2] \in revents[ce[1]]
      PROVE  (\E i \in DOMAIN pass : pass[i] = ce[1] /\ (i < idx \/ (i = idx /\ ce[2] \notin todo')))
               <=> \/ \E i \in DOMAIN pass : pass[i] = ce[1] /\ (i < idx \/ (i = idx /\ ce[2] \notin todo))
                   \/ ce = <<pass[idx], e>>
  <2>1. ce = <<ce[1], ce[2]>>
    BY <1>5
  <2>. QED BY <1>1, <1>2, <2>1
<1>6. ServedSoFar' = ServedSoFar \cup {<<pass[idx], e>>}
  <2>1. ServedSoFar' =
          {ce \in fds \X Events :
             /\ ce[2] \in revents[ce[1]]
             /\ \E i \in DOMAIN pass : /\ pass[i] = ce[1]
                                       /\ i < idx \/ (i = idx /\ ce[2] \notin todo')}
    BY <1>1, Zenon DEF ServedSoFar
  <2>2. <<pass[idx], e>> \in fds \X Events
    BY <1>2
  <2>3. <<pass[idx], e>>[2] \in revents[<<pass[idx], e>>[1]]
    BY <1>2
  <2>. QED BY <1>5, <2>1, <2>2, <2>3 DEF ServedSoFar
<1>7. todo' \subseteq Reported(revents, idx)'
  BY <1>1, Zenon DEF PassInv, Reported
<1>8. PassInv'
  BY <1>1, <1>2, <1>6, <1>7 DEF PassInv
<1>. QED BY <1>1, <1>4, <1>8

\* The scan ends after the last connection: all the events are served.
LEMMA AllServed ==
  ASSUME TInv, PassInv, EndPass
  PROVE  called = {ce \in fds \X Events : ce[2] \in revents[ce[1]]}
<1>1. pc = "scan" /\ idx \notin DOMAIN pass
  BY DEF EndPass
<1>2. pass \in Seq(Conn) /\ idx \in Nat \ {0}
  BY DEF TInv, PassType, LoopType
<1>3. \A i \in DOMAIN pass : i < idx
  BY <1>1, <1>2
<1>4. called = ServedSoFar /\ \A c \in fds : \E i \in DOMAIN pass : pass[i] = c
  BY <1>1 DEF PassInv
<1>5. ASSUME NEW ce \in fds \X Events, ce[2] \in revents[ce[1]] PROVE ce \in ServedSoFar
  <2>1. PICK i \in DOMAIN pass : pass[i] = ce[1]
    BY <1>4
  <2>. QED BY <1>3, <1>5, <2>1 DEF ServedSoFar
<1>6. ServedSoFar \subseteq {ce \in fds \X Events : ce[2] \in revents[ce[1]]}
  BY DEF ServedSoFar
<1>. QED BY <1>4, <1>5, <1>6

\* Every step preserves PassInv.
LEMMA PassStep ==
  ASSUME TInv, NoDuplicate, PassInv, [Next]_vars
  PROVE  PassInv'
<1>. USE DEF passVars
<1>1. ASSUME NEW c \in Conn, Application(c) PROVE PassInv'
  <2>1. Call => UNCHANGED passState
    BY Zenon DEF Call, passState
  <2>2. Call
    BY <1>1, Zenon DEF Application, add_connection, remove_connection, set_enable,
          set_priority, set_timeout_date, set_timeout_delay, set_output, close
  <2>. QED BY <2>1, <2>2, PassInvSame
<1>2. CASE RunCalled
  BY <1>2 DEF RunCalled, PassInv
<1>3. CASE Forget /\ pc' \in {"user", "top"}
  BY <1>3 DEF Forget, PassInv
<1>4. CASE Prepare
  <2>1. /\ pass' = list' /\ live' = Enabled /\ fds' = Polled /\ pc' = "poll" /\ pc = "top"
        /\ UNCHANGED <<revents, called>> /\ Sorted(list')
    BY <1>4 DEF Prepare, Snapshot
  <2>2. NoDuplicate'
    BY NoDuplicateStep
  <2>3. \A c \in Polled : \E i \in DOMAIN list' : list'[i] = c
    BY <2>1, SortKeeps DEF Polled, Enabled
  <2>4. Polled \subseteq Enabled
    BY DEF Polled
  <2>. QED BY <2>1, <2>2, <2>3, <2>4 DEF PassInv, NoDuplicate
<1>5. CASE PollReports
  <2>1. todo' = Reported(revents', 1)
    BY <1>5 DEF PollReports
  <2>. QED BY <1>5, <2>1, ScanStarts DEF PollReports
<1>6. CASE PollTimesOut
  <2>1. pc = "poll" /\ todo = {} /\ revents = [c \in Conn |-> {}]
    BY <1>6 DEF PollTimesOut, TInv, TodoValid, PassInv
  <2>2. revents' = revents /\ todo' = todo
    BY <1>6 DEF PollTimesOut
  <2>3. Reported(revents', 1) = {}
    BY <2>1, <2>2 DEF Reported, TInv, PassType
  <2>. QED BY <1>6, <2>1, <2>2, <2>3, ScanStarts DEF PollTimesOut
<1>7. ASSUME NEW e \in Events, ProcessEvent(e) PROVE PassInv'
  BY <1>7, EventServed
<1>8. CASE EndEvent
  <2>1. UNCHANGED <<called, revents, pass, fds, live, idx, todo>> /\ pc = "event" /\ pc' = "scan"
    BY <1>8, Zenon DEF EndEvent
  <2>2. ServedSoFar' = ServedSoFar /\ Reported(revents, idx)' = Reported(revents, idx)
    BY <2>1, Zenon DEF ServedSoFar, Reported
  <2>. QED BY <2>1, <2>2 DEF PassInv
<1>9. CASE ProcessTimeout
  <2>1. UNCHANGED <<called, revents, pass, fds, live, idx, todo>> /\ pc = "scan" /\ pc' = "timeout" /\ todo = {}
    BY <1>9, Zenon DEF ProcessTimeout
  <2>2. ServedSoFar' = ServedSoFar /\ Reported(revents, idx)' = Reported(revents, idx)
    BY <2>1, Zenon DEF ServedSoFar, Reported
  <2>. QED BY <2>1, <2>2 DEF PassInv
<1>10. CASE EndTimeout
  BY <1>10, ScanAdvances DEF EndTimeout, PassInv
<1>11. CASE NoTimeout
  BY <1>11, ScanAdvances DEF NoTimeout
<1>12. CASE UNCHANGED passState
  BY <1>12, PassInvSame
<1>13. ReturnTrue \/ ReturnFalse \/ PollFails \/ CallbackThrows \/ EndPass => Forget /\ pc' \in {"user", "top"}
  BY DEF ReturnTrue, ReturnFalse, PollFails, CallbackThrows, EndPass, Return
<1>14. Tick \/ UNCHANGED vars => UNCHANGED passState
  BY Zenon DEF Tick, vars, passState
<1>. QED BY <1>1, <1>2, <1>3, <1>4, <1>5, <1>6, <1>7, <1>8, <1>9, <1>10, <1>11, <1>12, <1>13, <1>14,
            Zenon DEF Next, RunStep

\* Every event that poll() reported reaches its callback exactly once in the
\* pass, whatever the callbacks before it did to the list, the flags and the
\* priorities.
THEOREM EveryEventServed == Spec => EventsServedOnce
<1>1. ASSUME TInv, PassInv, Next, pc = "scan"
      PROVE  /\ pc' = "event" => called' # called
             /\ pc' = "top" => called = {ce \in fds \X Events : ce[2] \in revents[ce[1]]}
  <2>1. ASSUME NEW c \in Conn, Application(c) PROVE FALSE
    <3>1. ~Call
      BY <1>1 DEF Call
    <3>. QED BY <2>1, <3>1, Zenon DEF Application, add_connection, remove_connection, set_enable,
            set_priority, set_timeout_date, set_timeout_delay, set_output, close
  <2>2. /\ ~RunCalled /\ ~PollReports /\ ~PollTimesOut /\ ~PollFails /\ ~EndEvent /\ ~EndTimeout
        /\ ~CallbackThrows /\ ~Tick /\ ~ReturnTrue /\ ~ReturnFalse /\ ~Prepare
    BY <1>1 DEF RunCalled, PollReports, PollTimesOut, PollFails, EndEvent, EndTimeout, CallbackThrows,
                Tick, ReturnTrue, ReturnFalse, Prepare, Snapshot
  <2>3. ASSUME NEW e \in Events, ProcessEvent(e) PROVE pc' = "event" /\ called' # called
    BY <1>1, <2>3, EventServed DEF ProcessEvent
  <2>4. ProcessTimeout \/ NoTimeout => pc' # "event" /\ pc' # "top"
    BY DEF ProcessTimeout, NoTimeout, Advance
  <2>5. EndPass => pc' = "top" /\ called = {ce \in fds \X Events : ce[2] \in revents[ce[1]]}
    BY <1>1, AllServed DEF EndPass
  <2>6. \/ \E e \in Events : ProcessEvent(e)
        \/ ProcessTimeout \/ NoTimeout \/ EndPass
    BY <1>1, <2>1, <2>2, Zenon DEF Next, RunStep
  <2>. QED BY <2>3, <2>4, <2>5, <2>6
<1>2. TInv /\ PassInv /\ [Next]_vars =>
        [/\ pc = "scan" /\ pc' = "event" => called' # called
         /\ pc = "scan" /\ pc' = "top"
              => called = {ce \in fds \X Events : ce[2] \in revents[ce[1]]}]_vars
  BY <1>1, Zenon
<1>3. Init => PassInv
  BY DEF Init, PassInv
<1>4. TInv /\ NoDuplicate /\ PassInv /\ [Next]_vars => PassInv'
  BY PassStep
<1>. QED BY <1>2, <1>3, <1>4, ListedOnce, InitTInv, StepTInv, PTL DEF Spec, EventsServedOnce
=============================================================================
