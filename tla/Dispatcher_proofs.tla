--------------------------- MODULE Dispatcher_proofs ---------------------------
(***************************************************************************)
(* Proofs about ed::message, ed::dispatcher and the commands of            *)
(* ed::connection_with_send_message, for any commands, names, values,      *)
(* definitions and matches, and for any number of messages and matches:    *)
(* the properties of Dispatcher as theorems of its specification.          *)
(*                                                                         *)
(* The first half is about data: what a list of matches and dispatch() do, *)
(* and that from_string() reads what to_string() writes. The functions of  *)
(* the parser are recursive functions of a position; what they compute is  *)
(* proved by induction over the position, with the lemmas Upward, Downward *)
(* and Recursion of ListTheorems, which follow from Nat being             *)
(* well-founded under <.                                                   *)
(***************************************************************************)
EXTENDS Dispatcher, ListTheorems

---------------------------------------------------------------------------
(***************************************************************************)
(* The positions of the elements that are kept.                            *)
(***************************************************************************)

\* Kept() has the elements at the positions, each once and in their order.
IsKept(at, list, S, kept) ==
    /\ at \in [1 .. Len(kept) -> 1 .. Len(list)]
    /\ \A k \in 1 .. Len(kept) : at[k] \in S /\ kept[k] = list[at[k]]
    /\ \A j, k \in 1 .. Len(kept) : j < k => at[j] < at[k]
    /\ \A i \in 1 .. Len(list) : i \in S => \E k \in 1 .. Len(kept) : at[k] = i

\* The elements that are kept are those at increasing positions.
LEMMA KeptAt ==
  ASSUME NEW T, NEW list \in Lists(T), NEW S
  PROVE  /\ Kept(list, S) \in Lists(T)
         /\ \E at : IsKept(at, list, S, Kept(list, S))
<1>1. PICK n \in Nat : n = Len(list) /\ DOMAIN list = 1 .. n /\ \A i \in 1 .. n : list[i] \in T
  BY DEF Lists
<1>. DEFINE s == [i \in 1 .. n |-> IF i \in S THEN <<list[i]>> ELSE <<>>]
<1>2. \A i \in 1 .. n : /\ s[i] \in Lists(T)
                        /\ i \in S => Len(s[i]) = 1 /\ s[i][1] = list[i]
                        /\ i \notin S => Len(s[i]) = 0
  BY <1>1 DEF Lists
<1>3. s \in [1 .. n -> Lists(T)]
  <2>1. s = [i \in 1 .. n |-> s[i]]
    OBVIOUS
  <2>. HIDE DEF s
  <2>. QED BY <1>2, <2>1
<1>4. Kept(list, S) = FlattenSeq(s)
  BY <1>1 DEF Kept
<1>. HIDE DEF s
<1>15. PICK o : FlattenSeq(s) \in Lists(T) /\ Offsets(o, n, s, FlattenSeq(s))
  BY <1>3, FlattenOffsets
<1>5.       /\ o \in [0 .. n -> Nat] /\ o[0] = 0
            /\ \A i \in 1 .. n : o[i] = o[i - 1] + Len(s[i])
            /\ \A i \in 0 .. n : o[i] <= o[n]
            /\ FlattenSeq(s) \in Lists(T) /\ Len(FlattenSeq(s)) = o[n]
            /\ \A i \in 1 .. n : \A k \in 1 .. Len(s[i]) : FlattenSeq(s)[o[i - 1] + k] = s[i][k]
  BY <1>15 DEF Offsets
<1>6. PICK kept : kept = Kept(list, S) /\ kept \in Lists(T) /\ Len(kept) = o[n]
  BY <1>4, <1>5
<1>7. ASSUME NEW i \in 1 .. n
      PROVE  /\ i \in S => o[i] = o[i - 1] + 1 /\ kept[o[i]] = list[i]
             /\ i \notin S => o[i] = o[i - 1]
             /\ o[i - 1] \in Nat /\ o[i] \in Nat /\ o[i - 1] <= o[i] /\ o[i] <= o[n]
  <2>1. o[i - 1] \in Nat /\ o[i] \in Nat /\ o[i] <= o[n]
    BY <1>5
  <2>2. CASE i \in S
    <3>1. Len(s[i]) = 1 /\ s[i][1] = list[i]
      BY <1>2, <2>2
    <3>2. 1 \in 1 .. Len(s[i])
      BY <3>1
    <3>3. FlattenSeq(s)[o[i - 1] + 1] = s[i][1] /\ o[i] = o[i - 1] + Len(s[i])
      BY <1>5, <3>2
    <3>. QED BY <1>4, <1>6, <2>1, <2>2, <3>1, <3>3
  <2>3. CASE i \notin S
    <3>1. Len(s[i]) = 0 /\ o[i] = o[i - 1] + Len(s[i])
      BY <1>2, <1>5, <2>3
    <3>. QED BY <2>1, <2>3, <3>1
  <2>. QED BY <2>2, <2>3
<1>8. \A i, j \in 0 .. n : i <= j => o[i] <= o[j]
  BY <1>5, <1>7, Monotone
<1>9. ASSUME NEW k \in 1 .. o[n]
      PROVE  \E i \in 1 .. n : i \in S /\ o[i] = k
  <2>. DEFINE later == {i \in 0 .. n : k <= o[i]}
  <2>1. later \in SUBSET Nat /\ n \in later
    BY <1>5
  <2>2. PICK i \in later : \A j \in later : i <= j
    BY <2>1, Least
  <2>3. i # 0
    BY <1>5, <2>2
  <2>4. i \in 1 .. n /\ k <= o[i] /\ i - 1 \in 0 .. n /\ i - 1 \notin later
    BY <2>2, <2>3
  <2>5. ~(k <= o[i - 1])
    BY <2>4
  <2>6. /\ i \in S => o[i] = o[i - 1] + 1
        /\ i \notin S => o[i] = o[i - 1]
        /\ o[i - 1] \in Nat /\ o[i] \in Nat
    BY <1>7, <2>4
  <2>7. i \in S
    BY <2>4, <2>5, <2>6
  <2>8. o[i] = k
    BY <2>4, <2>5, <2>6, <2>7
  <2>. QED BY <2>4, <2>7, <2>8
<1>. DEFINE at == [k \in 1 .. o[n] |-> CHOOSE i \in 1 .. n : i \in S /\ o[i] = k]
<1>10. \A k \in 1 .. o[n] : at[k] \in 1 .. n /\ at[k] \in S /\ o[at[k]] = k
  BY <1>9
<1>11. at \in [1 .. o[n] -> 1 .. n]
  <2>1. at = [k \in 1 .. o[n] |-> at[k]]
    OBVIOUS
  <2>. HIDE DEF at
  <2>. QED BY <1>10, <2>1
<1>. HIDE DEF at
<1>12. \A k \in 1 .. o[n] : kept[k] = list[at[k]]
  BY <1>7, <1>10
<1>13. ASSUME NEW j \in 1 .. o[n], NEW k \in 1 .. o[n], j < k PROVE at[j] < at[k]
  <2>1. at[j] \in 0 .. n /\ at[k] \in 0 .. n /\ o[at[j]] = j /\ o[at[k]] = k
    BY <1>10
  <2>2. ~(at[k] <= at[j])
    BY <1>8, <1>13, <2>1
  <2>. QED BY <2>1, <2>2
<1>14. ASSUME NEW i \in 1 .. n, i \in S PROVE \E k \in 1 .. o[n] : at[k] = i
  <2>1. PICK k \in Nat : k = o[i] /\ k \in 1 .. o[n] /\ o[i - 1] = k - 1
    BY <1>5, <1>7, <1>14
  <2>2. /\ at[k] \in 1 .. n /\ at[k] \in S /\ o[at[k]] = k /\ at[k] \in 0 .. n
        /\ i \in 0 .. n /\ i - 1 \in 0 .. n /\ at[k] - 1 \in 0 .. n
    BY <1>10, <2>1
  <2>3. o[at[k] - 1] = k - 1
    BY <1>7, <2>2
  <2>4. ~(at[k] <= i - 1)
    BY <1>8, <2>1, <2>2
  <2>5. ~(i <= at[k] - 1)
    BY <1>8, <2>1, <2>2, <2>3
  <2>6. at[k] = i
    BY <2>2, <2>4, <2>5
  <2>. QED BY <2>1, <2>6
<1>16. IsKept(at, list, S, kept)
  BY <1>1, <1>6, <1>10, <1>11, <1>12, <1>13, <1>14 DEF IsKept
<1>. QED BY <1>6, <1>16

---------------------------------------------------------------------------
(***************************************************************************)
(* The list of matches and dispatch().                                     *)
(***************************************************************************)

\* What Min() is.
LEMMA LeastIs ==
  ASSUME NEW S \in SUBSET Nat, S # {}
  PROVE  Min(S) \in S /\ \A m \in S : Min(S) <= m
BY Least DEF Min

\* What Max() is.
LEMMA GreatestIs ==
  ASSUME NEW a \in Int, NEW b \in Int, NEW S \in SUBSET (a .. b), S # {}
  PROVE  Max(S) \in S /\ \A m \in S : m <= Max(S)
<1>1. \E n \in S : \A m \in S : n >= m
  BY Greatest
<1>2. Max(S) \in S /\ \A m \in S : Max(S) >= m
  BY <1>1 DEF Max
<1>. QED BY <1>2

\* An element put in a list, before the one at a position.
Put(l, at, m) == SubSeq(l, 1, at - 1) \o <<m>> \o SubSeq(l, at, Len(l))

\* A list with one more element: those after it move by one.
LEMMA PutAt ==
  ASSUME NEW T, NEW l \in Lists(T), NEW m \in T, NEW at \in 1 .. Len(l) + 1,
         NEW r, r = Put(l, at, m)
  PROVE  /\ r \in Lists(T) /\ Len(r) = Len(l) + 1 /\ r[at] = m
         /\ \A i \in 1 .. at - 1 : r[i] = l[i]
         /\ \A i \in at + 1 .. Len(l) + 1 : r[i] = l[i - 1]
<1>0. Len(l) \in Nat
  BY ListLen
<1>1. PICK u : u = Slice(l, 1, at - 1) /\ u \in Lists(T) /\ Len(u) = at - 1
               /\ \A i \in 1 .. at - 1 : u[i] = l[i]
  <2>1. PICK b \in Int : b = at - 1 /\ 1 <= b + 1 /\ b <= Len(l) /\ b - 1 + 1 = b
                        /\ \A i \in 1 .. b : 1 + i - 1 = i
    BY <1>0
  <2>. QED BY <2>1, Part
<1>2. PICK v : v = Slice(l, at, Len(l)) /\ v \in Lists(T) /\ Len(v) = Len(l) - at + 1
               /\ \A i \in 1 .. Len(l) - at + 1 : v[i] = l[at + i - 1]
  <2>1. PICK b \in Int : b = Len(l) /\ 1 <= at /\ at <= b + 1 /\ b <= Len(l)
    BY <1>0
  <2>. QED BY <2>1, Part
<1>3. PICK w : w = <<m>> /\ w \in Lists(T) /\ Len(w) = 1 /\ w[1] = m
  BY Single
<1>4. r = Cat(Cat(u, w), v)
  BY <1>1, <1>2, <1>3 DEF Cat, Put, Slice
<1>5. PICK x : x = Cat(u, w) /\ x \in Lists(T) /\ Len(x) = at /\ x[at] = m
               /\ \A i \in 1 .. at - 1 : x[i] = l[i]
  <2>1. /\ Cat(u, w) \in Lists(T) /\ Len(Cat(u, w)) = Len(u) + Len(w)
        /\ \A i \in 1 .. Len(u) : Cat(u, w)[i] = u[i]
        /\ \A i \in 1 .. Len(w) : Cat(u, w)[Len(u) + i] = w[i]
    <3>1. u \in Lists(T) /\ w \in Lists(T)
      BY <1>1, <1>3
    <3>2. ASSUME NEW i \in 1 .. Len(u) PROVE Cat(u, w)[i] = u[i]
      BY <3>1, Concat
    <3>3. ASSUME NEW i \in 1 .. Len(w) PROVE Cat(u, w)[Len(u) + i] = w[i]
      BY <3>1, Concat
    <3>. QED BY <3>1, <3>2, <3>3, Concat
  <2>2. PICK x : x = Cat(u, w)
    OBVIOUS
  <2>3. at = Len(u) + 1 /\ 1 \in 1 .. Len(w)
    BY <1>1, <1>3
  <2>. QED BY <1>1, <1>3, <2>1, <2>2, <2>3
<1>6. /\ r = Cat(x, v) /\ r \in Lists(T) /\ Len(r) = Len(x) + Len(v)
      /\ \A i \in 1 .. Len(x) : r[i] = x[i]
      /\ \A i \in 1 .. Len(v) : r[Len(x) + i] = v[i]
  <2>1. x \in Lists(T) /\ v \in Lists(T)
    BY <1>2, <1>5
  <2>2. r = Cat(x, v)
    BY <1>4, <1>5
  <2>3. /\ Cat(x, v) \in Lists(T) /\ Len(Cat(x, v)) = Len(x) + Len(v)
        /\ \A i \in 1 .. Len(x) : Cat(x, v)[i] = x[i]
        /\ \A i \in 1 .. Len(v) : Cat(x, v)[Len(x) + i] = v[i]
    <3>2. ASSUME NEW i \in 1 .. Len(x) PROVE Cat(x, v)[i] = x[i]
      BY <2>1, Concat
    <3>3. ASSUME NEW i \in 1 .. Len(v) PROVE Cat(x, v)[Len(x) + i] = v[i]
      BY <2>1, Concat
    <3>. QED BY <2>1, <3>2, <3>3, Concat
  <2>. QED BY <2>2, <2>3, Zenon
<1>7. Len(l) \in Nat
  BY ListLen
<1>8. ASSUME NEW i \in at + 1 .. Len(l) + 1 PROVE r[i] = l[i - 1]
  <2>1. PICK j \in Int : j = i - at
    BY <1>7
  <2>2. j \in 1 .. Len(l) - at + 1 /\ j \in 1 .. Len(v) /\ Len(x) + j = i /\ at + j - 1 = i - 1
    BY <1>2, <1>5, <1>7, <2>1
  <2>. QED BY <1>2, <1>6, <2>2
<1>9. Len(r) = Len(l) + 1
  BY <1>2, <1>5, <1>6, <1>7
<1>10. r[at] = m /\ \A i \in 1 .. at - 1 : r[i] = l[i]
  <2>1. at \in 1 .. Len(x) /\ \A i \in 1 .. at - 1 : i \in 1 .. Len(x)
    BY <1>5, <1>7
  <2>. QED BY <1>5, <1>6, <2>1, Zenon
<1>. QED BY <1>6, <1>8, <1>9, <1>10

---------------------------------------------------------------------------
Kinds == {"one_to_one", "one_to_one_callback", "callback"}
\* STRING, with the strings the proofs need in it named.
Words == STRING \cup Specials \cup {None, NoDefinition}
            \cup {add_communicator_commands[i] : i \in DOMAIN add_communicator_commands}
            \cup {"ABSOLUTELY", "COMMANDS", "REGISTER", "UNREGISTER", "service", "list",
                  "command", "serial", "timestamp", "reply_timestamp", "s", "c", "1", "n", "r"}
MatchSet == [expr : Words, kind : Kinds, priority : Nat, tag : Nat, id : Nat,
             f_message_definition : Words]

Sorted(l) == \A i, j \in 1 .. Len(l) : i < j => Before(l[i], l[j])
IsFor(m, command) == m.kind # "callback" /\ m.expr = command
Defined(m) ==
    /\ m.kind = "callback" <=> m.expr = None
    /\ m.kind # "callback" => m.f_message_definition = m.expr
IsUnknown(m) == IsFor(m, "UNKNOWN") /\ m.tag = NoTag

ListOK(l, top) ==
    /\ l \in Lists(MatchSet)
    /\ Sorted(l)
    /\ \A i \in 1 .. Len(l) : l[i].id <= top /\ Defined(l[i])
    /\ \E i \in 1 .. Len(l) : IsUnknown(l[i])

\* The elements of a list of matches.
LEMMA ListMatch ==
  ASSUME NEW l \in Lists(MatchSet)
  PROVE  Len(l) \in Nat /\ DOMAIN l = 1 .. Len(l) /\ \A i \in 1 .. Len(l) : l[i] \in MatchSet
BY DEF Lists

\* A match of the application is well defined once it has its identifier.
LEMMA NumberedOK ==
  ASSUME NEW m \in UserMatches, NEW id \in Nat
  PROVE  /\ Numbered(m, id) \in MatchSet /\ Numbered(m, id).id = id
         /\ Defined(Numbered(m, id))
<1>1. /\ m.expr \in Words /\ m.kind \in Kinds /\ m.priority \in Nat /\ m.tag \in Nat
      /\ m.kind = "callback" <=> m.expr = None
  BY MatchesAssumption DEF Kinds, Words
<1>2. PICK r : r = Numbered(m, id)
  OBVIOUS
<1>3. /\ r = [expr |-> m.expr, kind |-> m.kind, priority |-> m.priority, tag |-> m.tag, id |-> id,
              f_message_definition |-> IF m.expr = None THEN NoDefinition ELSE m.expr]
      /\ r.expr = m.expr /\ r.kind = m.kind /\ r.id = id
      /\ r.f_message_definition = IF m.expr = None THEN NoDefinition ELSE m.expr
  BY <1>2 DEF Numbered
<1>4. r \in MatchSet
  <2>0. NoDefinition \in Words
    BY DEF Words
  <2>1. r.f_message_definition \in Words
    BY <1>1, <1>3, <2>0
  <2>. QED BY <1>1, <1>3, <2>1 DEF MatchSet
<1>5. Defined(r)
  BY <1>1, <1>3 DEF Defined
<1>. QED BY <1>2, <1>3, <1>4, <1>5

\* add_match() keeps the order, and loses no match.
LEMMA InsertedOK ==
  ASSUME NEW l, NEW top \in Nat, ListOK(l, top),
         NEW m \in MatchSet, m.id = top + 1, Defined(m)
  PROVE  /\ ListOK(Inserted(l, m), top + 1)
         /\ \A i \in 1 .. Len(l) : \E j \in 1 .. Len(Inserted(l, m)) : Inserted(l, m)[j] = l[i]
<1>. DEFINE later == {i \in DOMAIN l : m.priority < l[i].priority}
<1>1. /\ l \in Lists(MatchSet) /\ Len(l) \in Nat /\ DOMAIN l = 1 .. Len(l)
      /\ \A i \in 1 .. Len(l) : l[i] \in MatchSet
  BY ListMatch DEF ListOK
<1>2. PICK at \in 1 .. Len(l) + 1 :
        /\ Inserted(l, m) = Put(l, at, m)
        /\ \A i \in 1 .. at - 1 : ~(m.priority < l[i].priority)
        /\ at # Len(l) + 1 => m.priority < l[at].priority
  <2>0. Inserted(l, m) = Put(l, IF later = {} THEN Len(l) + 1 ELSE Min(later), m)
    BY DEF Inserted, Put
  <2>1. CASE later = {}
    <3>1. \A i \in 1 .. Len(l) : ~(m.priority < l[i].priority)
      BY <1>1, <2>1
    <3>2. PICK at : at = Len(l) + 1
      OBVIOUS
    <3>3. at \in 1 .. Len(l) + 1 /\ \A i \in 1 .. at - 1 : i \in 1 .. Len(l)
      BY <1>1, <3>2
    <3>. HIDE DEF later
    <3>. QED BY <2>0, <2>1, <3>1, <3>2, <3>3, Zenon
  <2>2. CASE later # {}
    <3>1. later \in SUBSET Nat
      BY <1>1
    <3>3. Min(later) \in later /\ \A j \in later : Min(later) <= j
      <4>. HIDE DEF later
      <4>. QED BY <2>2, <3>1, LeastIs
    <3>4. Inserted(l, m) = Put(l, Min(later), m)
      BY <2>0, <2>2
    <3>5. PICK at : at = Min(later)
      OBVIOUS
    <3>8. at \in later
      <4>. HIDE DEF later
      <4>. QED BY <3>3, <3>5
    <3>9. at \in 1 .. Len(l) /\ m.priority < l[at].priority
      BY <1>1, <3>8
    <3>6. at \in 1 .. Len(l) /\ m.priority < l[at].priority /\ \A i \in 1 .. at - 1 : i \notin later
      <4>. HIDE DEF later
      <4>. QED BY <3>3, <3>5, <3>9
    <3>7. \A i \in 1 .. at - 1 : ~(m.priority < l[i].priority)
      BY <1>1, <3>6
    <3>. HIDE DEF later
    <3>10. at \in 1 .. Len(l) + 1 /\ at # Len(l) + 1
      BY <1>1, <3>6
    <3>. QED BY <3>4, <3>5, <3>6, <3>7, <3>10, Zenon
  <2>. QED BY <2>1, <2>2
<1>. HIDE DEF later
<1>3. PICK r : r = Inserted(l, m)
  OBVIOUS
<1>4. /\ r \in Lists(MatchSet) /\ Len(r) = Len(l) + 1 /\ r[at] = m
      /\ \A i \in 1 .. at - 1 : r[i] = l[i]
      /\ \A i \in at + 1 .. Len(l) + 1 : r[i] = l[i - 1]
  BY <1>1, <1>2, <1>3, PutAt
<1>5. \A i \in 1 .. Len(l) : l[i].id <= top /\ Defined(l[i])
  BY DEF ListOK
<1>6. ASSUME NEW i \in 1 .. Len(l) PROVE /\ i < at => Before(l[i], m)
                                         /\ i >= at => Before(m, l[i])
  <2>0. l[i] \in MatchSet /\ l[i].id <= top
    BY <1>1, <1>5
  <2>1. i < at => Before(l[i], m)
    BY <1>2, <2>0 DEF Before, MatchSet
  <2>2. ASSUME i >= at PROVE Before(m, l[i])
    <3>1. m.priority < l[at].priority /\ at \in 1 .. Len(l) /\ l[at] \in MatchSet
      BY <1>1, <1>2, <2>2
    <3>2. i = at \/ Before(l[at], l[i])
      BY <2>2, <3>1 DEF ListOK, Sorted
    <3>. QED BY <2>0, <3>1, <3>2 DEF Before, MatchSet
  <2>. QED BY <2>1, <2>2
<1>7. \A i \in 1 .. Len(r) : \/ i \in 1 .. at - 1 /\ i \in 1 .. Len(l) /\ r[i] = l[i]
                             \/ i = at /\ r[i] = m
                             \/ i \in at + 1 .. Len(r) /\ i - 1 \in 1 .. Len(l) /\ r[i] = l[i - 1]
  BY <1>1, <1>4
<1>8. Sorted(r)
  <2>1. ASSUME NEW i \in 1 .. Len(r), NEW j \in 1 .. Len(r), i < j PROVE Before(r[i], r[j])
    <3>0. \A a, b \in 1 .. Len(l) : a < b => Before(l[a], l[b])
      BY DEF ListOK, Sorted
    <3>1. CASE j \in 1 .. at - 1
      BY <1>7, <2>1, <3>0, <3>1
    <3>2. CASE j = at
      <4>1. i \in 1 .. Len(l) /\ i < at /\ r[i] = l[i] /\ r[j] = m
        BY <1>4, <1>7, <2>1, <3>2
      <4>. QED BY <1>6, <4>1
    <3>3. CASE j \in at + 1 .. Len(r)
      <4>1. j - 1 \in 1 .. Len(l) /\ r[j] = l[j - 1] /\ j - 1 >= at
        BY <1>1, <1>4, <3>3
      <4>2. CASE i = at
        BY <1>4, <1>6, <4>1, <4>2
      <4>3. CASE i \in 1 .. at - 1
        BY <1>7, <2>1, <3>0, <4>1, <4>3
      <4>4. CASE i \in at + 1 .. Len(r)
        <5>1. i - 1 \in 1 .. Len(l) /\ r[i] = l[i - 1] /\ i - 1 < j - 1
          BY <1>7, <2>1, <4>4
        <5>. QED BY <3>0, <4>1, <5>1
      <4>. QED BY <1>7, <4>2, <4>3, <4>4
    <3>. QED BY <1>7, <3>1, <3>2, <3>3
  <2>. QED BY <2>1 DEF Sorted
<1>9. \A i \in 1 .. Len(r) : r[i].id <= top + 1 /\ Defined(r[i])
  <2>1. \A i \in 1 .. Len(l) : l[i].id <= top + 1
    BY <1>1, <1>5 DEF MatchSet
  <2>2. m.id <= top + 1
    OBVIOUS
  <2>. QED BY <1>5, <1>7, <2>1, <2>2
<1>11. ASSUME NEW i \in 1 .. Len(l) PROVE \E j \in 1 .. Len(r) : r[j] = l[i]
  <2>2. CASE i < at
    BY <1>1, <1>4, <2>2
  <2>3. CASE i >= at
    <3>1. i + 1 \in at + 1 .. Len(l) + 1 /\ i + 1 \in 1 .. Len(r) /\ (i + 1) - 1 = i
      BY <1>1, <1>4, <2>3
    <3>2. r[i + 1] = l[i]
      BY <1>4, <3>1
    <3>. QED BY <3>1, <3>2
  <2>. QED BY <2>2, <2>3
<1>10. \E i \in 1 .. Len(r) : IsUnknown(r[i])
  <2>1. PICK i \in 1 .. Len(l) : IsUnknown(l[i])
    BY DEF ListOK
  <2>. QED BY <1>11, <2>1
<1>12. ListOK(r, top + 1)
  BY <1>4, <1>8, <1>9, <1>10 DEF ListOK
<1>. QED BY <1>3, <1>11, <1>12

\* The matches of the system are in order.
LEMMA InitialOK == Len(InitialMatches) = 11 /\ ListOK(InitialMatches, 11)
<1>1. PICK c : c = add_communicator_commands
  OBVIOUS
<1>2. /\ Len(c) = 11 /\ DOMAIN c = 1 .. 11 /\ c[11] = "UNKNOWN"
      /\ \A i \in 1 .. 11 : c[i] # None
  BY <1>1 DEF add_communicator_commands, None
<1>3. \A i \in 1 .. 11 : c[i] \in Words
  BY <1>1, <1>2 DEF Words
<1>4. PICK l : l = InitialMatches
  OBVIOUS
<1>5. l = [i \in 1 .. 11 |-> Numbered(Match(c[i], "one_to_one", SystemPriority, NoTag), i)]
  BY <1>1, <1>2, <1>4 DEF InitialMatches
<1>6. ASSUME NEW i \in 1 .. 11
      PROVE  /\ l[i] \in MatchSet /\ Defined(l[i]) /\ l[i].id = i /\ l[i].priority = SystemPriority
             /\ l[i].kind = "one_to_one" /\ l[i].tag = NoTag /\ l[i].expr = c[i]
  <2>1. l[i] = [expr |-> c[i], kind |-> "one_to_one", priority |-> SystemPriority, tag |-> NoTag,
                id |-> i, f_message_definition |-> c[i]]
    BY <1>2, <1>5 DEF Numbered, Match
  <2>2. l[i] \in MatchSet
    BY <1>3, <2>1 DEF MatchSet, Kinds, SystemPriority, NoTag
  <2>3. Defined(l[i])
    BY <1>2, <2>1 DEF Defined
  <2>. QED BY <2>1, <2>2, <2>3
<1>7. DOMAIN l = 1 .. 11 /\ Len(l) = 11 /\ l \in Lists(MatchSet)
  <2>. HIDE DEF MatchSet
  <2>. QED BY <1>5, <1>6 DEF Lists
<1>8. Sorted(l)
  BY <1>6, <1>7 DEF Sorted, Before, SystemPriority
<1>9. 11 \in 1 .. Len(l) /\ IsUnknown(l[11])
  BY <1>2, <1>6, <1>7 DEF IsUnknown, IsFor
<1>10. \A i \in 1 .. Len(l) : l[i].id <= 11 /\ Defined(l[i])
  BY <1>6, <1>7
<1>. QED BY <1>4, <1>7, <1>8, <1>9, <1>10 DEF ListOK

\* remove_matches() keeps the order, and the match of UNKNOWN.
LEMMA KeptOK ==
  ASSUME NEW l, NEW top \in Nat, ListOK(l, top), NEW S,
         \A i \in 1 .. Len(l) : IsUnknown(l[i]) => i \in S
  PROVE  ListOK(Kept(l, S), top)
<1>1. l \in Lists(MatchSet) /\ Sorted(l) /\ \A i \in 1 .. Len(l) : l[i].id <= top /\ Defined(l[i])
  BY DEF ListOK
<1>2. PICK kept, at : kept = Kept(l, S) /\ kept \in Lists(MatchSet) /\ IsKept(at, l, S, kept)
  BY <1>1, KeptAt
<1>3. /\ \A k \in 1 .. Len(kept) : at[k] \in 1 .. Len(l) /\ at[k] \in S /\ kept[k] = l[at[k]]
      /\ \A j, k \in 1 .. Len(kept) : j < k => at[j] < at[k]
      /\ \A i \in 1 .. Len(l) : i \in S => \E k \in 1 .. Len(kept) : at[k] = i
  BY <1>2 DEF IsKept
<1>4. Sorted(kept)
  BY <1>1, <1>3 DEF Sorted
<1>5. \E k \in 1 .. Len(kept) : IsUnknown(kept[k])
  <2>1. PICK i \in 1 .. Len(l) : IsUnknown(l[i])
    BY DEF ListOK
  <2>2. PICK k \in 1 .. Len(kept) : at[k] = i
    BY <1>3, <2>1
  <2>. QED BY <1>3, <2>1, <2>2
<1>6. \A k \in 1 .. Len(kept) : kept[k].id <= top /\ Defined(kept[k])
  BY <1>1, <1>3
<1>. QED BY <1>2, <1>4, <1>5, <1>6 DEF ListOK

---------------------------------------------------------------------------
\* What an executed match becomes keeps all but the definition of a callback.
LEMMA WithDefinitionOK ==
  ASSUME NEW m \in MatchSet, Defined(m), NEW msg, msg.command \in Words, MatchAny(m, msg)
  PROVE  LET w == WithDefinition(m, msg)
         IN  /\ w \in MatchSet /\ Defined(w)
             /\ w.expr = m.expr /\ w.kind = m.kind /\ w.priority = m.priority
             /\ w.tag = m.tag /\ w.id = m.id
             /\ m.kind # "callback" => w = m /\ m.expr = msg.command
                                       /\ w.f_message_definition = msg.command
<1>1. PICK w : w = WithDefinition(m, msg)
  OBVIOUS
<1>2. /\ w = [m EXCEPT !.f_message_definition = IF m.f_message_definition = NoDefinition
                                                THEN msg.command ELSE m.f_message_definition]
      /\ w.expr = m.expr /\ w.kind = m.kind /\ w.priority = m.priority
      /\ w.tag = m.tag /\ w.id = m.id
      /\ w.f_message_definition = IF m.f_message_definition = NoDefinition
                                    THEN msg.command ELSE m.f_message_definition
  BY <1>1 DEF WithDefinition, MatchSet
<1>3. w \in MatchSet
  BY <1>2 DEF MatchSet
<1>4. m.kind # "callback" => /\ m.expr = msg.command /\ m.f_message_definition = m.expr
                             /\ w.f_message_definition = msg.command
  BY <1>2 DEF Defined, MatchAny, MatchTrue, one_to_one_match, one_to_one_callback_match, callback_match
<1>5. Defined(w)
  BY <1>2, <1>4 DEF Defined
<1>6. m.kind # "callback" => w = m
  BY <1>2, <1>4 DEF MatchSet
<1>. QED BY <1>1, <1>2, <1>3, <1>4, <1>5, <1>6

\* dispatch() keeps the list in order.
DispatchedList(l, msg) ==
    [i \in DOMAIN l |-> IF i \in Executed(l, msg) THEN WithDefinition(l[i], msg) ELSE l[i]]

\* dispatch() changes the definitions of the matches and nothing else.
LEMMA DispatchedOK ==
  ASSUME NEW l, NEW top \in Nat, ListOK(l, top), NEW msg, msg.command \in Words
  PROVE  LET r == DispatchedList(l, msg)
         IN  /\ ListOK(r, top) /\ Len(r) = Len(l)
             /\ \A i \in 1 .. Len(l) : r[i].kind = l[i].kind /\ r[i].expr = l[i].expr
<1>1. /\ l \in Lists(MatchSet) /\ Len(l) \in Nat /\ DOMAIN l = 1 .. Len(l)
      /\ \A i \in 1 .. Len(l) : l[i] \in MatchSet /\ l[i].id <= top /\ Defined(l[i])
      /\ \A i, j \in 1 .. Len(l) : i < j => Before(l[i], l[j])
      /\ \E i \in 1 .. Len(l) : IsUnknown(l[i])
  <2>1. l \in Lists(MatchSet)
    BY DEF ListOK
  <2>. QED BY <2>1, ListMatch DEF ListOK, Sorted
<1>2. PICK r : r = DispatchedList(l, msg)
  OBVIOUS
<1>3. PICK n \in Nat : n = Len(l)
  BY <1>1
<1>4. r = [i \in 1 .. n |-> IF i \in Executed(l, msg) THEN WithDefinition(l[i], msg) ELSE l[i]]
  BY <1>1, <1>2, <1>3 DEF DispatchedList
<1>5. ASSUME NEW i \in 1 .. n
      PROVE  /\ r[i] \in MatchSet /\ Defined(r[i])
             /\ r[i].expr = l[i].expr /\ r[i].kind = l[i].kind /\ r[i].priority = l[i].priority
             /\ r[i].tag = l[i].tag /\ r[i].id = l[i].id
  <2>1. CASE i \in Executed(l, msg)
    <3>1. MatchAny(l[i], msg)
      BY <2>1 DEF Executed
    <3>. QED BY <1>1, <1>3, <1>4, <2>1, <3>1, WithDefinitionOK
  <2>2. CASE i \notin Executed(l, msg)
    BY <1>1, <1>3, <1>4, <2>2
  <2>. QED BY <2>1, <2>2
<1>6. r \in Lists(MatchSet) /\ Len(r) = n
  <2>1. \A i \in 1 .. n : r[i] \in MatchSet
    BY <1>5
  <2>2. r = [i \in 1 .. n |-> r[i]]
    BY <1>4
  <2>. QED BY <2>1, <2>2 DEF Lists
<1>7. Sorted(r)
  BY <1>1, <1>3, <1>5, <1>6 DEF Sorted, Before
<1>8. \A i \in 1 .. Len(r) : r[i].id <= top /\ Defined(r[i])
  BY <1>1, <1>3, <1>5, <1>6
<1>9. \E i \in 1 .. Len(r) : IsUnknown(r[i])
  BY <1>1, <1>3, <1>5, <1>6 DEF IsUnknown, IsFor
<1>10. ListOK(r, top)
  BY <1>6, <1>7, <1>8, <1>9 DEF ListOK
<1>. QED BY <1>2, <1>3, <1>5, <1>6, <1>10

\* A command one of the matches is for is executed.
LEMMA KnownExecuted ==
  ASSUME NEW l \in Lists(MatchSet), NEW msg, NEW i \in 1 .. Len(l), IsFor(l[i], msg.command)
  PROVE  Executed(l, msg) # {}
<1>1. /\ Len(l) \in Nat /\ DOMAIN l = 1 .. Len(l)
      /\ \A k \in 1 .. Len(l) : l[k] \in MatchSet
  BY ListMatch
<1>. DEFINE S == {k \in 1 .. Len(l) : IsFor(l[k], msg.command)}
<1>2. S \in SUBSET Nat /\ i \in S
  BY <1>1
<1>3. PICK k \in S : \A j \in S : k <= j
  <2>. HIDE DEF S
  <2>. QED BY <1>2, Least
<1>4. \A j \in 1 .. k - 1 : j \in 1 .. Len(l) /\ j \notin S
  BY <1>1, <1>3
<1>5. \A j \in 1 .. k - 1 : ~MatchTrue(l[j], msg)
  BY <1>4 DEF IsFor, MatchTrue, one_to_one_match
<1>6. MatchAny(l[k], msg)
  <2>1. l[k] \in MatchSet /\ IsFor(l[k], msg.command)
    BY <1>1, <1>3
  <2>2. l[k].kind \in Kinds
    BY <2>1 DEF MatchSet
  <2>. QED BY <2>1, <2>2 DEF IsFor, Kinds, MatchAny, MatchTrue, one_to_one_match, one_to_one_callback_match
<1>7. k \in DOMAIN l
  BY <1>1, <1>3
<1>. QED BY <1>5, <1>6, <1>7 DEF Executed

\* The elements of a list by position.
LEMMA ToSetIs ==
  ASSUME NEW T, NEW l \in Lists(T)
  PROVE  ToSet(l) = {l[i] : i \in 1 .. Len(l)}
BY DEF Lists, ToSet

\* What dispatch() calls.
CalledBy(l, msg) == Kept(l, {i \in Executed(l, msg) : Runs(l[i], msg)})

\* The matches of one command it calls are those that are expected, and all
\* of them are called in their order.
ExpectedOf(l, msg) ==
    {e.id : e \in {m \in ToSet(l) :
        /\ m.kind # "callback" /\ m.expr = msg.command
        /\ check_parameters(get_message_definition(msg.command), msg.parameters)
        /\ ~\E d \in ToSet(l) :
              d.kind = "one_to_one" /\ d.expr = msg.command /\ Before(d, m)}}

\* The calls are those of the matches at some positions, which increase.
IsCalled(at, l, msg, called) ==
    /\ called \in Lists(MatchSet)
    /\ \A k \in 1 .. Len(called) : /\ at[k] \in 1 .. Len(l) /\ called[k] = l[at[k]]
                                   /\ MatchAny(l[at[k]], msg)
                                   /\ at[k] \in Executed(l, msg)
                                   /\ Runs(l[at[k]], msg)
    /\ \A j, k \in 1 .. Len(called) : j < k => at[j] < at[k]
    /\ \A i \in 1 .. Len(l) : i \in Executed(l, msg) /\ Runs(l[i], msg)
                                => \E k \in 1 .. Len(called) : at[k] = i

\* The calls of a dispatch are those of matches it executes, in order.
LEMMA CalledAt ==
  ASSUME NEW l \in Lists(MatchSet), NEW msg
  PROVE  \E at : IsCalled(at, l, msg, CalledBy(l, msg))
<1>. DEFINE S == {i \in Executed(l, msg) : Runs(l[i], msg)}
<1>1. PICK at, called : called = Kept(l, S) /\ called \in Lists(MatchSet) /\ IsKept(at, l, S, called)
  BY KeptAt
<1>2. CalledBy(l, msg) = called
  BY <1>1 DEF CalledBy
<1>3. \A i \in S : i \in Executed(l, msg) /\ Runs(l[i], msg) /\ MatchAny(l[i], msg)
  BY DEF Executed
<1>4. \A i : i \in Executed(l, msg) /\ Runs(l[i], msg) => i \in S
  OBVIOUS
<1>. HIDE DEF S
<1>5. /\ \A k \in 1 .. Len(called) : at[k] \in 1 .. Len(l) /\ at[k] \in S /\ called[k] = l[at[k]]
      /\ \A j, k \in 1 .. Len(called) : j < k => at[j] < at[k]
      /\ \A i \in 1 .. Len(l) : i \in S => \E k \in 1 .. Len(called) : at[k] = i
  BY <1>1 DEF IsKept
<1>6. IsCalled(at, l, msg, called)
  BY <1>1, <1>3, <1>4, <1>5 DEF IsCalled
<1>. QED BY <1>2, <1>6

\* The calls of a dispatch are the expected ones, in order.
LEMMA CalledRight ==
  ASSUME NEW l, NEW top \in Nat, ListOK(l, top), NEW msg, msg.command \in Words,
         NEW called, called = CalledBy(l, msg)
  PROVE  /\ {m.id : m \in {d \in ToSet(called) : d.kind # "callback"}} = ExpectedOf(l, msg)
         /\ \A i, j \in DOMAIN called : i < j => Before(called[i], called[j])
<1>1. /\ l \in Lists(MatchSet) /\ Len(l) \in Nat /\ DOMAIN l = 1 .. Len(l)
      /\ \A i \in 1 .. Len(l) : l[i] \in MatchSet /\ Defined(l[i])
      /\ \A i, j \in 1 .. Len(l) : i < j => Before(l[i], l[j])
  <2>1. l \in Lists(MatchSet)
    BY DEF ListOK
  <2>. QED BY <2>1, ListMatch DEF ListOK, Sorted
<1>2. PICK at : IsCalled(at, l, msg, called)
  BY <1>1, CalledAt
<1>3. /\ called \in Lists(MatchSet)
      /\ \A k \in 1 .. Len(called) : /\ at[k] \in 1 .. Len(l) /\ called[k] = l[at[k]]
                                     /\ MatchAny(l[at[k]], msg)
                                     /\ at[k] \in Executed(l, msg)
                                     /\ Runs(l[at[k]], msg)
      /\ \A j, k \in 1 .. Len(called) : j < k => at[j] < at[k]
      /\ \A i \in 1 .. Len(l) : i \in Executed(l, msg) /\ Runs(l[i], msg)
                                  => \E k \in 1 .. Len(called) : at[k] = i
  BY <1>2 DEF IsCalled
<1>4. DOMAIN called = 1 .. Len(called) /\ ToSet(called) = {called[k] : k \in 1 .. Len(called)}
      /\ ToSet(l) = {l[k] : k \in 1 .. Len(l)}
  BY <1>1, <1>3, ListMatch, ToSetIs
<1>5. \A i, j \in DOMAIN called : i < j => Before(called[i], called[j])
  BY <1>1, <1>3, <1>4
<1>. DEFINE Good == check_parameters(get_message_definition(msg.command), msg.parameters)
<1>6. ASSUME NEW i \in 1 .. Len(l), MatchAny(l[i], msg), l[i].kind # "callback"
      PROVE  l[i].expr = msg.command /\ (Runs(l[i], msg) <=> Good)
  <2>1. /\ l[i] \in MatchSet /\ Defined(l[i])
    BY <1>1
  <2>2. l[i].expr = msg.command /\ WithDefinition(l[i], msg).f_message_definition = msg.command
    BY <1>6, <2>1, WithDefinitionOK
  <2>. QED BY <2>2 DEF Runs
<1>7. ASSUME NEW i \in 1 .. Len(l), NEW j \in 1 .. Len(l) PROVE Before(l[j], l[i]) <=> j < i
  <2>1. l[i] \in MatchSet /\ l[j] \in MatchSet
    BY <1>1
  <2>2. j < i => Before(l[j], l[i])
    BY <1>1
  <2>3. i < j => Before(l[i], l[j])
    BY <1>1
  <2>4. i = j => ~Before(l[j], l[i])
    BY <2>1 DEF Before, MatchSet
  <2>5. Before(l[i], l[j]) => ~Before(l[j], l[i])
    BY <2>1 DEF Before, MatchSet
  <2>6. j < i \/ i < j \/ i = j
    OBVIOUS
  <2>7. i < j => ~(j < i)
    OBVIOUS
  <2>. QED BY <2>2, <2>3, <2>4, <2>5, <2>6, <2>7
<1>8. ASSUME NEW i \in 1 .. Len(l), l[i].kind # "callback"
      PROVE  i \in Executed(l, msg) <=>
                /\ l[i].expr = msg.command
                /\ ~\E d \in ToSet(l) : d.kind = "one_to_one" /\ d.expr = msg.command /\ Before(d, l[i])
  <2>1. MatchAny(l[i], msg) <=> l[i].expr = msg.command
    <3>1. l[i].kind \in Kinds
      BY <1>1 DEF MatchSet
    <3>. QED BY <1>8, <3>1
           DEF Kinds, MatchAny, MatchTrue, one_to_one_match, one_to_one_callback_match, callback_match
  <2>2. (\E d \in ToSet(l) : d.kind = "one_to_one" /\ d.expr = msg.command /\ Before(d, l[i]))
           <=> \E j \in 1 .. i - 1 : MatchTrue(l[j], msg)
    <3>1. \A j \in 1 .. i - 1 : j \in 1 .. Len(l) /\ j < i
      BY <1>1
    <3>2. \A j \in 1 .. Len(l) : j < i => j \in 1 .. i - 1
      BY <1>1
    <3>. QED BY <1>4, <1>7, <3>1, <3>2 DEF MatchTrue, one_to_one_match
  <2>3. i \in Executed(l, msg) <=> MatchAny(l[i], msg) /\ ~\E j \in 1 .. i - 1 : MatchTrue(l[j], msg)
    BY <1>1 DEF Executed
  <2>. QED BY <2>1, <2>2, <2>3
<1>9. ASSUME NEW m \in ToSet(called), m.kind # "callback" PROVE m.id \in ExpectedOf(l, msg)
  <2>1. PICK k \in 1 .. Len(called) : m = called[k]
    BY <1>4
  <2>2. PICK i \in 1 .. Len(l) : /\ m = l[i] /\ MatchAny(l[i], msg) /\ i \in Executed(l, msg)
                                 /\ Runs(l[i], msg)
    BY <1>3, <2>1
  <2>3. Good
    BY <1>6, <1>9, <2>2
  <2>4. m \in ToSet(l)
    BY <1>4, <2>2
  <2>5. m.expr = msg.command /\ ~\E d \in ToSet(l) :
              d.kind = "one_to_one" /\ d.expr = msg.command /\ Before(d, m)
    BY <1>8, <1>9, <2>2
  <2>. QED BY <1>9, <2>3, <2>4, <2>5 DEF ExpectedOf
<1>10. ASSUME NEW e \in ToSet(l), e.kind # "callback", e.expr = msg.command, Good,
              ~\E d \in ToSet(l) : d.kind = "one_to_one" /\ d.expr = msg.command /\ Before(d, e)
       PROVE  e \in ToSet(called)
  <2>1. PICK i \in 1 .. Len(l) : e = l[i]
    BY <1>4
  <2>2. i \in Executed(l, msg)
    BY <1>8, <1>10, <2>1
  <2>3. Runs(l[i], msg)
    <3>1. MatchAny(l[i], msg)
      BY <2>2 DEF Executed
    <3>. QED BY <1>6, <1>10, <2>1, <3>1
  <2>4. PICK k \in 1 .. Len(called) : at[k] = i
    BY <1>3, <2>2, <2>3
  <2>. QED BY <1>3, <1>4, <2>1, <2>4
<1>11. {m.id : m \in {d \in ToSet(called) : d.kind # "callback"}} = ExpectedOf(l, msg)
  <2>. DEFINE A == {d \in ToSet(called) : d.kind # "callback"}
              B == {m \in ToSet(l) : /\ m.kind # "callback" /\ m.expr = msg.command /\ Good
                                     /\ ~\E d \in ToSet(l) : d.kind = "one_to_one"
                                           /\ d.expr = msg.command /\ Before(d, m)}
  <2>1. ExpectedOf(l, msg) = {e.id : e \in B}
    BY DEF ExpectedOf
  <2>2. \A e \in B : e \in A
    BY <1>10
  <2>3. \A m \in A : m.id \in ExpectedOf(l, msg)
    BY <1>9
  <2>. HIDE DEF A, B
  <2>4. {m.id : m \in A} = ExpectedOf(l, msg)
    BY <2>1, <2>2, <2>3
  <2>. QED BY <2>4 DEF A
<1>. QED BY <1>5, <1>11

---------------------------------------------------------------------------
(***************************************************************************)
(* Lists of characters and the functions of the parser.                    *)
(***************************************************************************)

\* Where a text has the first of some characters.
LEMMA EndOfIn ==
  ASSUME NEW text \in Lists(Words), NEW i \in 1 .. Len(text) + 1, NEW stops
  PROVE  LET e == EndOf(text, i, stops)
         IN  /\ e \in i .. Len(text) + 1
             /\ \A k \in i .. e - 1 : text[k] \notin stops
             /\ e = Len(text) + 1 \/ text[e] \in stops
<1>0. PICK n \in Nat : n = Len(text)
  BY ListLen
<1>. DEFINE found == {k \in i .. n : text[k] \in stops}
<1>1. EndOf(text, i, stops) = IF found = {} THEN n + 1 ELSE Min(found)
  BY <1>0 DEF EndOf
<1>2. PICK e : e = EndOf(text, i, stops)
  OBVIOUS
<1>3. CASE found = {}
  <2>1. \A k \in i .. n : text[k] \notin stops
    BY <1>3
  <2>. QED BY <1>0, <1>1, <1>2, <1>3, <2>1
<1>4. CASE found # {}
  <2>1. found \in SUBSET Nat
    BY <1>0
  <2>2. e \in found /\ \A k \in found : e <= k
    <3>. HIDE DEF found
    <3>1. Min(found) \in found /\ \A k \in found : Min(found) <= k
      BY <1>4, <2>1, LeastIs
    <3>2. e = Min(found)
      BY <1>1, <1>2, <1>4
    <3>. QED BY <3>1, <3>2
  <2>3. e \in i .. n /\ text[e] \in stops
    BY <2>2
  <2>4. \A k \in i .. e - 1 : k \in i .. n /\ ~(e <= k)
    BY <2>3
  <2>5. \A k \in i .. e - 1 : text[k] \notin stops
    BY <2>2, <2>4
  <2>. HIDE DEF found
  <2>. QED BY <1>0, <1>2, <2>3, <2>5
<1>. QED BY <1>3, <1>4

\* EndOf() finds the first of the characters that end the search.
LEMMA EndOfAt ==
  ASSUME NEW text \in Lists(Words), NEW i \in 1 .. Len(text) + 1, NEW stops,
         NEW e \in i .. Len(text) + 1, \A k \in i .. e - 1 : text[k] \notin stops,
         e = Len(text) + 1 \/ text[e] \in stops
  PROVE  EndOf(text, i, stops) = e
<1>0. PICK n \in Nat : n = Len(text)
  BY ListLen
<1>1. PICK f : f = EndOf(text, i, stops)
  OBVIOUS
<1>2. /\ f \in i .. n + 1 /\ \A k \in i .. f - 1 : text[k] \notin stops
      /\ f = n + 1 \/ text[f] \in stops
  BY <1>0, <1>1, EndOfIn
<1>3. ~(f < e)
  <2>1. f < e => f \in i .. e - 1 /\ f # n + 1
    BY <1>0, <1>2
  <2>. QED BY <1>2, <2>1
<1>4. ~(e < f)
  <2>1. e < f => e \in i .. f - 1 /\ e # n + 1
    BY <1>0, <1>2
  <2>. QED BY <1>0, <1>2, <2>1
<1>. QED BY <1>0, <1>1, <1>2, <1>3, <1>4

\* A text that starts with no white space loses that at its end only.
LEMMA TrimIs ==
  ASSUME NEW text \in Lists(Words), Len(text) # 0, text[1] \notin White
  PROVE  \E e \in 1 .. Len(text) : /\ Trim(text) = Slice(text, 1, e) /\ text[e] \notin White
                                   /\ \A k \in e + 1 .. Len(text) : text[k] \in White
<1>0. PICK n \in Nat : n = Len(text) /\ DOMAIN text = 1 .. n /\ 1 <= n
  <2>1. PICK n \in Nat : n = Len(text) /\ DOMAIN text = 1 .. n
    BY ListElements
  <2>. QED BY <2>1
<1>. DEFINE used == {i \in 1 .. n : text[i] \notin White}
<1>1. used \in SUBSET Nat /\ used \in SUBSET (1 .. n) /\ 1 \in used
  BY <1>0
<1>2. Trim(text) = Slice(text, Min(used), Max(used))
  BY <1>0, <1>1 DEF Trim, Slice
<1>3. Max(used) \in used /\ \A k \in used : k <= Max(used)
  <2>. HIDE DEF used
  <2>1. 1 \in Int /\ n \in Int
    BY <1>0
  <2>. QED BY <1>1, <2>1, GreatestIs
<1>4. Min(used) \in used /\ \A k \in used : Min(used) <= k
  <2>. HIDE DEF used
  <2>. QED BY <1>1, LeastIs
<1>5. PICK a, e : a = Min(used) /\ e = Max(used)
  OBVIOUS
<1>6. /\ a \in 1 .. n /\ a <= 1 /\ e \in 1 .. n /\ text[e] \notin White
  BY <1>1, <1>3, <1>4, <1>5
<1>7. \A k \in e + 1 .. n : k \in 1 .. n /\ ~(k <= e)
  BY <1>6
<1>8. \A k \in used : k <= e
  <2>. HIDE DEF used
  <2>. QED BY <1>3, <1>5
<1>9. \A k \in e + 1 .. n : text[k] \in White
  BY <1>7, <1>8
<1>10. a = 1
  BY <1>6
<1>. HIDE DEF used
<1>. QED BY <1>0, <1>2, <1>5, <1>6, <1>9, <1>10

\* The names of parameters, each once.
LEMMA SetToSeqIs ==
  ASSUME NEW S, IsFiniteSet(S)
  PROVE  \E n \in Nat : /\ SetToSeq(S) \in [1 .. n -> S]
                        /\ \A i, j \in 1 .. n : SetToSeq(S)[i] = SetToSeq(S)[j] => i = j
                        /\ \A x \in S : \E i \in 1 .. n : SetToSeq(S)[i] = x
                        /\ n = 0 <=> S = {}
<1>1. PICK n \in Nat : n = Cardinality(S) /\ ExistsBijection(1 .. n, S)
  BY FS_CardinalityType
<1>2. PICK g \in [1 .. n -> S] : IsInjective(g)
  BY <1>1 DEF ExistsBijection, Bijection, Injection, IsInjective
<1>3. SetToSeq(S) = CHOOSE f \in [1 .. n -> S] : IsInjective(f)
  BY <1>1 DEF SetToSeq
<1>4. PICK f : f = SetToSeq(S) /\ f \in [1 .. n -> S] /\ IsInjective(f)
  BY <1>2, <1>3
<1>5. \A i, j \in 1 .. n : f[i] = f[j] => i = j
  BY <1>4 DEF IsInjective
<1>. DEFINE R == {f[i] : i \in 1 .. n}
<1>6. R = S
  <2>1. IsFiniteSet(1 .. n) /\ Cardinality(1 .. n) = n
    BY FS_Interval
  <2>2. f \in [1 .. n -> R] /\ R \subseteq S
    BY <1>4
  <2>3. f \in Bijection(1 .. n, R)
    BY <1>5, <2>2 DEF Bijection, Injection, Surjection, IsInjective
  <2>4. ExistsBijection(1 .. n, R)
    BY <2>3 DEF ExistsBijection
  <2>5. IsFiniteSet(R) /\ Cardinality(R) = n
    BY <2>1, <2>4, FS_Bijection
  <2>. HIDE DEF R
  <2>. QED BY <1>1, <2>2, <2>5, FS_Subset
<1>7. n = 0 <=> S = {}
  BY <1>1, FS_EmptySet
<1>8. \A x \in S : \E i \in 1 .. n : f[i] = x
  BY <1>6
<1>. QED BY <1>4, <1>5, <1>7, <1>8

\* One step of the search for the quote that ends a value.
Escaping(text, k) == text[k] = Backslash /\ k < Len(text) /\ text[k + 1] = Quote
QuotedNext(text, k) == IF Escaping(text, k) THEN k + 2 ELSE k + 1
QuotedChar(text, k) == IF Escaping(text, k) THEN Quote ELSE text[k]
QuotedEnds(text, k) == k > Len(text) \/ text[k] = Quote
QuotedEnd(text, k) == [end |-> IF k > Len(text) THEN 0 ELSE k + 1, value |-> <<>>]
Longer(c, x) == [end |-> x.end, value |-> Cat(Just(c), x.value)]
QuotedSet == [end : Int, value : Lists(Words)]

\* QuotedFrom() as one step of a recursion.
LEMMA QuotedStep ==
  ASSUME NEW text, NEW k, NEW f
  PROVE  QuotedFrom(text, k, f) =
           IF QuotedEnds(text, k) THEN QuotedEnd(text, k)
           ELSE Longer(QuotedChar(text, k), f[QuotedNext(text, k)])
BY DEF QuotedFrom, QuotedEnds, QuotedEnd, Longer, QuotedChar, QuotedNext, Escaping, Cat, Just

\* A value stays a value with one more character.
LEMMA LongerIn ==
  ASSUME NEW c \in Words, NEW x \in QuotedSet
  PROVE  Longer(c, x) \in QuotedSet /\ Longer(c, x).end = x.end
<1>1. x.end \in Int /\ x.value \in Lists(Words)
  BY DEF QuotedSet
<1>2. PICK v : v = Cat(Just(c), x.value) /\ v \in Lists(Words)
  BY <1>1, InFront
<1>3. Longer(c, x) = [end |-> x.end, value |-> v]
  BY <1>2 DEF Longer
<1>. QED BY <1>1, <1>2, <1>3 DEF QuotedSet

\* The search moves on and stays within the text.
LEMMA QuotedCharIn ==
  ASSUME NEW text \in Lists(Words), NEW k \in 1 .. Len(text) + 2, ~QuotedEnds(text, k)
  PROVE  /\ QuotedChar(text, k) \in Words
         /\ QuotedNext(text, k) \in k + 1 .. Len(text) + 2
         /\ k \in 1 .. Len(text)
<1>1. PICK n \in Nat : n = Len(text) /\ \A i \in 1 .. n : text[i] \in Words
  BY ListElements
<1>2. k \in 1 .. n
  BY <1>1 DEF QuotedEnds
<1>3. text[k] \in Words
  BY <1>1, <1>2
<1>4. Quote \in Words
  BY DEF Words, Specials, White
<1>5. QuotedNext(text, k) \in k + 1 .. n + 2
  BY <1>1, <1>2 DEF QuotedNext, Escaping
<1>. QED BY <1>1, <1>2, <1>3, <1>4, <1>5 DEF QuotedChar

IsQuoted(parse, text, start) ==
    /\ Quoted(text, start) = parse[start]
    /\ \A k \in start .. Len(text) + 2 :
          /\ parse[k] = QuotedFrom(text, k, parse)
          /\ parse[k] \in QuotedSet
          /\ parse[k].end = 0 \/ parse[k].end \in k + 1 .. Len(text) + 1

\* The recursive function Quoted() uses exists.
LEMMA QuotedParse ==
  ASSUME NEW text \in Lists(Words), NEW start \in 1 .. Len(text) + 2
  PROVE  \E parse : IsQuoted(parse, text, start)
<1>1. PICK n \in Nat : n = Len(text)
  BY ListLen
<1>2. PICK b \in Int : b = n + 2 /\ start \in Int /\ start <= b /\ 1 <= start
  BY <1>1
<1>. DEFINE stop == {k \in start .. b : QuotedEnds(text, k)}
            base == [k \in start .. b |-> QuotedEnd(text, k)]
            next == [k \in start .. b |-> QuotedNext(text, k)]
            Char(k) == IF k \in stop THEN Quote ELSE QuotedChar(text, k)
            G == [k \in start .. b |-> [x \in QuotedSet |-> Longer(Char(k), x)]]
<1>3. \A k \in start .. b : k \in 1 .. n + 2
  BY <1>1, <1>2
<1>4. \A k \in start .. b : QuotedEnd(text, k) \in QuotedSet /\ QuotedNext(text, k) \in Int
                            /\ QuotedEnd(text, k).end = IF k > n THEN 0 ELSE k + 1
  BY <1>1, <1>2, Empty DEF QuotedEnd, QuotedNext, QuotedSet
<1>5. base \in [start .. b -> QuotedSet] /\ next \in [start .. b -> Int]
  BY <1>4
<1>6. ASSUME NEW k \in (start .. b) \ stop PROVE next[k] \in k + 1 .. b
  <2>1. k \in start .. b /\ ~QuotedEnds(text, k) /\ k \in 1 .. Len(text) + 2
    BY <1>1, <1>3
  <2>2. next[k] = QuotedNext(text, k)
    BY <2>1
  <2>3. QuotedNext(text, k) \in k + 1 .. Len(text) + 2
    BY <2>1, QuotedCharIn
  <2>. QED BY <1>1, <1>2, <2>2, <2>3
<1>7. G \in [start .. b -> [QuotedSet -> QuotedSet]]
  <2>1. ASSUME NEW k \in start .. b PROVE Char(k) \in Words
    <3>1. CASE k \in stop
      BY <3>1 DEF Words, Specials, White
    <3>2. CASE k \notin stop
      <4>1. ~QuotedEnds(text, k) /\ k \in 1 .. Len(text) + 2
        BY <1>1, <1>3, <3>2
      <4>. QED BY <3>2, <4>1, QuotedCharIn
    <3>. QED BY <3>1, <3>2
  <2>. HIDE DEF Char
  <2>2. \A k \in start .. b : \A x \in QuotedSet : Longer(Char(k), x) \in QuotedSet
    BY <2>1, LongerIn
  <2>. QED BY <2>2
<1>8. PICK f \in [start .. b -> QuotedSet] :
        \A k \in start .. b : f[k] = IF k \in stop THEN base[k] ELSE G[k][f[next[k]]]
  <2>. HIDE DEF stop, base, next, G
  <2>1. \E f : IsRecursive(f, start, b, QuotedSet, stop, base, next, G)
    BY <1>2, <1>5, <1>6, <1>7, Recursion
  <2>. QED BY <2>1 DEF IsRecursive
<1>9. ASSUME NEW k \in start .. b PROVE f[k] = QuotedFrom(text, k, f)
  <2>1. CASE k \in stop
    BY <1>8, <2>1, QuotedStep
  <2>2. CASE k \notin stop
    <3>1. next[k] = QuotedNext(text, k) /\ next[k] \in k + 1 .. b
      BY <1>6, <2>2
    <3>2. f[next[k]] \in QuotedSet
      BY <1>2, <3>1
    <3>3. f[k] = G[k][f[next[k]]]
      BY <1>8, <2>2
    <3>4. f[k] = Longer(QuotedChar(text, k), f[next[k]])
      BY <2>2, <3>2, <3>3
    <3>. QED BY <2>2, <3>1, <3>4, QuotedStep
  <2>. QED BY <2>1, <2>2
<1>. DEFINE Def(g) == g = [k \in start .. Len(text) + 2 |-> QuotedFrom(text, k, g)]
            parse == CHOOSE parse : Def(parse)
<1>10. Quoted(text, start) = parse[start]
  BY DEF Quoted
<1>11. Def(parse)
  <2>1. Def(f)
    BY <1>1, <1>2, <1>9
  <2>. HIDE DEF Def
  <2>. QED BY <2>1
<1>. HIDE DEF parse
<1>12. \A k \in start .. b : parse[k] = QuotedFrom(text, k, parse)
  BY <1>1, <1>2, <1>11
<1>. DEFINE Good(k) == /\ parse[k] \in QuotedSet
                       /\ parse[k].end = 0 \/ parse[k].end \in k + 1 .. n + 1
            S == {k \in start .. b : Good(k)}
<1>13. ASSUME NEW k \in start .. b, \A m \in k + 1 .. b : m \in S PROVE k \in S
  <2>1. CASE QuotedEnds(text, k)
    <3>1. parse[k] = QuotedEnd(text, k)
      BY <1>12, <2>1, QuotedStep
    <3>2. parse[k] \in QuotedSet /\ parse[k].end = IF k > n THEN 0 ELSE k + 1
      BY <1>4, <3>1
    <3>3. parse[k].end = 0 \/ parse[k].end \in k + 1 .. n + 1
      BY <1>1, <1>2, <3>2
    <3>. QED BY <3>2, <3>3
  <2>2. CASE ~QuotedEnds(text, k)
    <3>1. PICK m : m = QuotedNext(text, k)
      OBVIOUS
    <3>2. m \in k + 1 .. b /\ QuotedChar(text, k) \in Words /\ k \in 1 .. n
      <4>1. k \in 1 .. Len(text) + 2
        BY <1>1, <1>3
      <4>. QED BY <1>1, <1>2, <2>2, <3>1, <4>1, QuotedCharIn
    <3>3. Good(m)
      BY <1>13, <3>2
    <3>4. parse[k] = Longer(QuotedChar(text, k), parse[m])
      BY <1>12, <2>2, <3>1, QuotedStep
    <3>5. parse[k] \in QuotedSet /\ parse[k].end = parse[m].end
      BY <3>2, <3>3, <3>4, LongerIn
    <3>6. parse[k].end = 0 \/ parse[k].end \in k + 1 .. n + 1
      BY <1>1, <3>2, <3>3, <3>5
    <3>. QED BY <3>5, <3>6
  <2>. QED BY <2>1, <2>2
<1>14. \A k \in start .. b : k \in S
  <2>. HIDE DEF S
  <2>. QED BY <1>2, <1>13, Downward
<1>15. \A k \in start .. b : Good(k)
  BY <1>14
<1>16. IsQuoted(parse, text, start)
  BY <1>1, <1>2, <1>10, <1>12, <1>15 DEF IsQuoted
<1>. QED BY <1>16

\* One step of the replacement of what was escaped.
Pair(value, k) ==
    value[k] = Backslash /\ k < Len(value) /\ value[k + 1] \in {Backslash, "n", "r"}
PairChar(c) == CASE c = "n" -> Newline [] c = "r" -> Return [] OTHER -> Backslash
UnescapeNext(value, k) == IF Pair(value, k) THEN k + 2 ELSE k + 1
UnescapeChar(value, k) == IF Pair(value, k) THEN PairChar(value[k + 1]) ELSE value[k]

\* UnescapeFrom() as one step of a recursion.
LEMMA UnescapeStep ==
  ASSUME NEW value, NEW k, NEW f
  PROVE  UnescapeFrom(value, k, f) =
           IF k > Len(value) THEN <<>>
           ELSE Cat(Just(UnescapeChar(value, k)), f[UnescapeNext(value, k)])
BY DEF UnescapeFrom, Pair, PairChar, UnescapeChar, UnescapeNext, Cat, Just

\* The replacement moves on and stays within the value.
LEMMA UnescapeCharIn ==
  ASSUME NEW value \in Lists(Words), NEW k \in 1 .. Len(value)
  PROVE  /\ UnescapeChar(value, k) \in Words
         /\ UnescapeNext(value, k) \in k + 1 .. Len(value) + 2
<1>1. PICK n \in Nat : n = Len(value) /\ \A i \in 1 .. n : value[i] \in Words
  BY ListElements
<1>2. value[k] \in Words
  BY <1>1
<1>3. \A c : PairChar(c) \in Words
  BY DEF PairChar, Words, Specials, White
<1>4. UnescapeNext(value, k) \in k + 1 .. n + 2
  BY <1>1 DEF UnescapeNext
<1>. QED BY <1>1, <1>2, <1>3, <1>4 DEF UnescapeChar

IsUnescape(replace, value) ==
    /\ Unescape(value) = replace[1]
    /\ \A k \in 1 .. Len(value) + 2 :
          replace[k] = UnescapeFrom(value, k, replace) /\ replace[k] \in Lists(Words)

\* The recursive function Unescape() uses exists.
LEMMA UnescapeParse ==
  ASSUME NEW value \in Lists(Words)
  PROVE  \E replace : IsUnescape(replace, value)
<1>1. PICK n \in Nat : n = Len(value)
  BY ListLen
<1>2. PICK b \in Int : b = n + 2 /\ 1 \in Int /\ 1 <= b
  BY <1>1
<1>. DEFINE X == Lists(Words)
            stop == {k \in 1 .. b : k > n}
            base == [k \in 1 .. b |-> <<>>]
            next == [k \in 1 .. b |-> IF k > n THEN 0 ELSE UnescapeNext(value, k)]
            Char(k) == IF k \in stop THEN Quote ELSE UnescapeChar(value, k)
            G == [k \in 1 .. b |-> [x \in X |-> Cat(Just(Char(k)), x)]]
<1>3. \A k \in 1 .. b : k \in stop \/ k \in 1 .. Len(value)
  BY <1>1, <1>2
<1>4. \A k \in 1 .. Len(value) : /\ UnescapeChar(value, k) \in Words
                                 /\ UnescapeNext(value, k) \in k + 1 .. b
                                 /\ UnescapeNext(value, k) \in Int
  BY <1>1, <1>2, UnescapeCharIn
<1>5. base \in [1 .. b -> X]
  <2>1. <<>> \in X
    BY Empty
  <2>. HIDE DEF X
  <2>. QED BY <2>1
<1>6. next \in [1 .. b -> Int] /\ \A k \in (1 .. b) \ stop : next[k] \in k + 1 .. b
  <2>1. \A k \in 1 .. b : next[k] = IF k > n THEN 0 ELSE UnescapeNext(value, k)
    OBVIOUS
  <2>2. \A k \in 1 .. b : k > n \/ k \in 1 .. Len(value)
    BY <1>1, <1>2
  <2>3. \A k \in 1 .. b : next[k] \in Int
    BY <1>4, <2>1, <2>2
  <2>4. \A k \in (1 .. b) \ stop : ~(k > n) /\ k \in 1 .. Len(value) /\ k \in 1 .. b
    BY <1>3
  <2>5. next = [k \in 1 .. b |-> next[k]]
    OBVIOUS
  <2>. HIDE DEF next, stop
  <2>. QED BY <1>4, <2>1, <2>3, <2>4, <2>5
<1>7. G \in [1 .. b -> [X -> X]]
  <2>1. ASSUME NEW k \in 1 .. b PROVE Char(k) \in Words
    <3>1. CASE k \in stop
      BY <3>1 DEF Words, Specials, White
    <3>2. CASE k \notin stop
      BY <1>3, <1>4, <3>2
    <3>. QED BY <3>1, <3>2
  <2>2. ASSUME NEW k \in 1 .. b, NEW x \in X PROVE Cat(Just(Char(k)), x) \in X
    <3>1. Char(k) \in Words
      BY <2>1
    <3>. HIDE DEF Char
    <3>. QED BY <3>1, InFront
  <2>. HIDE DEF Char, X
  <2>. QED BY <2>2
<1>8. PICK f \in [1 .. b -> X] :
        \A k \in 1 .. b : f[k] = IF k \in stop THEN base[k] ELSE G[k][f[next[k]]]
  <2>. HIDE DEF stop, base, next, G, X
  <2>1. \E f : IsRecursive(f, 1, b, X, stop, base, next, G)
    BY <1>2, <1>5, <1>6, <1>7, Recursion
  <2>. QED BY <2>1 DEF IsRecursive
<1>. HIDE DEF X
<1>9. ASSUME NEW k \in 1 .. b PROVE f[k] = UnescapeFrom(value, k, f)
  <2>1. CASE k \in stop
    BY <1>1, <1>8, <2>1, UnescapeStep
  <2>2. CASE k \notin stop
    <3>1. next[k] = UnescapeNext(value, k) /\ next[k] \in k + 1 .. b
      BY <1>6, <2>2
    <3>2. f[next[k]] \in X
      BY <1>2, <3>1
    <3>3. f[k] = G[k][f[next[k]]]
      BY <1>8, <2>2
    <3>4. f[k] = Cat(Just(UnescapeChar(value, k)), f[next[k]])
      BY <2>2, <3>2, <3>3
    <3>. QED BY <1>1, <2>2, <3>1, <3>4, UnescapeStep
  <2>. QED BY <2>1, <2>2
<1>. DEFINE Def(g) == g = [k \in 1 .. Len(value) + 2 |-> UnescapeFrom(value, k, g)]
            replace == CHOOSE replace : Def(replace)
<1>10. Unescape(value) = replace[1]
  BY DEF Unescape
<1>11. Def(replace)
  <2>1. Def(f)
    BY <1>1, <1>2, <1>9
  <2>. HIDE DEF Def
  <2>. QED BY <2>1
<1>. HIDE DEF replace
<1>12. \A k \in 1 .. b : replace[k] = UnescapeFrom(value, k, replace)
  BY <1>1, <1>2, <1>11
<1>. DEFINE S == {k \in 1 .. b : replace[k] \in Lists(Words)}
<1>13. ASSUME NEW k \in 1 .. b, \A m \in k + 1 .. b : m \in S PROVE k \in S
  <2>1. CASE k > n
    <3>1. replace[k] = <<>>
      BY <1>1, <1>12, <2>1, UnescapeStep
    <3>2. <<>> \in Lists(Words)
      BY Empty
    <3>. QED BY <3>1, <3>2
  <2>2. CASE ~(k > n)
    <3>1. PICK m : m = UnescapeNext(value, k)
      OBVIOUS
    <3>2. m \in k + 1 .. b /\ UnescapeChar(value, k) \in Words
      <4>1. k \in 1 .. Len(value)
        BY <1>1, <1>2, <2>2
      <4>. QED BY <1>4, <3>1, <4>1
    <3>3. replace[m] \in Lists(Words)
      BY <1>13, <3>2
    <3>4. replace[k] = Cat(Just(UnescapeChar(value, k)), replace[m])
      BY <1>1, <1>12, <2>2, <3>1, UnescapeStep
    <3>5. replace[k] \in Lists(Words)
      BY <3>2, <3>3, <3>4, InFront
    <3>. QED BY <3>5
  <2>. QED BY <2>1, <2>2
<1>14. \A k \in 1 .. b : k \in S
  <2>. HIDE DEF S
  <2>. QED BY <1>2, <1>13, Downward
<1>15. IsUnescape(replace, value)
  BY <1>1, <1>2, <1>10, <1>12, <1>14 DEF IsUnescape
<1>. QED BY <1>15

---------------------------------------------------------------------------
\* The value of a parameter ends in the text, or it is refused.
LEMMA ValueAtIn ==
  ASSUME NEW text \in Lists(Words), NEW equal \in 1 .. Len(text)
  PROVE  LET v == ValueAt(text, equal)
         IN  v \in QuotedSet /\ (v.end = 0 \/ v.end \in equal + 1 .. Len(text) + 1)
<1>1. PICK n \in Nat : n = Len(text) /\ equal \in 1 .. n
  BY ListLen
<1>2. PICK v : v = ValueAt(text, equal)
  OBVIOUS
<1>3. CASE equal < n /\ text[equal + 1] = Quote
  <2>1. PICK start \in 1 .. Len(text) + 2 : start = equal + 2
    BY <1>1, <1>3
  <2>2. PICK parse : IsQuoted(parse, text, start)
    BY QuotedParse
  <2>3. v = Quoted(text, start)
    BY <1>1, <1>2, <1>3, <2>1 DEF ValueAt
  <2>4. start \in start .. Len(text) + 2
    BY <1>1, <2>1
  <2>5. v \in QuotedSet /\ (v.end = 0 \/ v.end \in start + 1 .. n + 1)
    BY <1>1, <2>2, <2>3, <2>4 DEF IsQuoted
  <2>. QED BY <1>1, <1>2, <2>1, <2>5
<1>4. CASE ~(equal < n /\ text[equal + 1] = Quote)
  <2>1. PICK i \in 1 .. Len(text) + 1 : i = equal + 1
    BY <1>1
  <2>2. PICK e : e = EndOf(text, i, {Semicolon})
    OBVIOUS
  <2>3. e \in i .. n + 1
    BY <1>1, <2>2, EndOfIn
  <2>4. v = [end |-> e, value |-> Slice(text, i, e - 1)]
    BY <1>1, <1>2, <1>4, <2>1, <2>2 DEF ValueAt, Slice
  <2>5. PICK w : w = Slice(text, i, e - 1) /\ w \in Lists(Words)
    <3>1. PICK f \in Int : f = e - 1 /\ 1 <= i /\ i <= f + 1 /\ f <= Len(text) /\ i \in Int
      BY <1>1, <2>1, <2>3
    <3>. QED BY <3>1, Sliced
  <2>6. v \in QuotedSet /\ v.end = e
    <3>1. e \in Int
      BY <2>3
    <3>. QED BY <2>4, <2>5, <3>1 DEF QuotedSet
  <2>. QED BY <1>1, <1>2, <2>1, <2>3, <2>6
<1>. QED BY <1>3, <1>4

FiniteWords == {D \in SUBSET Words : IsFiniteSet(D)}
Params == UNION {[D -> Lists(Words)] : D \in FiniteWords}
ParsedSet == [ok : BOOLEAN, parameters : Params]

\* The parameters of a message: a function of finitely many names.
LEMMA ParamsAre ==
  ASSUME NEW p
  PROVE  p \in Params <=> /\ p = [n \in DOMAIN p |-> p[n]] /\ DOMAIN p \subseteq Words
                          /\ IsFiniteSet(DOMAIN p) /\ \A n \in DOMAIN p : p[n] \in Lists(Words)
<1>1. ASSUME p \in Params
      PROVE  /\ p = [n \in DOMAIN p |-> p[n]] /\ DOMAIN p \subseteq Words
             /\ IsFiniteSet(DOMAIN p) /\ \A n \in DOMAIN p : p[n] \in Lists(Words)
  <2>1. PICK D \in FiniteWords : p \in [D -> Lists(Words)]
    BY <1>1 DEF Params
  <2>2. D = DOMAIN p
    BY <2>1
  <2>3. D \subseteq Words /\ IsFiniteSet(D)
    BY DEF FiniteWords
  <2>. QED BY <2>1, <2>2, <2>3
<1>2. ASSUME /\ p = [n \in DOMAIN p |-> p[n]] /\ DOMAIN p \subseteq Words
             /\ IsFiniteSet(DOMAIN p) /\ \A n \in DOMAIN p : p[n] \in Lists(Words)
      PROVE  p \in Params
  <2>1. PICK D : D = DOMAIN p
    OBVIOUS
  <2>2. D \in FiniteWords
    BY <1>2, <2>1 DEF FiniteWords
  <2>3. p \in [D -> Lists(Words)]
    BY <1>2, <2>1
  <2>. QED BY <2>2, <2>3 DEF Params
<1>. QED BY <1>1, <1>2

\* No parameters are parameters.
LEMMA NoParametersIn == NoParameters \in Params
<1>1. DOMAIN NoParameters = {} /\ NoParameters = [n \in {} |-> NoParameters[n]]
  BY DEF NoParameters
<1>2. IsFiniteSet({})
  BY FS_EmptySet
<1>. QED BY <1>1, <1>2, ParamsAre

\* What Added() is.
LEMMA AddedIs ==
  ASSUME NEW f, NEW name, NEW value
  PROVE  /\ DOMAIN Added(f, name, value) = DOMAIN f \cup {name}
         /\ Added(f, name, value) = [n \in DOMAIN f \cup {name} |-> Added(f, name, value)[n]]
         /\ Added(f, name, value)[name] = value
         /\ \A n \in DOMAIN f : n # name => Added(f, name, value)[n] = f[n]
BY DEF Added

\* Parameters with one more are parameters.
LEMMA AddedIn ==
  ASSUME NEW p \in Params, NEW name \in Words, NEW value \in Lists(Words)
  PROVE  Added(p, name, value) \in Params
<1>1. PICK q : q = Added(p, name, value)
  OBVIOUS
<1>2. DOMAIN p \subseteq Words /\ IsFiniteSet(DOMAIN p) /\ \A n \in DOMAIN p : p[n] \in Lists(Words)
  BY ParamsAre
<1>3. /\ DOMAIN q = DOMAIN p \cup {name} /\ q = [n \in DOMAIN p \cup {name} |-> q[n]]
      /\ q[name] = value /\ \A n \in DOMAIN p : n # name => q[n] = p[n]
  BY <1>1 DEF Added
<1>4. IsFiniteSet(DOMAIN q)
  BY <1>2, <1>3, FS_AddElement
<1>5. \A n \in DOMAIN q : q[n] \in Lists(Words)
  BY <1>2, <1>3
<1>6. DOMAIN q \subseteq Words /\ q = [n \in DOMAIN q |-> q[n]]
  BY <1>2, <1>3
<1>. QED BY <1>1, <1>4, <1>5, <1>6, ParamsAre

---------------------------------------------------------------------------
\* One step of the parser of the parameters.
ValueOf(text, i) == ValueAt(text, EndOf(text, i, {Equal}))
Malformed(text, i) ==
    \/ EndOf(text, i, {Equal}) # i + 1 \/ text[i] \in Specials \/ EndOf(text, i, {Equal}) > Len(text)
    \/ ValueOf(text, i).end = 0
    \/ ValueOf(text, i).end <= Len(text) /\ text[ValueOf(text, i).end] # Semicolon
More(name, value, x) ==
    [ok |-> x.ok, parameters |-> IF name \in DOMAIN x.parameters THEN x.parameters
                                 ELSE Added(x.parameters, name, value)]
ParametersEnd(text, i) == [ok |-> IF i > Len(text) THEN TRUE ELSE FALSE, parameters |-> NoParameters]

\* ParametersFrom() as one step of a recursion.
LEMMA ParametersStep ==
  ASSUME NEW text \in Lists(Words), NEW i \in Nat, NEW f
  PROVE  ParametersFrom(text, i, f) =
           IF i > Len(text) \/ Malformed(text, i) THEN ParametersEnd(text, i)
           ELSE More(text[i], Unescape(ValueOf(text, i).value), f[ValueOf(text, i).end + 1])
<1>1. CASE i > Len(text)
  BY <1>1 DEF ParametersFrom, ParametersEnd
<1>2. CASE ~(i > Len(text)) /\ Malformed(text, i)
  <2>1. ParametersFrom(text, i, f) = [ok |-> FALSE, parameters |-> NoParameters]
    BY <1>2 DEF ParametersFrom, Malformed, ValueOf
  <2>. QED BY <1>2, <2>1 DEF ParametersEnd
<1>3. CASE ~(i > Len(text)) /\ ~Malformed(text, i)
  BY <1>3 DEF ParametersFrom, Malformed, ValueOf, More
<1>. QED BY <1>1, <1>2, <1>3

\* What is read stays well formed with one more parameter.
LEMMA MoreIn ==
  ASSUME NEW name \in Words, NEW value \in Lists(Words), NEW x \in ParsedSet
  PROVE  More(name, value, x) \in ParsedSet
<1>1. x.ok \in BOOLEAN /\ x.parameters \in Params
  BY DEF ParsedSet
<1>2. PICK q : q = IF name \in DOMAIN x.parameters THEN x.parameters
                   ELSE Added(x.parameters, name, value)
  OBVIOUS
<1>3. q \in Params
  BY <1>1, <1>2, AddedIn
<1>4. More(name, value, x) = [ok |-> x.ok, parameters |-> q]
  BY <1>2 DEF More
<1>. QED BY <1>1, <1>3, <1>4 DEF ParsedSet

\* A parameter that is well formed moves the parser on.
LEMMA WellFormedStep ==
  ASSUME NEW text \in Lists(Words), NEW i \in 1 .. Len(text), ~Malformed(text, i)
  PROVE  /\ text[i] \in Words /\ Unescape(ValueOf(text, i).value) \in Lists(Words)
         /\ ValueOf(text, i).end + 1 \in i + 1 .. Len(text) + 2
<1>1. PICK n \in Nat : n = Len(text) /\ \A k \in 1 .. n : text[k] \in Words
  BY ListElements
<1>2. PICK equal \in 1 .. n : equal = EndOf(text, i, {Equal}) /\ equal = i + 1
  BY <1>1 DEF Malformed
<1>3. PICK v : v = ValueOf(text, i)
  OBVIOUS
<1>4. v \in QuotedSet /\ (v.end = 0 \/ v.end \in equal + 1 .. n + 1)
  BY <1>1, <1>2, <1>3, ValueAtIn DEF ValueOf
<1>5. v.end # 0
  BY <1>3 DEF Malformed
<1>6. v.value \in Lists(Words)
  BY <1>4 DEF QuotedSet
<1>7. Unescape(v.value) \in Lists(Words)
  <2>1. PICK u : u = v.value /\ u \in Lists(Words)
    BY <1>6
  <2>2. PICK replace : IsUnescape(replace, u)
    BY <2>1, UnescapeParse
  <2>3. 1 \in 1 .. Len(u) + 2
    BY <2>1, ListLen
  <2>. QED BY <2>1, <2>2, <2>3 DEF IsUnescape
<1>8. v.end + 1 \in i + 1 .. n + 2
  BY <1>1, <1>2, <1>4, <1>5
<1>. QED BY <1>1, <1>3, <1>7, <1>8

IsParameters(parse, text, start) ==
    /\ Parameters(text, start) = parse[start]
    /\ \A i \in start .. Len(text) + 2 :
          parse[i] = ParametersFrom(text, i, parse) /\ parse[i] \in ParsedSet

\* The recursive function Parameters() uses exists.
LEMMA ParametersParse ==
  ASSUME NEW text \in Lists(Words), NEW start \in 1 .. Len(text) + 2
  PROVE  \E parse : IsParameters(parse, text, start)
<1>1. PICK n \in Nat : n = Len(text)
  BY ListLen
<1>2. PICK b \in Int : b = n + 2 /\ start \in Int /\ start <= b /\ 1 <= start
  BY <1>1
<1>. DEFINE Stops(k) == k > n \/ Malformed(text, k)
            stop == {k \in start .. b : Stops(k)}
            base == [k \in start .. b |-> ParametersEnd(text, k)]
            next == [k \in start .. b |-> IF Stops(k) THEN 0 ELSE ValueOf(text, k).end + 1]
            Step(k, x) == IF Stops(k) THEN x
                          ELSE More(text[k], Unescape(ValueOf(text, k).value), x)
            G == [k \in start .. b |-> [x \in ParsedSet |-> Step(k, x)]]
<1>3. \A k \in start .. b : ~Stops(k) => k \in 1 .. Len(text) /\ ~Malformed(text, k)
  BY <1>1, <1>2
<1>16. \A k \in start .. b : Stops(k) <=> k > Len(text) \/ Malformed(text, k)
  BY <1>1
<1>4. ASSUME NEW k \in start .. b, ~Stops(k)
      PROVE  /\ text[k] \in Words /\ Unescape(ValueOf(text, k).value) \in Lists(Words)
             /\ ValueOf(text, k).end + 1 \in k + 1 .. b /\ ValueOf(text, k).end + 1 \in Int
  <2>1. k \in 1 .. Len(text) /\ ~Malformed(text, k)
    BY <1>3, <1>4
  <2>. HIDE DEF Stops
  <2>2. ValueOf(text, k).end + 1 \in k + 1 .. Len(text) + 2
    BY <2>1, WellFormedStep
  <2>. QED BY <1>1, <1>2, <2>1, <2>2, WellFormedStep
<1>. HIDE DEF Stops
<1>5. base \in [start .. b -> ParsedSet]
  <2>2. \A k \in start .. b : ParametersEnd(text, k) \in ParsedSet
    BY NoParametersIn DEF ParametersEnd, ParsedSet
  <2>. QED BY <2>2
<1>6. next \in [start .. b -> Int] /\ \A k \in (start .. b) \ stop : next[k] \in k + 1 .. b
  <2>1. \A k \in start .. b : next[k] = IF Stops(k) THEN 0 ELSE ValueOf(text, k).end + 1
    OBVIOUS
  <2>2. \A k \in start .. b : next[k] \in Int
    BY <1>4, <2>1
  <2>3. \A k \in (start .. b) \ stop : ~Stops(k) /\ k \in start .. b
    OBVIOUS
  <2>4. next = [k \in start .. b |-> next[k]]
    OBVIOUS
  <2>. HIDE DEF next, stop
  <2>. QED BY <1>4, <2>1, <2>2, <2>3, <2>4
<1>7. G \in [start .. b -> [ParsedSet -> ParsedSet]]
  <2>2. ASSUME NEW k \in start .. b, NEW x \in ParsedSet PROVE Step(k, x) \in ParsedSet
    <3>1. CASE Stops(k)
      BY <3>1
    <3>2. CASE ~Stops(k)
      BY <1>4, <3>2, MoreIn
    <3>. QED BY <3>1, <3>2
  <2>. HIDE DEF Step
  <2>. QED BY <2>2
<1>8. PICK f \in [start .. b -> ParsedSet] :
        \A k \in start .. b : f[k] = IF k \in stop THEN base[k] ELSE G[k][f[next[k]]]
  <2>. HIDE DEF stop, base, next, G
  <2>1. \E f : IsRecursive(f, start, b, ParsedSet, stop, base, next, G)
    BY <1>2, <1>5, <1>6, <1>7, Recursion
  <2>. QED BY <2>1 DEF IsRecursive
<1>17. \A k \in start .. b : k \in Nat
  BY <1>2
<1>9. ASSUME NEW k \in start .. b PROVE f[k] = ParametersFrom(text, k, f)
  <2>1. CASE k \in stop
    <3>1. f[k] = ParametersEnd(text, k) /\ (k > Len(text) \/ Malformed(text, k))
      BY <1>8, <1>16, <2>1
    <3>. QED BY <1>17, <3>1, ParametersStep
  <2>2. CASE k \notin stop
    <3>1. next[k] = ValueOf(text, k).end + 1 /\ next[k] \in k + 1 .. b
      BY <1>6, <2>2
    <3>2. f[next[k]] \in ParsedSet
      BY <1>2, <3>1
    <3>3. f[k] = G[k][f[next[k]]]
      BY <1>8, <2>2
    <3>4. f[k] = More(text[k], Unescape(ValueOf(text, k).value), f[next[k]])
      BY <2>2, <3>2, <3>3
    <3>5. ~(k > Len(text) \/ Malformed(text, k))
      BY <1>16, <2>2
    <3>. QED BY <1>17, <3>1, <3>4, <3>5, ParametersStep
  <2>. QED BY <2>1, <2>2
<1>. DEFINE Def(g) == g = [i \in start .. Len(text) + 2 |-> ParametersFrom(text, i, g)]
            parse == CHOOSE parse : Def(parse)
<1>10. Parameters(text, start) = parse[start]
  BY DEF Parameters
<1>11. Def(parse)
  <2>1. Def(f)
    BY <1>1, <1>2, <1>9
  <2>. HIDE DEF Def
  <2>. QED BY <2>1
<1>. HIDE DEF parse
<1>12. \A k \in start .. b : parse[k] = ParametersFrom(text, k, parse)
  BY <1>1, <1>2, <1>11
<1>. DEFINE S == {k \in start .. b : parse[k] \in ParsedSet}
<1>13. ASSUME NEW k \in start .. b, \A m \in k + 1 .. b : m \in S PROVE k \in S
  <2>1. CASE Stops(k)
    <3>1. parse[k] = ParametersEnd(text, k)
      BY <1>12, <1>16, <1>17, <2>1, ParametersStep
    <3>2. ParametersEnd(text, k) = base[k] /\ base[k] \in ParsedSet
      <4>1. ParametersEnd(text, k) = base[k]
        OBVIOUS
      <4>. HIDE DEF base
      <4>. QED BY <1>5, <4>1
    <3>. QED BY <3>1, <3>2
  <2>2. CASE ~Stops(k)
    <3>1. PICK m : m = ValueOf(text, k).end + 1
      OBVIOUS
    <3>2. m \in k + 1 .. b /\ text[k] \in Words /\ Unescape(ValueOf(text, k).value) \in Lists(Words)
      BY <1>4, <2>2, <3>1
    <3>3. parse[m] \in ParsedSet
      BY <1>13, <3>2
    <3>4. parse[k] = More(text[k], Unescape(ValueOf(text, k).value), parse[m])
      BY <1>12, <1>16, <1>17, <2>2, <3>1, ParametersStep
    <3>5. parse[k] \in ParsedSet
      BY <3>2, <3>3, <3>4, MoreIn
    <3>. QED BY <3>5
  <2>. QED BY <2>1, <2>2
<1>14. \A k \in start .. b : k \in S
  <2>. HIDE DEF S
  <2>. QED BY <1>2, <1>13, Downward
<1>15. IsParameters(parse, text, start)
  BY <1>1, <1>2, <1>10, <1>12, <1>14 DEF IsParameters
<1>. QED BY <1>15

\* The characters that are escaped differ from those that stand for them.
LEMMA Characters ==
  /\ Backslash # Quote /\ Backslash # Newline /\ Backslash # Return /\ Newline # Return
  /\ Quote # Newline /\ Quote # Return /\ "n" # Backslash /\ "r" # Backslash /\ "n" # "r"
  /\ "n" # Quote /\ "r" # Quote
BY Zenon DEF Backslash, Quote, Newline, Return

\* A character is replaced by a backslash and a second one, or stays.
Doubled(c, quote) == c \in {Backslash, Newline, Return} \/ (c = Quote /\ quote)
Second(c) == CASE c = Newline -> "n" [] c = Return -> "r" [] OTHER -> c

\* What one character becomes when it is escaped.
LEMMA EscapeIs ==
  ASSUME NEW c \in Words, NEW quote \in BOOLEAN
  PROVE  /\ Escape(c, quote) \in Lists(Words)
         /\ Doubled(c, quote) => /\ Len(Escape(c, quote)) = 2 /\ Escape(c, quote)[1] = Backslash
                                 /\ Escape(c, quote)[2] = Second(c)
         /\ ~Doubled(c, quote) => Len(Escape(c, quote)) = 1 /\ Escape(c, quote)[1] = c
<1>1. /\ Backslash \in Words /\ "n" \in Words /\ "r" \in Words /\ Quote \in Words
  BY DEF Words, Specials, White
<1>2. \A a, b \in Words : /\ <<a, b>> \in Lists(Words) /\ Len(<<a, b>>) = 2
                          /\ <<a, b>>[1] = a /\ <<a, b>>[2] = b
  BY DEF Lists
<1>3. CASE c = Backslash
  <2>1. Escape(c, quote) = <<Backslash, Backslash>>
    BY <1>3, Characters DEF Escape
  <2>2. Doubled(c, quote) /\ Second(c) = Backslash
    BY <1>3, Characters DEF Doubled, Second
  <2>. QED BY <1>1, <1>2, <2>1, <2>2
<1>4. CASE c = Newline
  <2>1. Escape(c, quote) = <<Backslash, "n">>
    BY <1>4, Characters DEF Escape
  <2>2. Doubled(c, quote) /\ Second(c) = "n"
    BY <1>4, Characters DEF Doubled, Second
  <2>. QED BY <1>1, <1>2, <2>1, <2>2
<1>5. CASE c = Return
  <2>1. Escape(c, quote) = <<Backslash, "r">>
    BY <1>5, Characters DEF Escape
  <2>2. Doubled(c, quote) /\ Second(c) = "r"
    BY <1>5, Characters DEF Doubled, Second
  <2>. QED BY <1>1, <1>2, <2>1, <2>2
<1>6. CASE c = Quote /\ quote
  <2>1. Escape(c, quote) = <<Backslash, Quote>>
    BY <1>6, Characters DEF Escape
  <2>2. Doubled(c, quote) /\ Second(c) = Quote
    BY <1>6, Characters DEF Doubled, Second
  <2>. QED BY <1>1, <1>2, <2>1, <2>2
<1>7. CASE c \notin {Backslash, Newline, Return} /\ ~(c = Quote /\ quote)
  <2>1. Escape(c, quote) = <<c>>
    BY <1>7 DEF Escape
  <2>2. ~Doubled(c, quote)
    BY <1>7 DEF Doubled
  <2>. QED BY <2>1, <2>2, Single
<1>. QED BY <1>3, <1>4, <1>5, <1>6, <1>7

\* Where each character of a value is in what replaces it.
IsEscaped(o, v, quote, flat) ==
    /\ o \in [0 .. Len(v) -> Nat] /\ o[0] = 0 /\ Len(flat) = o[Len(v)]
    /\ \A i \in 0 .. Len(v) : o[i] <= o[Len(v)]
    /\ \A i \in 1 .. Len(v) :
          /\ Doubled(v[i], quote) => /\ o[i] = o[i - 1] + 2
                                     /\ flat[o[i - 1] + 1] = Backslash
                                     /\ flat[o[i - 1] + 2] = Second(v[i])
          /\ ~Doubled(v[i], quote) => o[i] = o[i - 1] + 1 /\ flat[o[i - 1] + 1] = v[i]

\* The text of a value is the text of its characters, one after the other.
LEMMA EscapedAt ==
  ASSUME NEW v \in Lists(Words), NEW quote \in BOOLEAN
  PROVE  /\ Escaped(v, quote) \in Lists(Words)
         /\ \E o : IsEscaped(o, v, quote, Escaped(v, quote))
<1>1. PICK n \in Nat : n = Len(v) /\ DOMAIN v = 1 .. n /\ \A i \in 1 .. n : v[i] \in Words
  BY ListElements
<1>. DEFINE s == [i \in 1 .. n |-> Escape(v[i], quote)]
<1>2. \A i \in 1 .. n : s[i] = Escape(v[i], quote) /\ Escape(v[i], quote) \in Lists(Words)
  BY <1>1, EscapeIs
<1>3. s \in [1 .. n -> Lists(Words)]
  <2>1. s = [i \in 1 .. n |-> s[i]]
    OBVIOUS
  <2>. HIDE DEF s
  <2>. QED BY <1>2, <2>1
<1>4. Escaped(v, quote) = FlattenSeq(s)
  BY <1>1 DEF Escaped
<1>. HIDE DEF s
<1>5. PICK o : FlattenSeq(s) \in Lists(Words) /\ Offsets(o, n, s, FlattenSeq(s))
  BY <1>3, FlattenOffsets
<1>6. PICK flat : flat = Escaped(v, quote) /\ flat \in Lists(Words) /\ Offsets(o, n, s, flat)
  BY <1>4, <1>5
<1>7. /\ o \in [0 .. n -> Nat] /\ o[0] = 0 /\ Len(flat) = o[n] /\ \A i \in 0 .. n : o[i] <= o[n]
  BY <1>6 DEF Offsets
<1>8. ASSUME NEW i \in 1 .. n
      PROVE  /\ Doubled(v[i], quote) => /\ o[i] = o[i - 1] + 2
                                        /\ flat[o[i - 1] + 1] = Backslash
                                        /\ flat[o[i - 1] + 2] = Second(v[i])
             /\ ~Doubled(v[i], quote) => o[i] = o[i - 1] + 1 /\ flat[o[i - 1] + 1] = v[i]
  <2>1. o[i] = o[i - 1] + Len(s[i]) /\ \A k \in 1 .. Len(s[i]) : flat[o[i - 1] + k] = s[i][k]
    BY <1>6 DEF Offsets
  <2>2. PICK e : e = s[i] /\ e = Escape(v[i], quote) /\ v[i] \in Words
    BY <1>1, <1>2
  <2>3. CASE Doubled(v[i], quote)
    <3>1. Len(e) = 2 /\ e[1] = Backslash /\ e[2] = Second(v[i])
      BY <2>2, <2>3, EscapeIs
    <3>2. 1 \in 1 .. Len(s[i]) /\ 2 \in 1 .. Len(s[i])
      BY <2>2, <3>1
    <3>. QED BY <2>1, <2>2, <2>3, <3>1, <3>2
  <2>4. CASE ~Doubled(v[i], quote)
    <3>1. Len(e) = 1 /\ e[1] = v[i]
      BY <2>2, <2>4, EscapeIs
    <3>2. 1 \in 1 .. Len(s[i])
      BY <2>2, <3>1
    <3>. QED BY <2>1, <2>2, <2>4, <3>1, <3>2
  <2>. QED BY <2>3, <2>4
<1>9. IsEscaped(o, v, quote, flat)
  BY <1>1, <1>7, <1>8 DEF IsEscaped
<1>. QED BY <1>6, <1>9

\* What was escaped is read back.
LEMMA UnescapeEscaped ==
  ASSUME NEW v \in Lists(Words)
  PROVE  Unescape(Escaped(v, FALSE)) = v
<1>1. PICK n \in Nat : n = Len(v) /\ \A i \in 1 .. n : v[i] \in Words
  BY ListElements
<1>2. PICK u, o : u = Escaped(v, FALSE) /\ u \in Lists(Words) /\ IsEscaped(o, v, FALSE, u)
  BY EscapedAt
<1>3. /\ o \in [0 .. n -> Nat] /\ o[0] = 0 /\ Len(u) = o[n]
      /\ \A i \in 0 .. n : o[i] <= o[n]
  BY <1>1, <1>2 DEF IsEscaped
<1>4. PICK replace : IsUnescape(replace, u)
  BY <1>2, UnescapeParse
<1>5. /\ Unescape(u) = replace[1]
      /\ \A k \in 1 .. o[n] + 2 : replace[k] = UnescapeFrom(u, k, replace)
  BY <1>3, <1>4 DEF IsUnescape
<1>. DEFINE S == {i \in 0 .. n : replace[o[i] + 1] = Slice(v, i + 1, n)}
<1>6. ASSUME NEW i \in 0 .. n, \A j \in i + 1 .. n : j \in S PROVE i \in S
  <2>0. o[i] \in Nat /\ o[n] \in Nat /\ o[i] <= o[n] /\ o[i] + 1 \in 1 .. o[n] + 2
    BY <1>3
  <2>1. CASE i = n
    <3>1. replace[o[n] + 1] = <<>>
      BY <1>3, <1>5, <2>0, <2>1, UnescapeStep
    <3>2. Slice(v, n + 1, n) = <<>>
      BY <1>1, SuffixEnd
    <3>. QED BY <2>1, <3>1, <3>2
  <2>2. CASE i # n
    <3>1. PICK j \in 1 .. n : j = i + 1 /\ j - 1 = i /\ j \in i + 1 .. n /\ j \in 0 .. n
      BY <2>2
    <3>2. PICK k \in Nat : k = o[i] + 1 /\ k \in 1 .. o[n] + 2
      BY <2>0
    <3>3. replace[o[j] + 1] = Slice(v, j + 1, n) /\ o[j] \in Nat /\ o[j] <= o[n]
      BY <1>3, <1>6, <3>1
    <3>4. /\ Doubled(v[j], FALSE) => o[j] = o[i] + 2 /\ u[k] = Backslash /\ u[o[i] + 2] = Second(v[j])
          /\ ~Doubled(v[j], FALSE) => o[j] = o[i] + 1 /\ u[k] = v[j]
      BY <1>1, <1>2, <3>1, <3>2 DEF IsEscaped
    <3>5. UnescapeChar(u, k) = v[j] /\ UnescapeNext(u, k) = o[j] + 1 /\ ~(k > Len(u))
      <4>1. CASE Doubled(v[j], FALSE)
        <5>1. k + 1 = o[i] + 2 /\ k < Len(u)
          BY <1>3, <2>0, <3>2, <3>3, <3>4, <4>1
        <5>2. u[k + 1] = Second(v[j])
          BY <3>4, <4>1, <5>1
        <5>3. v[j] \in {Backslash, Newline, Return}
          BY <4>1 DEF Doubled
        <5>4. Second(v[j]) \in {Backslash, "n", "r"} /\ PairChar(Second(v[j])) = v[j]
          BY <5>3, Characters DEF Second, PairChar
        <5>5. Pair(u, k)
          BY <3>4, <4>1, <5>1, <5>2, <5>4 DEF Pair
        <5>6. k + 2 = o[j] + 1
          BY <3>2, <3>4, <4>1, <2>0
        <5>7. ~(k > Len(u))
          BY <1>3, <2>0, <3>2, <5>1
        <5>. QED BY <5>2, <5>4, <5>5, <5>6, <5>7 DEF UnescapeChar, UnescapeNext
      <4>2. CASE ~Doubled(v[j], FALSE)
        <5>1. v[j] # Backslash
          BY <4>2 DEF Doubled
        <5>2. ~Pair(u, k) /\ u[k] = v[j]
          BY <3>4, <4>2, <5>1 DEF Pair
        <5>3. k + 1 = o[j] + 1 /\ ~(k > Len(u))
          BY <1>3, <2>0, <3>2, <3>3, <3>4, <4>2
        <5>. QED BY <5>2, <5>3 DEF UnescapeChar, UnescapeNext
      <4>. QED BY <4>1, <4>2
    <3>6. replace[k] = Cat(Just(v[j]), Slice(v, j + 1, n))
      <4>1. replace[k] = UnescapeFrom(u, k, replace)
        BY <1>5, <3>2
      <4>. QED BY <3>3, <3>5, <4>1, UnescapeStep
    <3>7. Slice(v, j, n) = Cat(Just(v[j]), Slice(v, j + 1, n))
      BY <1>1, Suffix
    <3>. QED BY <3>1, <3>2, <3>6, <3>7
  <2>. QED BY <2>1, <2>2
<1>7. \A i \in 0 .. n : i \in S
  <2>. HIDE DEF S
  <2>1. 0 \in Int /\ n \in Int
    OBVIOUS
  <2>. QED BY <1>6, <2>1, Downward
<1>8. replace[o[0] + 1] = Slice(v, 0 + 1, n)
  BY <1>7
<1>9. replace[1] = Slice(v, 1, n)
  BY <1>3, <1>8
<1>. QED BY <1>1, <1>2, <1>5, <1>9, WholeSlice

---------------------------------------------------------------------------
(***************************************************************************)
(* The header of a message.                                                *)
(***************************************************************************)

\* A text has a value in quotes from some position on.
HasQuoted(text, start, v) ==
    LET u == Escaped(v, TRUE)
    IN  /\ start + Len(u) <= Len(text)
        /\ \A k \in 1 .. Len(u) : text[start + k - 1] = u[k]
        /\ text[start + Len(u)] = Quote

\* The quote that ends the value is found, and the quotes in it are unescaped.
LEMMA QuotedEscaped ==
  ASSUME NEW text \in Lists(Words), NEW start \in Nat \ {0}, NEW v \in Lists(Words),
         HasQuoted(text, start, v), Len(v) # 0, v[Len(v)] # Backslash
  PROVE  Quoted(text, start) = [end |-> start + Len(Escaped(v, TRUE)) + 1,
                                value |-> Escaped(v, FALSE)]
<1>1. PICK n \in Nat : n = Len(v) /\ \A i \in 1 .. n : v[i] \in Words
  BY ListElements
<1>2. PICK u, o : u = Escaped(v, TRUE) /\ u \in Lists(Words) /\ IsEscaped(o, v, TRUE, u)
  BY EscapedAt
<1>3. PICK w, p : w = Escaped(v, FALSE) /\ w \in Lists(Words) /\ IsEscaped(p, v, FALSE, w)
  BY EscapedAt
<1>4. /\ o \in [0 .. n -> Nat] /\ o[0] = 0 /\ Len(u) = o[n] /\ \A i \in 0 .. n : o[i] <= o[n]
  BY <1>1, <1>2 DEF IsEscaped
<1>5. /\ p \in [0 .. n -> Nat] /\ p[0] = 0 /\ Len(w) = p[n] /\ \A i \in 0 .. n : p[i] <= p[n]
  BY <1>1, <1>3 DEF IsEscaped
<1>6. PICK m \in Nat, q \in Nat, l \in Nat : m = o[n] /\ q = p[n] /\ l = Len(text)
                                                /\ 1 <= start
  BY <1>4, <1>5, ListLen
<1>20. l = Len(text) /\ 1 <= start
  BY <1>6
<1>21. \A i \in 0 .. n : o[i] \in Nat /\ o[i] <= m /\ p[i] \in Nat /\ p[i] <= q
  BY <1>4, <1>5, <1>6
<1>7. /\ start + m <= l /\ text[start + m] = Quote
      /\ \A k \in 1 .. m : text[start + k - 1] = u[k]
  BY <1>2, <1>4, <1>6 DEF HasQuoted
<1>8. PICK parse : IsQuoted(parse, text, start)
  <2>1. start \in 1 .. Len(text) + 2
    BY <1>6, <1>7
  <2>. QED BY <2>1, QuotedParse
<1>9. /\ Quoted(text, start) = parse[start]
      /\ \A k \in start .. l + 2 : parse[k] = QuotedFrom(text, k, parse)
  BY <1>6, <1>8 DEF IsQuoted
<1>10. ASSUME NEW i \in 1 .. n
       PROVE  /\ Doubled(v[i], TRUE) => /\ o[i] = o[i - 1] + 2
                                        /\ text[start + o[i - 1]] = Backslash
                                        /\ text[start + o[i - 1] + 1] = Second(v[i])
              /\ ~Doubled(v[i], TRUE) => o[i] = o[i - 1] + 1 /\ text[start + o[i - 1]] = v[i]
  <2>1. o[i] \in Nat /\ o[i - 1] \in Nat /\ o[i] <= m
    BY <1>4, <1>6
  <2>2. /\ Doubled(v[i], TRUE) => /\ o[i] = o[i - 1] + 2
                                  /\ u[o[i - 1] + 1] = Backslash /\ u[o[i - 1] + 2] = Second(v[i])
        /\ ~Doubled(v[i], TRUE) => o[i] = o[i - 1] + 1 /\ u[o[i - 1] + 1] = v[i]
    BY <1>1, <1>2 DEF IsEscaped
  <2>3. CASE Doubled(v[i], TRUE)
    <3>0. PICK x \in Nat : x = o[i - 1] /\ x + 2 <= m
      BY <2>1, <2>2, <2>3
    <3>4. x + 2 <= m
      BY <3>0
    <3>3. /\ x + 1 \in 1 .. m /\ x + 2 \in 1 .. m
          /\ start + (x + 1) - 1 = start + x
          /\ start + (x + 2) - 1 = start + x + 1
      BY <3>4
    <3>1. /\ o[i - 1] + 1 \in 1 .. m /\ o[i - 1] + 2 \in 1 .. m
          /\ start + (o[i - 1] + 1) - 1 = start + o[i - 1]
          /\ start + (o[i - 1] + 2) - 1 = start + o[i - 1] + 1
      BY <3>0, <3>3
    <3>2. /\ text[start + (o[i - 1] + 1) - 1] = u[o[i - 1] + 1]
          /\ text[start + (o[i - 1] + 2) - 1] = u[o[i - 1] + 2]
      BY <1>7, <3>1
    <3>. QED BY <2>2, <2>3, <3>1, <3>2
  <2>4. CASE ~Doubled(v[i], TRUE)
    <3>0. PICK x \in Nat : x = o[i - 1] /\ x + 1 <= m
      BY <2>1, <2>2, <2>4
    <3>3. x + 1 \in 1 .. m /\ start + (x + 1) - 1 = start + x
      BY <1>20, <3>0
    <3>1. /\ o[i - 1] + 1 \in 1 .. m /\ start + (o[i - 1] + 1) - 1 = start + o[i - 1]
      BY <3>0, <3>3
    <3>2. text[start + (o[i - 1] + 1) - 1] = u[o[i - 1] + 1]
      BY <1>7, <3>1
    <3>. QED BY <2>2, <2>4, <3>1, <3>2
  <2>. QED BY <2>3, <2>4
<1>. DEFINE Rest(i) == [end |-> start + m + 1, value |-> Slice(w, p[i] + 1, q)]
            S == {i \in 0 .. n : parse[start + o[i]] = Rest(i)}
<1>11. ASSUME NEW i \in 0 .. n, \A j \in i + 1 .. n : j \in S PROVE i \in S
  <2>0. PICK k \in Nat : k = start + o[i] /\ o[i] \in Nat /\ o[i] <= m /\ p[i] \in Nat /\ p[i] <= q
    BY <1>20, <1>21
  <2>1. k \in start .. l + 2 /\ k \in 1 .. l /\ ~(k > Len(text))
    <3>1. PICK x \in Nat : k = start + x /\ x <= m
      BY <2>0
    <3>. QED BY <1>7, <1>20, <3>1
  <2>2. parse[k] = QuotedFrom(text, k, parse)
    BY <1>9, <2>1
  <2>3. CASE i = n
    <3>1. text[k] = Quote
      BY <1>6, <1>7, <2>0, <2>3
    <3>2. parse[k] = QuotedEnd(text, k)
      BY <2>2, <3>1, QuotedStep DEF QuotedEnds
    <3>3. QuotedEnd(text, k) = [end |-> k + 1, value |-> <<>>]
      BY <2>1 DEF QuotedEnd
    <3>4. Slice(w, q + 1, q) = <<>>
      BY <1>3, <1>5, <1>6, SuffixEnd
    <3>5. k + 1 = start + m + 1 /\ p[i] = q
      BY <1>6, <2>0, <2>3
    <3>. QED BY <2>0, <3>2, <3>3, <3>4, <3>5
  <2>4. CASE i # n
    <3>1. PICK j \in 1 .. n : j = i + 1 /\ j - 1 = i /\ j \in i + 1 .. n /\ j \in 0 .. n
      BY <2>4
    <3>2. /\ parse[start + o[j]] = Rest(j) /\ o[j] \in Nat /\ o[j] <= m /\ p[j] \in Nat /\ p[j] <= q
      BY <1>11, <1>21, <3>1
    <3>9. PICK x \in Nat, y \in Nat, a \in Nat, b \in Nat :
              /\ x = o[i] /\ y = o[j] /\ a = p[i] /\ b = p[j]
              /\ k = start + x /\ y <= m /\ b <= q
      BY <2>0, <3>2
    <3>11. PICK z : /\ z = parse[start + o[j]] /\ z.end = start + m + 1
                    /\ z.value = Slice(w, p[j] + 1, q)
      BY <3>2
    <3>10. k = start + x /\ y <= m /\ b <= q
      BY <3>9
    <3>3. /\ Doubled(v[j], TRUE) => /\ o[j] = o[i] + 2 /\ text[k] = Backslash
                                    /\ text[k + 1] = Second(v[j])
          /\ ~Doubled(v[j], TRUE) => o[j] = o[i] + 1 /\ text[k] = v[j]
      BY <1>10, <2>0, <3>1
    <3>4. /\ Doubled(v[j], FALSE) => /\ p[j] = p[i] + 2 /\ w[p[i] + 1] = Backslash
                                     /\ w[p[i] + 2] = Second(v[j])
          /\ ~Doubled(v[j], FALSE) => p[j] = p[i] + 1 /\ w[p[i] + 1] = v[j]
      BY <1>1, <1>3, <3>1 DEF IsEscaped
    <3>5. CASE ~Doubled(v[j], TRUE)
      <4>1. ~Doubled(v[j], FALSE) /\ v[j] # Backslash /\ v[j] # Quote
        BY <3>5 DEF Doubled
      <4>2. ~QuotedEnds(text, k) /\ ~Escaping(text, k)
        BY <2>1, <3>3, <3>5, <4>1 DEF QuotedEnds, Escaping
      <4>3. parse[k] = Longer(v[j], parse[k + 1])
        BY <2>2, <3>3, <3>5, <4>2, QuotedStep DEF QuotedChar, QuotedNext
      <4>6. y = x + 1 /\ b = a + 1 /\ w[a + 1] = v[j]
        BY <3>3, <3>4, <3>5, <3>9, <4>1
      <4>8. y = x + 1 /\ b = a + 1
        BY <4>6
      <4>7. k + 1 = start + y /\ a + 1 \in 1 .. q
        BY <3>10, <4>8
      <4>4. k + 1 = start + o[j] /\ p[i] + 1 \in 1 .. q /\ w[p[i] + 1] = v[j] /\ p[j] = p[i] + 1
        BY <3>9, <4>6, <4>7
      <4>5. Slice(w, p[i] + 1, q) = Cat(Just(v[j]), Slice(w, p[j] + 1, q))
        BY <1>3, <1>5, <1>6, <4>4, Suffix
      <4>9. Longer(v[j], z) = Rest(i)
        BY <3>11, <4>5 DEF Longer
      <4>10. parse[start + o[i]] = Longer(v[j], z)
        BY <2>0, <3>11, <4>3, <4>4
      <4>. QED BY <4>9, <4>10
    <3>6. CASE v[j] = Quote
      <4>1. Doubled(v[j], TRUE) /\ ~Doubled(v[j], FALSE) /\ Second(v[j]) = Quote
        BY <3>6, Characters DEF Doubled, Second
      <4>7. y = x + 2 /\ b = a + 1 /\ w[a + 1] = v[j]
        BY <3>3, <3>4, <3>9, <4>1
      <4>2. k < Len(text) /\ k + 2 = start + o[j]
        <5>1. y = x + 2 /\ b = a + 1 /\ start + m <= l
          BY <1>7, <4>7
        <5>2. k < l /\ k + 2 = start + y
          BY <3>10, <5>1
        <5>. QED BY <1>20, <3>9, <5>2
      <4>3. ~QuotedEnds(text, k) /\ Escaping(text, k)
        BY <2>1, <3>3, <4>1, <4>2, Characters DEF QuotedEnds, Escaping
      <4>4. parse[k] = Longer(v[j], parse[k + 2])
        BY <2>2, <3>6, <4>3, QuotedStep DEF QuotedChar, QuotedNext
      <4>5. p[i] + 1 \in 1 .. q /\ w[p[i] + 1] = v[j] /\ p[j] = p[i] + 1
        BY <3>9, <4>7
      <4>6. Slice(w, p[i] + 1, q) = Cat(Just(v[j]), Slice(w, p[j] + 1, q))
        BY <1>3, <1>5, <1>6, <4>5, Suffix
      <4>9. Longer(v[j], z) = Rest(i)
        BY <3>11, <4>6 DEF Longer
      <4>10. parse[start + o[i]] = Longer(v[j], z)
        BY <2>0, <3>11, <4>2, <4>4
      <4>. QED BY <4>9, <4>10
    <3>7. CASE v[j] \in {Backslash, Newline, Return}
      <4>1. /\ Doubled(v[j], TRUE) /\ Doubled(v[j], FALSE) /\ Second(v[j]) # Quote
            /\ v[j] # Backslash => Second(v[j]) # Backslash
        BY <3>7, Characters DEF Doubled, Second
      <4>2. PICK k1 \in Nat : k1 = k + 1 /\ k1 + 1 = start + o[j] /\ k1 \in start .. l + 2 /\ k1 \in 1 .. l
        <5>1. y = x + 2
          BY <3>3, <3>9, <4>1
        <5>2. start + m <= l
          BY <1>7
        <5>3. (k + 1) + 1 = start + y /\ k + 1 \in start .. l + 2 /\ k + 1 \in 1 .. l /\ k + 1 \in Nat
          BY <3>10, <5>1, <5>2
        <5>. QED BY <3>9, <5>3
      <4>3. ~QuotedEnds(text, k) /\ ~Escaping(text, k)
        BY <2>1, <3>3, <4>1, Characters DEF QuotedEnds, Escaping
      <4>4. parse[k] = Longer(Backslash, parse[k1])
        BY <2>2, <3>3, <4>1, <4>2, <4>3, QuotedStep DEF QuotedChar, QuotedNext
      <4>5. text[k1] = Backslash => text[k1 + 1] # Quote
        <5>1. CASE v[j] # Backslash
          BY <3>3, <4>1, <4>2, <5>1
        <5>2. CASE v[j] = Backslash
          <6>1. j # n
            BY <1>1, <5>2
          <6>2. PICK h \in 1 .. n : h = j + 1 /\ h - 1 = j
            BY <6>1
          <6>3. /\ Doubled(v[h], TRUE) => text[start + o[j]] = Backslash
                /\ ~Doubled(v[h], TRUE) => text[start + o[j]] = v[h]
            BY <1>10, <6>2
          <6>4. ~Doubled(v[h], TRUE) => v[h] # Quote
            BY DEF Doubled
          <6>. QED BY <4>2, <6>3, <6>4, Characters
        <5>. QED BY <5>1, <5>2
      <4>6. ~QuotedEnds(text, k1) /\ ~Escaping(text, k1) /\ text[k1] = Second(v[j])
        BY <1>6, <3>3, <4>1, <4>2, <4>5 DEF QuotedEnds, Escaping
      <4>7. parse[k1] = Longer(Second(v[j]), parse[k1 + 1])
        <5>1. parse[k1] = QuotedFrom(text, k1, parse)
          BY <1>9, <4>2
        <5>. QED BY <4>6, <5>1, QuotedStep DEF QuotedChar, QuotedNext
      <4>8. PICK c \in 1 .. q, d \in 1 .. q : /\ c = p[i] + 1 /\ d = c + 1 /\ w[c] = Backslash
                                              /\ w[d] = Second(v[j]) /\ d + 1 = p[j] + 1
        <5>1. b = a + 2 /\ w[a + 1] = Backslash /\ w[a + 2] = Second(v[j])
          BY <3>4, <3>9, <4>1
        <5>3. b = a + 2 /\ b <= q
          BY <3>10, <5>1
        <5>2. a + 1 \in 1 .. q /\ a + 2 \in 1 .. q /\ (a + 1) + 1 = a + 2 /\ (a + 2) + 1 = b + 1
          BY <5>3
        <5>. QED BY <3>9, <5>1, <5>2
      <4>9. Slice(w, c, q) = Cat(Just(Backslash), Slice(w, d, q))
        BY <1>3, <1>5, <1>6, <4>8, Suffix
      <4>10. Slice(w, d, q) = Cat(Just(Second(v[j])), Slice(w, p[j] + 1, q))
        BY <1>3, <1>5, <1>6, <4>8, Suffix
      <4>11. parse[k1] = [end |-> start + m + 1, value |-> Slice(w, d, q)]
        <5>1. Longer(Second(v[j]), z) = [end |-> start + m + 1, value |-> Slice(w, d, q)]
          BY <3>11, <4>10 DEF Longer
        <5>. QED BY <3>11, <4>2, <4>7, <5>1
      <4>12. Longer(Backslash, parse[k1]) = [end |-> start + m + 1, value |-> Slice(w, c, q)]
        BY <4>9, <4>11 DEF Longer
      <4>13. parse[start + o[i]] = [end |-> start + m + 1, value |-> Slice(w, p[i] + 1, q)]
        BY <2>0, <4>4, <4>8, <4>12
      <4>. QED BY <4>13
    <3>8. Doubled(v[j], TRUE) => v[j] = Quote \/ v[j] \in {Backslash, Newline, Return}
      BY DEF Doubled
    <3>. HIDE DEF S
    <3>. QED BY <3>5, <3>6, <3>7, <3>8
  <2>. HIDE DEF S
  <2>. QED BY <2>3, <2>4
<1>12. \A i \in 0 .. n : i \in S
  <2>. HIDE DEF S
  <2>1. 0 \in Int /\ n \in Int
    OBVIOUS
  <2>. QED BY <1>11, <2>1, Downward
<1>13. parse[start + o[0]] = Rest(0)
  BY <1>12
<1>14. Slice(w, 1, q) = w
  BY <1>3, <1>5, <1>6, WholeSlice
<1>15. parse[start] = [end |-> start + m + 1, value |-> w]
  BY <1>4, <1>5, <1>13, <1>14
<1>. QED BY <1>2, <1>3, <1>4, <1>6, <1>9, <1>15

\* The names of a message, empty or not, and the messages that are sent.
Plain == Words \ Specials
MessageSet == [sent_from_server : Plain, sent_from_service : Plain, server : Plain,
               service : Plain, command : Plain, parameters : Params]
GoodMessage(m) ==
    /\ m \in MessageSet /\ m.command # None
    /\ m.server # None => m.service # None
    /\ DOMAIN m.parameters \subseteq Plain

\* The characters that may be lost at the end of a text.
Lost == White \cup {Nul}

\* The separators differ from each other; some are never lost.
LEMMA Separators ==
  /\ Less \in Specials /\ Colon \in Specials /\ Slash \in Specials /\ Blank \in Specials
  /\ Equal \in Specials /\ Semicolon \in Specials /\ Lost \subseteq Specials
  /\ Less \notin Lost /\ Colon \notin Lost /\ Slash \notin Lost /\ Equal \notin Lost
  /\ Blank \in Lost /\ Blank # Nul /\ Semicolon # Nul /\ Nul \in Lost
  /\ Less # Colon /\ Less # Blank /\ Less # Slash /\ Colon # Blank /\ Colon # Slash
  /\ Slash # Blank /\ Equal # Blank /\ Semicolon # Blank /\ Semicolon # Equal
<1>1. /\ Less \notin Lost /\ Colon \notin Lost /\ Slash \notin Lost /\ Equal \notin Lost
      /\ Blank # Nul /\ Semicolon # Nul
  BY Zenon DEF Lost, White, Less, Colon, Slash, Blank, Tab, Newline, Return, Nul, Equal, Semicolon
<1>2. /\ Less # Colon /\ Less # Blank /\ Less # Slash /\ Colon # Blank /\ Colon # Slash
      /\ Slash # Blank /\ Equal # Blank /\ Semicolon # Blank /\ Semicolon # Equal
  BY Zenon DEF Less, Colon, Slash, Blank, Equal, Semicolon
<1>. QED BY <1>1, <1>2 DEF Specials, Lost, White

\* Separators and names are words; names are not separators.
LEMMA SeparatorWords ==
  /\ Less \in Words /\ Colon \in Words /\ Slash \in Words /\ Blank \in Words
  /\ Equal \in Words /\ Semicolon \in Words /\ Quote \in Words /\ Backslash \in Words
  /\ \A n \in Plain : n \in Words /\ n \notin Specials
BY Separators DEF Words, Plain, Specials, White

\* The text for the sender of a message: where the colon is, and the names.
IsSender(s, m, c) ==
    /\ s \in Lists(Words)
    /\ IF m.sent_from_server = None /\ m.sent_from_service = None THEN Len(s) = 0
       ELSE /\ c = (IF m.sent_from_server = None THEN 2 ELSE 3)
            /\ Len(s) = (IF m.sent_from_service = None THEN c + 1 ELSE c + 2)
            /\ s[1] = Less /\ s[c] = Colon /\ s[Len(s)] = Blank
            /\ m.sent_from_server # None => s[2] = m.sent_from_server
            /\ m.sent_from_service # None => s[c + 1] = m.sent_from_service

\* What the text says of the sender.
LEMMA SenderIs ==
  ASSUME NEW m, m \in MessageSet
  PROVE  \E c \in {2, 3} : IsSender(Sender(m), m, c)
<1>1. PICK a, b : /\ a = m.sent_from_server /\ b = m.sent_from_service /\ a \in Words /\ b \in Words
  BY SeparatorWords DEF MessageSet
<1>2. CASE a = None /\ b = None
  <2>1. Sender(m) = <<>>
    BY <1>1, <1>2 DEF Sender
  <2>2. IsSender(Sender(m), m, 2)
    BY <1>1, <1>2, <2>1, Empty DEF IsSender
  <2>. QED BY <2>2
<1>3. CASE a = None /\ b # None
  <2>1. Sender(m) = <<Less, Colon, b, Blank>>
    BY <1>1, <1>3 DEF Sender
  <2>2. PICK s : s = <<Less, Colon, b, Blank>>
    OBVIOUS
  <2>3. s \in Lists(Words) /\ Len(s) = 4 /\ s[1] = Less /\ s[2] = Colon /\ s[3] = b /\ s[4] = Blank
    BY <1>1, <2>2, SeparatorWords DEF Lists
  <2>4. IsSender(s, m, 2)
    BY <1>1, <1>3, <2>3 DEF IsSender
  <2>. QED BY <2>1, <2>2, <2>4
<1>4. CASE a # None /\ b = None
  <2>1. Sender(m) = <<Less, a, Colon, Blank>>
    BY <1>1, <1>4, <1>1 DEF Sender
  <2>2. PICK s : s = <<Less, a, Colon, Blank>>
    OBVIOUS
  <2>3. s \in Lists(Words) /\ Len(s) = 4 /\ s[1] = Less /\ s[2] = a /\ s[3] = Colon /\ s[4] = Blank
    BY <1>1, <2>2, SeparatorWords DEF Lists
  <2>4. IsSender(s, m, 3)
    BY <1>1, <1>4, <2>3 DEF IsSender
  <2>. QED BY <2>1, <2>2, <2>4
<1>5. CASE a # None /\ b # None
  <2>1. Sender(m) = <<Less, a, Colon, b, Blank>>
    BY <1>1, <1>5, <1>1 DEF Sender
  <2>2. PICK s : s = <<Less, a, Colon, b, Blank>>
    OBVIOUS
  <2>3. /\ s \in Lists(Words) /\ Len(s) = 5 /\ s[1] = Less /\ s[2] = a /\ s[3] = Colon
        /\ s[4] = b /\ s[5] = Blank
    BY <1>1, <2>2, SeparatorWords DEF Lists
  <2>4. IsSender(s, m, 3)
    BY <1>1, <1>5, <2>3 DEF IsSender
  <2>. QED BY <2>1, <2>2, <2>4
<1>. QED BY <1>2, <1>3, <1>4, <1>5

\* Nothing of the sender ends a text, and its first character is not white.
LEMMA SenderKept ==
  ASSUME NEW m, m \in MessageSet
  PROVE  /\ Len(Sender(m)) # 0 => Sender(m)[1] \notin Lost
         /\ \A k \in 1 .. Len(Sender(m)) : Sender(m)[k] # Nul
<1>0. PICK s : s = Sender(m)
  OBVIOUS
<1>1. PICK c \in {2, 3} : s = Sender(m) /\ IsSender(s, m, c)
  BY <1>0, SenderIs
<1>2. PICK a, b : /\ a = m.sent_from_server /\ b = m.sent_from_service
                  /\ a \notin Specials /\ b \notin Specials
  BY SeparatorWords DEF MessageSet
<1>3. PICK l \in Nat : l = Len(s)
  BY <1>1, ListLen DEF IsSender
<1>4. CASE a = None /\ b = None
  BY <1>1, <1>2, <1>4 DEF IsSender
<1>5. CASE ~(a = None /\ b = None)
  <2>1. /\ c = (IF a = None THEN 2 ELSE 3) /\ l = (IF b = None THEN c + 1 ELSE c + 2)
        /\ s[1] = Less /\ s[c] = Colon /\ s[l] = Blank
        /\ a # None => s[2] = a
        /\ b # None => s[c + 1] = b
    BY <1>1, <1>2, <1>3, <1>5 DEF IsSender
  <2>2. /\ Less # Nul /\ Colon # Nul /\ Blank # Nul /\ a # Nul /\ b # Nul /\ Less \notin Lost
    BY <1>2, Separators
  <2>3. ASSUME NEW k \in 1 .. l PROVE s[k] # Nul
    <3>1. k = 1 \/ k = c \/ k = l \/ (k = 2 /\ a # None) \/ (k = c + 1 /\ b # None)
      BY <2>1
    <3>. QED BY <2>1, <2>2, <3>1
  <2>. QED BY <1>1, <1>3, <2>1, <2>2, <2>3
<1>. QED BY <1>4, <1>5

\* The text for the recipient is read back.
Addressed(m) ==
    [sent_from_server |-> None, sent_from_service |-> None, server |-> m.server,
     service |-> m.service, command |-> m.command, parameters |-> NoParameters]
IsRecipient(d, m) ==
    /\ d \in Lists(Words) /\ Len(d) \in Nat \ {0}
    /\ d[1] # Less /\ \A k \in 1 .. Len(d) : d[k] \notin Lost
    /\ Destination(d) = Addressed(m)

\* What the text says of the recipient.
LEMMA RecipientIs ==
  ASSUME NEW m, GoodMessage(m)
  PROVE  IsRecipient(Recipient(m), m)
<1>1. PICK a, b, c : /\ a = m.server /\ b = m.service /\ c = m.command
                     /\ a \in Words \ Specials /\ b \in Words \ Specials /\ c \in Words \ Specials
                     /\ a # None => b # None
  BY SeparatorWords DEF GoodMessage, MessageSet
<1>2. Less \in Specials /\ Slash \in Specials /\ Colon \in Specials /\ Lost \subseteq Specials
      /\ Slash \notin Lost /\ Colon \notin Lost /\ Slash # Colon /\ Slash \in Words /\ Colon \in Words
  BY Separators, SeparatorWords
<1>7. a \notin {Colon, Slash} /\ b \notin {Colon, Slash} /\ c \notin {Colon, Slash}
  BY <1>1, <1>2
<1>6. PICK d : d = Recipient(m)
  OBVIOUS
<1>3. CASE b = None
  <2>0. a = None
    BY <1>1, <1>3
  <2>1. d = <<c>>
    BY <1>1, <1>3, <1>6 DEF Recipient
  <2>2. d \in Lists(Words) /\ Len(d) = 1 /\ DOMAIN d = 1 .. 1 /\ d[1] = c
    BY <1>1, <2>1 DEF Lists
  <2>3. ~\E i \in DOMAIN d : (i % 2 = 1) = (d[i] \in {Colon, Slash})
    BY <1>7, <2>2
  <2>4. Destination(d) = [EmptyMessage EXCEPT !.command = c]
    BY <2>2, <2>3 DEF Destination
  <2>5. Destination(d) = Addressed(m)
    BY <1>1, <1>3, <2>0, <2>4 DEF EmptyMessage, Addressed
  <2>. QED BY <1>1, <1>2, <1>6, <2>2, <2>5 DEF IsRecipient
<1>4. CASE b # None /\ a = None
  <2>1. d = <<b, Slash, c>>
    BY <1>1, <1>4, <1>6 DEF Recipient
  <2>2. d \in Lists(Words) /\ Len(d) = 3 /\ DOMAIN d = 1 .. 3 /\ d[1] = b /\ d[2] = Slash /\ d[3] = c
    BY <1>1, <1>2, <2>1 DEF Lists
  <2>3. ~\E i \in DOMAIN d : (i % 2 = 1) = (d[i] \in {Colon, Slash})
    <3>1. ASSUME NEW i \in 1 .. 3 PROVE (i % 2 = 1) <=> (d[i] \notin {Colon, Slash})
      BY <1>7, <2>2
    <3>. QED BY <2>2, <3>1
  <2>4. Destination(d) = [EmptyMessage EXCEPT !.service = b, !.command = c]
    BY <1>2, <2>2, <2>3 DEF Destination
  <2>5. Destination(d) = Addressed(m)
    BY <1>1, <1>4, <2>4 DEF EmptyMessage, Addressed
  <2>6. \A k \in 1 .. Len(d) : d[k] \notin Lost
    BY <1>1, <1>2, <2>2
  <2>. QED BY <1>1, <1>2, <1>6, <2>2, <2>5, <2>6 DEF IsRecipient
<1>5. CASE b # None /\ a # None
  <2>1. d = <<a, Colon, b, Slash, c>>
    BY <1>1, <1>5, <1>6 DEF Recipient
  <2>2. /\ d \in Lists(Words) /\ Len(d) = 5 /\ DOMAIN d = 1 .. 5
        /\ d[1] = a /\ d[2] = Colon /\ d[3] = b /\ d[4] = Slash /\ d[5] = c
    BY <1>1, <1>2, <2>1 DEF Lists
  <2>3. ~\E i \in DOMAIN d : (i % 2 = 1) = (d[i] \in {Colon, Slash})
    <3>1. ASSUME NEW i \in 1 .. 5 PROVE (i % 2 = 1) <=> (d[i] \notin {Colon, Slash})
      BY <1>7, <2>2
    <3>. QED BY <2>2, <3>1
  <2>4. Destination(d) = [EmptyMessage EXCEPT !.server = a, !.service = b, !.command = c]
    BY <1>2, <2>2, <2>3 DEF Destination
  <2>5. Destination(d) = Addressed(m)
    BY <1>1, <1>5, <2>4 DEF EmptyMessage, Addressed
  <2>6. \A k \in 1 .. Len(d) : d[k] \notin Lost
    BY <1>1, <1>2, <2>2
  <2>. QED BY <1>1, <1>2, <1>6, <2>2, <2>5, <2>6 DEF IsRecipient
<1>. QED BY <1>3, <1>4, <1>5

WithHeader(d, p, server, service) ==
    [sent_from_server |-> server, sent_from_service |-> service, server |-> d.server,
     service |-> d.service, command |-> d.command, parameters |-> p]

Result(d, p, server, service) ==
    IF ~p.ok THEN Refused ELSE WithHeader(d, p.parameters, server, service)

\* What Parsed() makes of a text without a sender and of one with a sender.
LEMMA ParsedPlain ==
  ASSUME NEW t \in Lists(Words), Len(t) # 0, t[1] # Less,
         NEW space, space = EndOf(t, 1, {Blank}),
         NEW d, d = Destination(Slice(t, 1, space - 1)), d # Refused,
         NEW p, p = Parameters(t, space + 1)
  PROVE  Parsed(t) = Result(d, p, None, None)
BY DEF Parsed, Slice, Result, WithHeader

HasSender(t, colon, blank, space, d, p, f, g) ==
    /\ t \in Lists(Words) /\ Len(t) # 0 /\ t[1] = Less
    /\ colon = EndOf(t, 2, {Colon, Blank}) /\ t[colon] # Blank
    /\ blank = EndOf(t, 1, {Blank}) /\ ~(blank > Len(t))
    /\ space = EndOf(t, blank + 1, {Blank})
    /\ d = Destination(Slice(t, blank + 1, space - 1)) /\ d # Refused
    /\ p = Parameters(t, space + 1)
    /\ f = (IF colon = 3 THEN t[2] ELSE None)
    /\ g = (IF blank = colon + 2 THEN t[colon + 1] ELSE None)

\* from_string() of a text that starts with a sender.
LEMMA ParsedSender ==
  ASSUME NEW t, NEW colon, NEW blank, NEW space, NEW d, NEW p, NEW f, NEW g,
         HasSender(t, colon, blank, space, d, p, f, g)
  PROVE  Parsed(t) = Result(d, p, f, g)
<1>1. t # <<>>
  BY EmptyIs DEF HasSender
<1>. QED BY <1>1 DEF HasSender, Parsed, Slice, Result, WithHeader

\* A text that starts with the header of a message.
HeaderLen(m) == Len(Sender(m)) + Len(Recipient(m))
IsHeader(t, m) ==
    /\ t \in Lists(Words) /\ HeaderLen(m) <= Len(t)
    /\ \A k \in 1 .. Len(Sender(m)) : t[k] = Sender(m)[k]
    /\ \A k \in 1 .. Len(Recipient(m)) : t[Len(Sender(m)) + k] = Recipient(m)[k]
    /\ HeaderLen(m) = Len(t) \/ t[HeaderLen(m) + 1] = Blank

\* The recipient and the command are those of the message.
LEMMA AddressedIs ==
  ASSUME NEW m, GoodMessage(m)
  PROVE  /\ Addressed(m) # Refused
         /\ Addressed(m).server = m.server /\ Addressed(m).service = m.service
         /\ Addressed(m).command = m.command
<1>1. m \in MessageSet /\ m.command # None
  BY DEF GoodMessage
<1>2. Addressed(m).command = m.command /\ Refused.command = None
  BY DEF Addressed, Refused, EmptyMessage
<1>. QED BY <1>1, <1>2 DEF Addressed

\* The recipient, between the sender and the blank that ends the header.
LEMMA RecipientRead ==
  ASSUME NEW m, GoodMessage(m), NEW t, IsHeader(t, m)
  PROVE  LET a == Len(Sender(m)) + 1
         IN  /\ EndOf(t, a, {Blank}) = HeaderLen(m) + 1
             /\ Destination(Slice(t, a, HeaderLen(m))) = Addressed(m)
             /\ t[a] # Less /\ t[a] # Blank
             /\ HeaderLen(m) \in Nat /\ a \in 1 .. HeaderLen(m)
<1>1. PICK d : d = Recipient(m) /\ IsRecipient(d, m)
  BY RecipientIs
<1>2. PICK s : s = Sender(m) /\ s \in Lists(Words)
  BY SenderIs DEF IsSender, GoodMessage
<1>3. PICK L \in Nat, D \in Nat, n \in Nat : L = Len(s) /\ D = Len(d) /\ n = Len(t) /\ D # 0
  <2>1. t \in Lists(Words)
    BY DEF IsHeader
  <2>. QED BY <1>1, <1>2, <2>1, ListLen DEF IsRecipient
<1>4. HeaderLen(m) = L + D /\ L + D <= n /\ t \in Lists(Words) /\ (L + D = n \/ t[L + D + 1] = Blank)
  BY <1>1, <1>2, <1>3 DEF IsHeader, HeaderLen
<1>5. /\ d \in Lists(Words) /\ d[1] # Less /\ \A k \in 1 .. D : d[k] # Blank
      /\ Destination(d) = Addressed(m)
  BY <1>1, <1>3, Separators DEF IsRecipient
<1>6. \A k \in 1 .. D : t[L + k] = d[k]
  BY <1>1, <1>2, <1>3 DEF IsHeader
<1>7. ASSUME NEW k \in L + 1 .. L + D PROVE t[k] # Blank
  <2>1. PICK j \in 1 .. D : k = L + j
    <3>1. k - L \in 1 .. D /\ k = L + (k - L)
      BY <1>3
    <3>. QED BY <3>1
  <2>. QED BY <1>5, <1>6, <2>1
<1>8. EndOf(t, L + 1, {Blank}) = L + D + 1
  <2>1. /\ L + 1 \in 1 .. n + 1 /\ L + D + 1 \in L + 1 .. n + 1 /\ L + D + 1 - 1 = L + D
        /\ L + D + 1 = n + 1 \/ t[L + D + 1] \in {Blank}
    BY <1>3, <1>4
  <2>2. \A k \in L + 1 .. L + D + 1 - 1 : t[k] \notin {Blank}
    BY <1>7, <2>1
  <2>. QED BY <1>3, <1>4, <2>1, <2>2, EndOfAt
<1>9. Slice(t, L + 1, L + D) = d
  <2>1. PICK w : w = Slice(t, L + 1, L + D)
    OBVIOUS
  <2>2. L + 1 \in Int /\ L + D \in Int /\ 1 <= L + 1 /\ L + 1 <= L + D + 1 /\ L + D <= Len(t)
    BY <1>3, <1>4
  <2>3. w \in Lists(Words) /\ IsSlice(w, t, L + 1, L + D)
    BY <1>4, <2>1, <2>2, Sliced
  <2>4. L + D - (L + 1) + 1 = D /\ \A i \in 1 .. D : L + 1 + i - 1 = L + i
    BY <1>3
  <2>5. Len(w) = D /\ \A i \in 1 .. D : w[i] = t[L + i]
    BY <2>3, <2>4 DEF IsSlice
  <2>6. Len(w) = Len(d) /\ \A i \in 1 .. Len(w) : w[i] = d[i]
    BY <1>3, <1>6, <2>5
  <2>. QED BY <1>5, <2>1, <2>3, <2>6, SameList
<1>10. t[L + 1] # Less /\ t[L + 1] # Blank /\ L + 1 \in 1 .. L + D
  BY <1>3, <1>5, <1>6
<1>11. L + D \in Nat
  BY <1>3
<1>. QED BY <1>2, <1>3, <1>4, <1>5, <1>8, <1>9, <1>10, <1>11

ReadAs(t, m) ==
    IF Parameters(t, HeaderLen(m) + 2).ok
      THEN WithHeader(m, Parameters(t, HeaderLen(m) + 2).parameters, m.sent_from_server,
                      m.sent_from_service)
      ELSE Refused

\* The parser reads the header it was written as, whatever the parameters are.
LEMMA ParsedHeader ==
  ASSUME NEW m, GoodMessage(m), NEW t, IsHeader(t, m)
  PROVE  Parsed(t) = ReadAs(t, m)
<1>1. PICK L, H : L = Len(Sender(m)) /\ H = HeaderLen(m)
  OBVIOUS
<1>2. /\ EndOf(t, L + 1, {Blank}) = H + 1 /\ Destination(Slice(t, L + 1, H)) = Addressed(m)
      /\ t[L + 1] # Less /\ t[L + 1] # Blank /\ H \in Nat /\ L + 1 \in 1 .. H
  BY <1>1, RecipientRead
<1>3. t \in Lists(Words) /\ H <= Len(t) /\ \A k \in 1 .. L : t[k] = Sender(m)[k]
  BY <1>1 DEF IsHeader
<1>4. PICK n \in Nat : n = Len(t) /\ n # 0 /\ H <= n
  <2>1. PICK n \in Nat : n = Len(t)
    BY <1>3, ListLen
  <2>. QED BY <1>2, <1>3, <2>1
<1>5. PICK p : p = Parameters(t, H + 2)
  OBVIOUS
<1>6. Addressed(m) # Refused /\ H + 1 - 1 = H /\ H + 1 + 1 = H + 2
  <2>1. Addressed(m) # Refused
    BY AddressedIs
  <2>. QED BY <1>2, <2>1
<1>7. m \in MessageSet
  BY DEF GoodMessage
<1>8. PICK c \in {2, 3} : IsSender(Sender(m), m, c)
  BY <1>7, SenderIs
<1>9. PICK a, b, s : a = m.sent_from_server /\ b = m.sent_from_service /\ s = Sender(m)
  OBVIOUS
<1>10. a \in Words /\ b \in Words /\ a \notin Specials /\ b \notin Specials
  BY <1>7, <1>9 DEF MessageSet, Plain
<1>11. ReadAs(t, m) = Result(Addressed(m), p, a, b)
  BY <1>1, <1>5, <1>9, AddressedIs DEF ReadAs, WithHeader, Result
<1>12. CASE a = None /\ b = None
  <2>1. L = 0
    BY <1>1, <1>8, <1>9, <1>12 DEF IsSender
  <2>2. /\ Len(t) # 0 /\ t[1] # Less /\ EndOf(t, 1, {Blank}) = H + 1
        /\ Destination(Slice(t, 1, H + 1 - 1)) = Addressed(m) /\ p = Parameters(t, H + 1 + 1)
    BY <1>2, <1>4, <1>5, <1>6, <2>1
  <2>3. Parsed(t) = Result(Addressed(m), p, None, None)
    <3>1. PICK space, d : space \in Nat /\ space = H + 1 /\ d = Addressed(m)
      BY <1>2
    <3>2. /\ space = EndOf(t, 1, {Blank}) /\ d = Destination(Slice(t, 1, space - 1))
          /\ p = Parameters(t, space + 1) /\ d # Refused /\ Len(t) # 0 /\ t[1] # Less
      BY <1>2, <1>6, <2>2, <3>1
    <3>3. Parsed(t) = Result(d, p, None, None)
      BY <1>3, <3>1, <3>2, ParsedPlain
    <3>. QED BY <3>1, <3>3
  <2>. QED BY <1>11, <1>12, <2>3
<1>13. CASE ~(a = None /\ b = None)
  <2>1. /\ c = (IF a = None THEN 2 ELSE 3) /\ L = (IF b = None THEN c + 1 ELSE c + 2)
        /\ s[1] = Less /\ s[c] = Colon /\ s[L] = Blank /\ (a # None => s[2] = a)
        /\ (b # None => s[c + 1] = b)
    BY <1>1, <1>8, <1>9, <1>13 DEF IsSender
  <2>2. L \in 3 .. 5 /\ c + 1 \in 1 .. L /\ c \in 2 .. L - 1
    BY <1>8, <2>1
  <2>3. \A k \in 1 .. L : t[k] = s[k]
    BY <1>3, <1>9
  <2>4. /\ t[1] = Less /\ t[c] = Colon /\ t[L] = Blank /\ (a # None => t[2] = a)
        /\ (b # None => t[c + 1] = b)
    BY <2>1, <2>2, <2>3
  <2>5. /\ Colon # Blank /\ Less # Blank /\ a # Blank /\ a # Colon /\ b # Blank
    BY <1>10, Separators
  <2>6. ASSUME NEW k \in 1 .. L - 1 PROVE t[k] # Blank
    <3>1. k = 1 \/ (k = 2 /\ a # None) \/ k = c \/ (k = c + 1 /\ b # None)
      BY <2>1, <2>2
    <3>. QED BY <2>4, <2>5, <3>1
  <2>7. EndOf(t, 1, {Blank}) = L
    <3>1. /\ 1 \in 1 .. Len(t) + 1 /\ L \in 1 .. Len(t) + 1
      BY <1>2, <1>4, <2>2
    <3>2. \A k \in 1 .. L - 1 : t[k] \notin {Blank}
      BY <2>6
    <3>3. t[L] \in {Blank}
      BY <2>4
    <3>. QED BY <1>3, <3>1, <3>2, <3>3, EndOfAt
  <2>8. EndOf(t, 2, {Colon, Blank}) = c
    <3>1. /\ 2 \in 1 .. Len(t) + 1 /\ c \in 2 .. Len(t) + 1
      BY <1>2, <1>4, <2>2
    <3>2. \A k \in 2 .. c - 1 : t[k] \notin {Colon, Blank}
      BY <2>1, <2>4, <2>5
    <3>3. t[c] \in {Colon, Blank}
      BY <2>4
    <3>. QED BY <1>3, <3>1, <3>2, <3>3, EndOfAt
  <2>9. /\ Len(t) # 0 /\ t[c] # Blank /\ ~(L > Len(t)) /\ p = Parameters(t, H + 1 + 1)
        /\ Destination(Slice(t, L + 1, H + 1 - 1)) = Addressed(m)
    BY <1>2, <1>4, <1>5, <1>6, <2>2, <2>4, <2>5
  <2>11. PICK f, g : /\ f = (IF c = 3 THEN t[2] ELSE None) /\ f = a
                     /\ g = (IF L = c + 2 THEN t[c + 1] ELSE None) /\ g = b
    BY <2>1, <2>2, <2>4
  <2>10. Parsed(t) = Result(Addressed(m), p, f, g)
    <3>1. PICK space, d : space \in Nat /\ space = H + 1 /\ d = Addressed(m)
      BY <1>2
    <3>2. /\ space = EndOf(t, L + 1, {Blank}) /\ d = Destination(Slice(t, L + 1, space - 1))
          /\ p = Parameters(t, space + 1) /\ d # Refused /\ Len(t) # 0 /\ t[1] = Less
      BY <1>2, <1>6, <2>4, <2>9, <3>1
    <3>4. PICK colon, blank : colon = c /\ blank = L
      OBVIOUS
    <3>5. /\ colon = EndOf(t, 2, {Colon, Blank}) /\ blank = EndOf(t, 1, {Blank}) /\ t[colon] # Blank
          /\ ~(blank > Len(t)) /\ f = (IF colon = 3 THEN t[2] ELSE None)
          /\ g = (IF blank = colon + 2 THEN t[colon + 1] ELSE None)
          /\ space = EndOf(t, blank + 1, {Blank}) /\ d = Destination(Slice(t, blank + 1, space - 1))
      BY <2>7, <2>8, <2>9, <2>11, <3>2, <3>4
    <3>3. Parsed(t) = Result(d, p, f, g)
      <4>1. HasSender(t, colon, blank, space, d, p, f, g)
        BY <1>3, <3>1, <3>2, <3>5 DEF HasSender
      <4>. QED BY <4>1, ParsedSender
    <3>. QED BY <3>1, <3>3
  <2>. QED BY <1>11, <2>10, <2>11
<1>. QED BY <1>12, <1>13

---------------------------------------------------------------------------
(***************************************************************************)
(* The text to_string() makes.                                             *)
(***************************************************************************)

\* The text of a value, with its quotes if it needs them.
IsSafeValue(w, v) ==
    /\ w \in Lists(Words)
    /\ IF NeedsQuotes(v)
         THEN /\ Len(w) = Len(Escaped(v, TRUE)) + 2
              /\ w[1] = Quote /\ w[Len(Escaped(v, TRUE)) + 2] = Quote
              /\ \A k \in 1 .. Len(Escaped(v, TRUE)) : w[k + 1] = Escaped(v, TRUE)[k]
         ELSE w = Escaped(v, FALSE)

\* What the text of a value is.
LEMMA SafeValueIs ==
  ASSUME NEW v \in Lists(Words)
  PROVE  IsSafeValue(SafeValue(v), v)
<1>1. CASE ~NeedsQuotes(v)
  <2>1. SafeValue(v) = Escaped(v, FALSE)
    BY <1>1 DEF SafeValue
  <2>2. Escaped(v, FALSE) \in Lists(Words)
    BY EscapedAt
  <2>. QED BY <1>1, <2>1, <2>2 DEF IsSafeValue
<1>2. CASE NeedsQuotes(v)
  <2>1. PICK e : e = Escaped(v, TRUE) /\ e \in Lists(Words)
    BY EscapedAt
  <2>2. PICK q : q = Just(Quote) /\ q \in Lists(Words) /\ Len(q) = 1 /\ q[1] = Quote
    BY Single, SeparatorWords DEF Just
  <2>3. PICK u : u = Cat(q, e) /\ u \in Lists(Words) /\ IsInFront(u, Quote, e)
    BY <2>1, <2>2, InFront, SeparatorWords
  <2>4. PICK w : w = Cat(u, q) /\ w \in Lists(Words) /\ IsCat(w, u, q)
    BY <2>2, <2>3, Joined
  <2>5. SafeValue(v) = w
    BY <1>2, <2>1, <2>2, <2>3, <2>4 DEF SafeValue, Cat, Just
  <2>6. PICK l \in Nat : l = Len(e)
    BY <2>1, ListLen
  <2>7. /\ Len(u) = l + 1 /\ u[1] = Quote /\ \A i \in 1 .. l : u[i + 1] = e[i]
    BY <2>3, <2>6 DEF IsInFront
  <2>8. /\ Len(w) = l + 1 + 1 /\ w[l + 1 + 1] = q[1] /\ \A i \in 1 .. l + 1 : w[i] = u[i]
    BY <2>2, <2>4, <2>7 DEF IsCat
  <2>9. l + 1 + 1 = l + 2 /\ 1 \in 1 .. l + 1 /\ \A i \in 1 .. l : i + 1 \in 1 .. l + 1
    BY <2>6
  <2>10. /\ Len(w) = l + 2 /\ w[1] = Quote /\ w[l + 2] = Quote
         /\ \A i \in 1 .. l : w[i + 1] = e[i]
    BY <2>2, <2>7, <2>8, <2>9
  <2>. QED BY <1>2, <2>1, <2>4, <2>5, <2>6, <2>10 DEF IsSafeValue
<1>. QED BY <1>1, <1>2

\* The text of a parameter.
IsParameterText(w, separator, name, value) ==
    /\ w \in Lists(Words) /\ Len(w) = 3 + Len(SafeValue(value))
    /\ w[1] = separator /\ w[2] = name /\ w[3] = Equal
    /\ \A k \in 1 .. Len(SafeValue(value)) : w[3 + k] = SafeValue(value)[k]

\* What the text of a parameter is.
LEMMA ParameterTextIs ==
  ASSUME NEW separator \in Words, NEW name \in Words, NEW value \in Lists(Words)
  PROVE  IsParameterText(ParameterText(separator, name, value), separator, name, value)
<1>1. PICK u : u = <<separator, name, Equal>>
  OBVIOUS
<1>2. u \in Lists(Words) /\ Len(u) = 3 /\ u[1] = separator /\ u[2] = name /\ u[3] = Equal
  BY <1>1, SeparatorWords DEF Lists
<1>3. PICK v : v = SafeValue(value) /\ v \in Lists(Words)
  BY SafeValueIs DEF IsSafeValue
<1>4. PICK w : w = Cat(u, v) /\ w \in Lists(Words) /\ IsCat(w, u, v)
  BY <1>2, <1>3, Joined
<1>5. ParameterText(separator, name, value) = w
  BY <1>1, <1>3, <1>4 DEF ParameterText, Cat
<1>6. /\ Len(w) = 3 + Len(v) /\ w[1] = u[1] /\ w[2] = u[2] /\ w[3] = u[3]
      /\ \A k \in 1 .. Len(v) : w[3 + k] = v[k]
  BY <1>2, <1>4 DEF IsCat
<1>. QED BY <1>2, <1>3, <1>4, <1>5, <1>6 DEF IsParameterText

---------------------------------------------------------------------------
\* Where the parts of the line of a message are: parameter i is between
\* offset[i - 1] and offset[i].
Separator(i) == IF i = 1 THEN Blank ELSE Semicolon
IsNames(names, n, D) ==
    /\ names \in [1 .. n -> D] /\ (n = 0 <=> D = {})
    /\ \A i, j \in 1 .. n : names[i] = names[j] => i = j
    /\ \A x \in D : \E i \in 1 .. n : names[i] = x
HasParameter(t, at, separator, name, value) ==
    /\ t[at + 1] = separator /\ t[at + 2] = name /\ t[at + 3] = Equal
    /\ \A k \in 1 .. Len(SafeValue(value)) : t[at + 3 + k] = SafeValue(value)[k]
IsLayout(o, n, names, m, end) ==
    /\ o \in [0 .. n -> Nat] /\ o[0] = HeaderLen(m) /\ o[n] = end
    /\ \A i \in 0 .. n : HeaderLen(m) <= o[i] /\ o[i] <= end
    /\ \A i \in 1 .. n : o[i] = o[i - 1] + 3 + Len(SafeValue(m.parameters[names[i]]))
StartsWith(t, m) ==
    /\ t \in Lists(Words)
    /\ \A k \in 1 .. Len(Sender(m)) : t[k] = Sender(m)[k]
    /\ \A k \in 1 .. Len(Recipient(m)) : t[Len(Sender(m)) + k] = Recipient(m)[k]
IsText(t, m, names, n, o) ==
    /\ StartsWith(t, m) /\ n \in Nat
    /\ IsNames(names, n, DOMAIN m.parameters) /\ IsLayout(o, n, names, m, Len(t))
    /\ \A i \in 1 .. n : HasParameter(t, o[i - 1], Separator(i), names[i], m.parameters[names[i]])

Pieces(names, n, p) == [i \in 1 .. n |-> ParameterText(Separator(i), names[i], p[names[i]])]

\* The texts of the parameters.
LEMMA PiecesAre ==
  ASSUME NEW p \in Params, NEW n \in Nat, NEW names, IsNames(names, n, DOMAIN p)
  PROVE  /\ Pieces(names, n, p) \in [1 .. n -> Lists(Words)]
         /\ \A i \in 1 .. n : IsParameterText(Pieces(names, n, p)[i], Separator(i), names[i], p[names[i]])
<1>1. DOMAIN p \subseteq Words /\ \A x \in DOMAIN p : p[x] \in Lists(Words)
  BY ParamsAre
<1>2. ASSUME NEW i \in 1 .. n
      PROVE  IsParameterText(ParameterText(Separator(i), names[i], p[names[i]]),
                             Separator(i), names[i], p[names[i]])
  <2>1. names[i] \in DOMAIN p
    BY DEF IsNames
  <2>2. Separator(i) \in Words
    BY SeparatorWords DEF Separator
  <2>. QED BY <1>1, <2>1, <2>2, ParameterTextIs
<1>3. \A i \in 1 .. n : ParameterText(Separator(i), names[i], p[names[i]]) \in Lists(Words)
  BY <1>2 DEF IsParameterText
<1>. QED BY <1>2, <1>3 DEF Pieces

\* What to_string() makes: a header and the parameters at their offsets.
LEMMA TextIs ==
  ASSUME NEW m, GoodMessage(m)
  PROVE  \E names, n, o : IsText(to_string(m), m, names, n, o)
<1>1. PICK p : p = m.parameters /\ p \in Params
  BY DEF GoodMessage, MessageSet
<1>2. IsFiniteSet(DOMAIN p)
  BY <1>1, ParamsAre
<1>3. PICK names : names = SetToSeq(DOMAIN p)
  OBVIOUS
<1>4. PICK n \in Nat : IsNames(names, n, DOMAIN p) /\ DOMAIN names = 1 .. n
  <2>1. PICK n \in Nat : /\ names \in [1 .. n -> DOMAIN p]
                         /\ \A i, j \in 1 .. n : names[i] = names[j] => i = j
                         /\ \A x \in DOMAIN p : \E i \in 1 .. n : names[i] = x
                         /\ n = 0 <=> DOMAIN p = {}
    BY <1>2, <1>3, SetToSeqIs
  <2>. QED BY <2>1 DEF IsNames
<1>5. PICK pieces : /\ pieces = Pieces(names, n, p) /\ pieces \in [1 .. n -> Lists(Words)]
                    /\ \A i \in 1 .. n : IsParameterText(pieces[i], Separator(i), names[i], p[names[i]])
  BY <1>1, <1>4, PiecesAre
<1>6. PICK flat, offset : flat = FlattenSeq(pieces) /\ flat \in Lists(Words)
                         /\ Offsets(offset, n, pieces, flat)
  BY <1>5, FlattenOffsets
<1>7. PICK s, d : s = Sender(m) /\ d = Recipient(m) /\ s \in Lists(Words) /\ d \in Lists(Words)
  BY SenderIs, RecipientIs DEF IsSender, IsRecipient, GoodMessage
<1>8. PICK h : h = Cat(s, d) /\ h \in Lists(Words) /\ IsCat(h, s, d)
  BY <1>7, Joined
<1>9. PICK t : t = Cat(h, flat) /\ t \in Lists(Words) /\ IsCat(t, h, flat)
  BY <1>6, <1>8, Joined
<1>10. to_string(m) = t
  BY <1>1, <1>3, <1>4, <1>5, <1>6, <1>7, <1>8, <1>9 DEF to_string, Cat, Pieces, Separator
<1>11. PICK L \in Nat, D \in Nat, H \in Nat, T \in Nat :
          L = Len(s) /\ D = Len(d) /\ H = L + D /\ H = Len(h) /\ H = HeaderLen(m) /\ T = Len(t)
  <2>1. Len(s) \in Nat /\ Len(d) \in Nat /\ Len(h) = Len(s) + Len(d) /\ Len(t) \in Nat
    BY <1>7, <1>8, <1>9, ListLen DEF IsCat
  <2>. QED BY <1>7, <2>1 DEF HeaderLen
<1>12. \A k \in 1 .. H : t[k] = h[k]
  BY <1>9, <1>11 DEF IsCat
<1>13. StartsWith(t, m)
  <2>1. (\A k \in 1 .. L : k \in 1 .. H) /\ (\A k \in 1 .. D : L + k \in 1 .. H)
    BY <1>11
  <2>2. (\A k \in 1 .. L : h[k] = s[k]) /\ (\A k \in 1 .. D : h[L + k] = d[k])
    BY <1>8, <1>11 DEF IsCat
  <2>. QED BY <1>7, <1>9, <1>11, <1>12, <2>1, <2>2 DEF StartsWith
<1>14. /\ offset \in [0 .. n -> Nat] /\ offset[0] = 0 /\ Len(flat) = offset[n]
       /\ \A i \in 0 .. n : offset[i] <= offset[n]
       /\ \A i \in 1 .. n : offset[i] = offset[i - 1] + Len(pieces[i])
       /\ \A i \in 1 .. n : \A k \in 1 .. Len(pieces[i]) : flat[offset[i - 1] + k] = pieces[i][k]
  BY <1>6 DEF Offsets
<1>15. T = H + offset[n] /\ \A k \in 1 .. offset[n] : t[H + k] = flat[k]
  BY <1>9, <1>11, <1>14 DEF IsCat
<1>16. PICK o : o = [i \in 0 .. n |-> H + offset[i]]
  OBVIOUS
<1>17. ASSUME NEW i \in 1 .. n
       PROVE  LET l == Len(SafeValue(p[names[i]]))
              IN  /\ l \in Nat /\ o[i] = o[i - 1] + 3 + l /\ o[i] <= T
                  /\ HasParameter(t, o[i - 1], Separator(i), names[i], p[names[i]])
  <2>1. PICK v : v = SafeValue(p[names[i]])
    OBVIOUS
  <2>2. p[names[i]] \in Lists(Words)
    BY <1>1, <1>4, ParamsAre DEF IsNames
  <2>3. PICK l \in Nat : l = Len(v)
    BY <2>1, <2>2, SafeValueIs, ListLen DEF IsSafeValue
  <2>14. PICK w, x : w = pieces[i] /\ x = p[names[i]] /\ IsParameterText(w, Separator(i), names[i], x)
    BY <1>5
  <2>15. v = SafeValue(x) /\ l = Len(SafeValue(x))
    BY <2>1, <2>3, <2>14
  <2>4. /\ w = pieces[i] /\ Len(w) = 3 + l /\ w[1] = Separator(i) /\ w[2] = names[i]
        /\ w[3] = Equal /\ \A k \in 1 .. l : w[3 + k] = v[k]
    BY <2>14, <2>15 DEF IsParameterText
  <2>5. i \in 0 .. n /\ i - 1 \in 0 .. n
    OBVIOUS
  <2>6. PICK a \in Nat, y \in Nat, z \in Nat :
           /\ a = offset[i - 1] /\ y = offset[i] /\ z = offset[n] /\ y = a + (3 + l) /\ y <= z
           /\ o[i] = H + y /\ o[i - 1] = H + a
    <3>1. n \in 0 .. n
      OBVIOUS
    <3>2. offset[i - 1] \in Nat /\ offset[i] \in Nat /\ offset[n] \in Nat /\ offset[i] <= offset[n]
      BY <1>14, <2>5, <3>1
    <3>3. o[i] = H + offset[i] /\ o[i - 1] = H + offset[i - 1]
      BY <1>16, <2>5
    <3>4. offset[i] = offset[i - 1] + Len(pieces[i])
      BY <1>14
    <3>5. offset[i] = offset[i - 1] + (3 + l)
      BY <2>4, <3>4
    <3>. QED BY <3>2, <3>3, <3>5
  <2>7. /\ y = a + (3 + l) /\ y <= z /\ a \in Nat /\ z \in Nat /\ y \in Nat /\ T = H + z
    BY <1>15, <2>6
  <2>8. /\ \A k \in 1 .. 3 + l : a + k \in 1 .. z /\ H + (a + k) = H + a + k
        /\ H + y = H + a + 3 + l /\ H + y <= T
    BY <2>3, <2>7
  <2>9. \A k \in 1 .. 3 + l : flat[a + k] = w[k]
    BY <1>14, <2>4, <2>6
  <2>10. \A k \in 1 .. 3 + l : t[H + a + k] = w[k]
    BY <1>15, <2>6, <2>8, <2>9
  <2>11. \A k \in 1 .. l : 3 + k \in 1 .. 3 + l /\ H + a + (3 + k) = H + a + 3 + k
    BY <2>3, <2>7
  <2>12. 1 \in 1 .. 3 + l /\ 2 \in 1 .. 3 + l /\ 3 \in 1 .. 3 + l
    BY <2>3
  <2>13. HasParameter(t, H + a, Separator(i), names[i], p[names[i]])
    BY <2>1, <2>3, <2>4, <2>10, <2>11, <2>12 DEF HasParameter
  <2>. QED BY <2>1, <2>3, <2>6, <2>8, <2>13
<1>18. IsLayout(o, n, names, m, T)
  <2>1. o \in [0 .. n -> Nat]
    BY <1>14, <1>16
  <2>2. o[0] = H /\ o[n] = T
    BY <1>14, <1>15, <1>16
  <2>3. ASSUME NEW i \in 0 .. n PROVE H <= o[i] /\ o[i] <= T
    <3>3. n \in 0 .. n
      OBVIOUS
    <3>1. PICK x \in Nat, z \in Nat : x = offset[i] /\ z = offset[n] /\ x <= z /\ o[i] = H + x /\ T = H + z
      BY <1>14, <1>15, <1>16, <3>3
    <3>2. H <= H + x /\ H + x <= T
      BY <3>1
    <3>. QED BY <3>1, <3>2
  <2>. QED BY <1>1, <1>11, <1>17, <2>1, <2>2, <2>3 DEF IsLayout
<1>19. IsText(t, m, names, n, o)
  BY <1>1, <1>4, <1>11, <1>13, <1>17, <1>18 DEF IsText
<1>. QED BY <1>10, <1>19

\* The header of the text of a message.
LEMMA TextHeader ==
  ASSUME NEW m, GoodMessage(m), NEW t, NEW names, NEW n, NEW o, IsText(t, m, names, n, o)
  PROVE  IsHeader(t, m)
<1>1. /\ n \in Nat /\ StartsWith(t, m) /\ IsLayout(o, n, names, m, Len(t)) /\ t \in Lists(Words)
  BY DEF IsText, StartsWith
<1>2. PICK H : H = HeaderLen(m)
  OBVIOUS
<1>3. H <= Len(t) /\ o[0] = H /\ o[n] = Len(t)
  <2>1. 0 \in 0 .. n
    BY <1>1
  <2>. QED BY <1>1, <1>2, <2>1 DEF IsLayout
<1>4. H = Len(t) \/ t[H + 1] = Blank
  <2>1. CASE n = 0
    BY <1>3, <2>1
  <2>2. CASE n # 0
    <3>1. 1 \in 1 .. n /\ 1 - 1 = 0 /\ Separator(1) = Blank
      BY <1>1, <2>2 DEF Separator
    <3>2. HasParameter(t, o[0], Separator(1), names[1], m.parameters[names[1]])
      BY <3>1 DEF IsText
    <3>. QED BY <1>3, <3>1, <3>2 DEF HasParameter
  <2>. QED BY <2>1, <2>2
<1>. QED BY <1>1, <1>2, <1>3, <1>4 DEF IsHeader, StartsWith

\* The lengths of the parts of a header.
LEMMA HeaderLengths ==
  ASSUME NEW m, GoodMessage(m)
  PROVE  \E H \in Nat \ {0}, L \in Nat, D \in Nat \ {0} :
            H = HeaderLen(m) /\ L = Len(Sender(m)) /\ D = Len(Recipient(m)) /\ H = L + D
<1>1. Len(Sender(m)) \in Nat
  BY SenderIs, ListLen DEF IsSender, GoodMessage
<1>2. Len(Recipient(m)) \in Nat \ {0}
  BY RecipientIs DEF IsRecipient
<1>. QED BY <1>1, <1>2 DEF HeaderLen

\* Nothing of a header ends a text, and it neither starts nor ends with white
\* space.
LEMMA HeaderKept ==
  ASSUME NEW m, GoodMessage(m), NEW t, IsHeader(t, m)
  PROVE  /\ t[1] \notin Lost /\ t[HeaderLen(m)] \notin Lost
         /\ \A k \in 1 .. HeaderLen(m) : t[k] # Nul
<1>1. PICK H \in Nat \ {0}, L \in Nat, D \in Nat \ {0} :
         H = HeaderLen(m) /\ L = Len(Sender(m)) /\ D = Len(Recipient(m)) /\ H = L + D
  BY HeaderLengths
<1>2. PICK s, d : s = Sender(m) /\ d = Recipient(m)
  OBVIOUS
<1>3. (\A k \in 1 .. L : t[k] = s[k]) /\ \A k \in 1 .. D : t[L + k] = d[k]
  BY <1>1, <1>2 DEF IsHeader
<1>4. (L # 0 => s[1] \notin Lost) /\ \A k \in 1 .. L : s[k] # Nul
  BY <1>1, <1>2, SenderKept DEF GoodMessage
<1>5. \A k \in 1 .. D : d[k] \notin Lost
  BY <1>1, <1>2, RecipientIs DEF IsRecipient
<1>6. t[1] \notin Lost
  <2>1. CASE L = 0
    <3>1. 1 \in 1 .. D /\ L + 1 = 1
      BY <1>1, <2>1
    <3>. QED BY <1>3, <1>5, <3>1
  <2>2. CASE L # 0
    <3>1. 1 \in 1 .. L
      BY <1>1, <2>2
    <3>. QED BY <1>3, <1>4, <2>2, <3>1
  <2>. QED BY <2>1, <2>2
<1>7. t[H] \notin Lost
  <2>1. D \in 1 .. D /\ L + D = H
    BY <1>1
  <2>. QED BY <1>3, <1>5, <2>1
<1>8. ASSUME NEW k \in 1 .. H PROVE t[k] # Nul
  <2>1. CASE k \in 1 .. L
    BY <1>3, <1>4, <2>1
  <2>2. CASE k \notin 1 .. L
    <3>1. k - L \in 1 .. D /\ L + (k - L) = k
      BY <1>1, <2>2
    <3>2. PICK j \in 1 .. D : L + j = k
      BY <3>1
    <3>. QED BY <1>3, <1>5, <3>2, Separators
  <2>. QED BY <2>1, <2>2
<1>. QED BY <1>1, <1>6, <1>7, <1>8

\* What is cut off after the header leaves the header.
LEMMA HeaderCut ==
  ASSUME NEW m, GoodMessage(m), NEW t, IsHeader(t, m), NEW e \in Nat, HeaderLen(m) <= e, e <= Len(t)
  PROVE  /\ IsHeader(Slice(t, 1, e), m) /\ Len(Slice(t, 1, e)) = e
         /\ \A k \in 1 .. e : Slice(t, 1, e)[k] = t[k]
<1>1. PICK H \in Nat \ {0}, L \in Nat, D \in Nat \ {0} :
         H = HeaderLen(m) /\ L = Len(Sender(m)) /\ D = Len(Recipient(m)) /\ H = L + D
  BY HeaderLengths
<1>2. PICK T \in Nat : T = Len(t) /\ t \in Lists(Words) /\ H <= e /\ e <= T
  BY <1>1, ListLen DEF IsHeader
<1>3. PICK u : u = Slice(t, 1, e) /\ u \in Lists(Words) /\ Len(u) = e /\ \A k \in 1 .. e : u[k] = t[k]
  <2>1. 1 \in Int /\ e \in Int /\ 1 <= 1 /\ 1 <= e + 1 /\ e <= Len(t)
    BY <1>2
  <2>2. PICK u : u = Slice(t, 1, e) /\ u \in Lists(Words) /\ IsSlice(u, t, 1, e)
    BY <1>2, <2>1, Sliced
  <2>3. e - 1 + 1 = e /\ \A k \in 1 .. e : 1 + k - 1 = k
    BY <1>2
  <2>4. Len(u) = e /\ \A k \in 1 .. e : u[k] = t[k]
    BY <2>2, <2>3 DEF IsSlice
  <2>. QED BY <2>2, <2>4
<1>4. /\ \A k \in 1 .. L : k \in 1 .. e
      /\ \A k \in 1 .. D : L + k \in 1 .. e
  BY <1>1, <1>2
<1>5. (\A k \in 1 .. L : t[k] = Sender(m)[k]) /\ \A k \in 1 .. D : t[L + k] = Recipient(m)[k]
  BY <1>1 DEF IsHeader
<1>6. H = e \/ u[H + 1] = Blank
  <2>1. CASE H = e
    BY <2>1
  <2>2. CASE H # e
    <3>1. H + 1 \in 1 .. e /\ H # T
      BY <1>1, <1>2, <2>2
    <3>2. t[H + 1] = Blank
      BY <1>1, <1>2, <3>1 DEF IsHeader
    <3>. QED BY <1>3, <3>1, <3>2
  <2>. QED BY <2>1, <2>2
<1>7. IsHeader(u, m)
  BY <1>1, <1>2, <1>3, <1>4, <1>5, <1>6 DEF IsHeader
<1>. QED BY <1>3, <1>7

\* White space at the end of a line goes away, its header stays.
LEMMA TrimmedHeader ==
  ASSUME NEW m, GoodMessage(m), NEW t, IsHeader(t, m)
  PROVE  IsHeader(Trim(t), m) /\ (t[Len(t)] \notin White => Trim(t) = t)
<1>1. PICK H \in Nat \ {0}, T \in Nat \ {0} : /\ H = HeaderLen(m) /\ T = Len(t) /\ H <= T
                                              /\ t \in Lists(Words)
  <2>1. PICK H \in Nat \ {0} : H = HeaderLen(m)
    BY HeaderLengths
  <2>2. PICK T \in Nat : T = Len(t) /\ H <= T /\ t \in Lists(Words)
    BY <2>1, ListLen DEF IsHeader
  <2>3. T # 0
    BY <2>1, <2>2
  <2>. QED BY <2>1, <2>2, <2>3
<1>2. t[1] \notin White /\ t[H] \notin White
  BY <1>1, HeaderKept DEF Lost
<1>3. PICK e \in 1 .. T : /\ Trim(t) = Slice(t, 1, e) /\ t[e] \notin White
                          /\ \A k \in e + 1 .. T : t[k] \in White
  BY <1>1, <1>2, TrimIs
<1>4. H <= e
  <2>1. H \notin e + 1 .. T
    BY <1>2, <1>3
  <2>. QED BY <1>1, <2>1
<1>5. IsHeader(Slice(t, 1, e), m)
  <2>1. e \in Nat /\ HeaderLen(m) <= e /\ e <= Len(t)
    BY <1>1, <1>4
  <2>. QED BY <2>1, HeaderCut
<1>6. ASSUME t[T] \notin White PROVE Trim(t) = t
  <2>1. T \notin e + 1 .. T
    BY <1>3, <1>6
  <2>2. e = T
    BY <1>1, <2>1
  <2>. QED BY <1>1, <1>3, <2>2, WholeSlice
<1>. QED BY <1>1, <1>3, <1>5, <1>6

\* What follows a character 0 goes away, the header stays.
LEMMA HeaderBeforeNul ==
  ASSUME NEW m, GoodMessage(m), NEW t, IsHeader(t, m)
  PROVE  /\ IsHeader(BeforeNul(t), m)
         /\ (\A k \in 1 .. Len(t) : t[k] # Nul) => BeforeNul(t) = t
<1>1. PICK H \in Nat \ {0}, T \in Nat : H = HeaderLen(m) /\ T = Len(t) /\ H <= T /\ t \in Lists(Words)
  <2>1. PICK H \in Nat \ {0} : H = HeaderLen(m)
    BY HeaderLengths
  <2>2. PICK T \in Nat : T = Len(t) /\ H <= T /\ t \in Lists(Words)
    BY <2>1, ListLen DEF IsHeader
  <2>. QED BY <2>1, <2>2
<1>2. \A k \in 1 .. H : t[k] # Nul
  BY <1>1, HeaderKept
<1>3. PICK stops, e : stops = {Nul} /\ e = EndOf(t, 1, stops)
  OBVIOUS
<1>4. e \in 1 .. T + 1 /\ (e = T + 1 \/ t[e] \in stops)
  <2>1. 1 \in 1 .. Len(t) + 1
    BY <1>1
  <2>2. e \in 1 .. Len(t) + 1 /\ (e = Len(t) + 1 \/ t[e] \in stops)
    BY <1>1, <1>3, <2>1, EndOfIn
  <2>. QED BY <1>1, <2>2
<1>5. BeforeNul(t) = Slice(t, 1, e - 1)
  BY <1>3 DEF BeforeNul, Slice
<1>6. e = T + 1 \/ t[e] = Nul
  BY <1>3, <1>4
<1>7. H <= e - 1 /\ e - 1 \in Nat /\ e - 1 <= T
  <2>1. e \notin 1 .. H
    BY <1>1, <1>2, <1>6
  <2>. QED BY <1>1, <1>4, <2>1
<1>8. IsHeader(Slice(t, 1, e - 1), m)
  BY <1>1, <1>7, HeaderCut
<1>9. ASSUME \A k \in 1 .. T : t[k] # Nul PROVE BeforeNul(t) = t
  <2>1. e - 1 = T
    BY <1>1, <1>4, <1>6, <1>9
  <2>. QED BY <1>1, <1>5, <2>1, WholeSlice
<1>. QED BY <1>1, <1>5, <1>8, <1>9

\* The text of a value that is not lossy does not end with white space.
LEMMA EndOfValue ==
  ASSUME NEW v \in Lists(Words), ~LossyValue(v), Len(SafeValue(v)) # 0
  PROVE  SafeValue(v)[Len(SafeValue(v))] \notin White
<1>1. PICK w : w = SafeValue(v) /\ IsSafeValue(w, v)
  BY SafeValueIs
<1>2. CASE NeedsQuotes(v)
  <2>1. Quote \notin White
    BY Zenon DEF Quote, White, Blank, Tab, Newline, Return
  <2>2. w[Len(w)] = Quote
    BY <1>1, <1>2 DEF IsSafeValue
  <2>. QED BY <1>1, <2>1, <2>2
<1>3. CASE ~NeedsQuotes(v)
  <2>1. w = Escaped(v, FALSE)
    BY <1>1, <1>3 DEF IsSafeValue
  <2>2. PICK o : IsEscaped(o, v, FALSE, w)
    BY <2>1, EscapedAt
  <2>3. PICK n \in Nat : n = Len(v)
    BY ListLen
  <2>4. n # 0
    BY <1>1, <2>2, <2>3 DEF IsEscaped
  <2>5. v[n] \notin {Blank, Tab}
    BY <1>3, <2>3, <2>4, EmptyIs DEF LossyValue
  <2>6. n \in 1 .. n /\ n - 1 \in 0 .. n
    BY <2>3, <2>4
  <2>7. o[n - 1] \in Nat /\ Len(w) = o[n]
    BY <2>2, <2>3, <2>6 DEF IsEscaped
  <2>8. CASE Doubled(v[n], FALSE)
    <3>1. o[n] = o[n - 1] + 2 /\ w[o[n - 1] + 2] = Second(v[n])
      BY <2>2, <2>3, <2>6, <2>8 DEF IsEscaped
    <3>2. "n" \notin White /\ "r" \notin White /\ Backslash \notin White
      BY Zenon DEF White, Blank, Tab, Newline, Return, Backslash
    <3>3. Second(v[n]) \notin White
      BY <2>8, <3>2 DEF Second, Doubled
    <3>. QED BY <1>1, <2>7, <3>1, <3>3
  <2>9. CASE ~Doubled(v[n], FALSE)
    <3>1. o[n] = o[n - 1] + 1 /\ w[o[n - 1] + 1] = v[n]
      BY <2>2, <2>3, <2>6, <2>9 DEF IsEscaped
    <3>2. v[n] \notin White
      BY <2>5, <2>9 DEF White, Doubled
    <3>. QED BY <1>1, <2>7, <3>1, <3>2
  <2>. QED BY <2>8, <2>9
<1>. QED BY <1>2, <1>3

---------------------------------------------------------------------------
(***************************************************************************)
(* What from_string() reads.                                               *)
(***************************************************************************)

\* The characters of a quoted value that the parser tells apart.
LEMMA QuotedCharacters ==
  /\ "n" # Semicolon /\ "r" # Semicolon /\ Backslash # Semicolon /\ Backslash # Quote
  /\ Semicolon # Quote /\ Equal # Quote
BY Zenon DEF Semicolon, Backslash, Quote, Equal

\* A character that is not in a value is not in its text, the backslash and
\* the letters of an escape aside.
LEMMA EscapedAvoids ==
  ASSUME NEW v \in Lists(Words), NEW quote \in BOOLEAN, NEW c, c \notin {Backslash, "n", "r"},
         \A i \in 1 .. Len(v) : v[i] # c
  PROVE  \A k \in 1 .. Len(Escaped(v, quote)) : Escaped(v, quote)[k] # c
<1>1. PICK w, o : w = Escaped(v, quote) /\ IsEscaped(o, v, quote, w)
  BY EscapedAt
<1>2. PICK n \in Nat : n = Len(v)
  BY ListLen
<1>3. /\ o \in [0 .. n -> Nat] /\ o[0] = 0 /\ Len(w) = o[n]
      /\ \A i \in 1 .. n :
            /\ Doubled(v[i], quote) => /\ o[i] = o[i - 1] + 2 /\ w[o[i - 1] + 1] = Backslash
                                       /\ w[o[i - 1] + 2] = Second(v[i])
            /\ ~Doubled(v[i], quote) => o[i] = o[i - 1] + 1 /\ w[o[i - 1] + 1] = v[i]
  BY <1>1, <1>2 DEF IsEscaped
<1>. DEFINE S == {i \in 0 .. n : \A k \in 1 .. o[i] : w[k] # c}
<1>6. 0 \in S
  <2>1. 0 \in 0 .. n /\ \A k \in 1 .. 0 : FALSE
    BY <1>2
  <2>. QED BY <1>3, <2>1
<1>7. ASSUME NEW i \in 0 .. n - 1, i \in S PROVE i + 1 \in S
  <2>1. i + 1 \in 1 .. n /\ i + 1 - 1 = i /\ i + 1 \in 0 .. n /\ i \in 0 .. n
    BY <1>2
  <2>2. PICK x \in Nat, y \in Nat : x = o[i] /\ y = o[i + 1]
    BY <1>3, <2>1
  <2>3. v[i + 1] # c /\ Second(v[i + 1]) # c /\ Backslash # c
    BY <1>2, <2>1 DEF Second
  <2>4. \/ y = x + 2 /\ w[x + 1] = Backslash /\ w[x + 2] = Second(v[i + 1])
        \/ y = x + 1 /\ w[x + 1] = v[i + 1]
    <3>1. PICK j \in 1 .. n : j = i + 1 /\ j - 1 = i
      BY <2>1
    <3>2. \/ o[j] = o[j - 1] + 2 /\ w[o[j - 1] + 1] = Backslash /\ w[o[j - 1] + 2] = Second(v[j])
          \/ o[j] = o[j - 1] + 1 /\ w[o[j - 1] + 1] = v[j]
      BY <1>3
    <3>. QED BY <2>2, <3>1, <3>2
  <2>5. \A k \in 1 .. x : w[k] # c
    BY <1>7, <2>2
  <2>6. ASSUME NEW k \in 1 .. y PROVE w[k] # c
    <3>1. CASE y = x + 2 /\ w[x + 1] = Backslash /\ w[x + 2] = Second(v[i + 1])
      <4>1. k \in 1 .. x \/ k = x + 1 \/ k = x + 2
        <5>1. y = x + 2
          BY <3>1
        <5>. QED BY <2>2, <5>1
      <4>. QED BY <2>3, <2>5, <3>1, <4>1
    <3>2. CASE y = x + 1 /\ w[x + 1] = v[i + 1]
      <4>1. k \in 1 .. x \/ k = x + 1
        BY <2>2, <3>2
      <4>. QED BY <2>3, <2>5, <3>2, <4>1
    <3>. QED BY <2>4, <3>1, <3>2
  <2>. QED BY <2>1, <2>2, <2>6
<1>8. n \in S
  <2>1. 0 \in Int /\ n \in Int /\ n \in 0 .. n
    BY <1>2
  <2>. HIDE DEF S
  <2>. QED BY <1>6, <1>7, <2>1, Upward
<1>. QED BY <1>1, <1>3, <1>8

\* A value without quotes has no semicolon and does not start with a quote.
LEMMA UnquotedValue ==
  ASSUME NEW v \in Lists(Words), ~NeedsQuotes(v), NEW w, w = Escaped(v, FALSE)
  PROVE  /\ w \in Lists(Words) /\ \A k \in 1 .. Len(w) : w[k] # Semicolon
         /\ Len(w) # 0 => w[1] # Quote
<1>1. PICK o : w \in Lists(Words) /\ IsEscaped(o, v, FALSE, w)
  BY EscapedAt
<1>2. PICK n \in Nat : n = Len(v)
  BY ListLen
<1>3. /\ o \in [0 .. n -> Nat] /\ o[0] = 0 /\ Len(w) = o[n]
      /\ \A i \in 1 .. n : w[o[i - 1] + 1] = Backslash \/ w[o[i - 1] + 1] = v[i]
  BY <1>1, <1>2 DEF IsEscaped
<1>4. ASSUME NEW i \in 1 .. n PROVE v[i] # Semicolon
  <2>1. v # <<>>
    BY <1>2, EmptyIs
  <2>2. v[i] \in {v[j] : j \in 1 .. Len(v)}
    BY <1>2
  <2>3. v[i] \in ToSet(v)
    BY <2>2, ToSetIs
  <2>. QED BY <2>1, <2>3 DEF NeedsQuotes
<1>5. ASSUME n # 0 PROVE v[1] # Quote
  <2>1. v # <<>>
    BY <1>2, <1>5, EmptyIs
  <2>. QED BY <2>1 DEF NeedsQuotes
<1>9. \A k \in 1 .. Len(w) : w[k] # Semicolon
  BY <1>2, <1>4, EscapedAvoids, QuotedCharacters
<1>10. ASSUME Len(w) # 0 PROVE w[1] # Quote
  <2>1. n # 0
    BY <1>3, <1>10
  <2>2. PICK j \in 1 .. n : j = 1 /\ j - 1 = 0
    BY <1>2, <2>1
  <2>3. w[o[j - 1] + 1] = Backslash \/ w[o[j - 1] + 1] = v[j]
    BY <1>3
  <2>4. o[j - 1] + 1 = 1
    BY <1>3, <2>2
  <2>. QED BY <1>5, <2>1, <2>2, <2>3, <2>4, QuotedCharacters
<1>. QED BY <1>1, <1>9, <1>10

\* The text of a value that is not lossy has no character 0.
LEMMA ValueNoNul ==
  ASSUME NEW v \in Lists(Words), ~LossyValue(v)
  PROVE  \A k \in 1 .. Len(SafeValue(v)) : SafeValue(v)[k] # Nul
<1>1. PICK w : w = SafeValue(v) /\ IsSafeValue(w, v)
  BY SafeValueIs
<1>2. ASSUME NEW i \in 1 .. Len(v) PROVE v[i] # Nul
  <2>1. v[i] \in {v[j] : j \in 1 .. Len(v)}
    OBVIOUS
  <2>. QED BY <2>1, ToSetIs DEF LossyValue
<1>3. Nul \notin {Backslash, "n", "r"} /\ Nul # Quote
  BY Zenon DEF Nul, Backslash, Quote
<1>4. \A quote \in BOOLEAN : \A k \in 1 .. Len(Escaped(v, quote)) : Escaped(v, quote)[k] # Nul
  BY <1>2, <1>3, EscapedAvoids
<1>5. CASE ~NeedsQuotes(v)
  BY <1>1, <1>4, <1>5 DEF IsSafeValue
<1>6. CASE NeedsQuotes(v)
  <2>1. PICK e : e = Escaped(v, TRUE) /\ e \in Lists(Words)
    BY EscapedAt
  <2>2. PICK l \in Nat : l = Len(e)
    BY <2>1, ListLen
  <2>3. /\ Len(w) = l + 2 /\ w[1] = Quote /\ w[l + 2] = Quote
        /\ \A k \in 1 .. l : w[k + 1] = e[k]
    BY <1>1, <1>6, <2>1, <2>2 DEF IsSafeValue
  <2>4. ASSUME NEW k \in 1 .. l + 2 PROVE w[k] # Nul
    <3>1. CASE k = 1 \/ k = l + 2
      BY <1>3, <2>3, <3>1
    <3>2. CASE ~(k = 1 \/ k = l + 2)
      <4>1. k - 1 \in 1 .. l /\ k = k - 1 + 1
        BY <2>2, <3>2
      <4>2. PICK j \in 1 .. l : k = j + 1
        BY <4>1
      <4>. QED BY <1>4, <2>1, <2>2, <2>3, <4>2
    <3>. QED BY <3>1, <3>2
  <2>. QED BY <1>1, <2>3, <2>4
<1>. QED BY <1>5, <1>6

\* A parameter is read as it was written.
Ends(t, b) == b = Len(t) \/ t[b + 1] = Semicolon
IsValue(x, b, v) == x.end = b + 1 /\ Unescape(x.value) = v

\* A value that is not lossy is found where it ends.
LEMMA ValueRead ==
  ASSUME NEW t \in Lists(Words), NEW at \in Nat, NEW separator, NEW name, NEW v \in Lists(Words),
         ~LossyValue(v), HasParameter(t, at, separator, name, v),
         NEW b \in Nat, b = at + 3 + Len(SafeValue(v)), b <= Len(t), Ends(t, b)
  PROVE  IsValue(ValueAt(t, at + 3), b, v)
<1>1. PICK w : w = SafeValue(v) /\ IsSafeValue(w, v)
  BY SafeValueIs
<1>2. PICK T \in Nat, l \in Nat : T = Len(t) /\ l = Len(w) /\ b = at + 3 + l /\ b <= T
  BY <1>1, ListLen DEF IsSafeValue
<1>3. \A k \in 1 .. l : t[at + 3 + k] = w[k]
  BY <1>1, <1>2 DEF HasParameter
<1>4. CASE NeedsQuotes(v)
  <2>1. PICK u : u = Escaped(v, TRUE) /\ u \in Lists(Words)
    BY EscapedAt
  <2>2. PICK n \in Nat : n = Len(u)
    BY <2>1, ListLen
  <2>3. l = n + 2 /\ w[1] = Quote /\ w[n + 2] = Quote /\ \A k \in 1 .. n : w[k + 1] = u[k]
    BY <1>1, <1>2, <1>4, <2>1, <2>2 DEF IsSafeValue
  <2>4. PICK s \in Nat \ {0} : s = at + 5
    OBVIOUS
  <2>5. /\ s + n <= T /\ s + n + 1 = b + 1 /\ s + n = at + 3 + (n + 2) /\ n + 2 \in 1 .. l
        /\ 1 \in 1 .. l /\ at + 3 < T /\ at + 3 + 1 = at + 4 /\ at + 3 + 2 = s
        /\ \A k \in 1 .. n : s + k - 1 = at + 3 + (k + 1) /\ k + 1 \in 1 .. l
    BY <1>2, <2>2, <2>3, <2>4
  <2>6. t[at + 4] = Quote /\ t[s + n] = Quote
    BY <1>3, <2>3, <2>5
  <2>7. \A k \in 1 .. n : t[s + k - 1] = u[k]
    BY <1>3, <2>3, <2>5
  <2>8. HasQuoted(t, s, v)
    BY <1>2, <2>1, <2>2, <2>5, <2>6, <2>7 DEF HasQuoted
  <2>9. Len(v) # 0 /\ v[Len(v)] # Backslash
    BY <1>4, EmptyIs DEF NeedsQuotes, LossyValue
  <2>10. Quoted(t, s) = [end |-> s + n + 1, value |-> Escaped(v, FALSE)]
    BY <2>1, <2>2, <2>4, <2>8, <2>9, QuotedEscaped
  <2>11. ValueAt(t, at + 3) = Quoted(t, s)
    BY <1>2, <2>5, <2>6 DEF ValueAt
  <2>12. PICK x : x = ValueAt(t, at + 3)
    OBVIOUS
  <2>13. x.end = s + n + 1 /\ x.value = Escaped(v, FALSE)
    <3>1. PICK e, y : e = s + n + 1 /\ y = Escaped(v, FALSE)
      OBVIOUS
    <3>2. x = [end |-> e, value |-> y]
      BY <2>10, <2>11, <2>12, <3>1
    <3>. QED BY <3>1, <3>2
  <2>14. s + n + 1 = b + 1
    BY <2>5
  <2>15. Unescape(x.value) = v
    BY <2>13, UnescapeEscaped
  <2>. QED BY <2>12, <2>13, <2>14, <2>15 DEF IsValue
<1>5. CASE ~NeedsQuotes(v)
  <2>1. w = Escaped(v, FALSE)
    BY <1>1, <1>5 DEF IsSafeValue
  <2>2. w \in Lists(Words) /\ (\A k \in 1 .. l : w[k] # Semicolon) /\ (l # 0 => w[1] # Quote)
    BY <1>2, <1>5, <2>1, UnquotedValue
  <2>3. ~(at + 3 < T /\ t[at + 4] = Quote)
    <3>1. CASE l = 0
      <4>1. b = at + 3 /\ b + 1 = at + 4
        BY <1>2, <3>1
      <4>2. b = T \/ t[b + 1] = Semicolon
        BY <1>2 DEF Ends
      <4>3. at + 3 = T => ~(at + 3 < T)
        BY <1>2
      <4>. QED BY <4>1, <4>2, <4>3, QuotedCharacters
    <3>2. CASE l # 0
      <4>1. 1 \in 1 .. l /\ at + 3 + 1 = at + 4
        BY <1>2, <3>2
      <4>. QED BY <1>3, <2>2, <3>2, <4>1
    <3>. QED BY <3>1, <3>2
  <2>4. EndOf(t, at + 4, {Semicolon}) = b + 1
    <3>1. /\ at + 4 \in 1 .. T + 1 /\ b + 1 \in at + 4 .. T + 1 /\ b + 1 - 1 = b
          /\ \A k \in at + 4 .. b : k - (at + 3) \in 1 .. l /\ k = at + 3 + (k - (at + 3))
      BY <1>2
    <3>2. ASSUME NEW k \in at + 4 .. b PROVE t[k] \notin {Semicolon}
      <4>1. PICK j \in 1 .. l : k = at + 3 + j
        BY <3>1
      <4>. QED BY <1>3, <2>2, <4>1
    <3>3. b + 1 = T + 1 \/ t[b + 1] \in {Semicolon}
      BY <1>2 DEF Ends
    <3>4. \A k \in at + 4 .. b + 1 - 1 : t[k] \notin {Semicolon}
      BY <3>1, <3>2
    <3>5. PICK i, e, stops : i = at + 4 /\ e = b + 1 /\ stops = {Semicolon}
      OBVIOUS
    <3>6. /\ i \in 1 .. Len(t) + 1 /\ e \in i .. Len(t) + 1 /\ \A k \in i .. e - 1 : t[k] \notin stops
          /\ e = Len(t) + 1 \/ t[e] \in stops
      BY <1>2, <3>1, <3>3, <3>4, <3>5
    <3>7. EndOf(t, i, stops) = e
      BY <3>6, EndOfAt
    <3>. QED BY <3>5, <3>7
  <2>5. Slice(t, at + 4, b) = w
    <3>1. PICK x : x = Slice(t, at + 4, b)
      OBVIOUS
    <3>2. at + 4 \in Int /\ b \in Int /\ 1 <= at + 4 /\ at + 4 <= b + 1 /\ b <= Len(t)
      BY <1>2
    <3>3. x \in Lists(Words) /\ IsSlice(x, t, at + 4, b)
      BY <3>1, <3>2, Sliced
    <3>4. b - (at + 4) + 1 = l /\ \A i \in 1 .. l : at + 4 + i - 1 = at + 3 + i
      BY <1>2
    <3>5. Len(x) = l /\ \A i \in 1 .. l : x[i] = t[at + 3 + i]
      BY <3>3, <3>4 DEF IsSlice
    <3>6. Len(x) = Len(w) /\ \A i \in 1 .. Len(x) : x[i] = w[i]
      BY <1>2, <1>3, <3>5
    <3>. QED BY <2>2, <3>1, <3>3, <3>6, SameList
  <2>6. ValueAt(t, at + 3) = [end |-> b + 1, value |-> w]
    <3>1. at + 3 + 1 = at + 4 /\ b + 1 - 1 = b
      OBVIOUS
    <3>2. PICK e, y : e = b + 1 /\ y = at + 4
      OBVIOUS
    <3>3. /\ ~(at + 3 < Len(t) /\ t[at + 3 + 1] = Quote)
          /\ e = EndOf(t, at + 3 + 1, {Semicolon}) /\ Slice(t, at + 3 + 1, e - 1) = w
      BY <1>2, <2>3, <2>4, <2>5, <3>1, <3>2
    <3>4. ValueAt(t, at + 3) = [end |-> e, value |-> w]
      BY <3>3 DEF ValueAt, Slice
    <3>. QED BY <3>2, <3>4
  <2>7. Unescape(w) = v
    BY <2>1, UnescapeEscaped
  <2>. QED BY <2>6, <2>7 DEF IsValue
<1>. QED BY <1>4, <1>5

IsParameter(t, at, separator, name, v, b) ==
    /\ name \in Words \ Specials /\ ~LossyValue(v) /\ HasParameter(t, at, separator, name, v)
    /\ b = at + 3 + Len(SafeValue(v)) /\ b <= Len(t) /\ Ends(t, b)

\* A parameter is read with its name and its value.
LEMMA ParameterRead ==
  ASSUME NEW t \in Lists(Words), NEW at \in Nat, NEW separator, NEW name,
         NEW v \in Lists(Words), NEW b \in Nat, IsParameter(t, at, separator, name, v, b)
  PROVE  /\ ~Malformed(t, at + 2) /\ t[at + 2] = name /\ at + 2 <= Len(t)
         /\ ValueOf(t, at + 2).end = b + 1 /\ Unescape(ValueOf(t, at + 2).value) = v
<1>0. /\ name \in Words \ Specials /\ ~LossyValue(v) /\ HasParameter(t, at, separator, name, v)
      /\ b = at + 3 + Len(SafeValue(v)) /\ b <= Len(t) /\ Ends(t, b)
  BY DEF IsParameter
<1>1. PICK T \in Nat, l \in Nat : T = Len(t) /\ l = Len(SafeValue(v)) /\ b = at + 3 + l /\ b <= T
  BY <1>0, SafeValueIs, ListLen DEF IsSafeValue
<1>2. t[at + 2] = name /\ t[at + 3] = Equal /\ name # Equal
  BY <1>0, Separators DEF HasParameter
<1>3. PICK a \in Nat, e \in Nat : a = at + 2 /\ e = at + 3 /\ e = a + 1 /\ e <= T /\ a <= T /\ a # 0
  BY <1>1
<1>4. EndOf(t, a, {Equal}) = e
  <2>1. PICK stops : stops = {Equal}
    OBVIOUS
  <2>2. a \in 1 .. T + 1 /\ e \in a .. T + 1 /\ \A k \in a .. e - 1 : k = a
    BY <1>3
  <2>3. (\A k \in a .. e - 1 : t[k] \notin stops) /\ t[e] \in stops
    BY <1>2, <1>3, <2>1, <2>2
  <2>4. EndOf(t, a, stops) = e
    BY <1>1, <2>2, <2>3, EndOfAt
  <2>. QED BY <2>1, <2>4
<1>5. PICK x : x = ValueAt(t, e) /\ x = ValueOf(t, a)
  BY <1>4 DEF ValueOf
<1>6. IsValue(x, b, v)
  BY <1>0, <1>3, <1>5, ValueRead
<1>7. x.end = b + 1 /\ Unescape(x.value) = v
  BY <1>6 DEF IsValue
<1>8. ~(x.end = 0) /\ ~(e > T) /\ ~(b + 1 <= T /\ t[b + 1] # Semicolon)
  <2>1. b = T \/ t[b + 1] = Semicolon
    BY <1>0, <1>1 DEF Ends
  <2>2. b + 1 # 0 /\ ~(e > T) /\ (b = T => ~(b + 1 <= T))
    BY <1>1, <1>3
  <2>. QED BY <1>7, <2>1, <2>2
<1>9. ~Malformed(t, a)
  BY <1>0, <1>1, <1>2, <1>3, <1>4, <1>5, <1>7, <1>8 DEF Malformed
<1>. QED BY <1>1, <1>2, <1>3, <1>5, <1>7, <1>9

\* The parameters from the i-th on.
Later(names, i, n) == {names[j] : j \in i .. n}
Restricted(p, D) == [x \in D |-> p[x]]
Rest(names, i, n, p) == [ok |-> TRUE, parameters |-> Restricted(p, Later(names, i, n))]

\* The names from a position on.
LEMMA LaterIs ==
  ASSUME NEW n \in Nat, NEW names, NEW D, IsNames(names, n, D), NEW i \in 1 .. n
  PROVE  /\ names[i] \notin Later(names, i + 1, n)
         /\ Later(names, i, n) = Later(names, i + 1, n) \cup {names[i]}
<1>1. \A j \in i + 1 .. n : j \in 1 .. n /\ j # i
  OBVIOUS
<1>2. \A j : j \in i .. n <=> (j = i \/ j \in i + 1 .. n)
  OBVIOUS
<1>3. names[i] \notin Later(names, i + 1, n)
  BY <1>1 DEF IsNames, Later
<1>4. Later(names, i, n) = Later(names, i + 1, n) \cup {names[i]}
  BY <1>2 DEF Later
<1>. QED BY <1>3, <1>4

\* One parameter and those after it.
LEMMA MoreRest ==
  ASSUME NEW p, NEW n \in Nat, NEW names, IsNames(names, n, DOMAIN p), NEW i \in 1 .. n
  PROVE  More(names[i], p[names[i]], Rest(names, i + 1, n, p)) = Rest(names, i, n, p)
<1>1. PICK D, E, x : /\ D = Later(names, i + 1, n) /\ E = Later(names, i, n) /\ x = names[i]
                     /\ x \notin D /\ E = D \cup {x}
  BY LaterIs
<1>2. Added(Restricted(p, D), x, p[x]) = Restricted(p, E)
  BY <1>1 DEF Added, Restricted
<1>3. DOMAIN Restricted(p, D) = D
  BY DEF Restricted
<1>4. PICK q : q = Restricted(p, D)
  OBVIOUS
<1>5. More(x, p[x], [ok |-> TRUE, parameters |-> q]) = [ok |-> TRUE, parameters |-> Added(q, x, p[x])]
  BY <1>1, <1>3, <1>4 DEF More
<1>. QED BY <1>1, <1>2, <1>4, <1>5 DEF Rest

\* There are no parameters after the last one.
LEMMA RestEnds ==
  ASSUME NEW names, NEW n \in Nat, NEW p
  PROVE  Rest(names, n + 1, n, p) = [ok |-> TRUE, parameters |-> NoParameters]
<1>1. Later(names, n + 1, n) = {}
  BY DEF Later
<1>2. Restricted(p, {}) = NoParameters
  BY DEF Restricted, NoParameters
<1>. QED BY <1>1, <1>2 DEF Rest

\* The parameters from the first one on are all of them.
LEMMA RestAll ==
  ASSUME NEW p \in Params, NEW n \in Nat, NEW names, IsNames(names, n, DOMAIN p)
  PROVE  Rest(names, 1, n, p) = [ok |-> TRUE, parameters |-> p]
<1>1. p = [x \in DOMAIN p |-> p[x]]
  BY ParamsAre
<1>2. Later(names, 1, n) = DOMAIN p
  <2>1. (\A j \in 1 .. n : names[j] \in DOMAIN p) /\ \A x \in DOMAIN p : \E j \in 1 .. n : names[j] = x
    BY DEF IsNames
  <2>. QED BY <2>1 DEF Later
<1>3. Restricted(p, DOMAIN p) = p
  BY <1>1 DEF Restricted
<1>. QED BY <1>2, <1>3 DEF Rest

\* All parameters are read when no value is lossy.
LEMMA ParametersRead ==
  ASSUME NEW m, GoodMessage(m), NEW t, NEW names, NEW n, NEW o, IsText(t, m, names, n, o),
         \A x \in DOMAIN m.parameters : ~LossyValue(m.parameters[x])
  PROVE  Parameters(t, HeaderLen(m) + 2) = [ok |-> TRUE, parameters |-> m.parameters]
<1>1. PICK p : p = m.parameters /\ p \in Params /\ DOMAIN p \subseteq Words \ Specials
  BY DEF GoodMessage, MessageSet, Plain
<1>2. t \in Lists(Words) /\ n \in Nat /\ IsNames(names, n, DOMAIN p) /\ IsLayout(o, n, names, m, Len(t))
  BY <1>1 DEF IsText, StartsWith
<1>3. PICK H \in Nat, T \in Nat : H = HeaderLen(m) /\ T = Len(t)
  <2>1. HeaderLen(m) \in Nat
    BY <1>2 DEF IsLayout
  <2>2. Len(t) \in Nat
    BY <1>2, ListLen
  <2>. QED BY <2>1, <2>2
<1>4. /\ o \in [0 .. n -> Nat] /\ o[0] = H /\ o[n] = T
      /\ \A i \in 0 .. n : H <= o[i] /\ o[i] <= T
      /\ \A i \in 1 .. n : o[i] = o[i - 1] + 3 + Len(SafeValue(p[names[i]]))
  BY <1>1, <1>2, <1>3 DEF IsLayout
<1>5. \A i \in 1 .. n : HasParameter(t, o[i - 1], Separator(i), names[i], p[names[i]])
  BY <1>1 DEF IsText
<1>6. \A i \in 1 .. n : /\ names[i] \in Words \ Specials /\ p[names[i]] \in Lists(Words)
                        /\ ~LossyValue(p[names[i]])
  <2>1. \A i \in 1 .. n : names[i] \in DOMAIN p
    BY <1>2 DEF IsNames
  <2>2. \A x \in DOMAIN p : p[x] \in Lists(Words)
    BY <1>1, ParamsAre
  <2>. QED BY <1>1, <2>1, <2>2
<1>7. PICK start \in Nat : start = H + 2 /\ start \in 1 .. T + 2
  <2>1. 0 \in 0 .. n
    BY <1>2
  <2>2. H <= T
    BY <1>4, <2>1
  <2>. QED BY <1>3, <2>2
<1>8. PICK parse : IsParameters(parse, t, start)
  BY <1>2, <1>3, <1>7, ParametersParse
<1>9. \A i \in start .. T + 2 : parse[i] = ParametersFrom(t, i, parse)
  BY <1>3, <1>8 DEF IsParameters
<1>. DEFINE S == {i \in 1 .. n + 1 : parse[o[i - 1] + 2] = Rest(names, i, n, p)}
<1>10. n + 1 \in S
  <2>1. n + 1 \in 1 .. n + 1 /\ n + 1 - 1 = n /\ T + 2 \in start .. T + 2 /\ T + 2 > T /\ T + 2 \in Nat
    BY <1>2, <1>3, <1>7
  <2>2. parse[T + 2] = ParametersFrom(t, T + 2, parse)
    BY <1>9, <2>1
  <2>3. ParametersFrom(t, T + 2, parse) = ParametersEnd(t, T + 2)
    BY <1>2, <1>3, <2>1, ParametersStep
  <2>4. ParametersEnd(t, T + 2) = [ok |-> TRUE, parameters |-> NoParameters]
    BY <1>3, <2>1 DEF ParametersEnd
  <2>5. parse[o[n] + 2] = Rest(names, n + 1, n, p)
    BY <1>2, <1>4, <2>1, <2>2, <2>3, <2>4, RestEnds
  <2>8. PICK k \in Nat : k = n + 1 /\ k - 1 = n
    BY <1>2
  <2>6. k = n + 1 /\ k \in 1 .. n + 1 /\ parse[o[k - 1] + 2] = Rest(names, k, n, p)
    BY <2>1, <2>5, <2>8
  <2>7. k \in S
    BY <2>6
  <2>. QED BY <2>6, <2>7
<1>11. ASSUME NEW i \in 1 .. n, i + 1 \in S PROVE i \in S
  <2>1. i \in 1 .. n + 1 /\ i - 1 \in 0 .. n /\ i \in 0 .. n /\ i + 1 - 1 = i
    BY <1>2
  <2>16. o[i - 1] \in Nat /\ o[i] \in Nat
    BY <1>4, <2>1
  <2>17. PICK at \in Nat : at = o[i - 1]
    BY <2>16
  <2>18. PICK b \in Nat : b = o[i]
    BY <2>16
  <2>19. PICK v : v = p[names[i]]
    OBVIOUS
  <2>20. v \in Lists(Words)
    BY <1>6, <2>19
  <2>21. PICK l \in Nat : l = Len(SafeValue(v))
    BY <2>20, SafeValueIs, ListLen DEF IsSafeValue
  <2>2. /\ at = o[i - 1] /\ b = o[i] /\ v = p[names[i]] /\ l = Len(SafeValue(v))
        /\ b = at + 3 + l
    BY <1>4, <2>17, <2>18, <2>19, <2>21
  <2>3. H <= at /\ b <= T
    BY <1>4, <2>1, <2>2
  <2>15. b = at + 3 + l
    BY <2>2
  <2>4. Ends(t, b)
    <3>1. CASE i = n
      BY <1>3, <1>4, <2>2, <3>1 DEF Ends
    <3>2. CASE i # n
      <4>1. i + 1 \in 1 .. n /\ i + 1 # 1
        BY <1>2, <3>2
      <4>2. PICK j \in 1 .. n : j = i + 1 /\ j - 1 = i /\ j # 1
        BY <2>1, <4>1
      <4>3. HasParameter(t, o[j - 1], Separator(j), names[j], p[names[j]])
        BY <1>5
      <4>4. t[o[j - 1] + 1] = Semicolon
        BY <4>2, <4>3 DEF HasParameter, Separator
      <4>. QED BY <2>2, <4>2, <4>4 DEF Ends
    <3>. QED BY <3>1, <3>2
  <2>5. PICK name, separator : name = names[i] /\ HasParameter(t, at, separator, name, v)
    BY <1>5, <2>2
  <2>6. PICK a \in Nat : a = at + 2 /\ a \in start .. T + 2
    BY <1>3, <1>7, <2>3, <2>15
  <2>7. /\ ~Malformed(t, a) /\ t[a] = name /\ a <= T
        /\ ValueOf(t, a).end = b + 1 /\ Unescape(ValueOf(t, a).value) = v
    <3>1. name \in Words \ Specials /\ v \in Lists(Words) /\ ~LossyValue(v)
      BY <1>6, <2>2, <2>5
    <3>2. b = at + 3 + Len(SafeValue(v)) /\ b <= Len(t)
      BY <1>3, <2>2, <2>3
    <3>3. /\ ~Malformed(t, at + 2) /\ t[at + 2] = name /\ at + 2 <= Len(t)
          /\ ValueOf(t, at + 2).end = b + 1 /\ Unescape(ValueOf(t, at + 2).value) = v
      <4>1. IsParameter(t, at, separator, name, v, b)
        BY <2>4, <2>5, <3>1, <3>2 DEF IsParameter
      <4>. QED BY <1>2, <3>1, <4>1, ParameterRead
    <3>. QED BY <1>3, <2>6, <3>3
  <2>8. parse[a] = ParametersFrom(t, a, parse)
    BY <1>9, <2>6
  <2>9. ~(a > Len(t))
    BY <1>3, <2>6, <2>7
  <2>10. ParametersFrom(t, a, parse) = More(name, v, parse[b + 1 + 1])
    BY <1>2, <2>6, <2>7, <2>9, ParametersStep
  <2>11. b + 1 + 1 = b + 2
    BY <2>2
  <2>12. parse[b + 2] = Rest(names, i + 1, n, p)
    <3>1. PICK j : j = i + 1 /\ j \in S /\ j - 1 = i
      BY <1>11, <2>1
    <3>2. parse[o[j - 1] + 2] = Rest(names, j, n, p)
      BY <3>1
    <3>. QED BY <2>2, <3>1, <3>2
  <2>13. More(name, v, Rest(names, i + 1, n, p)) = Rest(names, i, n, p)
    BY <1>2, <2>2, <2>5, MoreRest
  <2>14. parse[o[i - 1] + 2] = Rest(names, i, n, p)
    BY <2>2, <2>6, <2>8, <2>10, <2>11, <2>12, <2>13
  <2>. QED BY <2>1, <2>14
<1>12. 1 \in S
  <2>. HIDE DEF S
  <2>1. 1 \in Int /\ n + 1 \in Int /\ 1 \in 1 .. n + 1
    BY <1>2
  <2>2. ASSUME NEW i \in 1 .. n + 1, \A j \in i + 1 .. n + 1 : j \in S PROVE i \in S
    <3>1. CASE i = n + 1
      BY <1>10, <3>1
    <3>2. CASE i # n + 1
      <4>1. i \in 1 .. n /\ i + 1 \in i + 1 .. n + 1
        BY <1>2, <3>2
      <4>. QED BY <1>11, <2>2, <4>1
    <3>. QED BY <3>1, <3>2
  <2>. QED BY <2>1, <2>2, Downward
<1>13. 1 - 1 = 0
  OBVIOUS
<1>14. parse[start] = Rest(names, 1, n, p)
  BY <1>4, <1>7, <1>12, <1>13
<1>15. Parameters(t, start) = parse[start]
  BY <1>8 DEF IsParameters
<1>. QED BY <1>1, <1>2, <1>3, <1>7, <1>14, <1>15, RestAll

\* A message is read with the names it was sent with.
SameHeader(x, m) ==
    /\ x.sent_from_server = m.sent_from_server /\ x.sent_from_service = m.sent_from_service
    /\ x.server = m.server /\ x.service = m.service /\ x.command = m.command
    /\ x.parameters \in Params

\* A text that is not refused is read with the names of its message.
LEMMA ReadHeader ==
  ASSUME NEW m, GoodMessage(m)
  PROVE  from_string(to_string(m)) = Refused \/ SameHeader(from_string(to_string(m)), m)
<1>1. PICK t, names, n, o : t = to_string(m) /\ IsText(t, m, names, n, o)
  BY TextIs
<1>2. PICK u : u = BeforeNul(Trim(t)) /\ IsHeader(u, m)
  <2>1. IsHeader(Trim(t), m)
    BY <1>1, TextHeader, TrimmedHeader
  <2>. QED BY <2>1, HeaderBeforeNul
<1>3. from_string(t) = ReadAs(u, m)
  BY <1>2, ParsedHeader DEF from_string
<1>4. PICK H \in Nat : H = HeaderLen(m) /\ H + 2 \in 1 .. Len(u) + 2
  <2>1. HeaderLen(m) \in Nat
    BY <1>2, RecipientRead
  <2>2. HeaderLen(m) <= Len(u) /\ u \in Lists(Words)
    BY <1>2 DEF IsHeader
  <2>3. Len(u) \in Nat
    BY <2>2, ListLen
  <2>. QED BY <2>1, <2>2, <2>3
<1>5. u \in Lists(Words)
  BY <1>2 DEF IsHeader
<1>6. PICK start : start = H + 2
  OBVIOUS
<1>7. PICK parse : IsParameters(parse, u, start)
  BY <1>4, <1>5, <1>6, ParametersParse
<1>8. start \in start .. Len(u) + 2
  <2>1. Len(u) \in Nat
    BY <1>5, ListLen
  <2>. QED BY <1>4, <1>6, <2>1
<1>9. PICK p : p = Parameters(u, start) /\ p \in ParsedSet
  BY <1>7, <1>8 DEF IsParameters
<1>10. p.parameters \in Params
  BY <1>9 DEF ParsedSet
<1>11. CASE ~p.ok
  BY <1>1, <1>3, <1>4, <1>6, <1>9, <1>11 DEF ReadAs
<1>12. CASE p.ok
  <2>1. from_string(t) = WithHeader(m, p.parameters, m.sent_from_server, m.sent_from_service)
    BY <1>3, <1>4, <1>6, <1>9, <1>12 DEF ReadAs
  <2>2. PICK q : q = p.parameters /\ q \in Params
    BY <1>10
  <2>3. SameHeader(WithHeader(m, q, m.sent_from_server, m.sent_from_service), m)
    BY <2>2 DEF SameHeader, WithHeader
  <2>. QED BY <1>1, <2>1, <2>2, <2>3
<1>. QED BY <1>11, <1>12

\* Only a lossy message has a text that ends with white space.
LEMMA LineEnd ==
  ASSUME NEW m, GoodMessage(m), NEW t, NEW names, NEW n, NEW o, IsText(t, m, names, n, o),
         \A x \in DOMAIN m.parameters : ~LossyValue(m.parameters[x])
  PROVE  t[Len(t)] \notin White
<1>1. PICK p : p = m.parameters /\ p \in Params
  BY DEF GoodMessage, MessageSet
<1>2. t \in Lists(Words) /\ n \in Nat /\ IsNames(names, n, DOMAIN p) /\ IsLayout(o, n, names, m, Len(t))
  BY <1>1 DEF IsText, StartsWith
<1>3. o \in [0 .. n -> Nat] /\ o[0] = HeaderLen(m) /\ o[n] = Len(t)
  BY <1>2 DEF IsLayout
<1>4. CASE n = 0
  <2>1. t[HeaderLen(m)] \notin White
    BY TextHeader, HeaderKept DEF Lost
  <2>. QED BY <1>3, <1>4, <2>1
<1>5. CASE n # 0
  <2>1. n \in 1 .. n /\ n - 1 \in 0 .. n
    BY <1>2, <1>5
  <2>2. PICK at \in Nat : at = o[n - 1]
    BY <1>3, <2>1
  <2>3. PICK v : v = p[names[n]]
    OBVIOUS
  <2>4. v \in Lists(Words) /\ ~LossyValue(v)
    <3>1. names[n] \in DOMAIN p
      BY <1>2, <2>1 DEF IsNames
    <3>. QED BY <1>1, <2>3, <3>1, ParamsAre
  <2>5. PICK l \in Nat : l = Len(SafeValue(v))
    BY <2>4, SafeValueIs, ListLen DEF IsSafeValue
  <2>6. Len(t) = at + 3 + l
    BY <1>1, <1>2, <1>3, <2>1, <2>2, <2>3, <2>5 DEF IsLayout
  <2>7. HasParameter(t, at, Separator(n), names[n], v)
    BY <1>1, <2>1, <2>2, <2>3 DEF IsText
  <2>8. t[at + 3] = Equal /\ \A k \in 1 .. l : t[at + 3 + k] = SafeValue(v)[k]
    BY <2>5, <2>7 DEF HasParameter
  <2>9. CASE l = 0
    <3>1. at + 3 + l = at + 3
      BY <2>2, <2>9
    <3>. QED BY <2>6, <2>8, <3>1, Separators DEF Lost
  <2>10. CASE l # 0
    <3>1. l \in 1 .. l
      BY <2>5, <2>10
    <3>2. SafeValue(v)[l] \notin White
      BY <2>4, <2>5, <2>10, EndOfValue
    <3>. QED BY <2>6, <2>8, <3>1, <3>2
  <2>. QED BY <2>9, <2>10
<1>. QED BY <1>4, <1>5

\* Only a lossy message has a text with a character 0.
LEMMA LineNoNul ==
  ASSUME NEW m, GoodMessage(m), NEW t, NEW names, NEW n, NEW o, IsText(t, m, names, n, o),
         \A x \in DOMAIN m.parameters : ~LossyValue(m.parameters[x])
  PROVE  \A k \in 1 .. Len(t) : t[k] # Nul
<1>1. PICK p : p = m.parameters /\ p \in Params /\ DOMAIN p \subseteq Words \ Specials
  BY DEF GoodMessage, MessageSet, Plain
<1>2. t \in Lists(Words) /\ n \in Nat /\ IsNames(names, n, DOMAIN p) /\ IsLayout(o, n, names, m, Len(t))
  BY <1>1 DEF IsText, StartsWith
<1>3. o \in [0 .. n -> Nat] /\ o[0] = HeaderLen(m) /\ o[n] = Len(t)
  BY <1>2 DEF IsLayout
<1>. DEFINE S == {i \in 0 .. n : \A k \in 1 .. o[i] : t[k] # Nul}
<1>4. 0 \in S
  <2>1. 0 \in 0 .. n
    BY <1>2
  <2>2. \A k \in 1 .. HeaderLen(m) : t[k] # Nul
    BY TextHeader, HeaderKept
  <2>. QED BY <1>3, <2>1, <2>2
<1>5. ASSUME NEW i \in 0 .. n - 1, i \in S PROVE i + 1 \in S
  <2>1. PICK j \in 1 .. n : j = i + 1 /\ j - 1 = i /\ j \in 0 .. n /\ i \in 0 .. n
    BY <1>2
  <2>0. PICK name, v : name = names[j] /\ v = p[name]
    OBVIOUS
  <2>2. PICK at \in Nat, b \in Nat : at = o[i] /\ b = o[j] /\ name = names[j] /\ v = p[name]
    BY <1>3, <2>0, <2>1
  <2>3. name \in Words \ Specials /\ v \in Lists(Words) /\ ~LossyValue(v)
    <3>1. name \in DOMAIN p
      BY <1>2, <2>1, <2>2 DEF IsNames
    <3>. QED BY <1>1, <2>2, <3>1, ParamsAre
  <2>4. PICK l \in Nat : l = Len(SafeValue(v))
    BY <2>3, SafeValueIs, ListLen DEF IsSafeValue
  <2>5. b = at + 3 + l
    BY <1>1, <1>2, <2>1, <2>2, <2>4 DEF IsLayout
  <2>6. HasParameter(t, at, Separator(j), name, v)
    BY <1>1, <2>1, <2>2 DEF IsText
  <2>7. /\ t[at + 1] = Separator(j) /\ t[at + 2] = name /\ t[at + 3] = Equal
        /\ \A k \in 1 .. l : t[at + 3 + k] = SafeValue(v)[k]
    BY <2>4, <2>6 DEF HasParameter
  <2>8. /\ Separator(j) # Nul /\ name # Nul /\ Equal # Nul
        /\ \A k \in 1 .. l : SafeValue(v)[k] # Nul
    BY <2>3, <2>4, Separators, ValueNoNul DEF Separator
  <2>9. ASSUME NEW k \in 1 .. b PROVE t[k] # Nul
    <3>1. \/ k \in 1 .. at \/ k = at + 1 \/ k = at + 2 \/ k = at + 3
          \/ k - (at + 3) \in 1 .. l /\ k = at + 3 + (k - (at + 3))
      BY <2>5
    <3>2. CASE k \in 1 .. at
      BY <1>5, <2>2, <3>2
    <3>3. CASE k - (at + 3) \in 1 .. l /\ k = at + 3 + (k - (at + 3))
      <4>1. PICK x \in 1 .. l : k = at + 3 + x
        BY <3>3
      <4>. QED BY <2>7, <2>8, <4>1
    <3>. QED BY <2>7, <2>8, <3>1, <3>2, <3>3
  <2>. QED BY <2>1, <2>2, <2>9
<1>6. n \in S
  <2>1. 0 \in Int /\ n \in Int /\ n \in 0 .. n
    BY <1>2
  <2>. HIDE DEF S
  <2>. QED BY <1>4, <1>5, <2>1, Upward
<1>. QED BY <1>3, <1>6

\* from_string() reads what to_string() wrote: every message with a command,
\* any names and any parameters, in whatever order they are written, whose
\* values have no character 0, do not end with white space and, if they need
\* quotes, not with a backslash (message.cpp:208-458, 795-891).
THEOREM ReadBack ==
  ASSUME NEW m, GoodMessage(m), ~Lossy(m)
  PROVE  from_string(to_string(m)) = m
<1>1. PICK t, names, n, o : t = to_string(m) /\ IsText(t, m, names, n, o)
  BY TextIs
<1>2. \A x \in DOMAIN m.parameters : ~LossyValue(m.parameters[x])
  BY DEF Lossy
<1>3. t[Len(t)] \notin White /\ \A k \in 1 .. Len(t) : t[k] # Nul
  BY <1>1, <1>2, LineEnd, LineNoNul
<1>4. Trim(t) = t /\ BeforeNul(t) = t /\ IsHeader(t, m)
  BY <1>1, <1>3, TextHeader, TrimmedHeader, HeaderBeforeNul
<1>5. from_string(t) = ReadAs(t, m)
  BY <1>4, ParsedHeader DEF from_string
<1>6. PICK p : p = m.parameters
  OBVIOUS
<1>7. Parameters(t, HeaderLen(m) + 2) = [ok |-> TRUE, parameters |-> p]
  BY <1>1, <1>2, <1>6, ParametersRead
<1>8. ReadAs(t, m) = WithHeader(m, p, m.sent_from_server, m.sent_from_service)
  BY <1>7 DEF ReadAs
<1>9. WithHeader(m, m.parameters, m.sent_from_server, m.sent_from_service) = m
  BY DEF WithHeader, GoodMessage, MessageSet
<1>. QED BY <1>1, <1>5, <1>6, <1>8, <1>9

---------------------------------------------------------------------------
(***************************************************************************)
(* The messages the services send.                                         *)
(***************************************************************************)

\* The names the services use.
Systematic == {"ABSOLUTELY", "COMMANDS", "UNKNOWN", "REGISTER", "UNREGISTER", "serial",
               "timestamp", "reply_timestamp", "list", "command", "service", "s", "c"}

\* The names the services use are names.
LEMMA PlainNames ==
  /\ None \in Plain /\ Systematic \subseteq Plain /\ "1" \in Words
  /\ \A n \in Systematic : n # None
<1>1. /\ None \notin Specials /\ \A n \in Systematic : n \notin Specials /\ n # None
  BY Zenon DEF Systematic, Specials, White, None, Less, Colon, Slash, Blank, Tab, Nul, Equal,
               Semicolon, Quote, Backslash, Newline, Return
<1>2. None \in Words /\ "1" \in Words
  BY DEF Words
<1>3. \A n \in Systematic : n \in Words
  <2>1. "UNKNOWN" \in Words
    <3>1. DOMAIN add_communicator_commands = 1 .. 11 /\ add_communicator_commands[11] = "UNKNOWN"
      BY DEF add_communicator_commands
    <3>. QED BY <3>1 DEF Words
  <2>. QED BY <2>1 DEF Systematic, Words
<1>. QED BY <1>1, <1>2, <1>3 DEF Plain

\* The messages that are sent: one who can be answered says how.
Answerable(m) == m.sent_from_server # None => m.sent_from_service # None
GoodMessages == {m \in MessageSet : GoodMessage(m) /\ Answerable(m)}

Answer(x, command, p) ==
    [sent_from_server |-> None, sent_from_service |-> None, server |-> x.sent_from_server,
     service |-> x.sent_from_service, command |-> command, parameters |-> p]

Fields(sent_from_server, sent_from_service, server, service, command, parameters) ==
    [sent_from_server |-> sent_from_server, sent_from_service |-> sent_from_service,
     server |-> server, service |-> service, command |-> command, parameters |-> parameters]

\* One field of a message changes.
LEMMA FieldSet ==
  ASSUME NEW a, NEW b, NEW c, NEW d, NEW e, NEW f, NEW x, NEW r, r = Fields(a, b, c, d, e, f)
  PROVE  /\ [r EXCEPT !.sent_from_server = x] = Fields(x, b, c, d, e, f)
         /\ [r EXCEPT !.sent_from_service = x] = Fields(a, x, c, d, e, f)
         /\ [r EXCEPT !.server = x] = Fields(a, b, x, d, e, f)
         /\ [r EXCEPT !.service = x] = Fields(a, b, c, x, e, f)
         /\ [r EXCEPT !.command = x] = Fields(a, b, c, d, x, f)
         /\ [r EXCEPT !.parameters = x] = Fields(a, b, c, d, e, x)
<1>1. [r EXCEPT !.sent_from_server = x] = Fields(x, b, c, d, e, f)
  BY DEF Fields
<1>2. [r EXCEPT !.sent_from_service = x] = Fields(a, x, c, d, e, f)
  BY DEF Fields
<1>3. [r EXCEPT !.server = x] = Fields(a, b, x, d, e, f)
  BY DEF Fields
<1>4. [r EXCEPT !.service = x] = Fields(a, b, c, x, e, f)
  BY DEF Fields
<1>5. [r EXCEPT !.command = x] = Fields(a, b, c, d, x, f)
  BY DEF Fields
<1>6. [r EXCEPT !.parameters = x] = Fields(a, b, c, d, e, x)
  BY DEF Fields
<1>. QED BY <1>1, <1>2, <1>3, <1>4, <1>5, <1>6

\* An answer, and a message of the service, field by field.
LEMMA AnswerIs ==
  ASSUME NEW x, NEW command, NEW p
  PROVE  /\ [reply_to(x) EXCEPT !.command = command, !.parameters = p] = Answer(x, command, p)
         /\ [EmptyMessage EXCEPT !.command = command, !.parameters = p] =
               Fields(None, None, None, None, command, p)
<1>1. PICK a, b : a = x.sent_from_server /\ b = x.sent_from_service
  OBVIOUS
<1>2. PICK q : q = EmptyMessage /\ q = Fields(None, None, None, None, None, NoParameters)
  BY DEF EmptyMessage, Fields
<1>3. ASSUME NEW r, NEW c, NEW d, r = Fields(None, None, c, d, None, NoParameters)
      PROVE  [r EXCEPT !.command = command, !.parameters = p] = Fields(None, None, c, d, command, p)
  <2>1. PICK u : u = [r EXCEPT !.command = command]
    OBVIOUS
  <2>2. u = Fields(None, None, c, d, command, NoParameters)
    BY <1>3, <2>1, FieldSet
  <2>3. PICK w : w = [u EXCEPT !.parameters = p]
    OBVIOUS
  <2>4. w = Fields(None, None, c, d, command, p)
    BY <2>2, <2>3, FieldSet
  <2>5. [r EXCEPT !.command = command, !.parameters = p] = w
    BY <2>1, <2>3
  <2>. QED BY <2>4, <2>5
<1>4. PICK r : r = reply_to(x) /\ r = Fields(None, None, a, b, None, NoParameters)
  <2>1. PICK u : u = [q EXCEPT !.server = a]
    OBVIOUS
  <2>2. u = Fields(None, None, a, None, None, NoParameters)
    <3>1. [q EXCEPT !.server = a] = Fields(None, None, a, None, None, NoParameters)
      <4>1. q = Fields(None, None, None, None, None, NoParameters)
        BY <1>2
      <4>. QED BY <4>1 DEF Fields
    <3>. QED BY <2>1, <3>1
  <2>3. PICK w : w = [u EXCEPT !.service = b]
    OBVIOUS
  <2>4. w = Fields(None, None, a, b, None, NoParameters)
    <3>1. [u EXCEPT !.service = b] = Fields(None, None, a, b, None, NoParameters)
      BY <2>2 DEF Fields
    <3>. QED BY <2>3, <3>1
  <2>5. reply_to(x) = w
    BY <1>1, <1>2, <2>1, <2>3 DEF reply_to
  <2>. QED BY <2>4, <2>5
<1>5. Answer(x, command, p) = Fields(None, None, a, b, command, p)
  BY <1>1 DEF Answer, Fields
<1>6. [r EXCEPT !.command = command, !.parameters = p] = Fields(None, None, a, b, command, p)
  BY <1>3, <1>4, Zenon
<1>7. [q EXCEPT !.command = command, !.parameters = p] = Fields(None, None, None, None, command, p)
  BY <1>2, <1>3, Zenon
<1>8. [reply_to(x) EXCEPT !.command = command, !.parameters = p] = Answer(x, command, p)
  BY <1>4, <1>5, <1>6, Zenon
<1>. QED BY <1>2, <1>7, <1>8, Zenon

\* One that has an address, and a name for each of its parameters, is sent.
LEMMA AnswerIn ==
  ASSUME NEW x, NEW m \in GoodMessages, SameHeader(x, m),
         NEW command \in Plain, command # None, NEW p \in Params, DOMAIN p \subseteq Plain
  PROVE  Answer(x, command, p) \in GoodMessages /\ Answer(x, command, p).command = command
<1>1. PICK a, b : /\ a = x.sent_from_server /\ b = x.sent_from_service /\ a \in Plain /\ b \in Plain
                  /\ a # None => b # None
  BY DEF GoodMessages, SameHeader, MessageSet, Answerable
<1>2. PICK r : r = Answer(x, command, p)
  OBVIOUS
<1>3. r = [sent_from_server |-> None, sent_from_service |-> None, server |-> a,
           service |-> b, command |-> command, parameters |-> p]
  BY <1>1, <1>2 DEF Answer
<1>4. r \in MessageSet
  BY <1>1, <1>3, PlainNames DEF MessageSet
<1>5. GoodMessage(r) /\ Answerable(r)
  BY <1>1, <1>3, <1>4 DEF GoodMessage, Answerable
<1>. QED BY <1>2, <1>3, <1>4, <1>5 DEF GoodMessages

\* Parameters with one name, and those of an answer to ALIVE.
OneParameter(name, value) == [n \in {name} |-> value]

\* One parameter is parameters.
LEMMA OneParameterIn ==
  ASSUME NEW name \in Plain, NEW value \in Lists(Words)
  PROVE  OneParameter(name, value) \in Params /\ DOMAIN OneParameter(name, value) \subseteq Plain
<1>1. PICK p : p = OneParameter(name, value)
  OBVIOUS
<1>2. DOMAIN p = {name} /\ p = [n \in {name} |-> p[n]] /\ p[name] = value
  BY <1>1 DEF OneParameter
<1>3. IsFiniteSet({name})
  BY FS_Singleton
<1>4. DOMAIN p \subseteq Words /\ DOMAIN p \subseteq Plain
  BY <1>2 DEF Plain
<1>5. p \in Params
  BY <1>2, <1>3, <1>4, ParamsAre
<1>. QED BY <1>1, <1>4, <1>5

Serial(p) == [n \in DOMAIN p \cap {"serial", "timestamp"} |-> p[n]]

\* The parameters of ABSOLUTELY are parameters.
LEMMA SerialIn ==
  ASSUME NEW p \in Params
  PROVE  /\ Added(Serial(p), "reply_timestamp", <<"1">>) \in Params
         /\ DOMAIN Added(Serial(p), "reply_timestamp", <<"1">>) \subseteq Plain
<1>1. PICK q : q = Serial(p)
  OBVIOUS
<1>2. DOMAIN q = DOMAIN p \cap {"serial", "timestamp"} /\ q = [n \in DOMAIN q |-> q[n]] /\ \A n \in DOMAIN q : q[n] = p[n]
  BY <1>1 DEF Serial
<1>3. DOMAIN p \subseteq Words /\ IsFiniteSet(DOMAIN p) /\ \A n \in DOMAIN p : p[n] \in Lists(Words)
  BY ParamsAre
<1>4. IsFiniteSet(DOMAIN q)
  <2>1. DOMAIN q \in SUBSET DOMAIN p
    BY <1>2
  <2>. QED BY <1>3, <2>1, FS_Subset
<1>5. DOMAIN q \subseteq Words /\ \A n \in DOMAIN q : q[n] \in Lists(Words)
  BY <1>2, <1>3
<1>6. q \in Params
  BY <1>2, <1>4, <1>5, ParamsAre
<1>7. "serial" \in Plain /\ "timestamp" \in Plain /\ "reply_timestamp" \in Plain
  BY PlainNames DEF Systematic
<1>8. "1" \in Words /\ "reply_timestamp" \in Words
  BY <1>7, PlainNames DEF Plain
<1>9. PICK v : v = <<"1">> /\ v \in Lists(Words)
  BY <1>8, Single
<1>10. Added(q, "reply_timestamp", v) \in Params
  BY <1>6, <1>8, <1>9, AddedIn
<1>11. DOMAIN Added(q, "reply_timestamp", v) = DOMAIN q \cup {"reply_timestamp"}
  BY AddedIs
<1>12. DOMAIN Added(q, "reply_timestamp", v) \subseteq Plain
  BY <1>2, <1>7, <1>11
<1>. QED BY <1>1, <1>9, <1>10, <1>12

FirstNamed(list) ==
    LET named == {i \in DOMAIN list : list[i].kind # "callback"}
    IN  {i \in named : \A j \in named : j < i => list[j].expr # list[i].expr}

\* The commands a service says it knows are those of its matches.
LEMMA CommandsKnown ==
  ASSUME NEW s, NEW top, ListOK(Matches(s), top)
  PROVE  /\ get_commands(s) \in Lists(Words)
         /\ \A c \in ToSet(get_commands(s)) : \E i \in 1 .. Len(Matches(s)) : IsFor(Matches(s)[i], c)
<1>1. PICK l : l = Matches(s) /\ l \in Lists(MatchSet) /\ DOMAIN l = 1 .. Len(l) /\ Len(l) \in Nat
  BY ListMatch DEF ListOK
<1>2. PICK S : S = FirstNamed(l)
  OBVIOUS
<1>3. PICK first : first = Kept(l, S) /\ first \in Lists(MatchSet)
  BY <1>1, KeptAt
<1>4. PICK at : IsKept(at, l, S, first)
  BY <1>1, <1>3, KeptAt
<1>5. PICK n \in Nat : n = Len(first) /\ DOMAIN first = 1 .. n /\ \A k \in 1 .. n : first[k] \in MatchSet
  BY <1>3, ListMatch
<1>6. PICK g : g = get_commands(s) /\ g = [k \in 1 .. n |-> first[k].expr]
  <2>1. get_commands(s) = [k \in DOMAIN Kept(Matches(s), FirstNamed(Matches(s))) |->
                             Kept(Matches(s), FirstNamed(Matches(s)))[k].expr]
    BY DEF get_commands, FirstNamed
  <2>2. get_commands(s) = [k \in DOMAIN first |-> first[k].expr]
    BY <1>1, <1>2, <1>3, <2>1
  <2>. QED BY <1>5, <2>2
<1>7. \A k \in 1 .. n : first[k].expr \in Words
  BY <1>5 DEF MatchSet
<1>8. g \in Lists(Words) /\ Len(g) = n
  <2>1. g \in [1 .. n -> Words]
    BY <1>6, <1>7
  <2>. QED BY <2>1 DEF Lists
<1>9. ASSUME NEW c \in ToSet(g) PROVE \E i \in 1 .. Len(l) : IsFor(l[i], c)
  <2>1. c \in {g[k] : k \in 1 .. n}
    BY <1>8, <1>9, ToSetIs
  <2>2. PICK k \in 1 .. n : c = first[k].expr
    BY <1>6, <2>1
  <2>3. at[k] \in 1 .. Len(l) /\ at[k] \in S /\ first[k] = l[at[k]]
    BY <1>4, <1>5 DEF IsKept
  <2>4. l[at[k]].kind # "callback"
    BY <1>2, <2>3 DEF FirstNamed
  <2>. QED BY <2>2, <2>3, <2>4 DEF IsFor
<1>. QED BY <1>1, <1>6, <1>8, <1>9

---------------------------------------------------------------------------
\* What the services send is good, and has the command it should.
LEMMA SystemMessages ==
  ASSUME NEW x, NEW m \in GoodMessages, SameHeader(x, m), NEW s, NEW top, ListOK(Matches(s), top)
  PROVE  /\ msg_alive(x) \in GoodMessages /\ msg_alive(x).command = "ABSOLUTELY"
         /\ send_commands(s, x) \in GoodMessages /\ send_commands(s, x).command = "COMMANDS"
         /\ msg_reply_with_unknown(x) \in GoodMessages
         /\ msg_reply_with_unknown(x).command = "UNKNOWN"
<1>1. \A n \in Systematic : n \in Plain /\ n # None
  BY PlainNames
<1>2. x.parameters \in Params /\ x.command \in Words
  BY DEF SameHeader, GoodMessages, MessageSet, Plain
<1>3. msg_alive(x) \in GoodMessages /\ msg_alive(x).command = "ABSOLUTELY"
  <2>1. PICK p, c : /\ p = Added(Serial(x.parameters), "reply_timestamp", <<"1">>) /\ c = "ABSOLUTELY"
                    /\ p \in Params /\ DOMAIN p \subseteq Plain
    BY <1>2, SerialIn
  <2>2. c \in Plain /\ c # None
    BY <1>1, <2>1 DEF Systematic
  <2>3. msg_alive(x) = [reply_to(x) EXCEPT !.command = c, !.parameters = p]
    BY <2>1 DEF msg_alive, Serial
  <2>4. msg_alive(x) = Answer(x, c, p)
    BY <2>3, AnswerIs
  <2>. QED BY <2>1, <2>2, <2>4, AnswerIn
<1>4. send_commands(s, x) \in GoodMessages /\ send_commands(s, x).command = "COMMANDS"
  <2>1. PICK g, n, c : g = get_commands(s) /\ n = "list" /\ c = "COMMANDS" /\ g \in Lists(Words)
    BY CommandsKnown
  <2>2. c \in Plain /\ c # None /\ n \in Plain
    BY <1>1, <2>1 DEF Systematic
  <2>3. PICK p : p = OneParameter(n, g) /\ p \in Params /\ DOMAIN p \subseteq Plain
    BY <2>1, <2>2, OneParameterIn
  <2>4. send_commands(s, x) = [reply_to(x) EXCEPT !.command = c, !.parameters = p]
    BY <2>1, <2>3 DEF send_commands, OneParameter
  <2>5. send_commands(s, x) = Answer(x, c, p)
    BY <2>4, AnswerIs
  <2>. QED BY <2>1, <2>2, <2>3, <2>5, AnswerIn
<1>5. msg_reply_with_unknown(x) \in GoodMessages /\ msg_reply_with_unknown(x).command = "UNKNOWN"
  <2>1. PICK g, n, c : g = <<x.command>> /\ n = "command" /\ c = "UNKNOWN" /\ g \in Lists(Words)
    BY <1>2, Single
  <2>2. c \in Plain /\ c # None /\ n \in Plain
    BY <1>1, <2>1 DEF Systematic
  <2>3. PICK p : p = OneParameter(n, g) /\ p \in Params /\ DOMAIN p \subseteq Plain
    BY <2>1, <2>2, OneParameterIn
  <2>4. msg_reply_with_unknown(x) = [reply_to(x) EXCEPT !.command = c, !.parameters = p]
    BY <2>1, <2>3 DEF msg_reply_with_unknown, OneParameter
  <2>5. msg_reply_with_unknown(x) = Answer(x, c, p)
    BY <2>4, AnswerIs
  <2>. QED BY <2>1, <2>2, <2>3, <2>5, AnswerIn
<1>. QED BY <1>3, <1>4, <1>5

\* The messages for the communicator have no address.
LEMMA ServiceMessages ==
  ASSUME NEW s \in {"s", "c"}, NEW command \in {"REGISTER", "UNREGISTER"}
  PROVE  [EmptyMessage EXCEPT !.command = command, !.parameters = [n \in {"service"} |-> <<s>>]]
            \in GoodMessages
<1>1. s \in Words /\ command \in Plain /\ command # None /\ "service" \in Plain /\ None \in Plain
  BY PlainNames DEF Systematic, Plain
<1>2. PICK v : v = <<s>> /\ v \in Lists(Words)
  BY <1>1, Single
<1>3. PICK p : p = OneParameter("service", v) /\ p \in Params /\ DOMAIN p \subseteq Plain
  BY <1>1, <1>2, OneParameterIn
<1>4. PICK r : r = Fields(None, None, None, None, command, p)
  OBVIOUS
<1>5. [EmptyMessage EXCEPT !.command = command, !.parameters = p] = r
  BY <1>4, AnswerIs
<1>6. r \in MessageSet
  BY <1>1, <1>3, <1>4 DEF MessageSet, Fields
<1>7. GoodMessage(r) /\ Answerable(r)
  BY <1>1, <1>3, <1>4, <1>6 DEF GoodMessage, Answerable, Fields
<1>8. r \in GoodMessages
  BY <1>6, <1>7 DEF GoodMessages
<1>9. p = [n \in {"service"} |-> <<s>>]
  BY <1>2, <1>3 DEF OneParameter
<1>. QED BY <1>5, <1>8, <1>9

\* The parts of what dispatch() does.
LEMMA DispatchIs ==
  ASSUME NEW l, NEW end, NEW msg
  PROVE  LET d == dispatch(l, end, msg)
         IN  /\ d.list = DispatchedList(l, msg) /\ d.called = CalledBy(l, msg)
             /\ d.unknown => Executed(l, msg) = {}
BY DEF dispatch, DispatchedList, CalledBy

\* A match that is called is for the command, or for all of them.
LEMMA CalledFor ==
  ASSUME NEW l, NEW top, ListOK(l, top), NEW msg, NEW m \in ToSet(CalledBy(l, msg)), m.expr # None
  PROVE  m.expr = msg.command
<1>1. l \in Lists(MatchSet) /\ \A i \in 1 .. Len(l) : Defined(l[i])
  BY DEF ListOK
<1>2. PICK called, at : called = CalledBy(l, msg) /\ IsCalled(at, l, msg, called)
  BY <1>1, CalledAt
<1>3. called \in Lists(MatchSet)
  BY <1>2 DEF IsCalled
<1>4. m \in {called[k] : k \in 1 .. Len(called)}
  BY <1>2, <1>3, ToSetIs
<1>5. PICK k \in 1 .. Len(called) : m = called[k]
  BY <1>4
<1>6. PICK i \in 1 .. Len(l) : m = l[i] /\ MatchAny(l[i], msg)
  BY <1>2, <1>5 DEF IsCalled
<1>7. m.kind # "callback"
  BY <1>1, <1>6 DEF Defined
<1>. QED BY <1>6, <1>7 DEF MatchAny, MatchTrue, one_to_one_match, one_to_one_callback_match, callback_match

\* UNKNOWN is known.
LEMMA UnknownIsKnown ==
  ASSUME NEW l, NEW top, ListOK(l, top), NEW msg, Executed(l, msg) = {}
  PROVE  msg.command # "UNKNOWN"
<1>1. l \in Lists(MatchSet)
  BY DEF ListOK
<1>2. PICK i \in 1 .. Len(l) : IsFor(l[i], "UNKNOWN")
  BY DEF ListOK, IsUnknown
<1>. QED BY <1>1, <1>2, KnownExecuted

---------------------------------------------------------------------------
\* An answer to an answer is UNKNOWN, and that one is not answered.
AnswerNames == {"ABSOLUTELY", "COMMANDS", "UNKNOWN"}
AnswerSet(x) ==
    {r \in GoodMessages : /\ r.command \in AnswerNames
                          /\ x.command \in AnswerNames => r.command = "UNKNOWN" /\ x.command # "UNKNOWN"}

SystemCalled(d, command) == \E m \in ToSet(d.called) : m.priority = SystemPriority /\ m.expr = command
Maybe(test, r) == IF test THEN Just(r) ELSE <<>>

\* A reply that may be there is a list of replies.
LEMMA MaybeIn ==
  ASSUME NEW T, NEW test, NEW r, test => r \in T
  PROVE  Maybe(test, r) \in Lists(T)
<1>1. CASE test
  BY <1>1, Single DEF Maybe, Just
<1>2. CASE ~test
  BY <1>2, Empty DEF Maybe
<1>. QED BY <1>1, <1>2

\* A service answers with what is an answer, and an answer with UNKNOWN only.
LEMMA RepliesIn ==
  ASSUME NEW x, NEW m \in GoodMessages, SameHeader(x, m), NEW s, NEW top, ListOK(Matches(s), top),
         NEW end, NEW d, d = dispatch(Matches(s), end, x)
  PROVE  Replies(s, d, x) \in Lists(AnswerSet(x))
<1>1. d.called = CalledBy(Matches(s), x) /\ (d.unknown => Executed(Matches(s), x) = {})
  BY DispatchIs
<1>2. "ALIVE" # None /\ "HELP" # None /\ "ALIVE" \notin AnswerNames /\ "HELP" \notin AnswerNames
  BY Zenon DEF AnswerNames, None
<1>3. ASSUME NEW c \in {"ALIVE", "HELP"}, SystemCalled(d, c) PROVE x.command \notin AnswerNames
  <2>1. PICK e \in ToSet(CalledBy(Matches(s), x)) : e.expr = c
    BY <1>1, <1>3 DEF SystemCalled
  <2>2. x.command = c
    BY <1>2, <2>1, CalledFor
  <2>. QED BY <1>2, <2>2
<1>4. SystemCalled(d, "ALIVE") => msg_alive(x) \in AnswerSet(x)
  BY <1>3, SystemMessages DEF AnswerSet, AnswerNames
<1>5. SystemCalled(d, "HELP") => send_commands(s, x) \in AnswerSet(x)
  BY <1>3, SystemMessages DEF AnswerSet, AnswerNames
<1>6. d.unknown => msg_reply_with_unknown(x) \in AnswerSet(x)
  <2>1. d.unknown => x.command # "UNKNOWN"
    BY <1>1, UnknownIsKnown
  <2>. QED BY <2>1, SystemMessages DEF AnswerSet, AnswerNames
<1>7. PICK a, b, c : /\ a = Maybe(SystemCalled(d, "ALIVE"), msg_alive(x))
                     /\ b = Maybe(SystemCalled(d, "HELP"), send_commands(s, x))
                     /\ c = Maybe(d.unknown, msg_reply_with_unknown(x))
  OBVIOUS
<1>8. a \in Lists(AnswerSet(x)) /\ b \in Lists(AnswerSet(x)) /\ c \in Lists(AnswerSet(x))
  BY <1>4, <1>5, <1>6, <1>7, MaybeIn
<1>9. Replies(s, d, x) = Cat(Cat(a, b), c)
  BY <1>7 DEF Replies, Cat, Maybe, SystemCalled, Just
<1>10. Cat(a, b) \in Lists(AnswerSet(x))
  BY <1>8, Joined
<1>. QED BY <1>8, <1>9, <1>10, Joined

\* The first element of a list and the others.
LEMMA TailIn ==
  ASSUME NEW T, NEW l \in Lists(T), l # <<>>
  PROVE  /\ Tail(l) \in Lists(T) /\ Len(Tail(l)) = Len(l) - 1 /\ Head(l) \in T
         /\ Len(l) \in Nat \ {0} /\ Len(Tail(l)) \in Nat
<1>1. l \in Seq(T)
  BY DEF Lists
<1>2. Len(l) \in Nat \ {0} /\ Head(l) = l[1] /\ l[1] \in T
  BY <1>1, EmptyIs
<1>3. Tail(l) \in Seq(T) /\ Len(Tail(l)) = Len(l) - 1
  BY <1>1
<1>. QED BY <1>2, <1>3 DEF Lists

\* A list with one more element at its end.
LEMMA AppendIn ==
  ASSUME NEW T, NEW l \in Lists(T), NEW x \in T
  PROVE  Append(l, x) \in Lists(T) /\ Len(Append(l, x)) = Len(l) + 1 /\ Len(l) \in Nat
BY DEF Lists

\* The lines of answers.
LinesOf(replies, answers) == [i \in DOMAIN replies |-> Line(replies[i], answers)]

LineOK(l) ==
    /\ l.text = to_string(l.msg)
    /\ l.answers # 0 => l.msg.command \in AnswerNames
    /\ l.answers = 2 => l.msg.command = "UNKNOWN"
LineSet == {l \in [text : Lists(Words), msg : GoodMessages, answers : 0 .. 2] : LineOK(l)}

\* The text of a message is a list of words.
LEMMA TextIn == ASSUME NEW m \in GoodMessages PROVE to_string(m) \in Lists(Words)
BY TextIs DEF GoodMessages, IsText, StartsWith

\* The line of a message can be on the wire.
LEMMA LineIn ==
  ASSUME NEW m \in GoodMessages, NEW answers \in 0 .. 2, answers # 0 => m.command \in AnswerNames,
         answers = 2 => m.command = "UNKNOWN"
  PROVE  Line(m, answers) \in LineSet
<1>1. PICK t : t = to_string(m) /\ t \in Lists(Words)
  BY TextIn
<1>2. PICK l : l = [text |-> t, msg |-> m, answers |-> answers]
  OBVIOUS
<1>3. l \in LineSet
  BY <1>1, <1>2 DEF LineSet, LineOK
<1>. QED BY <1>1, <1>2, <1>3 DEF Line

\* A line is refused or read with the names of its message.
LEMMA LineRead ==
  ASSUME NEW l \in LineSet
  PROVE  from_string(l.text) = Refused \/ SameHeader(from_string(l.text), l.msg)
BY ReadHeader DEF LineSet, LineOK, GoodMessages

\* One answer more is the last but one, or the last.
LEMMA LinesIn ==
  ASSUME NEW l \in LineSet, NEW x, SameHeader(x, l.msg), NEW replies \in Lists(AnswerSet(x))
  PROVE  LinesOf(replies, l.answers + 1) \in Lists(LineSet)
<1>1. PICK n \in Nat : /\ n = Len(replies) /\ DOMAIN replies = 1 .. n
                       /\ \A i \in 1 .. n : replies[i] \in AnswerSet(x)
  BY ListElements
<1>2. x.command = l.msg.command
  BY DEF SameHeader
<1>3. /\ l.answers \in 0 .. 2 /\ (l.answers # 0 => x.command \in AnswerNames)
      /\ (l.answers = 2 => x.command = "UNKNOWN")
  BY <1>2 DEF LineSet, LineOK
<1>4. ASSUME NEW i \in 1 .. n PROVE Line(replies[i], l.answers + 1) \in LineSet
  <2>1. PICK r : r = replies[i] /\ r \in AnswerSet(x)
    BY <1>1
  <2>2. /\ r \in GoodMessages /\ r.command \in AnswerNames
        /\ (x.command \in AnswerNames => r.command = "UNKNOWN" /\ x.command # "UNKNOWN")
    BY <2>1 DEF AnswerSet
  <2>3. PICK a : a = l.answers
    OBVIOUS
  <2>4. a \in 0 .. 1 /\ (a = 1 => r.command = "UNKNOWN")
    BY <1>3, <2>2, <2>3 DEF AnswerNames
  <2>5. a + 1 \in 0 .. 2 /\ (a + 1 = 2 => a = 1)
    BY <2>4
  <2>. QED BY <2>1, <2>2, <2>3, <2>4, <2>5, LineIn
<1>5. PICK f : f = LinesOf(replies, l.answers + 1)
  OBVIOUS
<1>6. f \in [1 .. n -> LineSet]
  BY <1>1, <1>4, <1>5 DEF LinesOf
<1>7. f \in Lists(LineSet)
  BY <1>6 DEF Lists
<1>. QED BY <1>5, <1>7

---------------------------------------------------------------------------
(***************************************************************************)
(* The invariant.                                                          *)
(***************************************************************************)

Knows(l, c) == \E i \in 1 .. Len(l) : IsFor(l[i], c)

MatchesOK == added \in Nat /\ ListOK(f_matches, 11 + added)
WireOK == wire \in [Services -> Lists(LineSet)]
Prepared(m) ==
    /\ m \in MessageSet /\ Answerable(m)
    /\ m.server # None => m.service # None
    /\ DOMAIN m.parameters \subseteq Plain
ObjectOK ==
    /\ Prepared(f_message)
    /\ f_cached_message = <<>> \/ f_cached_message = to_string(f_message)
ListedOK ==
    /\ listed \in [Services -> SUBSET Words]
    /\ \A s \in Services : \A c \in listed[s] : Knows(Matches(s), c)
Inv == MatchesOK /\ WireOK /\ ObjectOK /\ ListedOK

\* There are two services, each the other of the other.
LEMMA TwoServices == Services = {"s", "c"} /\ "s" # "c" /\ Other("s") = "c" /\ Other("c") = "s"
BY DEF Services, Other

\* The list of each service is in order.
LEMMA ListTop ==
  ASSUME MatchesOK, NEW s
  PROVE  \E top \in Nat : ListOK(Matches(s), top)
<1>1. CASE s = "s"
  <2>1. 11 + added \in Nat /\ ListOK(Matches(s), 11 + added)
    BY <1>1 DEF MatchesOK, Matches
  <2>. QED BY <2>1
<1>2. CASE s # "s"
  BY <1>2, InitialOK DEF Matches
<1>. QED BY <1>1, <1>2

\* A new message object can be prepared.
LEMMA PreparedEmpty == Prepared(EmptyMessage) /\ EmptyMessage.command = None
<1>1. EmptyMessage = Fields(None, None, None, None, None, NoParameters)
  BY DEF EmptyMessage, Fields
<1>2. PICK p : p = NoParameters /\ p \in Params /\ DOMAIN p = {}
  BY NoParametersIn DEF NoParameters
<1>3. PICK m : m = EmptyMessage /\ m = Fields(None, None, None, None, None, p)
  BY <1>1, <1>2
<1>4. m \in MessageSet
  BY <1>2, <1>3, PlainNames DEF Fields, MessageSet
<1>5. Prepared(m) /\ m.command = None
  BY <1>2, <1>3, <1>4 DEF Fields, Prepared, Answerable
<1>. QED BY <1>3, <1>5

\* The invariant holds at first.
LEMMA InitInv == Init => Inv
<1>. SUFFICES ASSUME Init PROVE Inv
  OBVIOUS
<1>1. MatchesOK
  <2>1. added = 0 /\ f_matches = InitialMatches /\ 11 + 0 = 11
    BY DEF Init
  <2>. QED BY <2>1, InitialOK DEF MatchesOK
<1>2. WireOK
  <2>1. wire = [s \in Services |-> <<>>]
    BY DEF Init
  <2>2. <<>> \in Lists(LineSet)
    BY Empty
  <2>. QED BY <2>1, <2>2 DEF WireOK
<1>3. ObjectOK
  BY PreparedEmpty DEF ObjectOK, Init
<1>4. ListedOK
  <2>1. listed = [s \in Services |-> {}]
    BY DEF Init
  <2>. QED BY <2>1 DEF ListedOK
<1>. QED BY <1>1, <1>2, <1>3, <1>4 DEF Inv

\* A list that keeps its matches knows what it knew.
LEMMA ListedKept ==
  ASSUME ListedOK, listed' = listed, \A c : Knows(f_matches, c) => Knows(f_matches', c)
  PROVE  ListedOK'
<1>1. ASSUME NEW s \in Services, NEW c \in listed[s] PROVE Knows(Matches(s)', c)
  <2>1. Knows(Matches(s), c)
    BY DEF ListedOK
  <2>2. CASE s = "s"
    BY <2>1, <2>2 DEF Matches
  <2>3. CASE s # "s"
    <3>1. Matches(s)' = Matches(s)
      BY <2>3 DEF Matches, InitialMatches, add_communicator_commands
    <3>. QED BY <2>1, <3>1
  <2>. QED BY <2>2, <2>3
<1>2. listed' \in [Services -> SUBSET Words] /\ \A s \in Services : listed'[s] = listed[s]
  BY DEF ListedOK
<1>. QED BY <1>1, <1>2 DEF ListedOK

\* What a service listed it still knows if its matches are the same.
LEMMA ListedSame ==
  ASSUME ListedOK, listed' = listed, f_matches' = f_matches
  PROVE  ListedOK'
<1>1. \A c : Knows(f_matches, c) => Knows(f_matches', c)
  OBVIOUS
<1>. QED BY <1>1, ListedKept

\* One line more.
LEMMA LineAdded ==
  ASSUME WireOK, NEW s \in Services, NEW l \in LineSet, wire' = [wire EXCEPT ![s] = Append(@, l)]
  PROVE  WireOK' /\ \A o \in Services : ~(Len(wire'[o]) < Len(wire[o]))
<1>1. wire[s] \in Lists(LineSet) /\ \A o \in Services : wire[o] \in Lists(LineSet)
  BY DEF WireOK
<1>2. PICK a : a = Append(wire[s], l) /\ a \in Lists(LineSet) /\ Len(a) = Len(wire[s]) + 1
  BY <1>1, AppendIn
<1>3. /\ wire' = [o \in Services |-> IF o = s THEN a ELSE wire[o]]
  BY <1>2 DEF WireOK
<1>4. ASSUME NEW o \in Services PROVE ~(Len(wire'[o]) < Len(wire[o]))
  <2>1. Len(wire[o]) \in Nat /\ Len(wire[s]) \in Nat
    BY <1>1, ListLen
  <2>. QED BY <1>2, <1>3, <2>1
<1>5. wire' \in [Services -> Lists(LineSet)]
  BY <1>1, <1>2, <1>3
<1>. QED BY <1>4, <1>5 DEF WireOK

---------------------------------------------------------------------------
(***************************************************************************)
(* One lemma for each action.                                              *)
(***************************************************************************)

NotShorter == \A s \in Services : ~(Len(wire'[s]) < Len(wire[s]))

\* No line is lost when the wire is the same.
LEMMA SameWire ==
  ASSUME WireOK, wire' = wire
  PROVE  WireOK' /\ NotShorter
<1>1. \A s \in Services : Len(wire[s]) \in Nat
  BY ListLen DEF WireOK
<1>. QED BY <1>1 DEF WireOK, NotShorter

\* add_matches() keeps the invariant.
LEMMA AddMatchStep ==
  ASSUME Inv, NEW m \in UserMatches, AddMatch(m)
  PROVE  Inv' /\ NotShorter
<1>1. PICK n \in Nat : n = added /\ added' = n + 1 /\ ListOK(f_matches, 11 + n)
  BY DEF Inv, MatchesOK, AddMatch
<1>2. PICK top \in Nat : top = 11 + n /\ 11 + (n + 1) = top + 1 /\ Len(InitialMatches) + n + 1 = top + 1
  BY <1>1, InitialOK
<1>3. PICK r : /\ r = Numbered(m, top + 1) /\ r \in MatchSet /\ r.id = top + 1 /\ Defined(r)
  BY NumberedOK
<1>4. f_matches' = Inserted(f_matches, r)
  BY <1>1, <1>2, <1>3 DEF AddMatch
<1>5. /\ ListOK(f_matches', top + 1)
      /\ \A i \in 1 .. Len(f_matches) : \E j \in 1 .. Len(f_matches') : f_matches'[j] = f_matches[i]
  BY <1>1, <1>2, <1>3, <1>4, InsertedOK
<1>6. MatchesOK'
  <2>1. n + 1 \in Nat
    BY <1>1
  <2>. QED BY <1>1, <1>2, <1>5, <2>1 DEF MatchesOK
<1>7. ListedOK'
  <2>1. \A c : Knows(f_matches, c) => Knows(f_matches', c)
    BY <1>5 DEF Knows
  <2>2. listed' = listed
    BY DEF AddMatch
  <2>. QED BY <2>1, <2>2, ListedKept DEF Inv
<1>8. WireOK' /\ NotShorter
  BY SameWire DEF Inv, AddMatch
<1>9. ObjectOK'
  BY DEF Inv, ObjectOK, AddMatch, object
<1>. QED BY <1>6, <1>7, <1>8, <1>9 DEF Inv

\* remove_matches() keeps the invariant: what it removes is not listed any more.
LEMMA RemoveStep ==
  ASSUME Inv, NEW tag, remove_matches(tag)
  PROVE  Inv' /\ NotShorter
<1>1. PICK top \in Nat : top = 11 + added /\ ListOK(f_matches, top) /\ added' = added /\ added \in Nat
  BY DEF Inv, MatchesOK, remove_matches
<1>2. PICK l : /\ l = f_matches /\ l \in Lists(MatchSet) /\ DOMAIN l = 1 .. Len(l)
  BY <1>1, ListMatch DEF ListOK
<1>3. PICK S : S = {i \in 1 .. Len(l) : tag = NoTag \/ l[i].tag # tag}
  OBVIOUS
<1>4. f_matches' = Kept(l, S)
  BY <1>2, <1>3 DEF remove_matches
<1>5. \A i \in 1 .. Len(l) : IsUnknown(l[i]) => i \in S
  BY <1>3 DEF IsUnknown
<1>6. ListOK(Kept(l, S), top)
  BY <1>1, <1>2, <1>5, KeptOK
<1>7. MatchesOK'
  BY <1>1, <1>4, <1>6 DEF MatchesOK
<1>8. ListedOK'
  <2>1. listed \in [Services -> SUBSET Words] /\ listed' = [listed EXCEPT !["s"] = @ \ Removed(tag)]
    BY DEF Inv, ListedOK, remove_matches
  <2>2. /\ listed' \in [Services -> SUBSET Words] /\ listed'["s"] = listed["s"] \ Removed(tag)
        /\ listed'["c"] = listed["c"]
    BY <2>1, TwoServices
  <2>3. ASSUME NEW c \in listed'["s"] PROVE Knows(f_matches', c)
    <3>1. c \in listed["s"] /\ c \notin Removed(tag)
      BY <2>2, <2>3
    <3>2. Knows(f_matches, c)
      BY <3>1, TwoServices DEF Inv, ListedOK, Matches
    <3>3. PICK i \in 1 .. Len(l) : IsFor(l[i], c)
      BY <1>2, <3>2 DEF Knows
    <3>4. i \in S
      <4>1. l[i] \in ToSet(f_matches)
        <5>1. ToSet(l) = {l[j] : j \in 1 .. Len(l)}
          BY <1>2, ToSetIs
        <5>. QED BY <1>2, <5>1
      <4>2. tag # NoTag /\ l[i].tag = tag => l[i].expr \in Removed(tag)
        BY <4>1 DEF Removed
      <4>3. l[i].expr = c
        BY <3>3 DEF IsFor
      <4>. QED BY <1>3, <3>1, <4>2, <4>3
    <3>5. PICK at : IsKept(at, l, S, Kept(l, S))
      BY <1>2, KeptAt
    <3>6. PICK k \in 1 .. Len(Kept(l, S)) : at[k] = i
      BY <3>4, <3>5 DEF IsKept
    <3>7. Kept(l, S)[k] = l[i]
      BY <3>5, <3>6 DEF IsKept
    <3>. QED BY <1>4, <3>3, <3>6, <3>7 DEF Knows
  <2>4. ASSUME NEW c \in listed'["c"] PROVE Knows(InitialMatches, c)
    BY <2>2, <2>4, TwoServices DEF Inv, ListedOK, Matches
  <2>5. ASSUME NEW s \in Services, NEW c \in listed'[s] PROVE Knows(Matches(s)', c)
    <3>1. CASE s = "s"
      BY <2>3, <2>5, <3>1 DEF Matches
    <3>2. CASE s = "c"
      <4>1. Matches(s)' = InitialMatches
        BY <3>2, TwoServices DEF Matches, InitialMatches, add_communicator_commands
      <4>. QED BY <2>4, <2>5, <3>2, <4>1
    <3>. QED BY <3>1, <3>2, TwoServices
  <2>. QED BY <2>2, <2>5 DEF ListedOK
<1>9. WireOK' /\ NotShorter
  BY SameWire DEF Inv, remove_matches
<1>10. ObjectOK'
  BY DEF Inv, ObjectOK, remove_matches, object
<1>. QED BY <1>7, <1>8, <1>9, <1>10 DEF Inv

\* register_service() keeps the invariant.
LEMMA RegisterStep ==
  ASSUME Inv, register_service
  PROVE  Inv' /\ NotShorter
<1>1. PICK m : m = [EmptyMessage EXCEPT !.command = "REGISTER",
                               !.parameters = [n \in {"service"} |-> <<"s">>]]
  OBVIOUS
<1>2. m \in GoodMessages
  BY <1>1, ServiceMessages
<1>3. PICK l : l = Line(m, 0) /\ l \in LineSet
  BY <1>2, LineIn
<1>4. wire' = [wire EXCEPT !["c"] = Append(@, l)]
  BY <1>1, <1>3 DEF register_service
<1>5. WireOK' /\ NotShorter
  BY <1>3, <1>4, LineAdded, TwoServices DEF Inv, NotShorter
<1>6. ObjectOK' /\ MatchesOK' /\ ListedOK'
  <2>1. ListedOK'
    BY ListedSame DEF Inv, register_service, matches
  <2>. QED BY <2>1 DEF Inv, ObjectOK, MatchesOK, register_service, object, matches
<1>. QED BY <1>5, <1>6 DEF Inv

\* A change of the message object keeps the invariant: the cache is cleared.
LEMMA ModifyStep ==
  ASSUME Inv, NEW m, Prepared(m), Modify(m)
  PROVE  Inv' /\ NotShorter
<1>1. WireOK' /\ NotShorter
  BY SameWire DEF Inv, Modify
<1>2. ListedOK'
  BY ListedSame DEF Inv, Modify, matches
<1>3. ObjectOK'
  BY DEF Modify, ObjectOK, Prepared, Answerable
<1>4. MatchesOK'
  BY DEF Inv, Modify, matches, MatchesOK
<1>. QED BY <1>1, <1>2, <1>3, <1>4 DEF Inv

\* The setters keep the object one that can be sent.
LEMMA SetCommandStep ==
  ASSUME Inv, NEW command \in Commands, set_command(command)
  PROVE  Inv' /\ NotShorter
<1>1. PICK f : f = f_message /\ Prepared(f)
  BY DEF Inv, ObjectOK
<1>2. PICK m : m = [f EXCEPT !.command = command]
  OBVIOUS
<1>3. command \in Plain
  BY TextAssumption DEF Names, Plain, Words
<1>4. f \in MessageSet
  BY <1>1 DEF Prepared
<1>5. /\ m \in MessageSet /\ m.sent_from_server = f.sent_from_server
      /\ m.sent_from_service = f.sent_from_service /\ m.server = f.server
      /\ m.service = f.service /\ m.parameters = f.parameters
  BY <1>2, <1>3, <1>4 DEF MessageSet
<1>6. Prepared(m)
  BY <1>1, <1>5 DEF Prepared, Answerable
<1>7. Modify(m)
  BY <1>1, <1>2 DEF set_command
<1>. QED BY <1>6, <1>7, ModifyStep

\* set_sent_from_server() and set_sent_from_service() keep the invariant.
LEMMA SetSentFromStep ==
  ASSUME Inv, NEW n \in {None, "c"}, set_sent_from(n, n)
  PROVE  Inv' /\ NotShorter
<1>1. PICK f : f = f_message /\ Prepared(f)
  BY DEF Inv, ObjectOK
<1>2. PICK g : g = [f EXCEPT !.sent_from_server = n]
  OBVIOUS
<1>8. PICK m : m = [g EXCEPT !.sent_from_service = n]
  OBVIOUS
<1>3. n \in Plain
  BY PlainNames DEF Systematic
<1>4. f \in MessageSet
  BY <1>1 DEF Prepared
<1>9. /\ g \in MessageSet /\ g.sent_from_server = n /\ g.server = f.server
      /\ g.service = f.service /\ g.parameters = f.parameters
  BY <1>2, <1>3, <1>4 DEF MessageSet
<1>5. /\ m \in MessageSet /\ m.sent_from_server = n
      /\ m.sent_from_service = n /\ m.server = f.server
      /\ m.service = f.service /\ m.parameters = f.parameters
  BY <1>3, <1>8, <1>9 DEF MessageSet
<1>6. Prepared(m)
  BY <1>1, <1>5 DEF Prepared, Answerable
<1>7. Modify(m)
  BY <1>1, <1>2, <1>8 DEF set_sent_from
<1>. QED BY <1>6, <1>7, ModifyStep

\* add_parameter() keeps the invariant.
LEMMA AddParameterStep ==
  ASSUME Inv, NEW name \in ParameterNames, NEW value \in Values, add_parameter(name, value)
  PROVE  Inv' /\ NotShorter
<1>1. PICK f : f = f_message /\ Prepared(f)
  BY DEF Inv, ObjectOK
<1>2. name \in Plain /\ name \in Words
  BY TextAssumption DEF Names, Plain, Words
<1>3. value \in Lists(Words)
  <2>1. value \in Seq(STRING) /\ STRING \subseteq Words
    BY TextAssumption DEF Words
  <2>2. PICK n \in Nat : n = Len(value) /\ value \in [1 .. n -> STRING]
    BY <2>1
  <2>3. value \in [1 .. n -> Words]
    BY <2>1, <2>2
  <2>. QED BY <2>3 DEF Lists
<1>4. f \in MessageSet /\ f.parameters \in Params /\ DOMAIN f.parameters \subseteq Plain
  BY <1>1 DEF Prepared, MessageSet
<1>10. PICK q : q = f.parameters /\ q \in Params
  BY <1>4
<1>11. PICK p : p = Added(q, name, value)
  OBVIOUS
<1>12. p \in Params
  BY <1>2, <1>3, <1>10, <1>11, AddedIn
<1>13. DOMAIN p = DOMAIN q \cup {name}
  BY <1>11, AddedIs
<1>5. /\ p = Added(f.parameters, name, value) /\ p \in Params
      /\ DOMAIN p = DOMAIN f.parameters \cup {name}
  BY <1>10, <1>11, <1>12, <1>13
<1>6. PICK m : m = [f EXCEPT !.parameters = p]
  OBVIOUS
<1>7. /\ m \in MessageSet /\ m.sent_from_server = f.sent_from_server
      /\ m.sent_from_service = f.sent_from_service /\ m.server = f.server
      /\ m.service = f.service /\ m.parameters = p
  BY <1>4, <1>5, <1>6 DEF MessageSet
<1>8. Prepared(m)
  BY <1>1, <1>2, <1>4, <1>5, <1>7 DEF Prepared, Answerable
<1>9. Modify(m)
  BY <1>1, <1>5, <1>6 DEF add_parameter
<1>. QED BY <1>8, <1>9, ModifyStep

\* send_message() keeps the invariant: the cache is the text of the object.
LEMMA SendStep ==
  ASSUME Inv, send_message
  PROVE  Inv' /\ NotShorter
<1>1. PICK m : m = f_message /\ Prepared(m) /\ m.command # None
  BY DEF Inv, ObjectOK, send_message
<1>2. m \in GoodMessages
  BY <1>1 DEF GoodMessages, Prepared, GoodMessage
<1>3. PICK l : l = Line(m, 0) /\ l \in LineSet
  BY <1>2, LineIn
<1>4. PICK t : t = (IF f_cached_message = <<>> THEN to_string(f_message) ELSE f_cached_message)
               /\ t = to_string(m)
  BY <1>1 DEF Inv, ObjectOK
<1>5. wire' = [wire EXCEPT !["s"] = Append(@, l)]
  BY <1>1, <1>3, <1>4 DEF send_message, Line
<1>6. WireOK' /\ NotShorter
  BY <1>3, <1>5, LineAdded, TwoServices DEF Inv, NotShorter
<1>7. ObjectOK'
  <2>1. f_message' = (IF sent' < MaxSent THEN m ELSE EmptyMessage)
    BY <1>1 DEF send_message
  <2>2. f_cached_message' = (IF sent' < MaxSent THEN t ELSE <<>>)
    BY <1>4 DEF send_message
  <2>3. CASE sent' < MaxSent
    <3>1. f_message' = m /\ f_cached_message' = to_string(m)
      BY <1>4, <2>1, <2>2, <2>3
    <3>. QED BY <1>1, <3>1 DEF ObjectOK, Prepared, Answerable
  <2>4. CASE ~(sent' < MaxSent)
    <3>1. f_message' = EmptyMessage /\ f_cached_message' = <<>>
      BY <2>1, <2>2, <2>4
    <3>. QED BY <3>1, PreparedEmpty DEF ObjectOK, Prepared, Answerable
  <2>. QED BY <2>3, <2>4
<1>8. ListedOK'
  BY ListedSame DEF Inv, send_message, matches
<1>9. MatchesOK'
  BY DEF Inv, send_message, matches, MatchesOK
<1>. QED BY <1>6, <1>7, <1>8, <1>9 DEF Inv

OnlyShorter(s) == \A o \in Services : Len(wire'[o]) < Len(wire[o]) => o = s

\* A line that is refused is gone.
LEMMA LineTaken ==
  ASSUME WireOK, NEW s \in Services, wire[s] # <<>>, wire' = [wire EXCEPT ![s] = Tail(@)]
  PROVE  WireOK' /\ OnlyShorter(s)
<1>1. wire[s] \in Lists(LineSet) /\ \A o \in Services : wire[o] \in Lists(LineSet)
  BY DEF WireOK
<1>2. PICK a : a = Tail(wire[s]) /\ a \in Lists(LineSet)
  BY <1>1, TailIn
<1>3. wire' = [o \in Services |-> IF o = s THEN a ELSE wire[o]]
  BY <1>2 DEF WireOK
<1>4. wire' \in [Services -> Lists(LineSet)]
  BY <1>1, <1>2, <1>3
<1>5. ASSUME NEW o \in Services, o # s PROVE ~(Len(wire'[o]) < Len(wire[o]))
  <2>1. Len(wire[o]) \in Nat
    BY <1>1, ListLen
  <2>. QED BY <1>3, <1>5, <2>1
<1>. QED BY <1>4, <1>5 DEF WireOK, OnlyShorter

\* A line that is answered is gone, and the answers are on the other wire.
LEMMA LineAnswered ==
  ASSUME WireOK, NEW s \in Services, wire[s] # <<>>, NEW a \in Lists(LineSet), NEW b \in Lists(LineSet),
         wire' = [wire EXCEPT ![s] = Tail(@), ![Other(s)] = Cat(Cat(@, a), b)]
  PROVE  WireOK' /\ OnlyShorter(s)
<1>1. wire[s] \in Lists(LineSet) /\ \A o \in Services : wire[o] \in Lists(LineSet)
  BY DEF WireOK
<1>2. PICK t : t = Tail(wire[s]) /\ t \in Lists(LineSet)
  BY <1>1, TailIn
<1>3. PICK o : o = Other(s) /\ o \in Services /\ o # s /\ Services = {s, o}
  BY TwoServices
<1>4. PICK w : w = [wire EXCEPT ![s] = Tail(@)]
  OBVIOUS
<1>5. w = [x \in Services |-> IF x = s THEN t ELSE wire[x]]
  BY <1>2, <1>4 DEF WireOK
<1>6. wire' = [w EXCEPT ![o] = Cat(Cat(@, a), b)]
  BY <1>3, <1>4
<1>7. w[o] = wire[o] /\ w \in [Services -> Lists(LineSet)]
  BY <1>1, <1>2, <1>3, <1>5
<1>8. PICK u : u = Cat(wire[o], a) /\ u \in Lists(LineSet) /\ IsCat(u, wire[o], a)
  BY <1>1, <1>3, Joined
<1>9. PICK v : v = Cat(u, b) /\ v \in Lists(LineSet) /\ IsCat(v, u, b)
  BY <1>8, Joined
<1>10. wire' = [w EXCEPT ![o] = v]
  BY <1>6, <1>7, <1>8, <1>9
<1>11. wire' \in [Services -> Lists(LineSet)] /\ wire'[o] = v
  BY <1>3, <1>7, <1>9, <1>10
<1>12. Len(v) = Len(wire[o]) + Len(a) + Len(b) /\ Len(wire[o]) \in Nat /\ Len(a) \in Nat /\ Len(b) \in Nat
  BY <1>8, <1>9 DEF IsCat
<1>13. ~(Len(wire'[o]) < Len(wire[o]))
  BY <1>11, <1>12
<1>. QED BY <1>3, <1>11, <1>13 DEF WireOK, OnlyShorter

---------------------------------------------------------------------------
\* What the dispatch of a message has called.
Dispatched(s) ==
    \A x \in {from_string(Head(wire[s]).text)} :
        IF x = Refused THEN ~last'.unknown
        ELSE /\ last'.called = CalledBy(Matches(s), x) /\ x.command \in Words
             /\ last'.unknown => Executed(Matches(s), x) = {}

\* dispatch() and the callbacks keep the invariant.
LEMMA CallbacksStep ==
  ASSUME Inv, NEW s \in Services, wire[s] # <<>>, NEW x, x = from_string(Head(wire[s]).text),
         x # Refused, NEW d, d = dispatch(Matches(s), f_end[s], x), Callbacks(s, x, d),
         UNCHANGED <<object, added>>
  PROVE  Inv' /\ OnlyShorter(s) /\ Dispatched(s)
<1>1. wire[s] \in Lists(LineSet)
  BY DEF Inv, WireOK
<1>2. PICK l : l = Head(wire[s]) /\ l \in LineSet
  BY <1>1, TailIn
<1>3. SameHeader(x, l.msg) /\ l.msg \in GoodMessages
  BY <1>2, LineRead DEF LineSet
<1>4. x.command \in Words
  BY <1>3 DEF SameHeader, GoodMessages, MessageSet, Plain
<1>5. PICK top \in Nat : ListOK(Matches(s), top)
  BY ListTop DEF Inv
<1>6. PICK replies, end :
         /\ replies = Replies(s, d, x)
         /\ f_matches' = (IF s = "s" THEN d.list ELSE f_matches)
         /\ last' = [called |-> d.called, unknown |-> d.unknown]
         /\ listed' = IF \E r \in ToSet(replies) : r.command = "COMMANDS"
                         THEN [listed EXCEPT ![s] = ToSet(get_commands(s))] ELSE listed
         /\ wire' = Written(s, replies, end)
  BY DEF Callbacks
<1>7. /\ d.list = DispatchedList(Matches(s), x) /\ d.called = CalledBy(Matches(s), x)
      /\ (d.unknown => Executed(Matches(s), x) = {})
  BY DispatchIs
<1>8. Dispatched(s)
  BY <1>4, <1>6, <1>7 DEF Dispatched
<1>9. replies \in Lists(AnswerSet(x))
  BY <1>3, <1>5, <1>6, RepliesIn
<1>10. PICK a : a = LinesOf(replies, l.answers + 1) /\ a \in Lists(LineSet)
  BY <1>2, <1>3, <1>9, LinesIn
<1>11. PICK b : b = Maybe(end = "unregisters", Line(unregister_msg(s), 0)) /\ b \in Lists(LineSet)
  <2>1. unregister_msg(s) \in GoodMessages
    BY TwoServices, ServiceMessages DEF unregister_msg
  <2>2. Line(unregister_msg(s), 0) \in LineSet
    BY <2>1, LineIn
  <2>. QED BY <2>2, MaybeIn
<1>12. wire' = [wire EXCEPT ![s] = Tail(@), ![Other(s)] = Cat(Cat(@, a), b)]
  BY <1>2, <1>6, <1>10, <1>11 DEF Written, Cat, LinesOf, Maybe, Just
<1>13. WireOK' /\ OnlyShorter(s)
  BY <1>10, <1>11, <1>12, LineAnswered DEF Inv
<1>14. ObjectOK'
  BY DEF Inv, ObjectOK, object
<1>15. PICK r : /\ r = DispatchedList(Matches(s), x) /\ ListOK(r, top) /\ Len(r) = Len(Matches(s))
                /\ \A i \in 1 .. Len(Matches(s)) : r[i].kind = Matches(s)[i].kind
                                                   /\ r[i].expr = Matches(s)[i].expr
  BY <1>4, <1>5, DispatchedOK
<1>16. MatchesOK' /\ \A c : Knows(f_matches, c) => Knows(f_matches', c)
  <2>1. CASE s = "s"
    <3>1. Matches(s) = f_matches /\ f_matches' = DispatchedList(f_matches, x)
      BY <1>6, <1>7, <2>1 DEF Matches
    <3>2. added \in Nat /\ 11 + added \in Nat /\ ListOK(f_matches, 11 + added) /\ added' = added
      BY DEF Inv, MatchesOK
    <3>3. ListOK(f_matches', 11 + added)
      BY <1>4, <3>1, <3>2, DispatchedOK
    <3>4. ASSUME NEW c, Knows(f_matches, c) PROVE Knows(f_matches', c)
      BY <1>7, <1>15, <3>1, <3>4 DEF Knows, IsFor
    <3>. QED BY <3>2, <3>3, <3>4 DEF MatchesOK
  <2>2. CASE s # "s"
    <3>1. f_matches' = f_matches
      BY <1>6, <2>2
    <3>. QED BY <3>1 DEF Inv, MatchesOK
  <2>. QED BY <2>1, <2>2
<1>17. ListedOK'
  <2>1. CASE listed' = listed
    BY <1>16, <2>1, ListedKept DEF Inv
  <2>2. CASE listed' = [listed EXCEPT ![s] = ToSet(get_commands(s))]
    <3>1. PICK g : /\ g = ToSet(get_commands(s)) /\ g \in SUBSET Words
                   /\ \A c \in g : Knows(Matches(s), c)
      <4>1. get_commands(s) \in Lists(Words)
        BY <1>5, CommandsKnown
      <4>2. ToSet(get_commands(s)) \in SUBSET Words
        BY <4>1, ToSetIs, ListElements
      <4>. QED BY <1>5, <4>2, CommandsKnown DEF Knows
    <3>2. /\ listed \in [Services -> SUBSET Words]
          /\ \A o \in Services : \A c \in listed[o] : Knows(Matches(o), c)
      BY DEF Inv, ListedOK
    <3>3. listed' \in [Services -> SUBSET Words] /\ listed'[s] = g
          /\ \A o \in Services : o # s => listed'[o] = listed[o]
      BY <2>2, <3>1, <3>2
    <3>4. \A o \in Services : \A c \in listed'[o] : Knows(Matches(o), c)
      BY <3>1, <3>2, <3>3
    <3>5. ASSUME NEW o \in Services, NEW c, Knows(Matches(o), c) PROVE Knows(Matches(o)', c)
      <4>1. CASE o = "s"
        BY <1>16, <3>5, <4>1 DEF Matches
      <4>2. CASE o # "s"
        <5>1. Matches(o)' = Matches(o)
          BY <4>2 DEF Matches, InitialMatches, add_communicator_commands
        <5>. QED BY <3>5, <5>1
      <4>. QED BY <4>1, <4>2
    <3>. QED BY <3>3, <3>4, <3>5 DEF ListedOK
  <2>. QED BY <1>6, <2>1, <2>2
<1>. QED BY <1>8, <1>13, <1>14, <1>16, <1>17 DEF Inv

\* The reception of a line keeps the invariant.
LEMMA ReceiveStep ==
  ASSUME Inv, NEW s \in Services, Receive(s)
  PROVE  Inv' /\ OnlyShorter(s) /\ Dispatched(s)
<1>1. PICK x : /\ x = from_string(Head(wire[s]).text) /\ wire[s] # <<>>
               /\ \/ /\ x = Refused
                     /\ wire' = [wire EXCEPT ![s] = Tail(@)]
                     /\ last' = Nothing
                     /\ UNCHANGED <<f_matches, f_end, life, listed>>
                  \/ x # Refused /\ Callbacks(s, x, dispatch(Matches(s), f_end[s], x))
  BY DEF Receive
<1>2. UNCHANGED <<object, added>>
  BY DEF Receive
<1>3. CASE x # Refused
  BY <1>1, <1>2, <1>3, CallbacksStep
<1>4. CASE x = Refused
  <2>1. /\ wire' = [wire EXCEPT ![s] = Tail(@)] /\ last' = Nothing /\ f_matches' = f_matches
        /\ listed' = listed
    BY <1>1, <1>4
  <2>2. WireOK' /\ OnlyShorter(s)
    BY <1>1, <2>1, LineTaken DEF Inv
  <2>3. ListedOK'
    BY <2>1, ListedSame DEF Inv
  <2>4. MatchesOK' /\ ObjectOK'
    BY <1>2, <2>1 DEF Inv, MatchesOK, ObjectOK, object
  <2>5. Dispatched(s)
    BY <1>1, <1>4, <2>1 DEF Dispatched, Nothing
  <2>. QED BY <2>2, <2>3, <2>4, <2>5 DEF Inv
<1>. QED BY <1>3, <1>4

---------------------------------------------------------------------------
(***************************************************************************)
(* The theorems.                                                           *)
(***************************************************************************)

\* The wire to a service gets shorter only if the service dispatched a line.
DispatchStep == NotShorter \/ \E s \in Services : OnlyShorter(s) /\ Dispatched(s)

\* Every step keeps the invariant and dispatches at most one line.
LEMMA NextStep == Inv /\ Next => Inv' /\ DispatchStep
<1>. SUFFICES ASSUME Inv, Next PROVE Inv' /\ DispatchStep
  OBVIOUS
<1>. USE DEF DispatchStep
<1>1. CASE send_message
  BY <1>1, SendStep
<1>2. ASSUME NEW command \in Commands, set_command(command) PROVE Inv' /\ DispatchStep
  BY <1>2, SetCommandStep
<1>3. ASSUME NEW name \in ParameterNames, NEW value \in Values, add_parameter(name, value)
      PROVE  Inv' /\ DispatchStep
  BY <1>3, AddParameterStep
<1>4. ASSUME NEW n \in {None, "c"}, set_sent_from(n, n) PROVE Inv' /\ DispatchStep
  BY <1>4, SetSentFromStep
<1>5. CASE register_service
  BY <1>5, RegisterStep
<1>6. ASSUME NEW m \in UserMatches, AddMatch(m) PROVE Inv' /\ DispatchStep
  BY <1>6, AddMatchStep
<1>7. ASSUME NEW tag, remove_matches(tag) PROVE Inv' /\ DispatchStep
  BY <1>7, RemoveStep
<1>8. ASSUME NEW s \in Services, Receive(s) PROVE Inv' /\ DispatchStep
  BY <1>8, ReceiveStep
<1>9. Client \/ Application \/ \E s \in Services : Receive(s)
  BY DEF Next
<1>10. CASE Client
  BY <1>1, <1>2, <1>3, <1>4, <1>10 DEF Client
<1>11. CASE Application
  BY <1>5, <1>6, <1>7, <1>11 DEF Application
<1>. QED BY <1>8, <1>9, <1>10, <1>11

\* A step that changes nothing keeps the invariant.
LEMMA Stutter == Inv /\ UNCHANGED vars => Inv' /\ DispatchStep
<1>. SUFFICES ASSUME Inv, UNCHANGED vars PROVE Inv' /\ DispatchStep
  OBVIOUS
<1>1. /\ wire' = wire /\ f_matches' = f_matches /\ added' = added /\ listed' = listed
      /\ f_message' = f_message /\ f_cached_message' = f_cached_message
  BY DEF vars, object, matches
<1>2. WireOK' /\ NotShorter
  BY <1>1, SameWire DEF Inv
<1>3. ListedOK'
  BY <1>1, ListedSame DEF Inv
<1>4. MatchesOK' /\ ObjectOK'
  BY <1>1 DEF Inv, MatchesOK, ObjectOK
<1>. QED BY <1>2, <1>3, <1>4 DEF Inv, DispatchStep

\* The matches keep their order and the system's; every line on the wire is
\* the text of a message that can be sent; the cache of the message object
\* is the text of the object; what a service said it knows, it knows.
THEOREM DispatcherInvariant == Spec => []Inv
<1>1. Inv /\ [Next]_vars => Inv'
  BY NextStep, Stutter
<1>. QED BY InitInv, <1>1, PTL DEF Spec

\* Whatever is sent and changed before, what the other side reads from a line
\* is the message it was made of (message::to_string(), from_string() and
\* the cache of the text).
THEOREM LinesFaithful == Spec => []WireFaithful
<1>1. Inv => WireFaithful
  <2>. SUFFICES ASSUME Inv, NEW s \in Services, NEW i \in DOMAIN wire[s], ~Lossy(wire[s][i].msg)
                PROVE  from_string(wire[s][i].text) = wire[s][i].msg
    BY DEF WireFaithful
  <2>1. wire[s] \in Lists(LineSet)
    BY DEF Inv, WireOK
  <2>2. PICK l : l = wire[s][i] /\ l \in LineSet
    BY <2>1, ListElements
  <2>3. GoodMessage(l.msg) /\ l.text = to_string(l.msg)
    BY <2>2 DEF LineSet, LineOK, GoodMessages
  <2>. QED BY <2>2, <2>3, ReadBack
<1>. QED BY <1>1, DispatcherInvariant, PTL

\* Services do not answer answers for ever: an answer to an answer is an
\* UNKNOWN, which every dispatcher knows (add_communicator_commands()).
THEOREM AnswersStop == Spec => []AnswersEnd
<1>1. Inv => AnswersEnd
  <2>. SUFFICES ASSUME Inv, NEW s \in Services, NEW i \in DOMAIN wire[s]
                PROVE  wire[s][i].answers <= 2
    BY DEF AnswersEnd
  <2>1. wire[s] \in Lists(LineSet)
    BY DEF Inv, WireOK
  <2>2. PICK l : l = wire[s][i] /\ l \in LineSet
    BY <2>1, ListElements
  <2>3. l.answers \in 0 .. 2
    BY <2>2 DEF LineSet
  <2>. QED BY <2>2, <2>3
<1>. QED BY <1>1, DispatcherInvariant, PTL

\* dispatch() calls the callbacks of a command in the order of their
\* priorities and of their registration, up to the first that ends the
\* search, whatever add_matches(), remove_matches() and earlier messages did.
THEOREM DispatchInOrder == Spec => DispatchedRight
<1>. DEFINE Right ==
       \A s \in Services : Len(wire'[s]) < Len(wire[s]) =>
         \A msg \in {from_string(Head(wire[s]).text)} \ {Refused} :
            LET called == last'.called
            IN  /\ {m.id : m \in {d \in ToSet(called) : d.kind # "callback"}} = Expected(s, msg)
                /\ \A i, j \in DOMAIN called : i < j => Before(called[i], called[j])
<1>1. Inv /\ DispatchStep => Right
  <2>. SUFFICES ASSUME Inv, DispatchStep, NEW s \in Services, Len(wire'[s]) < Len(wire[s]),
                       NEW msg, msg = from_string(Head(wire[s]).text), msg # Refused
                PROVE  LET called == last'.called
                       IN  /\ {m.id : m \in {d \in ToSet(called) : d.kind # "callback"}} = Expected(s, msg)
                           /\ \A i, j \in DOMAIN called : i < j => Before(called[i], called[j])
    OBVIOUS
  <2>1. Dispatched(s)
    BY DEF DispatchStep, NotShorter, OnlyShorter
  <2>2. last'.called = CalledBy(Matches(s), msg) /\ msg.command \in Words
    BY <2>1 DEF Dispatched
  <2>3. PICK top \in Nat : ListOK(Matches(s), top)
    BY ListTop DEF Inv
  <2>4. PICK called : called = last'.called /\ called = CalledBy(Matches(s), msg)
    BY <2>2
  <2>5. /\ {m.id : m \in {d \in ToSet(called) : d.kind # "callback"}} = ExpectedOf(Matches(s), msg)
        /\ \A i, j \in DOMAIN called : i < j => Before(called[i], called[j])
    BY <2>2, <2>3, <2>4, CalledRight
  <2>6. ExpectedOf(Matches(s), msg) = Expected(s, msg)
    BY DEF ExpectedOf, Expected
  <2>. QED BY <2>4, <2>5, <2>6
<1>2. Inv /\ [Next]_vars => [Right]_vars
  BY <1>1, NextStep
<1>3. DispatchedRight <=> [][Right]_vars
  BY DEF DispatchedRight
<1>. HIDE DEF Right
<1>. QED BY <1>2, <1>3, DispatcherInvariant, PTL DEF Spec

\* A service that listed a command in its answer to HELP does not answer it
\* with UNKNOWN (get_commands(), dispatch() and its catch-all match).
THEOREM ListedIsKnown == Spec => CommandsHonest
<1>. DEFINE Honest ==
       \A s \in Services : Len(wire'[s]) < Len(wire[s]) /\ last'.unknown =>
         \A msg \in {from_string(Head(wire[s]).text)} : msg.command \notin listed[s]
<1>1. Inv /\ DispatchStep => Honest
  <2>. SUFFICES ASSUME Inv, DispatchStep, NEW s \in Services, Len(wire'[s]) < Len(wire[s]),
                       last'.unknown, NEW msg, msg = from_string(Head(wire[s]).text),
                       msg.command \in listed[s]
                PROVE  FALSE
    OBVIOUS
  <2>1. Dispatched(s)
    BY DEF DispatchStep, NotShorter, OnlyShorter
  <2>2. Executed(Matches(s), msg) = {}
    BY <2>1 DEF Dispatched
  <2>3. PICK top \in Nat : ListOK(Matches(s), top)
    BY ListTop DEF Inv
  <2>4. PICK i \in 1 .. Len(Matches(s)) : IsFor(Matches(s)[i], msg.command)
    BY DEF Inv, ListedOK, Knows
  <2>. QED BY <2>2, <2>3, <2>4, KnownExecuted DEF ListOK
<1>2. Inv /\ [Next]_vars => [Honest]_vars
  BY <1>1, NextStep
<1>3. CommandsHonest <=> [][Honest]_vars
  BY DEF CommandsHonest
<1>. HIDE DEF Honest
<1>. QED BY <1>2, <1>3, DispatcherInvariant, PTL DEF Spec
================================================================================
