--------------------------- MODULE Reporter_proofs ---------------------------
(***************************************************************************)
(* Proofs about the reporter, for any scripts, any clients and any number  *)
(* of bytes or messages they send: the safety properties of Reporter as    *)
(* theorems of its specification.                                          *)
(*                                                                         *)
(* The inductive invariant ScriptInv has a part for each thing the         *)
(* properties are about: where the two threads are (ThreadInv), where the  *)
(* script is (FlowInv), the clients (NetInv), the events ppoll() found and *)
(* the loop did not serve yet (ServeInv), and what each peer sent and the  *)
(* script has of it (DataInv).                                             *)
(***************************************************************************)
EXTENDS Reporter, ListTheorems

---------------------------------------------------------------------------
(***************************************************************************)
(* What is of a peer in a list of bytes or messages: its numbers follow each*)
(* other (Consecutive) and the last is the last it sent (Ends).             *)
(***************************************************************************)

\* A byte or a message.
Item == [peer : Peers, number : Nat, command : {"A", "B"}]

\* The last of p has the number n.
Ends(p, s, n) == \A i \in Of(p, s) : (\A j \in Of(p, s) : j <= i) => s[i].number = n

\* f takes what is of p in s to what is of p in t.
IsSame(f, p, s, t) ==
    /\ f \in [Of(p, s) -> Of(p, t)]
    /\ \A i, j \in Of(p, s) : i < j => f[i] < f[j]
    /\ \A k \in Of(p, t) : \E i \in Of(p, s) : f[i] = k
    /\ \A i \in Of(p, s) : t[f[i]].number = s[i].number

\* What is of a peer in a list.
LEMMA OfIs ==
  ASSUME NEW p, NEW s \in Lists(Item)
  PROVE  /\ Of(p, s) = {i \in 1 .. Len(s) : s[i].peer = p} /\ Len(s) \in Nat
         /\ Of(p, s) \in SUBSET Nat
         /\ \A i \in Of(p, s) : i \in 1 .. Len(s) /\ s[i] \in Item /\ s[i].number \in Nat /\ s[i].peer = p
<1>1. Len(s) \in Nat /\ DOMAIN s = 1 .. Len(s) /\ \A i \in 1 .. Len(s) : s[i] \in Item
  BY ListElements
<1>2. \A x \in Item : x.number \in Nat
  BY DEF Item
<1>. QED BY <1>1, <1>2 DEF Of

\* Two lists that have the same of p are consecutive or not, and end alike.
LEMMA SameIs ==
  ASSUME NEW p, NEW s \in Lists(Item), NEW t \in Lists(Item), NEW f, IsSame(f, p, s, t)
  PROVE  /\ Consecutive(p, s) <=> Consecutive(p, t)
         /\ \A n : Ends(p, s, n) <=> Ends(p, t, n)
         /\ Numbers(p, s) = Numbers(p, t)
<1>1. PICK S : S = Of(p, s) /\ S \in SUBSET Nat
  BY OfIs
<1>2. PICK T : T = Of(p, t) /\ T \in SUBSET Nat
  BY OfIs
<1>3. /\ f \in [S -> T]
      /\ \A i, j \in S : i < j => f[i] < f[j]
      /\ \A k \in T : \E i \in S : f[i] = k
      /\ \A i \in S : t[f[i]].number = s[i].number
  BY <1>1, <1>2 DEF IsSame
<1>4. \A i, j \in S : f[i] < f[j] => i < j
  <2>. SUFFICES ASSUME NEW i \in S, NEW j \in S, f[i] < f[j], ~(i < j) PROVE FALSE
    OBVIOUS
  <2>1. i \in Nat /\ j \in Nat /\ f[i] \in Nat /\ f[j] \in Nat
    BY <1>1, <1>2, <1>3
  <2>2. i = j \/ j < i
    BY <2>1
  <2>3. j < i => f[j] < f[i]
    BY <1>3
  <2>. QED BY <2>1, <2>2, <2>3
<1>5. ASSUME Consecutive(p, t) PROVE Consecutive(p, s)
  <2>1. SUFFICES ASSUME NEW i \in S, NEW j \in S, i < j, S \cap (i + 1 .. j - 1) = {}
                 PROVE  s[j].number = s[i].number + 1
    BY <1>1 DEF Consecutive
  <2>2. f[i] \in T /\ f[j] \in T /\ f[i] < f[j]
    BY <1>3, <2>1
  <2>3. ASSUME NEW k \in T, k \in f[i] + 1 .. f[j] - 1 PROVE FALSE
    <3>1. PICK m \in S : f[m] = k
      BY <1>3
    <3>2. f[i] < k /\ k < f[j]
      BY <1>2, <2>2, <2>3
    <3>3. i < m /\ m < j
      BY <1>4, <3>1, <3>2
    <3>4. m \in i + 1 .. j - 1
      BY <1>1, <3>3
    <3>. QED BY <2>1, <3>4
  <2>4. t[f[j]].number = t[f[i]].number + 1
    BY <1>2, <1>5, <2>2, <2>3 DEF Consecutive
  <2>. QED BY <1>3, <2>4
<1>6. ASSUME Consecutive(p, s) PROVE Consecutive(p, t)
  <2>1. SUFFICES ASSUME NEW k \in T, NEW l \in T, k < l, T \cap (k + 1 .. l - 1) = {}
                 PROVE  t[l].number = t[k].number + 1
    BY <1>2 DEF Consecutive
  <2>2. PICK i \in S : f[i] = k
    BY <1>3
  <2>3. PICK j \in S : f[j] = l
    BY <1>3
  <2>4. i < j
    BY <1>4, <2>1, <2>2, <2>3
  <2>5. ASSUME NEW m \in S, m \in i + 1 .. j - 1 PROVE FALSE
    <3>1. i < m /\ m < j
      BY <1>1, <2>5
    <3>2. k < f[m] /\ f[m] < l /\ f[m] \in T
      BY <1>3, <2>2, <2>3, <3>1
    <3>3. f[m] \in k + 1 .. l - 1
      BY <1>2, <3>2
    <3>. QED BY <2>1, <3>2, <3>3
  <2>6. s[j].number = s[i].number + 1
    BY <1>1, <1>6, <2>4, <2>5 DEF Consecutive
  <2>. QED BY <1>3, <2>2, <2>3, <2>6
<1>7. ASSUME NEW n PROVE Ends(p, s, n) <=> Ends(p, t, n)
  <2>1. ASSUME Ends(p, s, n) PROVE Ends(p, t, n)
    <3>1. SUFFICES ASSUME NEW k \in T, \A l \in T : l <= k PROVE t[k].number = n
      BY <1>2 DEF Ends
    <3>2. PICK i \in S : f[i] = k
      BY <1>3
    <3>3. ASSUME NEW j \in S PROVE j <= i
      <4>1. f[j] \in T /\ f[j] <= k /\ f[j] \in Nat /\ k \in Nat /\ i \in Nat /\ j \in Nat
        BY <1>1, <1>2, <1>3, <3>1
      <4>2. i < j => k < f[j]
        BY <1>3, <3>2
      <4>. QED BY <4>1, <4>2
    <3>4. s[i].number = n
      BY <1>1, <2>1, <3>3 DEF Ends
    <3>. QED BY <1>3, <3>2, <3>4
  <2>2. ASSUME Ends(p, t, n) PROVE Ends(p, s, n)
    <3>1. SUFFICES ASSUME NEW i \in S, \A j \in S : j <= i PROVE s[i].number = n
      BY <1>1 DEF Ends
    <3>2. ASSUME NEW l \in T PROVE l <= f[i]
      <4>1. PICK j \in S : f[j] = l
        BY <1>3
      <4>2. j <= i /\ i \in Nat /\ j \in Nat /\ f[i] \in Nat /\ l \in Nat
        BY <1>1, <1>2, <1>3, <3>1
      <4>3. j = i \/ j < i
        BY <4>2
      <4>4. j < i => l < f[i]
        BY <1>3, <4>1
      <4>. QED BY <4>1, <4>2, <4>3, <4>4
    <3>3. f[i] \in T
      BY <1>3
    <3>4. t[f[i]].number = n
      BY <1>2, <2>2, <3>2, <3>3 DEF Ends
    <3>. QED BY <1>3, <3>4
  <2>. QED BY <2>1, <2>2
<1>8. Numbers(p, s) = Numbers(p, t)
  <2>1. \A i \in S : f[i] \in T /\ t[f[i]].number = s[i].number
    BY <1>3
  <2>2. {s[i].number : i \in S} = {t[k].number : k \in T}
    BY <1>3, <2>1
  <2>. QED BY <1>1, <1>2, <2>2 DEF Numbers
<1>. QED BY <1>5, <1>6, <1>7, <1>8

\* A part that has nothing of p may be put in a list, or taken away.
LEMMA Inserted ==
  ASSUME NEW p, NEW a \in Lists(Item), NEW b \in Lists(Item), NEW c \in Lists(Item),
         Of(p, b) = {}
  PROVE  LET s == Cat(a, c)
             t == Cat(Cat(a, b), c)
         IN  /\ Consecutive(p, s) <=> Consecutive(p, t)
             /\ \A n : Ends(p, s, n) <=> Ends(p, t, n)
             /\ Numbers(p, s) = Numbers(p, t)
<1>1. PICK s : s = Cat(a, c) /\ s \in Lists(Item) /\ IsCat(s, a, c)
  BY Joined
<1>2. PICK ab : ab = Cat(a, b) /\ ab \in Lists(Item) /\ IsCat(ab, a, b)
  BY Joined
<1>3. PICK t : t = Cat(ab, c) /\ t \in Lists(Item) /\ IsCat(t, ab, c)
  BY <1>2, Joined
<1>4. PICK x \in Nat, y \in Nat, z \in Nat : x = Len(a) /\ y = Len(b) /\ z = Len(c)
  BY <1>1, <1>2 DEF IsCat
<1>5. /\ Len(s) = x + z /\ Len(ab) = x + y /\ Len(t) = x + y + z
      /\ \A i \in 1 .. x : s[i] = a[i] /\ t[i] = a[i]
      /\ \A i \in 1 .. z : s[x + i] = c[i] /\ t[x + y + i] = c[i]
      /\ \A i \in 1 .. y : t[x + i] = b[i]
  <2>1. /\ Len(s) = x + z /\ Len(ab) = x + y
        /\ \A i \in 1 .. x : s[i] = a[i] /\ ab[i] = a[i]
        /\ \A i \in 1 .. z : s[x + i] = c[i]
        /\ \A i \in 1 .. y : ab[x + i] = b[i]
    BY <1>1, <1>2, <1>4 DEF IsCat
  <2>2. /\ Len(t) = x + y + z
        /\ \A i \in 1 .. x + y : t[i] = ab[i]
        /\ \A i \in 1 .. z : t[x + y + i] = c[i]
    BY <1>3, <1>4, <2>1 DEF IsCat
  <2>3. \A i \in 1 .. x : i \in 1 .. x + y
    BY <1>4
  <2>4. \A i \in 1 .. y : x + i \in 1 .. x + y
    BY <1>4
  <2>. QED BY <2>1, <2>2, <2>3, <2>4
<1>6. Of(p, s) = {i \in 1 .. x + z : s[i].peer = p}
  BY <1>1, <1>5, OfIs
<1>7. Of(p, t) = {i \in 1 .. x + y + z : t[i].peer = p}
  BY <1>3, <1>5, OfIs
<1>8. \A i \in 1 .. y : b[i].peer # p
  BY <1>4, OfIs
<1>. DEFINE f == [i \in Of(p, s) |-> IF i <= x THEN i ELSE i + y]
<1>9. ASSUME NEW i \in 1 .. x + z
      PROVE  LET k == IF i <= x THEN i ELSE i + y
             IN  k \in 1 .. x + y + z /\ t[k] = s[i]
  <2>1. CASE i <= x
    <3>1. i \in 1 .. x /\ i \in 1 .. x + y + z
      BY <1>4, <2>1
    <3>. QED BY <1>5, <2>1, <3>1
  <2>2. CASE ~(i <= x)
    <3>1. PICK j \in 1 .. z : i = x + j
      <4>1. i - x \in 1 .. z /\ i = x + (i - x)
        BY <1>4, <2>2
      <4>. QED BY <4>1
    <3>2. i + y \in 1 .. x + y + z /\ i + y = x + y + j
      BY <1>4, <3>1
    <3>3. t[x + y + j] = c[j] /\ s[x + j] = c[j]
      BY <1>5, <3>1
    <3>. QED BY <2>2, <3>1, <3>2, <3>3
  <2>. QED BY <2>1, <2>2
<1>10. \A i \in Of(p, s) : f[i] \in Of(p, t) /\ t[f[i]].number = s[i].number
  BY <1>6, <1>7, <1>9
<1>11. f \in [Of(p, s) -> Of(p, t)]
  BY <1>10
<1>12. \A i, j \in Of(p, s) : i < j => f[i] < f[j]
  BY <1>4, <1>6
<1>13. ASSUME NEW k \in Of(p, t) PROVE \E i \in Of(p, s) : f[i] = k
  <2>1. k \in 1 .. x + y + z /\ t[k].peer = p
    BY <1>7
  <2>2. CASE k <= x
    <3>1. k \in 1 .. x /\ k \in 1 .. x + z
      BY <1>4, <2>1, <2>2
    <3>2. s[k] = t[k]
      BY <1>5, <3>1
    <3>3. k \in Of(p, s)
      BY <1>6, <2>1, <3>1, <3>2
    <3>4. f[k] = k
      BY <2>2, <3>3
    <3>. QED BY <3>3, <3>4
  <2>3. CASE x < k /\ k <= x + y
    <3>1. k - x \in 1 .. y /\ x + (k - x) = k
      BY <1>4, <2>1, <2>3
    <3>2. t[k] = b[k - x]
      BY <1>5, <3>1
    <3>. QED BY <1>8, <2>1, <3>1, <3>2
  <2>4. CASE x + y < k
    <3>1. PICK j \in 1 .. z : k = x + y + j
      <4>1. k - (x + y) \in 1 .. z /\ k = x + y + (k - (x + y))
        BY <1>4, <2>1, <2>4
      <4>. QED BY <4>1
    <3>2. PICK i \in 1 .. x + z : i = x + j /\ k = i + y /\ ~(i <= x)
      BY <1>4, <3>1
    <3>3. s[i] = t[k]
      BY <1>5, <3>1, <3>2
    <3>4. i \in Of(p, s)
      BY <1>6, <2>1, <3>2, <3>3
    <3>5. f[i] = k
      BY <3>2, <3>4
    <3>. QED BY <3>4, <3>5
  <2>. QED BY <1>4, <2>1, <2>2, <2>3, <2>4
<1>. HIDE DEF f
<1>14. IsSame(f, p, s, t)
  BY <1>10, <1>11, <1>12, <1>13 DEF IsSame
<1>. QED BY <1>1, <1>2, <1>3, <1>14, SameIs

\* The rest of a list, of which the first was taken away.
LEMMA RestIs ==
  ASSUME NEW p, NEW s \in Lists(Item), NEW t \in Lists(Item), NEW x \in Item,
         s = Cat(Just(x), t), Consecutive(p, s)
  PROVE  Consecutive(p, t) /\ \A n : Ends(p, s, n) => Ends(p, t, n)
<1>1. IsInFront(s, x, t)
  BY InFront
<1>2. PICK l \in Nat : l = Len(t) /\ Len(s) = l + 1 /\ \A i \in 1 .. l : s[i + 1] = t[i]
  BY <1>1 DEF IsInFront
<1>3. PICK S : S = Of(p, s) /\ S = {i \in 1 .. l + 1 : s[i].peer = p}
  BY <1>2, OfIs
<1>4. PICK T : T = Of(p, t) /\ T = {i \in 1 .. l : t[i].peer = p}
  BY <1>2, OfIs
<1>5. \A i \in T : i + 1 \in S /\ i \in 1 .. l /\ s[i + 1] = t[i]
  BY <1>2, <1>3, <1>4
<1>6. \A i \in S : i # 1 => i - 1 \in T /\ i \in 2 .. l + 1
  <2>. SUFFICES ASSUME NEW i \in S, i # 1 PROVE i - 1 \in T /\ i \in 2 .. l + 1
    OBVIOUS
  <2>1. i - 1 \in 1 .. l /\ (i - 1) + 1 = i /\ i \in 2 .. l + 1
    BY <1>3
  <2>2. s[i] = t[i - 1]
    BY <1>2, <2>1
  <2>. QED BY <1>3, <1>4, <2>1, <2>2
<1>7. Consecutive(p, t)
  <2>1. SUFFICES ASSUME NEW i \in T, NEW j \in T, i < j, T \cap (i + 1 .. j - 1) = {}
                 PROVE  t[j].number = t[i].number + 1
    BY <1>4 DEF Consecutive
  <2>2. i + 1 \in S /\ j + 1 \in S /\ i + 1 < j + 1 /\ i \in 1 .. l /\ j \in 1 .. l
    BY <1>5, <2>1
  <2>3. ASSUME NEW k \in S, k \in (i + 1) + 1 .. (j + 1) - 1 PROVE FALSE
    <3>1. k # 1 /\ k - 1 \in i + 1 .. j - 1
      BY <2>2, <2>3
    <3>. QED BY <1>6, <2>1, <3>1
  <2>4. s[j + 1].number = s[i + 1].number + 1
    BY <1>3, <2>2, <2>3 DEF Consecutive
  <2>. QED BY <1>5, <2>4
<1>8. ASSUME NEW n, Ends(p, s, n) PROVE Ends(p, t, n)
  <2>1. SUFFICES ASSUME NEW i \in T, \A j \in T : j <= i PROVE t[i].number = n
    BY <1>4 DEF Ends
  <2>2. i + 1 \in S /\ i \in 1 .. l /\ s[i + 1] = t[i]
    BY <1>5
  <2>3. ASSUME NEW k \in S PROVE k <= i + 1
    <3>1. CASE k = 1
      BY <2>2, <3>1
    <3>2. CASE k # 1
      <4>1. k - 1 \in T /\ k \in 2 .. l + 1
        BY <1>6, <3>2
      <4>2. k - 1 <= i
        BY <2>1, <4>1
      <4>. QED BY <2>2, <4>1, <4>2
    <3>. QED BY <3>1, <3>2
  <2>4. s[i + 1].number = n
    BY <1>3, <1>8, <2>2, <2>3 DEF Ends
  <2>. QED BY <2>2, <2>4
<1>. QED BY <1>7, <1>8

\* What comes first in a list.
LEMMA BeginningIs ==
  ASSUME NEW p, NEW a \in Lists(Item), NEW b \in Lists(Item), Consecutive(p, Cat(a, b))
  PROVE  Consecutive(p, a)
<1>1. PICK s : s = Cat(a, b) /\ s \in Lists(Item) /\ IsCat(s, a, b)
  BY Joined
<1>2. PICK l \in Nat, m \in Nat : l = Len(a) /\ m = Len(b) /\ Len(s) = l + m
                                 /\ \A i \in 1 .. l : s[i] = a[i]
  BY <1>1 DEF IsCat
<1>3. PICK S : S = Of(p, s) /\ S = {i \in 1 .. l + m : s[i].peer = p}
  BY <1>1, <1>2, OfIs
<1>4. PICK T : T = Of(p, a) /\ T = {i \in 1 .. l : a[i].peer = p}
  BY <1>2, OfIs
<1>5. \A i \in T : i \in S /\ i \in 1 .. l /\ s[i] = a[i]
  BY <1>2, <1>3, <1>4
<1>6. \A i \in S : i <= l => i \in T
  <2>. SUFFICES ASSUME NEW i \in S, i <= l PROVE i \in T
    OBVIOUS
  <2>1. i \in 1 .. l
    BY <1>3
  <2>. QED BY <1>2, <1>3, <1>4, <2>1
<1>7. SUFFICES ASSUME NEW i \in T, NEW j \in T, i < j, T \cap (i + 1 .. j - 1) = {}
               PROVE  a[j].number = a[i].number + 1
  BY <1>4 DEF Consecutive
<1>8. i \in 1 .. l /\ j \in 1 .. l /\ i \in S /\ j \in S
  BY <1>5
<1>9. ASSUME NEW k \in S, k \in i + 1 .. j - 1 PROVE FALSE
  <2>1. k <= l
    BY <1>8, <1>9
  <2>. QED BY <1>6, <1>7, <1>9, <2>1
<1>10. s[j].number = s[i].number + 1
  BY <1>1, <1>3, <1>7, <1>8, <1>9 DEF Consecutive
<1>. QED BY <1>5, <1>10

\* The next of p at the end of a list.
LEMMA NextIs ==
  ASSUME NEW p, NEW s \in Lists(Item), NEW x \in Item, NEW n \in Nat,
         x.peer = p, x.number = n + 1, Consecutive(p, s), Ends(p, s, n)
  PROVE  LET t == Cat(s, Just(x))
         IN  /\ Consecutive(p, t) /\ Ends(p, t, n + 1)
             /\ Numbers(p, t) = Numbers(p, s) \cup {n + 1}
<1>0. PICK o : o = Just(x) /\ o \in Lists(Item) /\ Len(o) = 1 /\ o[1] = x
  BY Single DEF Just
<1>1. PICK t : t = Cat(s, o) /\ t \in Lists(Item) /\ IsCat(t, s, o)
  BY <1>0, Joined
<1>2. PICK l \in Nat : l = Len(s) /\ Len(t) = l + 1 /\ t[l + 1] = x /\ \A i \in 1 .. l : t[i] = s[i]
  BY <1>0, <1>1 DEF IsCat
<1>3. PICK S : S = Of(p, s) /\ S = {i \in 1 .. l : s[i].peer = p}
  BY <1>2, OfIs
<1>4. PICK T : T = Of(p, t) /\ T = {i \in 1 .. l + 1 : t[i].peer = p}
  BY <1>1, <1>2, OfIs
<1>5. T = S \cup {l + 1} /\ \A i \in S : t[i] = s[i] /\ i \in 1 .. l
  <2>1. \A i \in 1 .. l + 1 : i = l + 1 \/ i \in 1 .. l
    OBVIOUS
  <2>2. \A i \in S : i \in T /\ t[i] = s[i] /\ i \in 1 .. l
    BY <1>2, <1>3, <1>4
  <2>3. l + 1 \in T
    BY <1>2, <1>4
  <2>4. \A i \in T : i = l + 1 \/ i \in S
    BY <1>2, <1>3, <1>4, <2>1
  <2>. QED BY <2>2, <2>3, <2>4
<1>6. Consecutive(p, t)
  <2>1. SUFFICES ASSUME NEW i \in T, NEW j \in T, i < j, T \cap (i + 1 .. j - 1) = {}
                 PROVE  t[j].number = t[i].number + 1
    BY <1>4 DEF Consecutive
  <2>2. i \in S /\ i \in 1 .. l
    BY <1>4, <1>5, <2>1
  <2>3. CASE j \in S
    <3>1. S \cap (i + 1 .. j - 1) = {}
      BY <1>5, <2>1
    <3>2. s[j].number = s[i].number + 1
      BY <1>3, <2>1, <2>2, <2>3, <3>1 DEF Consecutive
    <3>. QED BY <1>5, <2>2, <2>3, <3>2
  <2>4. CASE j = l + 1
    <3>1. ASSUME NEW k \in S PROVE k <= i
      <4>1. k \in 1 .. l /\ k \in T
        BY <1>5
      <4>2. ~(k \in i + 1 .. j - 1)
        BY <2>1, <4>1
      <4>. QED BY <2>2, <2>4, <4>1, <4>2
    <3>2. s[i].number = n
      BY <1>3, <2>2, <3>1 DEF Ends
    <3>. QED BY <1>2, <1>5, <2>2, <2>4, <3>2
  <2>. QED BY <1>5, <2>3, <2>4
<1>7. Ends(p, t, n + 1)
  <2>1. SUFFICES ASSUME NEW i \in T, \A j \in T : j <= i PROVE t[i].number = n + 1
    BY <1>4 DEF Ends
  <2>2. i = l + 1
    <3>1. l + 1 <= i
      BY <1>5, <2>1
    <3>. QED BY <1>4, <3>1
  <2>. QED BY <1>2, <2>2
<1>8. Numbers(p, t) = Numbers(p, s) \cup {n + 1}
  <2>1. {t[i].number : i \in T} = {s[i].number : i \in S} \cup {n + 1}
    BY <1>2, <1>5
  <2>. QED BY <1>3, <1>4, <2>1 DEF Numbers
<1>. QED BY <1>0, <1>1, <1>6, <1>7, <1>8

\* A list with nothing of p.
LEMMA NothingIs ==
  ASSUME NEW p, NEW s \in Lists(Item), Of(p, s) = {}
  PROVE  Consecutive(p, s) /\ (\A n : Ends(p, s, n)) /\ Numbers(p, s) = {}
BY DEF Consecutive, Ends, Numbers

---------------------------------------------------------------------------
(***************************************************************************)
(* The buffers of the data received: what Bytes() is, and that a turn of    *)
(* read_data() moves bytes from there to the end of what was read.          *)
(***************************************************************************)

\* The buffers of the script: none is empty, and the position is in the first.
DataOK(b, position) ==
    /\ b \in Lists(Lists(Item)) /\ position \in Nat
    /\ \A i \in 1 .. Len(b) : b[i] # <<>>
    /\ b = <<>> => position = 0
    /\ b # <<>> => position < Len(Head(b))

\* The bytes that were not read are a list.
LEMMA BytesIn ==
  ASSUME NEW b, NEW position, DataOK(b, position)
  PROVE  /\ FlattenSeq(b) \in Lists(Item) /\ position \in 0 .. Len(FlattenSeq(b))
         /\ Bytes(b, position) = Drop(FlattenSeq(b), position)
         /\ Bytes(b, position) \in Lists(Item)
<1>1. b \in Lists(Lists(Item)) /\ position \in Nat
  BY DEF DataOK
<1>2. PICK f : f = FlattenSeq(b) /\ f \in Lists(Item)
  <2>1. <<>> \in Lists(Item)
    BY Empty
  <2>. QED BY <1>1, <2>1, FlatAppend
<1>3. PICK n \in Nat : n = Len(f)
  BY <1>2, ListLen
<1>4. position <= n
  <2>1. CASE b = <<>>
    BY <1>3, <2>1 DEF DataOK
  <2>2. CASE b # <<>>
    <3>0. PICK h, t : h = Head(b) /\ t = Tail(b)
      OBVIOUS
    <3>1. h = Head(b) /\ h \in Lists(Item) /\ t \in Lists(Lists(Item)) /\ f = Cat(h, FlattenSeq(t))
      BY <1>1, <1>2, <2>2, <3>0, FlatFirst
    <3>2. FlattenSeq(t) \in Lists(Item)
      <4>1. <<>> \in Lists(Item)
        BY Empty
      <4>. QED BY <3>1, <4>1, FlatAppend
    <3>3. IsCat(f, h, FlattenSeq(t))
      BY <3>1, <3>2, Joined
    <3>4. n >= Len(h) /\ Len(h) \in Nat
      BY <1>3, <3>3 DEF IsCat
    <3>5. position < Len(h)
      BY <2>2, <3>1 DEF DataOK
    <3>. QED BY <1>1, <1>3, <3>4, <3>5
  <2>. QED BY <2>1, <2>2
<1>5. position \in 0 .. n
  BY <1>1, <1>3, <1>4
<1>6. Bytes(b, position) = Drop(f, position)
  BY <1>2 DEF Bytes, Drop, Slice
<1>7. Drop(f, position) \in Lists(Item)
  BY <1>2, <1>3, <1>5, DropIs
<1>. QED BY <1>2, <1>3, <1>5, <1>6, <1>7

\* No buffers, no bytes.
LEMMA NoBytes ==
  DataOK(<<>>, 0) /\ Bytes(<<>>, 0) = <<>>
<1>1. <<>> \in Lists(Item) /\ <<>> \in Lists(Lists(Item)) /\ Len(<<>>) = 0
  BY Empty
<1>2. DataOK(<<>>, 0)
  BY <1>1 DEF DataOK
<1>3. FlattenSeq(<<>>) = <<>>
  BY <1>1, FlatAppend
<1>4. Bytes(<<>>, 0) = Slice(<<>>, Len(<<>>) + 1, Len(<<>>))
  BY <1>1, <1>3 DEF Bytes, Slice
<1>. QED BY <1>1, <1>2, <1>4, SuffixEnd

\* The bytes of the first buffer, then those of the others.
LEMMA BytesFirst ==
  ASSUME NEW b, NEW position, DataOK(b, position), b # <<>>
  PROVE  /\ Head(b) \in Lists(Item) /\ position \in 0 .. Len(Head(b)) /\ position < Len(Head(b))
         /\ DataOK(Tail(b), 0)
         /\ Bytes(b, position) = Cat(Drop(Head(b), position), Bytes(Tail(b), 0))
         /\ \A q \in Nat : q < Len(Head(b)) => DataOK(b, q)
<1>1. b \in Lists(Lists(Item)) /\ position \in Nat /\ position < Len(Head(b))
      /\ \A i \in 1 .. Len(b) : b[i] # <<>>
  BY DEF DataOK
<1>0. PICK h, t : h = Head(b) /\ t = Tail(b)
  OBVIOUS
<1>2. /\ h = Head(b) /\ h \in Lists(Item) /\ t = Tail(b) /\ t \in Lists(Lists(Item))
      /\ FlattenSeq(b) = Cat(h, FlattenSeq(t))
  BY <1>0, <1>1, FlatFirst
<1>3. PICK n \in Nat : n = Len(b) /\ n # 0
  BY <1>1, ListLen, EmptyIs
<1>4. Len(t) = n - 1 /\ \A i \in 1 .. n - 1 : t[i] = b[i + 1]
  BY <1>1, <1>2, <1>3, TailIs
<1>5. \A i \in 1 .. n - 1 : t[i] # <<>>
  <2>1. \A i \in 1 .. n - 1 : i + 1 \in 1 .. n
    BY <1>3
  <2>. QED BY <1>1, <1>3, <1>4, <2>1
<1>6. DataOK(t, 0)
  <2>1. t # <<>> => 0 < Len(Head(t))
    <3>1. SUFFICES ASSUME t # <<>> PROVE 0 < Len(Head(t))
      OBVIOUS
    <3>2. n - 1 # 0 /\ n - 1 \in Nat /\ 1 \in 1 .. n - 1
      BY <1>2, <1>3, <1>4, <3>1, EmptyIs
    <3>3. Head(t) = t[1] /\ Head(t) \in Lists(Item)
      BY <1>2, <1>4, <3>2, TailIs
    <3>4. Head(t) # <<>>
      BY <1>5, <3>2, <3>3
    <3>5. Len(Head(t)) # 0 /\ Len(Head(t)) \in Nat
      BY <3>3, <3>4, EmptyIs, ListLen
    <3>. QED BY <3>5
  <2>. QED BY <1>2, <1>4, <1>5, <2>1 DEF DataOK
<1>7. PICK m \in Nat : m = Len(h) /\ position \in 0 .. m
  BY <1>1, <1>2, ListLen
<1>8. FlattenSeq(t) \in Lists(Item) /\ Bytes(t, 0) = Drop(FlattenSeq(t), 0)
  BY <1>6, BytesIn
<1>9. Drop(FlattenSeq(t), 0) = FlattenSeq(t)
  <2>1. 0 + 1 = 1
    OBVIOUS
  <2>. QED BY <1>8, <2>1, WholeSlice DEF Drop
<1>10. Bytes(b, position) = Drop(Cat(h, FlattenSeq(t)), position)
  BY <1>2, BytesIn
<1>11. Drop(Cat(h, FlattenSeq(t)), position) = Cat(Drop(h, position), FlattenSeq(t))
  BY <1>2, <1>7, <1>8, DropCat
<1>12. \A q \in Nat : q < Len(Head(b)) => DataOK(b, q)
  BY <1>1 DEF DataOK
<1>. QED BY <1>1, <1>2, <1>6, <1>7, <1>8, <1>9, <1>10, <1>11, <1>12

\* add_data(): the bytes follow those that were there.
LEMMA BytesAppend ==
  ASSUME NEW b, NEW position, DataOK(b, position), NEW x \in Lists(Item), x # <<>>
  PROVE  /\ DataOK(Append(b, x), position)
         /\ Bytes(Append(b, x), position) = Cat(Bytes(b, position), x)
<1>1. b \in Lists(Lists(Item)) /\ position \in Nat /\ \A i \in 1 .. Len(b) : b[i] # <<>>
  BY DEF DataOK
<1>2. PICK n \in Nat : n = Len(b)
  BY <1>1, ListLen
<1>3. PICK c : c = Append(b, x)
  OBVIOUS
<1>4. c \in Lists(Lists(Item)) /\ c[n + 1] = x /\ (\A i \in 1 .. n : c[i] = b[i])
  BY <1>1, <1>2, <1>3, AppendIs
<1>5. Len(c) = n + 1
  BY <1>1, <1>2, <1>3 DEF Lists
<1>6. ASSUME NEW i \in 1 .. n + 1 PROVE c[i] # <<>>
  <2>1. i = n + 1 \/ i \in 1 .. n
    BY <1>2
  <2>. QED BY <1>1, <1>2, <1>4, <2>1
<1>7. c # <<>> /\ Head(c) = c[1]
  <2>1. n + 1 # 0 /\ n + 1 \in Nat
    BY <1>2
  <2>. QED BY <1>4, <1>5, <2>1, TailIs, EmptyIs
<1>8. position < Len(Head(c))
  <2>1. CASE n = 0
    <3>1. b = <<>> /\ position = 0
      BY <1>1, <1>2, <2>1, EmptyIs DEF DataOK
    <3>2. Len(x) # 0 /\ Len(x) \in Nat
      BY EmptyIs, ListLen
    <3>. QED BY <1>4, <1>7, <2>1, <3>1, <3>2
  <2>2. CASE n # 0
    <3>1. b # <<>> /\ 1 \in 1 .. n
      BY <1>1, <1>2, <2>2, EmptyIs
    <3>2. Head(b) = b[1]
      BY <1>1, <1>2, <2>2, TailIs
    <3>. QED BY <1>4, <1>7, <3>1, <3>2 DEF DataOK
  <2>. QED BY <2>1, <2>2
<1>9. DataOK(c, position)
  BY <1>1, <1>4, <1>5, <1>6, <1>7, <1>8 DEF DataOK
<1>10. FlattenSeq(c) = Cat(FlattenSeq(b), x)
  BY <1>1, <1>3, FlatAppend
<1>11. Bytes(c, position) = Drop(FlattenSeq(c), position)
  BY <1>9, BytesIn
<1>12. /\ FlattenSeq(b) \in Lists(Item) /\ position \in 0 .. Len(FlattenSeq(b))
       /\ Bytes(b, position) = Drop(FlattenSeq(b), position)
  BY BytesIn
<1>13. Drop(Cat(FlattenSeq(b), x), position) = Cat(Drop(FlattenSeq(b), position), x)
  BY <1>12, DropCat
<1>. QED BY <1>3, <1>9, <1>10, <1>11, <1>12, <1>13

\* What was read and what is left are all the bytes there were.
ReadingOK(r, all) ==
    /\ r.buf \in Lists(Item) /\ DataOK(r.buffers, r.position) /\ r.size \in Nat
    /\ Cat(r.buf, Bytes(r.buffers, r.position)) = all

\* One turn of read_data().
LEMMA TurnOK ==
  ASSUME NEW r, NEW all, ReadingOK(r, all)
  PROVE  ReadingOK(Turn(r), all)
<1>1. CASE r.buffers = <<>> \/ r.size = 0
  <2>1. Turn(r) = r
    BY <1>1 DEF Turn
  <2>. QED BY <2>1
<1>2. CASE ~(r.buffers = <<>> \/ r.size = 0)
  <2>0. PICK b, h, p, s, buf : b = r.buffers /\ h = Head(b) /\ p = r.position /\ s = r.size /\ buf = r.buf
    OBVIOUS
  <2>1. /\ b = r.buffers /\ h = Head(b) /\ p = r.position /\ s = r.size /\ buf = r.buf
        /\ s \in Nat \ {0}
    BY <1>2, <2>0 DEF ReadingOK
  <2>2. DataOK(b, p) /\ b # <<>> /\ buf \in Lists(Item) /\ Cat(buf, Bytes(b, p)) = all
    BY <1>2, <2>1 DEF ReadingOK
  <2>3. PICK n \in Nat : n = Len(h) /\ h \in Lists(Item) /\ p \in 0 .. n /\ p < n
    BY <2>1, <2>2, BytesFirst, ListLen
  <2>4. PICK t : t = Tail(b) /\ DataOK(t, 0) /\ Bytes(b, p) = Cat(Drop(h, p), Bytes(t, 0))
    BY <2>1, <2>2, BytesFirst
  <2>5. PICK q \in p .. n : q = IF n - p < s THEN n ELSE p + s
    <3>1. n - p < s => n \in p .. n
      BY <2>3
    <3>2. ~(n - p < s) => p + s \in p .. n
      BY <2>1, <2>3
    <3>. QED BY <3>1, <3>2
  <2>6. PICK c \in Nat : c = (IF n - p < s THEN n - p ELSE s) /\ p + c = q /\ c <= s
    <3>1. n - p < s => n - p \in Nat /\ p + (n - p) = n /\ n - p <= s
      BY <2>1, <2>3
    <3>. QED BY <2>1, <2>5, <3>1
  <2>7. PICK new, x : x = Slice(h, p + 1, q) /\ new = Cat(buf, x)
    OBVIOUS
  <2>8. Turn(r) = IF q >= n THEN Progress(new, t, 0, s - c) ELSE Progress(new, b, q, s - c)
    <3>1. /\ r.buffers = b /\ Head(b) = h /\ Len(h) = n /\ r.position = p /\ r.size = s
          /\ r.buf = buf /\ Tail(b) = t /\ ~(b = <<>> \/ s = 0)
      BY <2>1, <2>2, <2>3, <2>4
    <3>2. c = IF n - p < s THEN n - p ELSE s
      BY <2>6
    <3>3. p + c = q
      BY <2>6
    <3>4. new = buf \o SubSeq(h, p + 1, p + c)
      BY <2>7, <3>3 DEF Cat, Slice
    <3>. QED BY <3>1, <3>2, <3>3, <3>4, Zenon DEF Turn
  <2>9. s - c \in Nat
    BY <2>1, <2>6
  <2>10. x \in Lists(Item) /\ Drop(h, p) = Cat(x, Drop(h, q))
    BY <2>3, <2>7, DropSplit
  <2>11. new \in Lists(Item)
    BY <2>2, <2>7, <2>10, Joined
  <2>12. Bytes(t, 0) \in Lists(Item)
    BY <2>4, BytesIn
  <2>13. q \in 0 .. n
    BY <2>3
  <2>14. PICK d : d = Drop(h, q) /\ d \in Lists(Item)
    BY <2>3, <2>13, DropIs
  <2>15. all = Cat(new, Cat(d, Bytes(t, 0)))
    <3>1. Cat(x, d) \in Lists(Item)
      BY <2>10, <2>14, Joined
    <3>2. Cat(d, Bytes(t, 0)) \in Lists(Item)
      BY <2>12, <2>14, Joined
    <3>3. Cat(Cat(x, d), Bytes(t, 0)) = Cat(x, Cat(d, Bytes(t, 0)))
      BY <2>10, <2>12, <2>14, CatCat
    <3>4. all = Cat(buf, Cat(x, Cat(d, Bytes(t, 0))))
      BY <2>2, <2>4, <2>10, <2>14, <3>3
    <3>5. Cat(Cat(buf, x), Cat(d, Bytes(t, 0))) = Cat(buf, Cat(x, Cat(d, Bytes(t, 0))))
      BY <2>2, <2>10, <3>2, CatCat
    <3>. QED BY <2>7, <3>4, <3>5
  <2>16. CASE q >= n
    <3>1. q = n
      BY <2>3, <2>16
    <3>2. d = <<>>
      BY <2>3, <2>14, <3>1, SuffixEnd DEF Drop
    <3>3. Cat(d, Bytes(t, 0)) = Bytes(t, 0)
      BY <2>12, <3>2, CatEmpty
    <3>4. PICK u : u = Turn(r) /\ u.buf = new /\ u.buffers = t /\ u.position = 0 /\ u.size = s - c
      BY <2>8, <2>16 DEF Progress
    <3>. QED BY <2>4, <2>9, <2>11, <2>15, <3>3, <3>4 DEF ReadingOK
  <2>17. CASE ~(q >= n)
    <3>1. q \in Nat /\ q < Len(Head(b))
      BY <2>1, <2>3, <2>13, <2>17
    <3>2. DataOK(b, q)
      BY <2>2, <3>1, BytesFirst
    <3>3. Bytes(b, q) = Cat(d, Bytes(t, 0))
      BY <2>1, <2>2, <2>4, <2>14, <3>2, BytesFirst
    <3>4. PICK u : u = Turn(r) /\ u.buf = new /\ u.buffers = b /\ u.position = q /\ u.size = s - c
      BY <2>8, <2>17 DEF Progress
    <3>. QED BY <2>9, <2>11, <2>15, <3>2, <3>3, <3>4 DEF ReadingOK
  <2>. QED BY <2>16, <2>17
<1>. QED BY <1>1, <1>2

\* The loop of read_data().
LEMMA ReadOK ==
  ASSUME NEW b, NEW position, DataOK(b, position), NEW size \in Nat
  PROVE  ReadingOK(read_data(b, position, size), Bytes(b, position))
<1>1. PICK n \in Nat : n = Len(b)
  BY ListLen DEF DataOK
<1>2. PICK first : first = Progress(<<>>, b, position, size)
  OBVIOUS
<1>. DEFINE Good(m, f) == f = [k \in 0 .. m |-> IF k = 0 THEN first ELSE Turn(f[k - 1])]
            S == {m \in 0 .. n : \E f : Good(m, f)}
<1>3. 0 \in S
  <2>. DEFINE f == [k \in 0 .. 0 |-> first]
  <2>1. Good(0, f)
    OBVIOUS
  <2>. HIDE DEF f
  <2>. QED BY <2>1
<1>4. ASSUME NEW m \in 0 .. n - 1, m \in S PROVE m + 1 \in S
  <2>1. PICK f : Good(m, f)
    BY <1>4
  <2>. DEFINE g == [k \in 0 .. m + 1 |-> IF k = m + 1 THEN Turn(f[m]) ELSE f[k]]
  <2>2. ASSUME NEW k \in 0 .. m + 1
        PROVE  g[k] = IF k = 0 THEN first ELSE Turn(g[k - 1])
    <3>1. CASE k = m + 1
      <4>1. k # 0 /\ k - 1 = m /\ m \in 0 .. m + 1 /\ m # m + 1
        BY <3>1
      <4>2. g[m] = f[m]
        BY <4>1
      <4>. QED BY <3>1, <4>1, <4>2
    <3>2. CASE k # m + 1
      <4>1. k \in 0 .. m /\ (k # 0 => k - 1 \in 0 .. m + 1 /\ k - 1 # m + 1)
        BY <3>2
      <4>2. f[k] = IF k = 0 THEN first ELSE Turn(f[k - 1])
        BY <2>1, <4>1
      <4>3. g[k] = f[k] /\ (k # 0 => g[k - 1] = f[k - 1])
        BY <3>2, <4>1
      <4>. QED BY <4>2, <4>3
    <3>. QED BY <3>1, <3>2
  <2>3. g = [k \in 0 .. m + 1 |-> g[k]]
    OBVIOUS
  <2>. HIDE DEF g
  <2>4. Good(m + 1, g)
    BY <2>2, <2>3
  <2>5. m + 1 \in 0 .. n
    OBVIOUS
  <2>. QED BY <2>4, <2>5
<1>5. \E f : Good(n, f)
  <2>. HIDE DEF S
  <2>0. 0 \in Int /\ n \in Int
    OBVIOUS
  <2>1. \A m \in 0 .. n : m \in S
    BY <1>3, <1>4, <2>0, Upward
  <2>2. n \in S
    BY <2>1
  <2>. QED BY <2>2 DEF S
<1>. DEFINE turn == CHOOSE f : Good(n, f)
<1>6. read_data(b, position, size) = turn[n]
  BY <1>1, <1>2 DEF read_data
<1>7. Good(n, turn)
  <2>. HIDE DEF Good
  <2>. QED BY <1>5
<1>. HIDE DEF turn
<1>8. turn[0] = first /\ \A k \in 1 .. n : turn[k] = Turn(turn[k - 1])
  BY <1>7
<1>. DEFINE U == {k \in 0 .. n : ReadingOK(turn[k], Bytes(b, position))}
<1>9. 0 \in U
  <2>1. Bytes(b, position) \in Lists(Item) /\ <<>> \in Lists(Item)
    BY BytesIn, Empty
  <2>2. Cat(<<>>, Bytes(b, position)) = Bytes(b, position)
    BY <2>1, CatEmpty
  <2>3. ReadingOK(first, Bytes(b, position))
    BY <1>2, <2>1, <2>2 DEF ReadingOK, Progress
  <2>. QED BY <1>8, <2>3
<1>10. ASSUME NEW k \in 0 .. n - 1, k \in U PROVE k + 1 \in U
  <2>1. k + 1 \in 1 .. n /\ k + 1 \in 0 .. n /\ (k + 1) - 1 = k
    OBVIOUS
  <2>2. turn[k + 1] = Turn(turn[k])
    BY <1>8, <2>1
  <2>. QED BY <1>10, <2>1, <2>2, TurnOK
<1>. HIDE DEF U
<1>11. \A k \in 0 .. n : k \in U
  <2>0. 0 \in Int /\ n \in Int
    OBVIOUS
  <2>. QED BY <1>9, <1>10, <2>0, Upward
<1>12. n \in U
  BY <1>11
<1>. QED BY <1>6, <1>12 DEF U

---------------------------------------------------------------------------
(***************************************************************************)
(* Where the two threads are, and where the script is.                      *)
(***************************************************************************)

\* Where the two threads can be at the same time.
ThreadInv ==
    /\ f_in_thread \in BOOLEAN
    /\ runner \in {"start", "enter", "thread", "poll", "serve", "leave", "leaving", "left"}
    /\ main \in {"start", "run", "returned", "stop", "stopped", "threw"}
    /\ done \in 0 .. 1
    /\ runner = "start" => main = "start" /\ done = 0
    /\ runner \in {"enter", "thread", "poll", "serve", "leave"} => main \in {"run", "stop"} /\ done = 0
    /\ f_in_thread <=> runner \in {"thread", "poll", "serve", "leave", "leaving"}
    /\ main = "returned" => runner \in {"leaving", "left"} /\ done = 0
    /\ done = 1 => runner \in {"leaving", "left"}

\* The variables of the threads.
threads == <<f_in_thread, runner, main, done>>

\* The threads stay where they are.
LEMMA ThreadSame == ASSUME ThreadInv, UNCHANGED threads PROVE ThreadInv'
BY DEF ThreadInv, threads

\* An exception ends start(), or makes the thread leave.
LEMMA ThreadThrow ==
  ASSUME ThreadInv, runner \in {"start", "thread", "poll"}, Throw
  PROVE  ThreadInv'
BY DEF ThreadInv, Throw

\* The actions of the script that go on, or fail.
LEMMA ThreadGoesOn ==
  ASSUME ThreadInv, runner \in {"start", "thread", "poll"}, UNCHANGED executor \/ Throw
  PROVE  ThreadInv'
BY ThreadThrow DEF ThreadInv, executor

\* Every step keeps the threads where they can be.
LEMMA ThreadStep ==
  ASSUME ThreadInv, [Next]_vars
  PROVE  ThreadInv'
<1>. USE DEF Instruction, Executing
<1>1. CASE UNCHANGED vars
  BY <1>1, ThreadSame DEF vars, executor, threads
<1>2. CASE Call \/ Return \/ Goto \/ Nothing
  BY <1>2, ThreadGoesOn DEF Call, Return, Goto, Nothing
<1>3. CASE If
  BY <1>3, ThreadGoesOn DEF If
<1>4. CASE CompareInstruction \/ HasType \/ HasData \/ HasMessage
  BY <1>4, ThreadGoesOn DEF CompareInstruction, HasType, HasData, HasMessage, Compare
<1>5. CASE SetVariable \/ UnsetVariable
  BY <1>5, ThreadGoesOn DEF SetVariable, UnsetVariable
<1>6. CASE Listen \/ Disconnect
  BY <1>6, ThreadGoesOn DEF Listen, Disconnect
<1>7. CASE ClearData \/ ClearMessage
  BY <1>7, ThreadGoesOn DEF ClearData, ClearMessage
<1>8. CASE VerifyData \/ VerifyMessage
  BY <1>8, ThreadGoesOn DEF VerifyData, VerifyMessage
<1>9. CASE SendMessage \/ SendData
  BY <1>9, ThreadGoesOn DEF SendMessage, SendData
<1>10. CASE Wait
  <2>1. CASE Throw \/ UNCHANGED executor
    BY <1>10, <2>1, ThreadGoesOn DEF Wait
  <2>2. CASE f_in_thread /\ runner' = "poll" /\ UNCHANGED <<f_in_thread, f_exit_code, main, done>>
    BY <1>10, <2>2 DEF ThreadInv, Wait
  <2>. QED BY <1>10, <2>1, <2>2 DEF Wait
<1>11. CASE PollReturns
  <2>1. CASE Throw
    BY <1>11, <2>1, ThreadGoesOn DEF PollReturns
  <2>2. CASE runner' = "serve" /\ UNCHANGED <<f_in_thread, f_exit_code, main, done>>
    BY <1>11, <2>2 DEF ThreadInv, PollReturns
  <2>. QED BY <1>11, <2>1, <2>2 DEF PollReturns
<1>12. CASE Serve
  BY <1>12, ThreadSame DEF Serve, executor, threads
<1>13. CASE WaitEnds
  BY <1>13 DEF ThreadInv, WaitEnds
<1>14. CASE Exit
  BY <1>14, ThreadSame DEF Exit, threads
<1>15. CASE Run
  <2>1. CASE Throw
    BY <1>15, <2>1, ThreadGoesOn DEF Run
  <2>2. CASE ~f_in_thread /\ runner' = "enter" /\ main' = "run" /\ UNCHANGED <<f_in_thread, f_exit_code, done>>
    BY <1>15, <2>2 DEF ThreadInv, Run
  <2>. QED BY <1>15, <2>1, <2>2 DEF Run
<1>16. CASE Enter
  BY <1>16 DEF ThreadInv, Enter
<1>17. CASE StepDone
  BY <1>17 DEF ThreadInv, StepDone
<1>18. CASE ThreadDone
  BY <1>18 DEF ThreadInv, ThreadDone
<1>19. CASE Leave
  BY <1>19 DEF ThreadInv, Leave
<1>20. CASE ProcessDone
  BY <1>20 DEF ThreadInv, ProcessDone
<1>21. CASE Stop \/ Stopped
  BY <1>21 DEF ThreadInv, Stop, Stopped
<1>22. ASSUME NEW p \in Peers, Connect(p) \/ Close(p) \/ \E command \in {"A", "B"} : Send(p, command)
       PROVE  ThreadInv'
  BY <1>22, ThreadSame DEF Connect, Close, Send, executor, threads
<1>. QED BY <1>1, <1>2, <1>3, <1>4, <1>5, <1>6, <1>7, <1>8, <1>9, <1>10, <1>11, <1>12, <1>13,
            <1>14, <1>15, <1>16, <1>17, <1>18, <1>19, <1>20, <1>21, <1>22 DEF Next, Script, Executor

\* Where the script is.
FlowInv ==
    /\ f_program \in Programs
    /\ f_stack \in Seq(Int)
    /\ f_ip \in 1 .. Len(f_program) + 1
    /\ \A k \in DOMAIN f_stack : f_stack[k] \in 2 .. Len(f_program) + 1
    /\ f_compare \in {"UNDEFINED", "UNORDERED", "LESS", "EQUAL", "GREATER"}
    /\ f_listen \in {"none", "tcp", "messenger"}
    /\ mode \in {"wait", "drain", "timeout"}
    /\ f_exit_code \in {-1, 0, 1}

\* A step that is not of the flow of the script.
LEMMA FlowSame ==
  ASSUME FlowInv, UNCHANGED <<f_program, f_stack, f_ip, f_compare, f_listen, mode, f_exit_code>>
  PROVE  FlowInv'
BY DEF FlowInv

\* A position for the next statement, and what else may change with it.
LEMMA FlowTo ==
  ASSUME FlowInv, UNCHANGED <<f_program, f_stack>>,
         f_ip' \in 1 .. Len(f_program) + 1,
         f_compare' \in {"UNDEFINED", "UNORDERED", "LESS", "EQUAL", "GREATER"},
         f_listen' \in {"none", "tcp", "messenger"},
         mode' \in {"wait", "drain", "timeout"},
         f_exit_code' \in {-1, 0, 1}
  PROVE  FlowInv'
BY DEF FlowInv

\* A label is in the script.
LEMMA LabelAt ==
  ASSUME FlowInv, NEW name \in Labels(f_program)
  PROVE  get_label_position(name) \in 1 .. Len(f_program)
<1>1. DOMAIN f_program = 1 .. Len(f_program)
  BY ProgramsAssumption DEF FlowInv
<1>2. \E i \in DOMAIN f_program : f_program[i].op = "label" /\ f_program[i].name = name
  BY DEF Labels
<1>. QED BY <1>1, <1>2 DEF get_label_position

\* The statement that is executed.
LEMMA StatementOK ==
  ASSUME FlowInv, Executing
  PROVE  /\ Len(f_program) \in Nat /\ f_ip \in 1 .. Len(f_program)
         /\ f_ip + 1 \in 2 .. Len(f_program) + 1 /\ f_ip + 1 \in 1 .. Len(f_program) + 1
         /\ Stmt.op \in {"call", "goto"} => get_label_position(Stmt.label) \in 1 .. Len(f_program) + 1
         /\ Stmt.op = "if" => \A l \in DOMAIN Stmt.labels :
                                 get_label_position(Stmt.labels[l]) \in 1 .. Len(f_program) + 1
         /\ Stmt.op = "compare" => Stmt.value \in {"UNORDERED", "LESS", "EQUAL", "GREATER"}
         /\ Stmt.op = "listen" => Stmt.type \in {"tcp", "messenger"}
         /\ Stmt.op = "wait" => Stmt.mode \in {"wait", "drain", "timeout"}
         /\ Stmt.op = "verify_data" => Stmt.size \in Nat \ {0}
<1>1. Len(f_program) \in Nat /\ f_ip \in 1 .. Len(f_program) /\ DOMAIN f_program = 1 .. Len(f_program)
  BY ProgramsAssumption DEF FlowInv, Executing
<1>2. PICK n \in Nat : n = Len(f_program)
  BY <1>1
<1>3. /\ Stmt.op \in {"call", "goto"} => Stmt.label \in Labels(f_program)
      /\ Stmt.op = "if" => \A l \in DOMAIN Stmt.labels : Stmt.labels[l] \in Labels(f_program)
      /\ Stmt.op = "compare" => Stmt.value \in {"UNORDERED", "LESS", "EQUAL", "GREATER"}
      /\ Stmt.op = "listen" => Stmt.type \in {"tcp", "messenger"}
      /\ Stmt.op = "wait" => Stmt.mode \in {"wait", "drain", "timeout"}
      /\ Stmt.op = "verify_data" => Stmt.size \in Nat \ {0}
  <2>1. f_program \in Programs /\ f_ip \in DOMAIN f_program
    BY <1>1 DEF FlowInv
  <2>. QED BY <2>1, ProgramsAssumption, Zenon DEF Stmt
<1>6. \A i \in 1 .. n : i \in 1 .. n + 1
  OBVIOUS
<1>4. \A name \in Labels(f_program) : get_label_position(name) \in 1 .. n + 1
  BY <1>2, <1>6, LabelAt
<1>5. f_ip + 1 \in 2 .. n + 1 /\ f_ip + 1 \in 1 .. n + 1
  BY <1>1, <1>2
<1>. QED BY <1>1, <1>2, <1>3, <1>4, <1>5

\* Every step keeps the script in its program, and its values.
LEMMA FlowStep ==
  ASSUME FlowInv, [Next]_vars
  PROVE  FlowInv'
<1>0. ASSUME Executing
      PROVE  /\ FlowInv /\ f_ip + 1 \in 1 .. Len(f_program) + 1
             /\ f_compare \in {"UNDEFINED", "UNORDERED", "LESS", "EQUAL", "GREATER"}
             /\ f_listen \in {"none", "tcp", "messenger"} /\ mode \in {"wait", "drain", "timeout"}
             /\ f_exit_code \in {-1, 0, 1}
  BY <1>0, StatementOK DEF FlowInv
<1>1. CASE UNCHANGED vars
  BY <1>1, FlowSame DEF vars, script, conns, waiting, executor
<1>2. CASE Call
  <2>1. Executing /\ Stmt.op = "call" /\ UNCHANGED <<f_program, f_compare, f_listen, mode, f_exit_code>>
        /\ f_stack' = Append(f_stack, f_ip + 1) /\ f_ip' = get_label_position(Stmt.label)
    BY <1>2 DEF Call, Instruction, conns, waiting, executor
  <2>2. f_ip' \in 1 .. Len(f_program) + 1 /\ f_ip + 1 \in 2 .. Len(f_program) + 1
        /\ Len(f_program) \in Nat
    BY <2>1, StatementOK
  <2>3. f_stack \in Seq(Int) /\ f_ip + 1 \in Int
        /\ \A k \in DOMAIN f_stack : f_stack[k] \in 2 .. Len(f_program) + 1
    BY <2>2 DEF FlowInv
  <2>4. f_stack' \in Seq(Int)
    BY <2>1, <2>3
  <2>7. PICK n \in Nat : n = Len(f_stack) /\ DOMAIN f_stack = 1 .. n
    BY <2>3
  <2>8. /\ f_stack' \in [1 .. n + 1 -> Int] /\ f_stack'[n + 1] = f_ip + 1
        /\ \A k \in 1 .. n : f_stack'[k] = f_stack[k]
    BY <2>1, <2>3, <2>7, AppendIs DEF Lists
  <2>9. DOMAIN f_stack' = 1 .. n + 1 /\ \A k \in 1 .. n + 1 : k = n + 1 \/ k \in 1 .. n
    BY <2>8
  <2>5. \A k \in DOMAIN f_stack' :
           \/ f_stack'[k] = f_ip + 1
           \/ k \in DOMAIN f_stack /\ f_stack'[k] = f_stack[k]
    BY <2>7, <2>8, <2>9
  <2>6. \A k \in DOMAIN f_stack' : f_stack'[k] \in 2 .. Len(f_program) + 1
    BY <2>2, <2>3, <2>5
  <2>. QED BY <2>1, <2>2, <2>4, <2>6 DEF FlowInv
<1>3. CASE Return
  <2>1. Executing /\ UNCHANGED <<f_program, f_compare, f_listen, mode, f_exit_code>> /\ f_stack # <<>>
        /\ f_ip' = f_stack[Len(f_stack)] /\ f_stack' = SubSeq(f_stack, 1, Len(f_stack) - 1)
    BY <1>3 DEF Return, Instruction, conns, waiting, executor
  <2>2. Len(f_program) \in Nat
    BY <2>1, StatementOK
  <2>3. f_stack \in Seq(Int) /\ \A k \in DOMAIN f_stack : f_stack[k] \in 2 .. Len(f_program) + 1
    BY DEF FlowInv
  <2>4. PICK n \in Nat : n = Len(f_stack)
    BY <2>3
  <2>5. n # 0 /\ DOMAIN f_stack = 1 .. n /\ n \in 1 .. n
    BY <2>1, <2>3, <2>4
  <2>6. f_ip' \in 1 .. Len(f_program) + 1
    BY <2>1, <2>2, <2>3, <2>4, <2>5
  <2>7. f_stack' \in Seq(Int) /\ Len(f_stack') = n - 1 /\ \A k \in 1 .. n - 1 : f_stack'[k] = f_stack[k]
    <3>1. f_stack' = [k \in 1 .. n - 1 |-> f_stack[k]]
      BY <2>1, <2>3, <2>4, <2>5
    <3>2. \A k \in 1 .. n - 1 : f_stack[k] \in Int
      BY <2>3, <2>5
    <3>. QED BY <2>4, <2>5, <3>1, <3>2
  <2>8. \A k \in DOMAIN f_stack' : k \in DOMAIN f_stack /\ f_stack'[k] = f_stack[k]
    BY <2>5, <2>7
  <2>. QED BY <2>1, <2>3, <2>6, <2>7, <2>8 DEF FlowInv
<1>4. CASE Goto
  BY <1>0, <1>4, FlowTo, StatementOK DEF Goto, Instruction, conns, waiting, executor
<1>5. CASE If
  <2>1. Executing /\ Stmt.op = "if" /\ UNCHANGED <<f_program, f_stack, f_compare, f_listen, mode, f_exit_code>>
    BY <1>5 DEF If, Instruction, conns, waiting, executor, Throw
  <2>2. \/ f_ip' = f_ip + 1
        \/ \E l \in DOMAIN Stmt.labels : f_ip' = get_label_position(Stmt.labels[l])
    <3>1. CASE Following
      BY <3>1 DEF Following
    <3>2. CASE ~Following
      BY <1>5, <3>2, Zenon DEF If
    <3>. QED BY <3>1, <3>2
  <2>3. f_ip' \in 1 .. Len(f_program) + 1
    BY <2>1, <2>2, StatementOK
  <2>. QED BY <1>0, <2>1, <2>3, FlowTo
<1>6. CASE Nothing
  BY <1>0, <1>6, FlowTo DEF Nothing, Instruction, Following, conns, waiting, executor
<1>7. ASSUME NEW value \in {"UNDEFINED", "UNORDERED", "LESS", "EQUAL", "GREATER"},
             Executing, UNCHANGED f_program, Compare(value)
      PROVE  FlowInv'
  BY <1>0, <1>7, FlowTo DEF Compare, Following, conns, waiting, executor
<1>8. CASE CompareInstruction
  BY <1>7, <1>8, StatementOK DEF CompareInstruction, Instruction
<1>9. CASE HasType
  BY <1>7, <1>9 DEF HasType, Instruction, Truth
<1>10. CASE HasData
  BY <1>7, <1>10 DEF HasData, Instruction, Truth
<1>11. CASE HasMessage
  BY <1>7, <1>11 DEF HasMessage, Instruction, Truth
<1>12. CASE SetVariable \/ UnsetVariable
  BY <1>0, <1>12, FlowTo DEF SetVariable, UnsetVariable, Instruction, Following, conns, waiting, executor
<1>13. CASE Listen
  <2>1. Executing /\ Stmt.op = "listen" /\ UNCHANGED <<f_program, f_stack, f_compare, mode, f_exit_code>>
        /\ f_ip' = f_ip + 1 /\ (f_listen' = f_listen \/ f_listen' = Stmt.type)
    BY <1>13 DEF Listen, Instruction, Following, waiting, executor, Throw
  <2>. QED BY <1>0, <2>1, FlowTo, StatementOK
<1>14. CASE Disconnect
  BY <1>0, <1>14, FlowTo DEF Disconnect, Instruction, Following, waiting, executor
<1>15. CASE ClearData \/ ClearMessage
  BY <1>0, <1>15, FlowTo DEF ClearData, ClearMessage, Instruction, Following, conns, waiting, executor
<1>16. CASE VerifyData \/ VerifyMessage
  BY <1>0, <1>16, FlowTo DEF VerifyData, VerifyMessage, Instruction, Following, conns, waiting, executor, Throw
<1>17. CASE SendMessage \/ SendData
  BY <1>0, <1>17, FlowTo DEF SendMessage, SendData, Instruction, Following, conns, waiting, executor, Throw
<1>18. CASE Wait
  <2>1. Executing /\ Stmt.op = "wait" /\ UNCHANGED <<f_program, f_stack, f_compare, f_listen, f_exit_code>>
        /\ f_ip' = f_ip + 1 /\ (mode' = mode \/ mode' = Stmt.mode)
    BY <1>18 DEF Wait, Instruction, Following, conns, executor, Throw
  <2>. QED BY <1>0, <2>1, FlowTo, StatementOK
<1>19. CASE PollReturns
  BY <1>19, FlowSame DEF PollReturns, script, conns, Throw
<1>20. CASE Serve
  BY <1>20, FlowSame DEF Serve, script, executor
<1>21. CASE WaitEnds
  BY <1>21, FlowSame DEF WaitEnds, script, conns, waiting
<1>22. CASE Exit
  <2>1. Executing /\ UNCHANGED <<f_program, f_stack, f_compare, f_listen, mode>>
        /\ f_ip' = Len(f_program) + 1 /\ f_exit_code' \in {0, 1}
    BY <1>22 DEF Exit, Instruction, waiting
  <2>2. f_ip' \in 1 .. Len(f_program) + 1
    BY <2>1, StatementOK
  <2>. QED BY <1>0, <2>1, <2>2, FlowTo
<1>23. CASE Run
  BY <1>0, <1>23, FlowTo DEF Run, Instruction, Following, conns, waiting, Throw
<1>24. CASE Executor
  BY <1>24, FlowSame DEF Executor, Enter, StepDone, ThreadDone, Leave, script, conns, waiting
<1>25. CASE ProcessDone \/ Stop \/ Stopped
  BY <1>25, FlowSame DEF ProcessDone, Stop, Stopped, script, conns, waiting
<1>26. ASSUME NEW p \in Peers, Connect(p) \/ Close(p) \/ \E command \in {"A", "B"} : Send(p, command)
       PROVE  FlowInv'
  BY <1>26, FlowSame DEF Connect, Close, Send, script, conns, waiting, executor
<1>. QED BY <1>1, <1>2, <1>3, <1>4, <1>5, <1>6, <1>8, <1>9, <1>10, <1>11, <1>12, <1>13,
            <1>14, <1>15, <1>16, <1>17, <1>18, <1>19, <1>20, <1>21, <1>22, <1>23, <1>24,
            <1>25, <1>26 DEF Next, Script

---------------------------------------------------------------------------
(***************************************************************************)
(* The clients, and what poll() found of them.                              *)
(***************************************************************************)

\* A client.
Connection == [peer : Peers, type : {"tcp", "messenger"}, open : BOOLEAN, out : {0, 1}]

\* The clients that were accepted.
NetInv ==
    /\ f_connections \in Seq(Connection)
    /\ net \in [Peers -> {"none", "pending", "open", "closed"}]
    /\ \A k \in DOMAIN f_connections :
          /\ net[f_connections[k].peer] \in {"open", "closed"}
          /\ f_connections[k].type = "tcp" => f_connections[k].open
          /\ \A j \in DOMAIN f_connections : f_connections[j].peer = f_connections[k].peer => j = k

\* The clients stay the same ones; only a messenger is closed.
SameClients ==
    /\ f_connections' \in Seq(Connection) /\ DOMAIN f_connections' = DOMAIN f_connections
    /\ \A k \in DOMAIN f_connections :
          /\ f_connections'[k].peer = f_connections[k].peer
          /\ f_connections'[k].type = f_connections[k].type
          /\ f_connections[k].type = "tcp" => f_connections'[k].open = f_connections[k].open

\* The clients are a function of their positions.
LEMMA ConnectionsAre ==
  ASSUME NetInv
  PROVE  \E n \in Nat : /\ n = Len(f_connections) /\ DOMAIN f_connections = 1 .. n
                        /\ f_connections = [k \in 1 .. n |-> f_connections[k]]
                        /\ \A k \in 1 .. n : f_connections[k] \in Connection
BY DEF NetInv

\* A function of the same positions.
LEMMA ClientsIn ==
  ASSUME NetInv, NEW f, DOMAIN f = DOMAIN f_connections, f = [k \in DOMAIN f |-> f[k]],
         \A k \in DOMAIN f_connections : f[k] \in Connection
  PROVE  f \in Seq(Connection)
<1>1. PICK n \in Nat : DOMAIN f_connections = 1 .. n
  BY ConnectionsAre
<1>2. f \in [1 .. n -> Connection]
  BY <1>1
<1>. QED BY <1>2

\* The clients are the same ones, and the network kept them.
LEMMA NetKept ==
  ASSUME NetInv, SameClients, net' \in [Peers -> {"none", "pending", "open", "closed"}],
         \A p \in Peers : net[p] \in {"open", "closed"} => net'[p] \in {"open", "closed"}
  PROVE  NetInv'
<1>1. \A k \in DOMAIN f_connections : f_connections[k].peer \in Peers
  BY ConnectionsAre DEF Connection
<1>. QED BY <1>1 DEF NetInv, SameClients

\* No client changed.
LEMMA ClientsUnchanged == ASSUME NetInv, UNCHANGED f_connections PROVE SameClients
BY DEF NetInv, SameClients

\* send_message()
LEMMA SendMessageClients ==
  ASSUME NetInv, SendMessage
  PROVE  SameClients /\ \A k \in DOMAIN f_connections : f_connections'[k].open = f_connections[k].open
<1>1. CASE UNCHANGED f_connections
  BY <1>1, ClientsUnchanged
<1>2. ASSUME NEW rest \in 0 .. 1, f_connections # <<>>,
             f_connections' = [f_connections EXCEPT
                ![1].out = IF f_connections[1].open /\ @ = 0 THEN rest ELSE @]
      PROVE  SameClients /\ \A k \in DOMAIN f_connections : f_connections'[k].open = f_connections[k].open
  <2>1. PICK n \in Nat : /\ DOMAIN f_connections = 1 .. n /\ n = Len(f_connections)
                         /\ f_connections = [k \in 1 .. n |-> f_connections[k]]
                         /\ \A k \in 1 .. n : f_connections[k] \in Connection
    BY ConnectionsAre
  <2>2. 1 \in 1 .. n
    BY <1>2, <2>1 DEF NetInv
  <2>3. /\ DOMAIN f_connections' = 1 .. n /\ f_connections' = [k \in DOMAIN f_connections' |-> f_connections'[k]]
        /\ \A k \in 1 .. n : k # 1 => f_connections'[k] = f_connections[k]
        /\ f_connections'[1] = [f_connections[1] EXCEPT
              !.out = IF f_connections[1].open /\ f_connections[1].out = 0 THEN rest ELSE @]
    BY <1>2, <2>1, <2>2
  <2>4. /\ f_connections'[1] \in Connection
        /\ f_connections'[1].peer = f_connections[1].peer
        /\ f_connections'[1].type = f_connections[1].type
        /\ f_connections'[1].open = f_connections[1].open
    <3>1. PICK c : c = f_connections[1] /\ c \in Connection
      BY <2>1, <2>2
    <3>2. PICK x : x = IF c.open /\ c.out = 0 THEN rest ELSE c.out
      OBVIOUS
    <3>3. x \in {0, 1}
      BY <3>1, <3>2 DEF Connection
    <3>4. f_connections'[1] = [c EXCEPT !.out = x]
      BY <2>3, <3>1, <3>2
    <3>. QED BY <3>1, <3>3, <3>4 DEF Connection
  <2>5. f_connections' \in Seq(Connection)
    BY <2>1, <2>3, <2>4, ClientsIn
  <2>. QED BY <2>1, <2>3, <2>4, <2>5 DEF SameClients
<1>. QED BY <1>1, <1>2 DEF SendMessage

\* The events of a client.
LEMMA ClientClients ==
  ASSUME NetInv, NEW i \in DOMAIN f_connections, NEW events, Client(i, events)
  PROVE  /\ SameClients
         /\ \A k \in DOMAIN f_connections : k # i => f_connections'[k] = f_connections[k]
         /\ f_connections'[i].open = (/\ f_connections[i].open
                                      /\ ~("RDHUP" \in events /\ f_connections[i].type = "messenger"))
         /\ f_connections[i].out = 0 => f_connections'[i].out = 0
<1>1. PICK n \in Nat : /\ DOMAIN f_connections = 1 .. n
                       /\ f_connections = [k \in 1 .. n |-> f_connections[k]]
                       /\ \A k \in 1 .. n : f_connections[k] \in Connection
  BY ConnectionsAre
<1>2. f_connections' = [f_connections EXCEPT
                                 ![i].out = IF "OUT" \in events THEN 0 ELSE @,
                                 ![i].open = @ /\ ~("RDHUP" \in events /\ f_connections[i].type = "messenger")]
  BY DEF Client
<1>3. /\ DOMAIN f_connections' = 1 .. n /\ f_connections' = [k \in DOMAIN f_connections' |-> f_connections'[k]]
      /\ \A k \in 1 .. n : k # i => f_connections'[k] = f_connections[k]
  BY <1>1, <1>2
<1>4. f_connections'[i] = [f_connections[i] EXCEPT
                             !.out = IF "OUT" \in events THEN 0 ELSE @,
                             !.open = @ /\ ~("RDHUP" \in events /\ f_connections[i].type = "messenger")]
  BY <1>1, <1>2
<1>5. PICK c : c = f_connections[i] /\ c \in Connection
  BY <1>1
<1>6. /\ f_connections'[i].peer = c.peer /\ f_connections'[i].type = c.type
      /\ f_connections'[i].open = (c.open /\ ~("RDHUP" \in events /\ c.type = "messenger"))
      /\ c.out = 0 => f_connections'[i].out = 0
      /\ f_connections'[i] \in Connection
  BY <1>4, <1>5 DEF Connection
<1>7. f_connections' \in Seq(Connection)
  <2>1. \A k \in DOMAIN f_connections : f_connections'[k] \in Connection
    BY <1>1, <1>3, <1>6
  <2>. QED BY <1>1, <1>3, <2>1, ClientsIn
<1>8. \A k \in DOMAIN f_connections :
          /\ f_connections'[k].peer = f_connections[k].peer
          /\ f_connections'[k].type = f_connections[k].type
          /\ f_connections[k].type = "tcp" => f_connections'[k].open = f_connections[k].open
  <2>. SUFFICES ASSUME NEW k \in DOMAIN f_connections
                PROVE  /\ f_connections'[k].peer = f_connections[k].peer
                       /\ f_connections'[k].type = f_connections[k].type
                       /\ f_connections[k].type = "tcp" => f_connections'[k].open = f_connections[k].open
    OBVIOUS
  <2>1. CASE k # i
    BY <1>1, <1>3, <2>1
  <2>2. CASE k = i
    <3>1. c.type = "tcp" => f_connections'[i].open = c.open
      BY <1>5, <1>6 DEF Connection
    <3>. QED BY <1>5, <1>6, <2>2, <3>1
  <2>. QED BY <2>1, <2>2
<1>9. SameClients
  BY <1>1, <1>3, <1>7, <1>8 DEF SameClients
<1>. QED BY <1>1, <1>3, <1>5, <1>6, <1>9

\* exit() closes messengers whose peer is gone.
ExitClosed(k) == "RDHUP" \in Revents(k, "wait") /\ f_connections[k].type = "messenger"

\* exit() keeps the clients, and closes messengers whose peer is gone only.
LEMMA ExitClients ==
  ASSUME NetInv, Exit
  PROVE  /\ SameClients
         /\ \A k \in DOMAIN f_connections :
               f_connections[k].open /\ ~f_connections'[k].open => ExitClosed(k)
<1>1. PICK n \in Nat : /\ DOMAIN f_connections = 1 .. n
                       /\ f_connections = [k \in 1 .. n |-> f_connections[k]]
                       /\ \A k \in 1 .. n : f_connections[k] \in Connection
  BY ConnectionsAre
<1>2. /\ DOMAIN f_connections' = 1 .. n /\ f_connections' = [k \in DOMAIN f_connections' |-> f_connections'[k]]
      /\ \A k \in 1 .. n : \/ f_connections'[k] = f_connections[k]
                           \/ ExitClosed(k) /\ f_connections'[k] = [f_connections[k] EXCEPT !.open = FALSE]
  BY <1>1 DEF Exit, ExitClosed
<1>3. ASSUME NEW k \in 1 .. n
      PROVE  /\ f_connections'[k] \in Connection
             /\ f_connections'[k].peer = f_connections[k].peer
             /\ f_connections'[k].type = f_connections[k].type
             /\ f_connections[k].type = "tcp" => f_connections'[k].open = f_connections[k].open
             /\ f_connections[k].open /\ ~f_connections'[k].open => ExitClosed(k)
  <2>1. CASE f_connections'[k] = f_connections[k]
    BY <1>1, <2>1
  <2>2. CASE ExitClosed(k) /\ f_connections'[k] = [f_connections[k] EXCEPT !.open = FALSE]
    BY <1>1, <2>2 DEF Connection, ExitClosed
  <2>. QED BY <1>2, <2>1, <2>2
<1>4. f_connections' \in Seq(Connection)
  BY <1>1, <1>2, <1>3, ClientsIn
<1>. QED BY <1>1, <1>2, <1>3, <1>4 DEF SameClients

\* process_accept() adds a client and keeps the others.
LEMMA AcceptKeeps ==
  ASSUME FlowInv, NetInv, f_listen # "none", Accept
  PROVE  \A k \in DOMAIN f_connections : k \in DOMAIN f_connections' /\ f_connections'[k] = f_connections[k]
<1>1. f_listen \in {"tcp", "messenger"}
  BY DEF FlowInv
<1>2. PICK p \in Peers : f_connections' = Append(f_connections,
                            [peer |-> p, type |-> f_listen, open |-> TRUE, out |-> 0])
  BY DEF Accept
<1>3. PICK n \in Nat : /\ n = Len(f_connections) /\ DOMAIN f_connections = 1 .. n
  BY ConnectionsAre
<1>4. [peer |-> p, type |-> f_listen, open |-> TRUE, out |-> 0] \in Connection
  BY <1>1 DEF Connection
<1>5. /\ DOMAIN f_connections' = 1 .. n + 1
      /\ \A k \in 1 .. n : k \in 1 .. n + 1 /\ f_connections'[k] = f_connections[k]
  <2>1. f_connections \in Lists(Connection)
    BY DEF NetInv, Lists
  <2>. QED BY <1>2, <1>3, <1>4, <2>1, AppendIs
<1>. QED BY <1>3, <1>5

\* Neither the clients nor the network changed.
LEMMA NetSame ==
  ASSUME NetInv, UNCHANGED <<f_connections, net>>
  PROVE  NetInv'
BY DEF NetInv

\* process_accept()
LEMMA AcceptNet ==
  ASSUME NetInv, f_listen \in {"tcp", "messenger"}, NEW p \in Peers, net[p] = "pending",
         net' = [net EXCEPT ![p] = "open"],
         f_connections' = Append(f_connections, [peer |-> p, type |-> f_listen, open |-> TRUE, out |-> 0])
  PROVE  NetInv'
<1>1. PICK n \in Nat : /\ n = Len(f_connections) /\ DOMAIN f_connections = 1 .. n
                       /\ f_connections = [k \in 1 .. n |-> f_connections[k]]
                       /\ \A k \in 1 .. n : f_connections[k] \in Connection
  BY ConnectionsAre
<1>2. PICK c : c = [peer |-> p, type |-> f_listen, open |-> TRUE, out |-> 0]
  OBVIOUS
<1>3. c \in Connection /\ c.peer = p /\ c.open
  BY <1>2 DEF Connection
<1>4. f_connections' \in Seq(Connection) /\ DOMAIN f_connections' = 1 .. n + 1
      /\ f_connections'[n + 1] = c /\ \A k \in 1 .. n : f_connections'[k] = f_connections[k]
  <2>1. f_connections \in Seq(Connection)
    BY DEF NetInv
  <2>. QED BY <1>1, <1>2, <1>3, <2>1, AppendIs DEF Lists
<1>5. net' \in [Peers -> {"none", "pending", "open", "closed"}] /\ net'[p] = "open"
      /\ \A q \in Peers : q # p => net'[q] = net[q]
  BY DEF NetInv
<1>6. \A k \in 1 .. n : f_connections[k].peer # p /\ f_connections[k].peer \in Peers
  BY <1>1 DEF NetInv, Connection
<1>7. ASSUME NEW k \in 1 .. n + 1
      PROVE  /\ net'[f_connections'[k].peer] \in {"open", "closed"}
             /\ f_connections'[k].type = "tcp" => f_connections'[k].open
             /\ \A j \in 1 .. n + 1 : f_connections'[j].peer = f_connections'[k].peer => j = k
  <2>0. \A j \in 1 .. n + 1 : j = n + 1 \/ j \in 1 .. n
    OBVIOUS
  <2>1. CASE k = n + 1
    BY <1>3, <1>4, <1>5, <1>6, <2>0, <2>1
  <2>2. CASE k \in 1 .. n
    <3>1. /\ net[f_connections[k].peer] \in {"open", "closed"}
          /\ f_connections[k].type = "tcp" => f_connections[k].open
          /\ \A j \in 1 .. n : f_connections[j].peer = f_connections[k].peer => j = k
      BY <1>1, <2>2 DEF NetInv
    <3>. QED BY <1>3, <1>4, <1>5, <1>6, <2>0, <2>2, <3>1
  <2>. QED BY <2>0, <2>1, <2>2
<1>. QED BY <1>4, <1>5, <1>7 DEF NetInv

\* The peer of a client other than k hung up.
OtherHungUp(k) == \E j \in DOMAIN f_connections \ {k} : net[f_connections[j].peer] = "closed"

\* What wait() that drains finds for a client it did not poll, which has
\* nothing to write unless it is closed, is what it found for another one.
Misplaced(k) ==
    /\ mode = "drain"
    /\ f_connections[k].open => f_connections[k].out = 0
    /\ OtherHungUp(k)

\* What poll() found; it is called with at least one connection.
ServeInv ==
    /\ runner = "poll" => Polled(mode) # {}
    /\ runner # "serve" => serving = {}
    /\ \A e \in serving :
          /\ e[1] \in {0} \cup DOMAIN f_connections
          /\ e[1] = 0 => f_listen # "none"
          /\ e[1] # 0 /\ "RDHUP" \in e[2] =>
                net[f_connections[e[1]].peer] = "closed" \/ Misplaced(e[1])

\* Which steps change the clients.
LEMMA ClientSteps ==
  ASSUME [Next]_vars
  PROVE  \/ UNCHANGED f_connections
         \/ SendMessage \/ Exit \/ Serve
BY DEF Next, Script, Executor, vars, conns,
       Call, Return, Goto, Nothing, If, CompareInstruction, HasType, HasData, HasMessage, Compare,
       SetVariable, UnsetVariable, Listen, Disconnect, ClearData, ClearMessage, VerifyData, VerifyMessage,
       SendData, Wait, PollReturns, WaitEnds, Run, Enter, StepDone, ThreadDone, Leave,
       ProcessDone, Stop, Stopped, Connect, Send, Close

\* Which steps change what the network does.
LEMMA NetSteps ==
  ASSUME [Next]_vars
  PROVE  \/ UNCHANGED net
         \/ Disconnect \/ Serve \/ \E p \in Peers : Connect(p) \/ Close(p)
BY DEF Next, Script, Executor, vars, peers,
       Call, Return, Goto, Nothing, If, CompareInstruction, HasType, HasData, HasMessage, Compare,
       SetVariable, UnsetVariable, Listen, ClearData, ClearMessage, VerifyData, VerifyMessage,
       SendMessage, SendData, Wait, PollReturns, WaitEnds, Exit, Run, Enter, StepDone, ThreadDone, Leave,
       ProcessDone, Stop, Stopped, Send

\* Every step keeps one open or closed peer for each client.
LEMMA NetStep ==
  ASSUME FlowInv, NetInv, ServeInv, [Next]_vars
  PROVE  NetInv'
<1>1. CASE Serve
  <2>1. PICK e \in serving : \/ e[1] = 0 /\ Accept
                             \/ e[1] = 0 /\ UNCHANGED <<data, f_connections, net, rx>>
                             \/ e[1] # 0 /\ Client(e[1], e[2])
    BY <1>1 DEF Serve
  <2>2. CASE e[1] = 0 /\ Accept
    <3>1. f_listen \in {"tcp", "messenger"}
      BY <2>2 DEF ServeInv, FlowInv
    <3>. QED BY <2>2, <3>1, AcceptNet DEF Accept
  <2>3. CASE UNCHANGED <<data, f_connections, net, rx>>
    BY <2>3, NetSame
  <2>4. CASE e[1] # 0 /\ Client(e[1], e[2])
    <3>1. e[1] \in DOMAIN f_connections
      BY <2>4 DEF ServeInv
    <3>2. SameClients
      BY <2>4, <3>1, ClientClients
    <3>3. UNCHANGED net
      BY <2>4 DEF Client
    <3>. QED BY <3>2, <3>3, NetKept DEF NetInv
  <2>. QED BY <2>1, <2>2, <2>3, <2>4
<1>2. CASE ~Serve
  <2>1. SameClients
    BY <1>2, ClientSteps, ClientsUnchanged, SendMessageClients, ExitClients
  <2>2. /\ net' \in [Peers -> {"none", "pending", "open", "closed"}]
        /\ \A p \in Peers : net[p] \in {"open", "closed"} => net'[p] \in {"open", "closed"}
    <3>1. CASE UNCHANGED net
      BY <3>1 DEF NetInv
    <3>2. CASE Disconnect
      BY <3>2 DEF NetInv, Disconnect
    <3>3. ASSUME NEW p \in Peers, Connect(p) \/ Close(p)
          PROVE  /\ net' \in [Peers -> {"none", "pending", "open", "closed"}]
                 /\ \A q \in Peers : net[q] \in {"open", "closed"} => net'[q] \in {"open", "closed"}
      BY <3>3 DEF NetInv, Connect, Close
    <3>. QED BY <1>2, <3>1, <3>2, <3>3, NetSteps
  <2>. QED BY <2>1, <2>2, NetKept
<1>. QED BY <1>1, <1>2

\* The first of the clients in a set.
LEMMA FirstIs ==
  ASSUME NEW S \in SUBSET Nat, S # {}, 0 \notin S
  PROVE  FirstOf(S) \in S
<1>1. PICK i \in S : \A j \in S : i <= j
  BY Least
<1>2. \A j \in S \ {i} : Before(i, j)
  BY <1>1 DEF Before
<1>. QED BY <1>2 DEF FirstOf

\* Where the events of a connection are: with itself, or, if wait() drains and
\* did not poll it, with a client that has something to write.
LEMMA PositionIs ==
  ASSUME NetInv, NEW i \in All, NEW m, Polled(m) # {}
  PROVE  \/ Position(i, m) = i
         \/ /\ m = "drain" /\ ~IsWriter(i)
            /\ Position(i, m) \in DOMAIN f_connections /\ IsWriter(Position(i, m))
<1>1. CASE i \in Polled(m)
  BY <1>1 DEF Position
<1>2. CASE i \notin Polled(m)
  <2>1. m = "drain" /\ ~IsWriter(i) /\ Position(i, m) = FirstOf(Polled(m))
    BY <1>2 DEF Position, Polled
  <2>2. PICK n \in Nat : DOMAIN f_connections = 1 .. n
    BY ConnectionsAre
  <2>3. \A k \in Polled(m) : k \in 1 .. n /\ IsWriter(k)
    BY <2>1, <2>2 DEF Polled, All, IsWriter
  <2>4. Polled(m) \in SUBSET Nat /\ 0 \notin Polled(m)
    BY <2>3
  <2>5. FirstOf(Polled(m)) \in Polled(m)
    BY <2>4, FirstIs
  <2>. QED BY <2>1, <2>2, <2>3, <2>5
<1>. QED BY <1>1, <1>2

\* poll() reports RDHUP of a client that closed its end only.
LEMMA HungUp ==
  ASSUME NEW k, NEW m, k # 0, "RDHUP" \in Revents(k, m)
  PROVE  net[f_connections[k].peer] = "closed"
BY DEF Revents

\* The clients and those that hung up stay.
LEMMA PeersKept ==
  ASSUME FlowInv, NetInv, ServeInv, [Next]_vars
  PROVE  /\ \A k \in DOMAIN f_connections :
               k \in DOMAIN f_connections' /\ f_connections'[k].peer = f_connections[k].peer
         /\ \A k \in DOMAIN f_connections : net[f_connections[k].peer] = "closed" =>
               net'[f_connections[k].peer] = "closed"
<1>0. \A k \in DOMAIN f_connections : f_connections[k].peer \in Peers
  BY ConnectionsAre DEF Connection
<1>1. CASE Serve
  <2>1. PICK e \in serving : \/ e[1] = 0 /\ Accept
                             \/ e[1] = 0 /\ UNCHANGED <<data, f_connections, net, rx>>
                             \/ e[1] # 0 /\ Client(e[1], e[2])
    BY <1>1 DEF Serve
  <2>2. CASE e[1] = 0 /\ Accept
    <3>1. PICK p \in Peers : net[p] = "pending" /\ net' = [net EXCEPT ![p] = "open"]
      BY <2>2 DEF Accept
    <3>. QED BY <1>0, <2>2, <3>1, AcceptKeeps DEF NetInv, ServeInv
  <2>3. CASE UNCHANGED <<data, f_connections, net, rx>>
    BY <2>3
  <2>4. CASE e[1] # 0 /\ Client(e[1], e[2])
    <3>1. e[1] \in DOMAIN f_connections
      BY <2>4 DEF ServeInv
    <3>2. SameClients /\ UNCHANGED net
      BY <2>4, <3>1, ClientClients DEF Client
    <3>. QED BY <3>2 DEF SameClients
  <2>. QED BY <2>1, <2>2, <2>3, <2>4
<1>2. CASE ~Serve
  <2>1. SameClients
    BY <1>2, ClientSteps, ClientsUnchanged, SendMessageClients, ExitClients
  <2>2. \A p \in Peers : net[p] = "closed" => net'[p] = "closed"
    <3>1. CASE UNCHANGED net
      BY <3>1
    <3>2. CASE Disconnect
      BY <3>2 DEF NetInv, Disconnect
    <3>3. ASSUME NEW p \in Peers, Connect(p) \/ Close(p)
          PROVE  \A q \in Peers : net[q] = "closed" => net'[q] = "closed"
      BY <3>3 DEF NetInv, Connect, Close
    <3>. QED BY <1>2, <3>1, <3>2, <3>3, NetSteps
  <2>. QED BY <1>0, <2>1, <2>2 DEF SameClients
<1>. QED BY <1>1, <1>2

\* While the events are served, nothing more is written to a client, and none
\* is opened again.
LEMMA OutKept ==
  ASSUME FlowInv, NetInv, ServeInv, [Next]_vars, runner = "serve", NEW k \in DOMAIN f_connections
  PROVE  /\ f_connections'[k].open => f_connections[k].open
         /\ f_connections[k].out = 0 => f_connections'[k].out = 0
<1>1. CASE Serve
  <2>1. PICK e \in serving : \/ e[1] = 0 /\ Accept
                             \/ e[1] = 0 /\ UNCHANGED <<data, f_connections, net, rx>>
                             \/ e[1] # 0 /\ Client(e[1], e[2])
    BY <1>1 DEF Serve
  <2>2. CASE e[1] = 0 /\ Accept
    BY <2>2, AcceptKeeps DEF ServeInv
  <2>3. CASE UNCHANGED <<data, f_connections, net, rx>>
    BY <2>3
  <2>4. CASE e[1] # 0 /\ Client(e[1], e[2])
    <3>1. e[1] \in DOMAIN f_connections
      BY <2>4 DEF ServeInv
    <3>. QED BY <2>4, <3>1, ClientClients
  <2>. QED BY <2>1, <2>2, <2>3, <2>4
<1>2. CASE ~Serve
  <2>1. ~SendMessage /\ ~Exit
    BY DEF SendMessage, Exit, Instruction, Executing
  <2>. QED BY <1>2, <2>1, ClientSteps
<1>. QED BY <1>1, <1>2

\* What a client that was not polled got stays with it.
LEMMA MisplacedKept ==
  ASSUME FlowInv, NetInv, ServeInv, [Next]_vars, runner = "serve", UNCHANGED mode,
         NEW k \in DOMAIN f_connections, Misplaced(k)
  PROVE  Misplaced(k)'
<1>1. f_connections'[k].open => f_connections'[k].out = 0
  BY OutKept DEF Misplaced
<1>2. PICK j \in DOMAIN f_connections \ {k} : net[f_connections[j].peer] = "closed"
  BY DEF Misplaced, OtherHungUp
<1>3. j \in DOMAIN f_connections' \ {k} /\ net'[f_connections'[j].peer] = "closed"
  BY <1>2, PeersKept
<1>. QED BY <1>1, <1>3 DEF Misplaced, OtherHungUp

\* poll() is called by wait(), and while it lasts the script does nothing.
LEMMA PollSteps ==
  ASSUME [Next]_vars, runner' = "poll", runner = "poll" => Polled(mode) # {}
  PROVE  Polled(mode)' # {}
<1>. USE DEF Instruction, Executing, waiting
<1>1. CASE UNCHANGED vars
  BY <1>1 DEF vars, conns, executor, Polled, All, IsWriter
<1>2. CASE Call \/ Return \/ Goto \/ Nothing
  BY <1>2 DEF Call, Return, Goto, Nothing, executor
<1>3. CASE If
  BY <1>3 DEF If, executor, Throw
<1>4. CASE CompareInstruction \/ HasType \/ HasData \/ HasMessage
  BY <1>4 DEF CompareInstruction, HasType, HasData, HasMessage, Compare, executor
<1>5. CASE SetVariable \/ UnsetVariable
  BY <1>5 DEF SetVariable, UnsetVariable, executor
<1>6. CASE Listen \/ Disconnect
  BY <1>6 DEF Listen, Disconnect, executor, Throw
<1>7. CASE ClearData \/ ClearMessage
  BY <1>7 DEF ClearData, ClearMessage, executor
<1>8. CASE VerifyData \/ VerifyMessage
  BY <1>8 DEF VerifyData, VerifyMessage, executor, Throw
<1>9. CASE SendMessage \/ SendData
  BY <1>9 DEF SendMessage, SendData, executor, Throw
<1>10. CASE Wait
  <2>1. UNCHANGED conns /\ mode' = Stmt.mode /\ Polled(Stmt.mode) # {}
    BY <1>10 DEF Wait, executor, Throw
  <2>. QED BY <2>1 DEF conns, Polled, All, IsWriter
<1>11. CASE PollReturns \/ Serve
  BY <1>11 DEF PollReturns, Serve, executor, Throw
<1>12. CASE WaitEnds
  BY <1>12 DEF WaitEnds, conns, Polled, All, IsWriter
<1>13. CASE Exit \/ Run
  BY <1>13 DEF Exit, Run, Throw
<1>14. CASE Executor
  BY <1>14 DEF Executor, Enter, StepDone, ThreadDone, Leave
<1>15. CASE ProcessDone \/ Stop \/ Stopped
  BY <1>15 DEF ProcessDone, Stop, Stopped, conns, Polled, All, IsWriter
<1>16. ASSUME NEW p \in Peers, Connect(p) \/ Close(p) \/ \E command \in {"A", "B"} : Send(p, command)
       PROVE  Polled(mode)' # {}
  BY <1>16 DEF Connect, Close, Send, conns, executor, Polled, All, IsWriter
<1>. QED BY <1>1, <1>2, <1>3, <1>4, <1>5, <1>6, <1>7, <1>8, <1>9, <1>10, <1>11, <1>12, <1>13,
            <1>14, <1>15, <1>16 DEF Next, Script

\* What serving, and what it depends on, may do in the other steps.
LEMMA ServingSteps ==
  ASSUME [Next]_vars, ~Serve, ~PollReturns
  PROVE  /\ UNCHANGED serving
         /\ \/ runner \notin {"serve", "poll"} /\ runner' # "serve"
            \/ /\ UNCHANGED <<mode, f_listen>>
               /\ \/ UNCHANGED runner
                  \/ runner = "serve" /\ serving = {}
<1>. USE DEF Instruction, Executing, waiting
<1>1. CASE UNCHANGED vars
  BY <1>1 DEF vars, conns, executor
<1>2. CASE Call \/ Return \/ Goto \/ Nothing
  BY <1>2 DEF Call, Return, Goto, Nothing, executor
<1>3. CASE If
  BY <1>3 DEF If, executor, Throw
<1>4. CASE CompareInstruction \/ HasType \/ HasData \/ HasMessage
  BY <1>4 DEF CompareInstruction, HasType, HasData, HasMessage, Compare, executor
<1>5. CASE SetVariable \/ UnsetVariable
  BY <1>5 DEF SetVariable, UnsetVariable, executor
<1>6. CASE Listen \/ Disconnect
  BY <1>6 DEF Listen, Disconnect, executor, Throw
<1>7. CASE ClearData \/ ClearMessage
  BY <1>7 DEF ClearData, ClearMessage, executor
<1>8. CASE VerifyData \/ VerifyMessage
  BY <1>8 DEF VerifyData, VerifyMessage, executor, Throw
<1>9. CASE SendMessage \/ SendData
  BY <1>9 DEF SendMessage, SendData, executor, Throw
<1>10. CASE Wait
  BY <1>10 DEF Wait, executor, Throw
<1>11. CASE WaitEnds
  BY <1>11 DEF WaitEnds, conns
<1>12. CASE Exit
  BY <1>12 DEF Exit
<1>13. CASE Run
  BY <1>13 DEF Run, Throw
<1>14. CASE Executor
  BY <1>14 DEF Executor, Enter, StepDone, ThreadDone, Leave, conns
<1>15. CASE ProcessDone \/ Stop \/ Stopped
  BY <1>15 DEF ProcessDone, Stop, Stopped, conns
<1>16. ASSUME NEW p \in Peers, Connect(p) \/ Close(p) \/ \E command \in {"A", "B"} : Send(p, command)
       PROVE  UNCHANGED <<serving, mode, f_listen, runner>>
  BY <1>16 DEF Connect, Close, Send, conns, executor
<1>. QED BY <1>1, <1>2, <1>3, <1>4, <1>5, <1>6, <1>7, <1>8, <1>9, <1>10, <1>11, <1>12, <1>13,
            <1>14, <1>15, <1>16 DEF Next, Script

\* poll() finds a hang up of the client itself, or of another one when the
\* client was not polled.
LEMMA PollMisplaces ==
  ASSUME NetInv, Polled(mode) # {}, NEW i \in DOMAIN f_connections, i # 0,
         "RDHUP" \in Revents(Position(i, mode), mode)
  PROVE  net[f_connections[i].peer] = "closed" \/ Misplaced(i)
<1>1. i \in All
  BY DEF All
<1>2. CASE Position(i, mode) = i
  BY <1>2, HungUp
<1>3. CASE /\ mode = "drain" /\ ~IsWriter(i)
           /\ Position(i, mode) \in DOMAIN f_connections /\ IsWriter(Position(i, mode))
  <2>1. PICK j \in DOMAIN f_connections : j = Position(i, mode)
    BY <1>3
  <2>2. j # i /\ j # 0 /\ net[f_connections[j].peer] = "closed"
    BY <1>3, <2>1, HungUp DEF IsWriter
  <2>3. f_connections[i].open => f_connections[i].out = 0
    <3>1. f_connections[i].out \in {0, 1}
      BY ConnectionsAre DEF Connection
    <3>. QED BY <1>3, <3>1 DEF IsWriter
  <2>. QED BY <1>3, <2>2, <2>3 DEF Misplaced, OtherHungUp
<1>. QED BY <1>1, <1>2, <1>3, PositionIs

\* The events that are still to be served stay true of the clients.
LEMMA HangUpKept ==
  ASSUME FlowInv, NetInv, ServeInv, [Next]_vars, runner = "serve",
         UNCHANGED <<runner, mode, f_listen>>, serving' \subseteq serving
  PROVE  ServeInv'
<1>1. ASSUME NEW e \in serving'
      PROVE  /\ e[1] \in {0} \cup DOMAIN f_connections'
             /\ e[1] = 0 => f_listen' # "none"
             /\ e[1] # 0 /\ "RDHUP" \in e[2] =>
                   net'[f_connections'[e[1]].peer] = "closed" \/ Misplaced(e[1])'
  <2>1. /\ e[1] \in {0} \cup DOMAIN f_connections
        /\ e[1] = 0 => f_listen # "none"
        /\ e[1] # 0 /\ "RDHUP" \in e[2] =>
              net[f_connections[e[1]].peer] = "closed" \/ Misplaced(e[1])
    BY DEF ServeInv
  <2>. QED BY <2>1, PeersKept, MisplacedKept
<1>. QED BY <1>1 DEF ServeInv

\* Every step keeps the events poll() found true of the clients.
LEMMA ServeStep ==
  ASSUME FlowInv, NetInv, ServeInv, [Next]_vars
  PROVE  ServeInv'
<1>0. runner' = "poll" => Polled(mode)' # {}
  BY PollSteps DEF ServeInv
<1>1. CASE PollReturns
  <2>1. runner = "poll" /\ serving = {} /\ UNCHANGED <<mode, f_listen, f_connections, net>>
    BY <1>1 DEF PollReturns, ServeInv, conns, peers
  <2>2. CASE UNCHANGED serving
    BY <1>0, <2>1, <2>2 DEF ServeInv
  <2>3. CASE ~UNCHANGED serving
    <3>1. runner' = "serve"
          /\ \A e \in serving' : \E i \in All : e = <<i, Revents(Position(i, mode), mode)>>
      BY <1>1, <2>3, Zenon DEF PollReturns
    <3>2. ASSUME NEW e \in serving'
          PROVE  /\ e[1] \in {0} \cup DOMAIN f_connections
                 /\ e[1] = 0 => f_listen # "none"
                 /\ e[1] # 0 /\ "RDHUP" \in e[2] =>
                       net[f_connections[e[1]].peer] = "closed" \/ Misplaced(e[1])
      <4>1. PICK i \in All : e[1] = i /\ e[2] = Revents(Position(i, mode), mode)
        BY <3>1
      <4>2. i \in {0} \cup DOMAIN f_connections /\ (i = 0 => f_listen # "none")
        <5>1. 0 \notin DOMAIN f_connections
          BY ConnectionsAre
        <5>. QED BY <5>1 DEF All
      <4>3. ASSUME i # 0, "RDHUP" \in Revents(Position(i, mode), mode)
            PROVE  net[f_connections[i].peer] = "closed" \/ Misplaced(i)
        BY <2>1, <4>2, <4>3, PollMisplaces DEF ServeInv
      <4>. QED BY <4>1, <4>2, <4>3
    <3>3. \A k : Misplaced(k) => Misplaced(k)'
      BY <2>1 DEF Misplaced, OtherHungUp
    <3>. QED BY <2>1, <3>1, <3>2, <3>3 DEF ServeInv
  <2>. QED BY <2>2, <2>3
<1>2. CASE Serve
  <2>1. runner = "serve" /\ UNCHANGED <<runner, mode, f_listen>> /\ serving' \subseteq serving
    BY <1>2 DEF Serve, executor
  <2>. QED BY <1>0, <2>1, HangUpKept
<1>3. CASE ~PollReturns /\ ~Serve
  <2>1. CASE serving' = {}
    BY <1>0, <2>1 DEF ServeInv
  <2>2. CASE serving' # {}
    <3>1. UNCHANGED <<serving, mode, f_listen, runner>> /\ runner = "serve"
      BY <1>3, <2>2, ServingSteps DEF ServeInv
    <3>. QED BY <1>0, <3>1, HangUpKept
  <2>. QED BY <2>1, <2>2
<1>. QED BY <1>1, <1>2, <1>3

\* The inductive invariant, without the data.
ReporterInv == ThreadInv /\ FlowInv /\ NetInv /\ ServeInv

\* The reporter starts so.
LEMMA ReporterInit == ASSUME Init PROVE ThreadInv /\ FlowInv /\ NetInv /\ ServeInv
<1>1. ThreadInv
  <2>1. ~f_in_thread /\ f_in_thread \in BOOLEAN
    BY DEF Init
  <2>2. runner = "start" /\ main = "start" /\ done = 0
    BY DEF Init
  <2>3. 0 \in 0 .. 1 /\ 0 # 1
    OBVIOUS
  <2>. QED BY <2>1, <2>2, <2>3 DEF ThreadInv
<1>2. FlowInv
  <2>1. PICK n \in Nat : n = Len(f_program)
    BY ProgramsAssumption DEF Init
  <2>2. f_stack \in Seq(Int) /\ DOMAIN f_stack = {}
    BY DEF Init
  <2>3. f_ip \in 1 .. n + 1
    BY DEF Init
  <2>. QED BY <2>1, <2>2, <2>3 DEF Init, FlowInv
<1>3. NetInv
  <2>1. f_connections \in Seq(Connection) /\ DOMAIN f_connections = {}
    BY DEF Init
  <2>2. net \in [Peers -> {"none", "pending", "open", "closed"}]
    BY DEF Init
  <2>. QED BY <2>1, <2>2 DEF NetInv
<1>4. ServeInv
  BY DEF Init, ServeInv
<1>. QED BY <1>1, <1>2, <1>3, <1>4

\* Only the client that hung up is closed, or one that was not polled.
LEMMA HupStep ==
  ASSUME FlowInv, NetInv, ServeInv, [Next]_vars,
         NEW k \in DOMAIN f_connections, f_connections[k].open, ~f_connections'[k].open
  PROVE  \/ net[f_connections[k].peer] = "closed"
         \/ mode = "drain" /\ runner = "serve" /\ f_connections[k].out = 0 /\ OtherHungUp(k)
<1>0. k # 0
  BY ConnectionsAre
<1>1. ~UNCHANGED f_connections /\ ~SendMessage
  BY SendMessageClients
<1>2. CASE Exit
  <2>1. ExitClosed(k)
    BY <1>2, ExitClients
  <2>. QED BY <1>0, <2>1, HungUp DEF ExitClosed
<1>3. CASE Serve
  <2>1. PICK e \in serving : \/ e[1] = 0 /\ Accept
                             \/ e[1] = 0 /\ UNCHANGED <<data, f_connections, net, rx>>
                             \/ e[1] # 0 /\ Client(e[1], e[2])
    BY <1>3 DEF Serve
  <2>2. CASE e[1] = 0 /\ Accept
    BY <2>2, AcceptKeeps DEF ServeInv
  <2>3. CASE UNCHANGED <<data, f_connections, net, rx>>
    BY <1>1, <2>3
  <2>4. CASE e[1] # 0 /\ Client(e[1], e[2])
    <3>1. e[1] \in DOMAIN f_connections
      BY <2>4 DEF ServeInv
    <3>2. /\ k # e[1] => f_connections'[k] = f_connections[k]
          /\ f_connections'[e[1]].open = (/\ f_connections[e[1]].open
                                          /\ ~("RDHUP" \in e[2] /\ f_connections[e[1]].type = "messenger"))
      BY <2>4, <3>1, ClientClients
    <3>3. k = e[1] /\ "RDHUP" \in e[2]
      BY <3>2
    <3>4. runner = "serve"
      BY <1>3 DEF Serve
    <3>. QED BY <2>4, <3>3, <3>4 DEF ServeInv, Misplaced
  <2>. QED BY <2>1, <2>2, <2>3, <2>4
<1>. QED BY <1>1, <1>2, <1>3, ClientSteps

\* The threads are where they can be, the script is in its program, each
\* client is one peer, and a hang up that is being served is one of the client
\* it is served for (or of another one, if wait() drains), whatever the script and the service do
\* (executor.cpp:134-151, 1430-1521, basic_instructions.cpp:2748-2970).
THEOREM ReporterInvariant == Spec => []ReporterInv
<1>1. Init => ReporterInv
  BY ReporterInit DEF ReporterInv
<1>2. ReporterInv /\ [Next]_vars => ReporterInv'
  BY ThreadStep, FlowStep, NetStep, ServeStep DEF ReporterInv
<1>. QED BY <1>1, <1>2, PTL DEF Spec

\* A client is closed only after it hung up itself: the events ppoll() found
\* are those of the right client, for any number of clients; in a wait() that
\* drains one that has nothing to write may be closed for another one that
\* hung up (basic_instructions.cpp:2830-2950).
THEOREM HangUps == Spec => HupOnlyOwn
<1>1. ReporterInv /\ [Next]_vars => [\A k \in DOMAIN f_connections :
         f_connections[k].open /\ ~f_connections'[k].open
         => \/ net[f_connections[k].peer] = "closed"
            \/ /\ mode = "drain" /\ runner = "serve" /\ f_connections[k].out = 0
               /\ \E j \in DOMAIN f_connections \ {k} :
                    net[f_connections[j].peer] = "closed"]_vars
  BY HupStep DEF ReporterInv, OtherHungUp
<1>. QED BY <1>1, ReporterInvariant, PTL DEF Spec, HupOnlyOwn

---------------------------------------------------------------------------
(***************************************************************************)
(* One peer: what it sent, and what the script has of it.                   *)
(***************************************************************************)

\* Nothing of a peer in both parts of a list, and in the list.
LEMMA OfCat ==
  ASSUME NEW p, NEW a \in Lists(Item), NEW b \in Lists(Item)
  PROVE  Of(p, Cat(a, b)) = {} <=> Of(p, a) = {} /\ Of(p, b) = {}
<1>1. PICK s : s = Cat(a, b) /\ s \in Lists(Item) /\ IsCat(s, a, b)
  BY Joined
<1>2. PICK l \in Nat, m \in Nat : /\ l = Len(a) /\ m = Len(b) /\ Len(s) = l + m
                                  /\ \A i \in 1 .. l : s[i] = a[i]
                                  /\ \A i \in 1 .. m : s[l + i] = b[i]
  BY <1>1 DEF IsCat
<1>3. /\ Of(p, s) = {i \in 1 .. l + m : s[i].peer = p}
      /\ Of(p, a) = {i \in 1 .. l : a[i].peer = p}
      /\ Of(p, b) = {i \in 1 .. m : b[i].peer = p}
  BY <1>1, <1>2, OfIs
<1>4. \A i \in Of(p, a) : i \in Of(p, s)
  BY <1>2, <1>3
<1>5. \A i \in Of(p, b) : l + i \in Of(p, s)
  BY <1>2, <1>3
<1>6. ASSUME NEW i \in Of(p, s) PROVE i \in Of(p, a) \/ i - l \in Of(p, b)
  <2>1. i \in 1 .. l + m /\ s[i].peer = p
    BY <1>3
  <2>2. CASE i <= l
    <3>1. i \in 1 .. l
      BY <2>1, <2>2
    <3>. QED BY <1>2, <1>3, <2>1, <3>1
  <2>3. CASE ~(i <= l)
    <3>1. i - l \in 1 .. m /\ l + (i - l) = i
      BY <2>1, <2>3
    <3>2. s[i] = b[i - l]
      BY <1>2, <3>1
    <3>. QED BY <1>3, <2>1, <3>1, <3>2
  <2>. QED BY <2>2, <2>3
<1>. QED BY <1>1, <1>4, <1>5, <1>6

\* Nothing is of a peer in an empty list.
LEMMA OfEmpty == ASSUME NEW p PROVE Of(p, <<>>) = {} /\ <<>> \in Lists(Item)
BY Empty DEF Of

\* What a peer sent and what the script has of it: m when its connection is a
\* messenger, c when it was accepted and h when the script closed it, the bytes
\* and the messages received, what is on the way and how much it sent.
LineOK(p, m, c, h, bytes, msgs, r, n) ==
    /\ bytes \in Lists(Item) /\ msgs \in Lists(Item)
    /\ r \in Lists(Item) /\ n \in Nat
    /\ \A q \in Peers : q # p => Of(q, r) = {}
    /\ m \/ ~c => Of(p, bytes) = {}
    /\ m \/ Of(p, msgs) = {}
    /\ h => m
    /\ m => c
    /\ Consecutive(p, Cat(IF m THEN msgs ELSE bytes, r))
    /\ h \/ Ends(p, Cat(IF m THEN msgs ELSE bytes, r), n)
    /\ m \/ Numbers(p, Cat(IF m THEN msgs ELSE bytes, r)) = 1 .. n

\* Nothing was sent yet, or all is lost.
LEMMA LineNew ==
  ASSUME NEW p, NEW bytes \in Lists(Item), NEW msgs \in Lists(Item), Of(p, bytes) = {}, Of(p, msgs) = {}
  PROVE  LineOK(p, FALSE, FALSE, FALSE, bytes, msgs, <<>>, 0)
<1>1. Cat(bytes, <<>>) = bytes
  BY CatEmpty
<1>2. Consecutive(p, bytes) /\ (\A n : Ends(p, bytes, n)) /\ Numbers(p, bytes) = {}
  BY NothingIs
<1>3. 1 .. 0 = {}
  OBVIOUS
<1>4. \A q \in Peers : Of(q, <<>>) = {} /\ <<>> \in Lists(Item)
  BY OfEmpty
<1>5. <<>> \in Lists(Item)
  BY OfEmpty
<1>. QED BY <1>1, <1>2, <1>3, <1>4, <1>5 DEF LineOK

\* accept()
LEMMA LineAccept ==
  ASSUME NEW p, NEW bytes, NEW msgs, NEW r, NEW n, NEW m \in BOOLEAN,
         LineOK(p, FALSE, FALSE, FALSE, bytes, msgs, r, n)
  PROVE  LineOK(p, m, TRUE, FALSE, bytes, msgs, r, n)
<1>0. bytes \in Lists(Item) /\ msgs \in Lists(Item) /\ r \in Lists(Item) /\ <<>> \in Lists(Item)
  BY OfEmpty DEF LineOK
<1>1. Of(p, bytes) = {} /\ Of(p, msgs) = {}
  BY DEF LineOK
<1>2. Cat(<<>>, r) = r /\ Cat(<<>>, bytes) = bytes /\ Cat(<<>>, msgs) = msgs
  BY <1>0, CatEmpty
<1>3. ASSUME NEW s \in Lists(Item), Of(p, s) = {}, Cat(<<>>, s) = s
      PROVE  /\ Consecutive(p, r) <=> Consecutive(p, Cat(s, r))
             /\ \A k : Ends(p, r, k) <=> Ends(p, Cat(s, r), k)
             /\ Numbers(p, r) = Numbers(p, Cat(s, r))
  <2>1. PICK e : e = <<>> /\ e \in Lists(Item)
    BY <1>0
  <2>2. /\ Consecutive(p, Cat(e, r)) <=> Consecutive(p, Cat(Cat(e, s), r))
        /\ \A k : Ends(p, Cat(e, r), k) <=> Ends(p, Cat(Cat(e, s), r), k)
        /\ Numbers(p, Cat(e, r)) = Numbers(p, Cat(Cat(e, s), r))
    BY <1>0, <1>3, <2>1, Inserted
  <2>. QED BY <1>2, <1>3, <2>1, <2>2
<1>4. Consecutive(p, r) /\ Ends(p, r, n) /\ Numbers(p, r) = 1 .. n
  BY <1>0, <1>1, <1>2, <1>3 DEF LineOK
<1>5. PICK s : s = (IF m THEN msgs ELSE bytes) /\ s \in Lists(Item) /\ Of(p, s) = {} /\ Cat(<<>>, s) = s
  BY <1>0, <1>1, <1>2
<1>6. Consecutive(p, Cat(s, r)) /\ Ends(p, Cat(s, r), n) /\ Numbers(p, Cat(s, r)) = 1 .. n
  BY <1>3, <1>4, <1>5
<1>. QED BY <1>1, <1>5, <1>6 DEF LineOK

\* Send()
LEMMA LineSend ==
  ASSUME NEW p \in Peers, NEW m \in BOOLEAN, NEW c \in BOOLEAN, NEW bytes, NEW msgs, NEW r, NEW n, NEW x \in Item,
         x.peer = p, x.number = n + 1,
         LineOK(p, m, c, FALSE, bytes, msgs, r, n)
  PROVE  LineOK(p, m, c, FALSE, bytes, msgs, Cat(r, Just(x)), n + 1)
<1>0. PICK s : s = (IF m THEN msgs ELSE bytes)
  OBVIOUS
<1>1. s \in Lists(Item) /\ r \in Lists(Item) /\ n \in Nat
  BY <1>0 DEF LineOK
<1>2. PICK o : o = Just(x) /\ o \in Lists(Item) /\ Len(o) = 1 /\ o[1] = x
  BY Single DEF Just
<1>3. PICK t : t = Cat(s, r) /\ t \in Lists(Item)
  BY <1>1, Joined
<1>4. Consecutive(p, t) /\ Ends(p, t, n) /\ (m \/ Numbers(p, t) = 1 .. n)
  BY <1>0, <1>3 DEF LineOK
<1>5. Cat(s, Cat(r, o)) = Cat(t, o)
  BY <1>1, <1>2, <1>3, CatCat
<1>6. /\ Consecutive(p, Cat(t, o)) /\ Ends(p, Cat(t, o), n + 1)
      /\ Numbers(p, Cat(t, o)) = Numbers(p, t) \cup {n + 1}
  BY <1>1, <1>2, <1>3, <1>4, NextIs
<1>7. (1 .. n) \cup {n + 1} = 1 .. n + 1 /\ n + 1 \in Nat
  BY <1>1
<1>8. Cat(r, o) \in Lists(Item)
  BY <1>1, <1>2, Joined
<1>9. ASSUME NEW q \in Peers, q # p PROVE Of(q, Cat(r, o)) = {}
  <2>1. Of(q, o) = {}
    BY <1>2, <1>9, OfIs
  <2>2. Of(q, r) = {}
    BY <1>9 DEF LineOK
  <2>. QED BY <1>1, <1>2, <2>1, <2>2, OfCat
<1>10. bytes \in Lists(Item) /\ msgs \in Lists(Item) /\ (m \/ ~c => Of(p, bytes) = {}) /\ (m \/ Of(p, msgs) = {}) /\ (m => c)
  BY DEF LineOK
<1>11. /\ Consecutive(p, Cat(s, Cat(r, o))) /\ Ends(p, Cat(s, Cat(r, o)), n + 1)
       /\ m \/ Numbers(p, Cat(s, Cat(r, o))) = 1 .. n + 1
  BY <1>4, <1>5, <1>6, <1>7
<1>. QED BY <1>0, <1>2, <1>7, <1>8, <1>9, <1>10, <1>11 DEF LineOK

\* What a connection that was closed sends is lost.
LEMMA LineLost ==
  ASSUME NEW p, NEW m \in BOOLEAN, NEW c \in BOOLEAN, NEW bytes, NEW msgs, NEW r, NEW n,
         LineOK(p, m, c, TRUE, bytes, msgs, r, n)
  PROVE  LineOK(p, m, c, TRUE, bytes, msgs, r, n + 1)
BY DEF LineOK

\* clear_message()
LEMMA LineRest ==
  ASSUME NEW p \in Peers, NEW m \in BOOLEAN, NEW c \in BOOLEAN, NEW h \in BOOLEAN,
         NEW bytes, NEW x \in Item, NEW t \in Lists(Item), NEW r, NEW n,
         LineOK(p, m, c, h, bytes, Cat(Just(x), t), r, n)
  PROVE  LineOK(p, m, c, h, bytes, t, r, n)
<1>1. PICK o : o = Just(x) /\ o \in Lists(Item)
  BY Single DEF Just
<1>2. bytes \in Lists(Item) /\ r \in Lists(Item)
  BY DEF LineOK
<1>3. CASE m
  <2>1. Cat(Cat(o, t), r) = Cat(o, Cat(t, r)) /\ Cat(t, r) \in Lists(Item) /\ Cat(Cat(o, t), r) \in Lists(Item)
    <3>1. Cat(o, t) \in Lists(Item) /\ Cat(t, r) \in Lists(Item)
      BY <1>1, <1>2, Joined
    <3>2. Cat(Cat(o, t), r) \in Lists(Item)
      BY <1>2, <3>1, Joined
    <3>. QED BY <1>1, <1>2, <3>1, <3>2, CatCat
  <2>2. Consecutive(p, Cat(Cat(o, t), r)) /\ (h \/ Ends(p, Cat(Cat(o, t), r), n))
    BY <1>1, <1>3 DEF LineOK
  <2>3. /\ Consecutive(p, Cat(t, r))
        /\ \A k : Ends(p, Cat(Cat(o, t), r), k) => Ends(p, Cat(t, r), k)
    BY <1>1, <2>1, <2>2, RestIs
  <2>. QED BY <1>3, <2>2, <2>3 DEF LineOK
<1>4. CASE ~m
  <2>1. Of(p, Cat(o, t)) = {}
    BY <1>1, <1>4 DEF LineOK
  <2>2. Of(p, t) = {}
    BY <1>1, <2>1, OfCat
  <2>. QED BY <1>4, <2>2 DEF LineOK
<1>. QED BY <1>3, <1>4

\* The same line with other parts of it, or parts of another peer.
LEMMA SameLine ==
  ASSUME NEW p, NEW s \in Lists(Item), NEW x \in Lists(Item), NEW r \in Lists(Item), Of(p, x) = {}
  PROVE  /\ Consecutive(p, Cat(s, r)) <=> Consecutive(p, Cat(Cat(s, x), r))
         /\ \A k : Ends(p, Cat(s, r), k) <=> Ends(p, Cat(Cat(s, x), r), k)
         /\ Numbers(p, Cat(s, r)) = Numbers(p, Cat(Cat(s, x), r))
BY Inserted

\* Another peer's bytes are received.
LEMMA LineOtherBytes ==
  ASSUME NEW p \in Peers, NEW m \in BOOLEAN, NEW c \in BOOLEAN, NEW h \in BOOLEAN,
         NEW bytes, NEW msgs, NEW r, NEW n, NEW x \in Lists(Item), Of(p, x) = {},
         LineOK(p, m, c, h, bytes, msgs, r, n)
  PROVE  LineOK(p, m, c, h, Cat(bytes, x), msgs, r, n)
<1>1. bytes \in Lists(Item) /\ r \in Lists(Item)
  BY DEF LineOK
<1>2. Cat(bytes, x) \in Lists(Item)
  BY <1>1, Joined
<1>3. Of(p, bytes) = {} => Of(p, Cat(bytes, x)) = {}
  BY <1>1, OfCat
<1>4. /\ Consecutive(p, Cat(bytes, r)) <=> Consecutive(p, Cat(Cat(bytes, x), r))
      /\ \A k : Ends(p, Cat(bytes, r), k) <=> Ends(p, Cat(Cat(bytes, x), r), k)
      /\ Numbers(p, Cat(bytes, r)) = Numbers(p, Cat(Cat(bytes, x), r))
  BY <1>1, SameLine
<1>5. CASE m
  BY <1>2, <1>3, <1>5 DEF LineOK
<1>6. CASE ~m
  BY <1>2, <1>3, <1>4, <1>6 DEF LineOK
<1>. QED BY <1>5, <1>6

\* Another peer's messages are received.
LEMMA LineOtherMessages ==
  ASSUME NEW p \in Peers, NEW m \in BOOLEAN, NEW c \in BOOLEAN, NEW h \in BOOLEAN,
         NEW bytes, NEW msgs, NEW r, NEW n, NEW x \in Lists(Item), Of(p, x) = {},
         LineOK(p, m, c, h, bytes, msgs, r, n)
  PROVE  LineOK(p, m, c, h, bytes, Cat(msgs, x), r, n)
<1>1. msgs \in Lists(Item) /\ r \in Lists(Item)
  BY DEF LineOK
<1>2. Cat(msgs, x) \in Lists(Item)
  BY <1>1, Joined
<1>3. Of(p, msgs) = {} => Of(p, Cat(msgs, x)) = {}
  BY <1>1, OfCat
<1>4. /\ Consecutive(p, Cat(msgs, r)) <=> Consecutive(p, Cat(Cat(msgs, x), r))
      /\ \A k : Ends(p, Cat(msgs, r), k) <=> Ends(p, Cat(Cat(msgs, x), r), k)
  BY <1>1, SameLine
<1>5. CASE m
  BY <1>2, <1>3, <1>4, <1>5 DEF LineOK
<1>6. CASE ~m
  BY <1>2, <1>3, <1>6 DEF LineOK
<1>. QED BY <1>5, <1>6

\* The bytes of a peer are received.
LEMMA LineBytes ==
  ASSUME NEW p, NEW bytes, NEW msgs, NEW r, NEW n,
         LineOK(p, FALSE, TRUE, FALSE, bytes, msgs, r, n)
  PROVE  LineOK(p, FALSE, TRUE, FALSE, Cat(bytes, r), msgs, <<>>, n)
<1>1. bytes \in Lists(Item) /\ r \in Lists(Item)
  BY DEF LineOK
<1>2. Cat(bytes, r) \in Lists(Item)
  BY <1>1, Joined
<1>3. Cat(Cat(bytes, r), <<>>) = Cat(bytes, r)
  BY <1>2, CatEmpty
<1>4. \A q \in Peers : Of(q, <<>>) = {}
  BY OfEmpty
<1>5. <<>> \in Lists(Item)
  BY OfEmpty
<1>. QED BY <1>2, <1>3, <1>4, <1>5 DEF LineOK

\* Messages of a peer are received, then it may be closed.
LEMMA LineMessages ==
  ASSUME NEW p \in Peers, NEW c \in BOOLEAN, NEW h \in BOOLEAN,
         NEW bytes, NEW msgs, NEW u \in Lists(Item), NEW d \in Lists(Item), NEW n,
         LineOK(p, TRUE, c, h, bytes, msgs, Cat(u, d), n)
  PROVE  /\ LineOK(p, TRUE, c, h, bytes, Cat(msgs, u), d, n)
         /\ LineOK(p, TRUE, c, TRUE, bytes, Cat(msgs, u), <<>>, n)
<1>1. msgs \in Lists(Item) /\ n \in Nat /\ bytes \in Lists(Item) /\ c /\ Of(p, bytes) = {}
  BY DEF LineOK
<1>2. PICK a : a = Cat(msgs, u) /\ a \in Lists(Item)
  BY <1>1, Joined
<1>3. Cat(a, d) = Cat(msgs, Cat(u, d)) /\ Cat(a, <<>>) = a
  BY <1>1, <1>2, CatCat, CatEmpty
<1>4. Consecutive(p, Cat(a, d)) /\ (h \/ Ends(p, Cat(a, d), n))
  BY <1>3 DEF LineOK
<1>5. Consecutive(p, a)
  BY <1>2, <1>4, BeginningIs
<1>6. \A q \in Peers : q # p => Of(q, d) = {}
  BY OfCat DEF LineOK
<1>7. \A q \in Peers : Of(q, <<>>) = {}
  BY OfEmpty
<1>8. <<>> \in Lists(Item)
  BY OfEmpty
<1>9. LineOK(p, TRUE, c, h, bytes, a, d, n)
  BY <1>1, <1>2, <1>4, <1>6 DEF LineOK
<1>10. LineOK(p, TRUE, c, TRUE, bytes, a, <<>>, n)
  BY <1>1, <1>2, <1>3, <1>5, <1>7, <1>8 DEF LineOK
<1>. QED BY <1>2, <1>9, <1>10

\* The connection is closed.
LEMMA LineClosed ==
  ASSUME NEW p \in Peers, NEW c \in BOOLEAN, NEW h \in BOOLEAN,
         NEW bytes, NEW msgs, NEW r, NEW n,
         LineOK(p, TRUE, c, h, bytes, msgs, r, n)
  PROVE  LineOK(p, TRUE, c, TRUE, bytes, msgs, <<>>, n)
<1>1. PICK e : e = <<>> /\ e \in Lists(Item)
  BY OfEmpty
<1>2. msgs \in Lists(Item) /\ r \in Lists(Item)
  BY DEF LineOK
<1>3. Cat(e, r) = r /\ Cat(msgs, e) = msgs
  BY <1>1, <1>2, CatEmpty
<1>4. LineOK(p, TRUE, c, TRUE, bytes, Cat(msgs, e), <<>>, n)
  <2>1. LineOK(p, TRUE, c, h, bytes, msgs, Cat(e, r), n)
    BY <1>3
  <2>. HIDE <1>3
  <2>. QED BY <1>1, <1>2, <2>1, LineMessages
<1>. QED BY <1>3, <1>4

\* What the script got and what is on the way, all together.
LEMMA LineStream ==
  ASSUME NEW p \in Peers, NEW m \in BOOLEAN, NEW c \in BOOLEAN, NEW h \in BOOLEAN,
         NEW bytes, NEW msgs, NEW r, NEW n,
         LineOK(p, m, c, h, bytes, msgs, r, n)
  PROVE  LET s == Cat(Cat(bytes, msgs), r)
         IN  Consecutive(p, s) /\ (m \/ Numbers(p, s) = 1 .. n)
<1>1. bytes \in Lists(Item) /\ msgs \in Lists(Item) /\ r \in Lists(Item)
  BY DEF LineOK
<1>2. CASE ~m
  <2>1. Of(p, msgs) = {}
    BY <1>2 DEF LineOK
  <2>. QED BY <1>1, <1>2, <2>1, SameLine DEF LineOK
<1>3. CASE m
  <2>1. Of(p, bytes) = {}
    BY <1>3 DEF LineOK
  <2>2. PICK e : e = <<>> /\ e \in Lists(Item) /\ Cat(e, bytes) = bytes
    BY <1>1, OfEmpty, CatEmpty
  <2>3. PICK t : t = Cat(msgs, r) /\ t \in Lists(Item) /\ Cat(e, t) = t
    BY <1>1, <2>2, Joined, CatEmpty
  <2>4. Consecutive(p, Cat(e, t)) <=> Consecutive(p, Cat(Cat(e, bytes), t))
    BY <1>1, <2>1, <2>2, <2>3, SameLine
  <2>5. Consecutive(p, t)
    BY <1>3, <2>3 DEF LineOK
  <2>6. Cat(Cat(bytes, msgs), r) = Cat(bytes, t)
    BY <1>1, <2>3, CatCat
  <2>. QED BY <1>3, <2>2, <2>3, <2>4, <2>5, <2>6
<1>. QED BY <1>2, <1>3

---------------------------------------------------------------------------
(***************************************************************************)
(* The bytes and messages of all the peers, step by step.                   *)
(***************************************************************************)

\* The connection of a peer was accepted.
Connected(p) == \E k \in DOMAIN f_connections : f_connections[k].peer = p
\* What a peer sent is in what the script has of it.
LineInv(p) ==
    LineOK(p, HasMessenger(p), Connected(p), Hung(p), Cat(read, Unread), f_message, rx[p], sent[p])

\* The bytes and messages, received and on the way.
DataInv ==
    /\ DataOK(f_connection_data, f_data_position)
    /\ read \in Lists(Item) /\ f_message \in Lists(Item)
    /\ rx \in [Peers -> Lists(Item)] /\ sent \in [Peers -> Nat]
    /\ \A p \in Peers : LineInv(p)

\* No data, no client and nothing on the way changed.
LEMMA DataSame ==
  ASSUME DataInv, UNCHANGED <<data, f_connections, rx, sent>>
  PROVE  DataInv'
<1>1. UNCHANGED <<f_connection_data, f_data_position, f_message, read, f_connections, rx, sent>>
  BY DEF data
<1>2. ASSUME NEW p \in Peers PROVE LineInv(p)'
  <2>1. UNCHANGED <<HasMessenger(p), Connected(p), Hung(p), Unread>>
    BY <1>1 DEF HasMessenger, Connected, Hung, Unread
  <2>2. LineInv(p)
    BY DEF DataInv
  <2>. QED BY <1>1, <2>1, <2>2 DEF LineInv
<1>. QED BY <1>1, <1>2 DEF DataInv

\* Which steps change what.
LEMMA DataSteps ==
  ASSUME [Next]_vars
  PROVE  \/ UNCHANGED <<data, f_connections, rx, sent>>
         \/ Disconnect \/ ClearData \/ ClearMessage \/ VerifyData \/ SendMessage \/ Exit \/ Serve
         \/ \E p \in Peers : \E command \in {"A", "B"} : Send(p, command)
BY DEF Next, Script, Executor, vars, conns, peers,
       Call, Return, Goto, Nothing, If, CompareInstruction, HasType, HasData, HasMessage, Compare,
       SetVariable, UnsetVariable, Listen, VerifyMessage,
       SendData, Wait, PollReturns, WaitEnds, Run, Enter, StepDone, ThreadDone, Leave,
       ProcessDone, Stop, Stopped, Connect, Close

\* What is known of a peer when the clients stay the same.
LEMMA HasSame ==
  ASSUME NetInv, SameClients, NEW p
  PROVE  /\ HasMessenger(p)' = HasMessenger(p) /\ Connected(p)' = Connected(p)
         /\ (\A k \in DOMAIN f_connections : f_connections[k].peer = p =>
                f_connections'[k].open = f_connections[k].open) => Hung(p)' = Hung(p)
<1>1. HasMessenger(p)' = HasMessenger(p)
  BY DEF SameClients, HasMessenger
<1>2. Connected(p)' = Connected(p)
  BY DEF SameClients, Connected
<1>3. ASSUME \A k \in DOMAIN f_connections : f_connections[k].peer = p =>
                f_connections'[k].open = f_connections[k].open
      PROVE Hung(p)' = Hung(p)
  BY <1>3 DEF SameClients, Hung
<1>. QED BY <1>1, <1>2, <1>3

\* What is asked of a peer is true or false.
LEMMA Booleans ==
  ASSUME NEW p PROVE HasMessenger(p) \in BOOLEAN /\ Connected(p) \in BOOLEAN /\ Hung(p) \in BOOLEAN
BY DEF HasMessenger, Connected, Hung

\* send_message()
LEMMA SendMessageData == ASSUME NetInv, DataInv, SendMessage PROVE DataInv'
<1>1. SameClients /\ \A k \in DOMAIN f_connections : f_connections'[k].open = f_connections[k].open
  BY SendMessageClients
<1>2. UNCHANGED <<f_connection_data, f_data_position, f_message, read, rx, sent>>
  BY DEF SendMessage, data, peers
<1>3. UNCHANGED Unread
  BY <1>2 DEF Unread
<1>4. ASSUME NEW p \in Peers PROVE LineInv(p)'
  <2>1. HasMessenger(p)' = HasMessenger(p) /\ Connected(p)' = Connected(p) /\ Hung(p)' = Hung(p)
    BY <1>1, HasSame
  <2>2. LineInv(p)
    BY DEF DataInv
  <2>. QED BY <1>2, <1>3, <2>1, <2>2 DEF LineInv
<1>. QED BY <1>2, <1>4 DEF DataInv

\* clear_data() and verify_data(): bytes that were not read are read.
LEMMA ReadData ==
  ASSUME DataInv, NEW buf \in Lists(Item), UNCHANGED <<f_message, f_connections, rx, sent>>,
         read' = Cat(read, buf), DataOK(f_connection_data', f_data_position'), Unread = Cat(buf, Unread')
  PROVE  DataInv'
<1>1. Unread' \in Lists(Item) /\ read \in Lists(Item)
  BY BytesIn DEF DataInv, Unread
<1>2. Cat(read', Unread') = Cat(read, Unread) /\ read' \in Lists(Item)
  BY <1>1, CatCat, Joined
<1>3. ASSUME NEW p \in Peers PROVE LineInv(p)'
  <2>1. UNCHANGED <<HasMessenger(p), Connected(p), Hung(p)>>
    BY DEF HasMessenger, Connected, Hung
  <2>2. LineInv(p)
    BY DEF DataInv
  <2>. QED BY <1>2, <2>1, <2>2 DEF LineInv
<1>. QED BY <1>2, <1>3 DEF DataInv

\* clear_data()
LEMMA ClearDataData == ASSUME DataInv, ClearData PROVE DataInv'
<1>1. UNCHANGED <<f_message, f_connections, rx, sent>> /\ read' = Cat(read, Unread)
  BY DEF ClearData, conns, peers, Cat
<1>2. DataOK(f_connection_data', f_data_position') /\ Unread' = <<>>
  BY NoBytes DEF ClearData, Unread
<1>3. Unread \in Lists(Item)
  BY BytesIn DEF DataInv, Unread
<1>4. Unread = Cat(Unread, Unread')
  BY <1>2, <1>3, CatEmpty
<1>. QED BY <1>1, <1>2, <1>3, <1>4, ReadData

\* verify_data()
LEMMA VerifyDataData == ASSUME FlowInv, DataInv, VerifyData PROVE DataInv'
<1>1. Stmt.size \in Nat
  BY StatementOK DEF VerifyData, Instruction
<1>2. PICK r : r = read_data(f_connection_data, f_data_position, Stmt.size)
  OBVIOUS
<1>3. /\ UNCHANGED <<f_message, f_connections, rx, sent>> /\ read' = Cat(read, r.buf)
      /\ f_connection_data' = r.buffers /\ f_data_position' = r.position
  BY <1>2 DEF VerifyData, conns, peers, Cat
<1>4. ReadingOK(r, Unread)
  BY <1>1, <1>2, ReadOK DEF DataInv, Unread
<1>5. r.buf \in Lists(Item) /\ DataOK(f_connection_data', f_data_position') /\ Unread = Cat(r.buf, Unread')
  BY <1>3, <1>4 DEF ReadingOK, Unread
<1>. QED BY <1>3, <1>5, ReadData

\* clear_message()
LEMMA ClearMessageData == ASSUME DataInv, ClearMessage PROVE DataInv'
<1>1. UNCHANGED <<f_connection_data, f_data_position, read, f_connections, rx, sent>>
  BY DEF ClearMessage, conns, peers
<1>2. CASE f_message = <<>>
  <2>1. UNCHANGED f_message
    BY <1>2 DEF ClearMessage
  <2>. QED BY <1>1, <2>1, DataSame DEF data
<1>3. CASE f_message # <<>>
  <2>1. PICK l, x, t : l = f_message /\ x = Head(l) /\ t = Tail(l)
    OBVIOUS
  <2>2. f_message' = t /\ l \in Lists(Item) /\ l # <<>>
    BY <1>3, <2>1 DEF ClearMessage, DataInv
  <2>3. PICK n \in Nat : n = Len(l) /\ n # 0
    BY <2>2, ListLen, EmptyIs
  <2>4. /\ t \in Lists(Item) /\ Len(t) = n - 1 /\ x = l[1] /\ x \in Item
        /\ \A i \in 1 .. n - 1 : t[i] = l[i + 1]
    BY <2>1, <2>2, <2>3, TailIs
  <2>5. l = Cat(Just(x), t)
    <3>1. PICK w : w = Cat(Just(x), t) /\ w \in Lists(Item) /\ IsInFront(w, x, t)
      BY <2>4, InFront
    <3>2. Len(w) = n /\ w[1] = x
      BY <2>3, <2>4, <3>1 DEF IsInFront
    <3>3. ASSUME NEW i \in 1 .. n PROVE l[i] = w[i]
      <4>1. CASE i = 1
        BY <2>4, <3>2, <4>1
      <4>2. CASE i # 1
        <5>1. i - 1 \in 1 .. n - 1 /\ (i - 1) + 1 = i
          BY <4>2
        <5>2. w[i] = t[i - 1]
          BY <2>4, <3>1, <5>1 DEF IsInFront
        <5>. QED BY <2>4, <5>1, <5>2
      <4>. QED BY <4>1, <4>2
    <3>4. \A i \in 1 .. Len(l) : l[i] = w[i]
      BY <2>3, <3>3
    <3>. QED BY <2>2, <2>3, <3>1, <3>2, <3>4, SameList
  <2>6. ASSUME NEW p \in Peers PROVE LineInv(p)'
    <3>1. UNCHANGED <<HasMessenger(p), Connected(p), Hung(p), Unread>>
      BY <1>1 DEF HasMessenger, Connected, Hung, Unread
    <3>2. PICK m \in BOOLEAN, c \in BOOLEAN, h \in BOOLEAN : m = HasMessenger(p) /\ c = Connected(p) /\ h = Hung(p)
      BY Booleans
    <3>3. LineOK(p, m, c, h, Cat(read, Unread), Cat(Just(x), t), rx[p], sent[p])
      BY <2>1, <2>5, <3>2 DEF DataInv, LineInv
    <3>4. LineOK(p, m, c, h, Cat(read, Unread), t, rx[p], sent[p])
      BY <2>4, <3>3, LineRest
    <3>. QED BY <1>1, <2>2, <3>1, <3>2, <3>4 DEF LineInv
  <2>. QED BY <1>1, <2>2, <2>4, <2>6 DEF DataInv
<1>. QED BY <1>2, <1>3

\* disconnect()
LEMMA DisconnectData == ASSUME NetInv, DataInv, Disconnect PROVE DataInv'
<1>1. UNCHANGED <<f_connection_data, f_data_position, f_message, read, f_connections>>
  BY DEF Disconnect, data
<1>2. /\ rx' = [p \in Peers |-> IF net[p] = "pending" THEN <<>> ELSE rx[p]]
      /\ sent' = [p \in Peers |-> IF net[p] = "pending" THEN 0 ELSE sent[p]]
  BY DEF Disconnect
<1>3. rx' \in [Peers -> Lists(Item)] /\ sent' \in [Peers -> Nat]
  BY <1>2, OfEmpty DEF DataInv
<1>4. ASSUME NEW p \in Peers PROVE LineInv(p)'
  <2>1. UNCHANGED <<HasMessenger(p), Connected(p), Hung(p), Unread>>
    BY <1>1 DEF HasMessenger, Connected, Hung, Unread
  <2>2. CASE net[p] = "pending"
    <3>1. ~Connected(p)
      BY <2>2 DEF NetInv, Connected
    <3>2. HasMessenger(p) = FALSE /\ Connected(p) = FALSE /\ Hung(p) = FALSE
      BY <3>1 DEF HasMessenger, Connected, Hung
    <3>3. LineInv(p)
      BY DEF DataInv
    <3>4. LineOK(p, FALSE, FALSE, FALSE, Cat(read, Unread), f_message, rx[p], sent[p])
      BY <3>2, <3>3 DEF LineInv
    <3>5. /\ Cat(read, Unread) \in Lists(Item) /\ f_message \in Lists(Item)
          /\ Of(p, Cat(read, Unread)) = {} /\ Of(p, f_message) = {}
      BY <3>4 DEF LineOK
    <3>6. LineOK(p, FALSE, FALSE, FALSE, Cat(read, Unread), f_message, <<>>, 0)
      BY <3>5, LineNew
    <3>7. rx'[p] = <<>> /\ sent'[p] = 0
      BY <1>2, <2>2
    <3>. QED BY <1>1, <2>1, <3>2, <3>6, <3>7 DEF LineInv
  <2>3. CASE net[p] # "pending"
    <3>1. rx'[p] = rx[p] /\ sent'[p] = sent[p] /\ LineInv(p)
      BY <1>2, <2>3 DEF DataInv
    <3>. QED BY <1>1, <2>1, <3>1 DEF LineInv
  <2>. QED BY <2>2, <2>3
<1>. QED BY <1>1, <1>3, <1>4 DEF DataInv

\* A client sends.
LEMMA SendLine ==
  ASSUME NetInv, DataInv, NEW p \in Peers, NEW command \in {"A", "B"}, Send(p, command)
  PROVE  DataInv'
<1>1. UNCHANGED <<f_connection_data, f_data_position, f_message, read, f_connections>>
  BY DEF Send, data, conns
<1>2. PICK x : x = [peer |-> p, number |-> sent[p] + 1, command |-> command]
  OBVIOUS
<1>3. sent[p] \in Nat /\ x \in Item /\ x.peer = p /\ x.number = sent[p] + 1
  BY <1>2 DEF DataInv, Item
<1>4. rx[p] \in Lists(Item)
  BY DEF DataInv
<1>5. Append(rx[p], x) = Cat(rx[p], Just(x)) /\ Append(rx[p], x) \in Lists(Item)
  BY <1>3, <1>4 DEF Lists, Cat, Just
<1>6. /\ sent' = [sent EXCEPT ![p] = @ + 1]
      /\ rx' = [rx EXCEPT ![p] = IF Hung(p) THEN @ ELSE Append(@, x)]
  BY <1>2 DEF Send
<1>7. rx' \in [Peers -> Lists(Item)] /\ sent' \in [Peers -> Nat]
  BY <1>5, <1>6 DEF DataInv
<1>8. ASSUME NEW q \in Peers PROVE LineInv(q)'
  <2>1. UNCHANGED <<HasMessenger(q), Connected(q), Hung(q), Unread>>
    BY <1>1 DEF HasMessenger, Connected, Hung, Unread
  <2>2. LineInv(q)
    BY DEF DataInv
  <2>3. CASE q # p
    <3>1. rx'[q] = rx[q] /\ sent'[q] = sent[q]
      BY <1>6, <2>3 DEF DataInv
    <3>. QED BY <1>1, <2>1, <2>2, <3>1 DEF LineInv
  <2>4. CASE q = p
    <3>1. sent'[p] = sent[p] + 1 /\ rx'[p] = IF Hung(p) THEN rx[p] ELSE Append(rx[p], x)
      BY <1>6 DEF DataInv
    <3>2. PICK m \in BOOLEAN, c \in BOOLEAN, h \in BOOLEAN : m = HasMessenger(p) /\ c = Connected(p) /\ h = Hung(p)
      BY Booleans
    <3>3. LineOK(p, m, c, h, Cat(read, Unread), f_message, rx[p], sent[p])
      BY <2>2, <2>4, <3>2 DEF LineInv
    <3>4. LineOK(p, m, c, h, Cat(read, Unread), f_message, rx'[p], sent[p] + 1)
      <4>1. CASE h
        <5>1. h = TRUE /\ rx'[p] = rx[p]
          BY <3>1, <3>2, <4>1
        <5>2. LineOK(p, m, c, TRUE, Cat(read, Unread), f_message, rx[p], sent[p])
          BY <3>3, <5>1
        <5>3. LineOK(p, m, c, TRUE, Cat(read, Unread), f_message, rx[p], sent[p] + 1)
          BY <5>2, LineLost
        <5>. QED BY <5>1, <5>3
      <4>2. CASE ~h
        <5>1. h = FALSE /\ rx'[p] = Cat(rx[p], Just(x))
          BY <1>5, <3>1, <3>2, <4>2
        <5>2. LineOK(p, m, c, FALSE, Cat(read, Unread), f_message, rx[p], sent[p])
          BY <3>3, <5>1
        <5>3. LineOK(p, m, c, FALSE, Cat(read, Unread), f_message, Cat(rx[p], Just(x)), sent[p] + 1)
          BY <1>3, <5>2, LineSend
        <5>. QED BY <5>1, <5>3
      <4>. QED BY <4>1, <4>2
    <3>. QED BY <1>1, <2>1, <2>4, <3>1, <3>2, <3>4 DEF LineInv
  <2>. QED BY <2>3, <2>4
<1>. QED BY <1>1, <1>7, <1>8 DEF DataInv

\* exit()
LEMMA ExitData == ASSUME NetInv, DataInv, Exit PROVE DataInv'
<1>1. UNCHANGED <<f_connection_data, f_data_position, f_message, read, sent>>
  BY DEF Exit, data
<1>2. SameClients
  BY ExitClients
<1>. DEFINE errors == {k \in All : Revents(k, "wait") # {} /\ ~("RDHUP" \in Revents(k, "wait"))}
            Closed(k) == /\ Stmt.how = "timeout" /\ "RDHUP" \in Revents(k, "wait")
                         /\ \A j \in errors : Before(k, j)
                         /\ f_connections[k].type = "messenger"
<1>3. /\ f_connections' = [k \in DOMAIN f_connections |->
                             IF Closed(k) THEN [f_connections[k] EXCEPT !.open = FALSE] ELSE f_connections[k]]
      /\ rx' = [p \in Peers |->
                  IF \E k \in DOMAIN f_connections : f_connections[k].peer = p /\ Closed(k)
                    THEN <<>> ELSE rx[p]]
  BY DEF Exit
<1>. HIDE DEF Closed
<1>4. rx' \in [Peers -> Lists(Item)]
  BY <1>3, OfEmpty DEF DataInv
<1>5. ASSUME NEW p \in Peers PROVE LineInv(p)'
  <2>1. HasMessenger(p)' = HasMessenger(p) /\ Connected(p)' = Connected(p)
    BY <1>2, HasSame
  <2>2. UNCHANGED Unread
    BY <1>1 DEF Unread
  <2>3. LineInv(p)
    BY DEF DataInv
  <2>4. CASE \E k \in DOMAIN f_connections : f_connections[k].peer = p /\ Closed(k)
    <3>1. PICK k \in DOMAIN f_connections : f_connections[k].peer = p /\ Closed(k)
      BY <2>4
    <3>2. HasMessenger(p) = TRUE
      BY <3>1 DEF HasMessenger, Closed
    <3>3. Hung(p)' = TRUE
      <4>1. f_connections[k] \in Connection
        BY ConnectionsAre
      <4>2. f_connections'[k] = [f_connections[k] EXCEPT !.open = FALSE] /\ k \in DOMAIN f_connections'
        BY <1>3, <3>1
      <4>3. f_connections'[k].peer = p /\ f_connections'[k].open = FALSE
        BY <3>1, <4>1, <4>2 DEF Connection
      <4>. QED BY <4>2, <4>3 DEF Hung
    <3>4. PICK c \in BOOLEAN, h \in BOOLEAN : c = Connected(p) /\ h = Hung(p)
      BY Booleans
    <3>5. LineOK(p, TRUE, c, h, Cat(read, Unread), f_message, rx[p], sent[p])
      BY <2>3, <3>2, <3>4 DEF LineInv
    <3>6. LineOK(p, TRUE, c, TRUE, Cat(read, Unread), f_message, <<>>, sent[p])
      BY <3>5, LineClosed
    <3>7. rx'[p] = <<>>
      BY <1>3, <2>4
    <3>. QED BY <1>1, <2>1, <2>2, <3>2, <3>3, <3>4, <3>6, <3>7 DEF LineInv
  <2>5. CASE ~\E k \in DOMAIN f_connections : f_connections[k].peer = p /\ Closed(k)
    <3>1. rx'[p] = rx[p]
      BY <1>3, <2>5
    <3>2. \A k \in DOMAIN f_connections : f_connections[k].peer = p => f_connections'[k].open = f_connections[k].open
      BY <1>3, <2>5
    <3>3. Hung(p)' = Hung(p)
      BY <1>2, <3>2, HasSame
    <3>. QED BY <1>1, <2>1, <2>2, <2>3, <3>1, <3>3 DEF LineInv
  <2>. QED BY <2>4, <2>5
<1>. QED BY <1>1, <1>4, <1>5 DEF DataInv

\* process_accept()
LEMMA AcceptData ==
  ASSUME NetInv, DataInv, f_listen \in {"tcp", "messenger"}, NEW p \in Peers, net[p] = "pending",
         f_connections' = Append(f_connections, [peer |-> p, type |-> f_listen, open |-> TRUE, out |-> 0]),
         UNCHANGED <<data, rx, sent>>
  PROVE  DataInv'
<1>1. PICK n \in Nat : /\ n = Len(f_connections) /\ DOMAIN f_connections = 1 .. n
                       /\ \A k \in 1 .. n : f_connections[k] \in Connection
  BY ConnectionsAre
<1>2. PICK c : c = [peer |-> p, type |-> f_listen, open |-> TRUE, out |-> 0]
  OBVIOUS
<1>3. c \in Connection /\ c.peer = p /\ c.open = TRUE /\ c.type = f_listen
  BY <1>2 DEF Connection
<1>4. DOMAIN f_connections' = 1 .. n + 1
      /\ f_connections'[n + 1] = c /\ \A k \in 1 .. n : f_connections'[k] = f_connections[k]
  <2>1. f_connections \in Seq(Connection)
    BY DEF NetInv
  <2>. QED BY <1>1, <1>2, <1>3, <2>1, AppendIs DEF Lists
<1>5. (\A k \in 1 .. n + 1 : k = n + 1 \/ k \in 1 .. n) /\ (\A k \in 1 .. n : k \in 1 .. n + 1) /\ n + 1 \in 1 .. n + 1
  OBVIOUS
<1>6. UNCHANGED <<f_connection_data, f_data_position, f_message, read, rx, sent>>
  BY DEF data
<1>7. UNCHANGED Unread
  BY <1>6 DEF Unread
<1>8. ASSUME NEW q \in Peers PROVE LineInv(q)'
  <2>1. LineInv(q)
    BY DEF DataInv
  <2>2. CASE q # p
    <3>1. HasMessenger(q)' = HasMessenger(q)
      BY <1>1, <1>3, <1>4, <1>5, <2>2 DEF HasMessenger
    <3>2. Connected(q)' = Connected(q)
      BY <1>1, <1>3, <1>4, <1>5, <2>2 DEF Connected
    <3>3. Hung(q)' = Hung(q)
      BY <1>1, <1>3, <1>4, <1>5, <2>2 DEF Hung
    <3>. QED BY <1>6, <1>7, <2>1, <3>1, <3>2, <3>3 DEF LineInv
  <2>3. CASE q = p
    <3>1. \A k \in 1 .. n : f_connections[k].peer # p
      BY <1>1 DEF NetInv
    <3>2. HasMessenger(p) = FALSE /\ Connected(p) = FALSE /\ Hung(p) = FALSE
      BY <1>1, <3>1 DEF HasMessenger, Connected, Hung
    <3>3. \A k \in 1 .. n + 1 : f_connections'[k].peer = p => k = n + 1
      BY <1>4, <1>5, <3>1
    <3>4. Connected(p)' = TRUE
      BY <1>3, <1>4, <1>5 DEF Connected
    <3>5. Hung(p)' = FALSE
      BY <1>3, <1>4, <3>3 DEF Hung
    <3>6. HasMessenger(p)' = (f_listen = "messenger")
      <4>1. CASE f_listen = "messenger"
        <5>1. HasMessenger(p)'
          BY <1>3, <1>4, <1>5, <4>1 DEF HasMessenger
        <5>. QED BY <4>1, <5>1 DEF HasMessenger
      <4>2. CASE f_listen # "messenger"
        <5>1. ~HasMessenger(p)'
          BY <1>3, <1>4, <3>3, <4>2 DEF HasMessenger
        <5>. QED BY <4>2, <5>1 DEF HasMessenger
      <4>. QED BY <4>1, <4>2
    <3>7. LineOK(p, FALSE, FALSE, FALSE, Cat(read, Unread), f_message, rx[p], sent[p])
      BY <2>1, <2>3, <3>2 DEF LineInv
    <3>8. PICK m \in BOOLEAN : m = (f_listen = "messenger")
      OBVIOUS
    <3>9. LineOK(p, m, TRUE, FALSE, Cat(read, Unread), f_message, rx[p], sent[p])
      BY <3>7, LineAccept
    <3>. QED BY <1>6, <1>7, <2>3, <3>4, <3>5, <3>6, <3>8, <3>9 DEF LineInv
  <2>. QED BY <2>2, <2>3
<1>. QED BY <1>6, <1>8 DEF DataInv

\* Whose a connection is.
LEMMA OneClient ==
  ASSUME NetInv, NEW i \in DOMAIN f_connections
  PROVE  LET c == f_connections[i]
         IN  /\ c \in Connection /\ c.peer \in Peers
             /\ HasMessenger(c.peer) = (c.type = "messenger")
             /\ Connected(c.peer) = TRUE
             /\ Hung(c.peer) = ~c.open
             /\ c.type = "tcp" => c.open = TRUE
<1>1. f_connections[i] \in Connection
  BY ConnectionsAre
<1>2. PICK c : c = f_connections[i] /\ c \in Connection
  BY <1>1
<1>3. \A k \in DOMAIN f_connections : f_connections[k].peer = c.peer <=> k = i
  BY <1>2 DEF NetInv
<1>4. HasMessenger(c.peer) = (c.type = "messenger")
  BY <1>2, <1>3 DEF HasMessenger
<1>5. Connected(c.peer) = TRUE
  BY <1>2 DEF Connected
<1>6. Hung(c.peer) = ~c.open
  BY <1>2, <1>3 DEF Hung
<1>7. c.type = "tcp" => c.open = TRUE
  BY <1>2 DEF NetInv, Connection
<1>. QED BY <1>2, <1>4, <1>5, <1>6, <1>7 DEF Connection

\* What is known of the other peers.
LEMMA OtherClients ==
  ASSUME NetInv, NEW i \in DOMAIN f_connections, NEW events, Client(i, events),
         NEW q, q # f_connections[i].peer
  PROVE  HasMessenger(q)' = HasMessenger(q) /\ Connected(q)' = Connected(q) /\ Hung(q)' = Hung(q)
<1>1. SameClients /\ \A k \in DOMAIN f_connections : k # i => f_connections'[k] = f_connections[k]
  BY ClientClients
<1>2. \A k \in DOMAIN f_connections : f_connections[k].peer = q => f_connections'[k].open = f_connections[k].open
  BY <1>1
<1>. QED BY <1>1, <1>2, HasSame

\* And of this one.
LEMMA ThisClient ==
  ASSUME NetInv, NEW i \in DOMAIN f_connections, NEW events, Client(i, events),
         NEW p, p = f_connections[i].peer
  PROVE  /\ HasMessenger(p)' = HasMessenger(p) /\ Connected(p)' = TRUE
         /\ Hung(p)' = ~(f_connections[i].open /\ ~("RDHUP" \in events /\ f_connections[i].type = "messenger"))
<1>1. SameClients /\ f_connections'[i].open = (/\ f_connections[i].open
                                      /\ ~("RDHUP" \in events /\ f_connections[i].type = "messenger"))
  BY ClientClients
<1>2. p = f_connections[i].peer
  OBVIOUS
<1>3. HasMessenger(p)' = HasMessenger(p) /\ Connected(p)' = Connected(p)
  BY <1>1, HasSame
<1>4. Connected(p) = TRUE
  BY <1>2, OneClient
<1>5. \A k \in DOMAIN f_connections : f_connections[k].peer = p <=> k = i
  BY <1>2 DEF NetInv
<1>6. DOMAIN f_connections' = DOMAIN f_connections /\ \A k \in DOMAIN f_connections : f_connections'[k].peer = f_connections[k].peer
  BY <1>1 DEF SameClients
<1>7. PICK o \in BOOLEAN : o = f_connections'[i].open
  BY <1>1
<1>8. Hung(p)' = ~o
  <2>1. CASE o
    <3>1. ~Hung(p)'
      BY <1>5, <1>6, <1>7, <2>1 DEF Hung
    <3>. QED BY <2>1, <3>1 DEF Hung
  <2>2. CASE ~o
    <3>1. Hung(p)'
      BY <1>5, <1>6, <1>7, <2>2 DEF Hung
    <3>. QED BY <2>2, <3>1 DEF Hung
  <2>. QED BY <2>1, <2>2
<1>9. o = (f_connections[i].open /\ ~("RDHUP" \in events /\ f_connections[i].type = "messenger"))
  BY <1>1, <1>7
<1>10. Hung(p)' = ~(f_connections[i].open /\ ~("RDHUP" \in events /\ f_connections[i].type = "messenger"))
  BY <1>8, <1>9
<1>11. Connected(p)' = TRUE
  BY <1>3, <1>4
<1>. QED BY <1>3, <1>10, <1>11

\* The bytes of a client: nothing, or all there is is one buffer.
LEMMA ClientBytes ==
  ASSUME NetInv, DataInv, UNCHANGED sent, NEW i \in DOMAIN f_connections, NEW events, Client(i, events),
         f_connections[i].type = "tcp"
  PROVE  DataInv'
<1>0. PICK p : p = f_connections[i].peer
  OBVIOUS
<1>1. /\ p \in Peers /\ HasMessenger(p) = FALSE /\ Connected(p) = TRUE /\ Hung(p) = FALSE
      /\ f_connections[i].open = TRUE
  BY <1>0, OneClient
<1>2. HasMessenger(p)' = FALSE /\ Connected(p)' = TRUE /\ Hung(p)' = FALSE
  <2>1. Hung(p)' = ~(f_connections[i].open /\ ~("RDHUP" \in events /\ f_connections[i].type = "messenger"))
    BY <1>0, ThisClient
  <2>2. Hung(p)' = FALSE
    BY <1>1, <2>1
  <2>3. HasMessenger(p)' = HasMessenger(p) /\ Connected(p)' = TRUE
    BY <1>0, ThisClient
  <2>. QED BY <1>1, <2>2, <2>3
<1>3. PICK r : r = rx[p] /\ r \in Lists(Item)
  BY <1>1 DEF DataInv
<1>4. PICK l \in Nat : l = Len(r)
  BY <1>3, ListLen
<1>5. UNCHANGED <<f_data_position, f_message, read>>
  BY DEF Client
<1>6. PICK k \in Nat : /\ k \in {0, l}
                       /\ rx' = [rx EXCEPT ![p] = Drop(r, k)]
                       /\ f_connection_data' = IF k > 0 THEN Append(f_connection_data, r) ELSE f_connection_data
  <2>1. PICK n \in {0, l} : \E k \in {n} :
          /\ rx' = [rx EXCEPT ![p] = SubSeq(@, k + 1, Len(@))]
          /\ f_connection_data' = IF k > 0 THEN Append(f_connection_data, rx[p]) ELSE f_connection_data
    BY <1>0, <1>3, <1>4 DEF Client
  <2>2. rx' = [rx EXCEPT ![p] = SubSeq(rx[p], n + 1, Len(rx[p]))]
    BY <2>1
  <2>. QED BY <1>3, <1>4, <2>1, <2>2 DEF Drop, Slice
<1>7. ASSUME NEW q \in Peers PROVE LineInv(q)
  BY DEF DataInv
<1>8. LineOK(p, FALSE, TRUE, FALSE, Cat(read, Unread), f_message, r, sent[p])
  BY <1>1, <1>3, <1>7 DEF LineInv
<1>9. CASE k = 0
  <2>1. UNCHANGED <<f_connection_data, Unread>>
    BY <1>5, <1>6, <1>9 DEF Unread
  <2>2. rx' = rx
    <3>1. Drop(r, 0) = r
      BY <1>3, WholeSlice DEF Drop
    <3>. QED BY <1>3, <1>6, <1>9, <3>1 DEF DataInv
  <2>3. ASSUME NEW q \in Peers PROVE LineInv(q)'
    <3>1. HasMessenger(q)' = HasMessenger(q) /\ Connected(q)' = Connected(q) /\ Hung(q)' = Hung(q)
      <4>1. CASE q = p
        BY <1>1, <1>2, <4>1
      <4>2. CASE q # p
        BY <1>0, <4>2, OtherClients
      <4>. QED BY <4>1, <4>2
    <3>. QED BY <1>5, <1>7, <2>1, <2>2, <3>1 DEF LineInv
  <2>. QED BY <1>5, <2>1, <2>2, <2>3 DEF DataInv
<1>10. CASE k # 0
  <2>1. k = l /\ k > 0
    BY <1>4, <1>6, <1>10
  <2>2. r # <<>>
    BY <1>3, <1>4, <2>1, EmptyIs
  <2>3. f_connection_data' = Append(f_connection_data, r) /\ rx' = [rx EXCEPT ![p] = Drop(r, l)]
    BY <1>6, <2>1
  <2>4. Drop(r, l) = <<>>
    BY <1>3, <1>4, SuffixEnd DEF Drop
  <2>5. DataOK(f_connection_data', f_data_position') /\ Unread' = Cat(Unread, r)
    BY <1>3, <1>5, <2>2, <2>3, BytesAppend DEF DataInv, Unread
  <2>6. Unread \in Lists(Item) /\ read \in Lists(Item)
    BY BytesIn DEF DataInv, Unread
  <2>7. Cat(read', Unread') = Cat(Cat(read, Unread), r)
    BY <1>3, <1>5, <2>5, <2>6, CatCat
  <2>8. rx' \in [Peers -> Lists(Item)] /\ rx'[p] = <<>> /\ \A q \in Peers : q # p => rx'[q] = rx[q]
    BY <1>1, <2>3, <2>4, OfEmpty DEF DataInv
  <2>9. ASSUME NEW q \in Peers PROVE LineInv(q)'
    <3>1. CASE q = p
      <4>1. LineOK(p, FALSE, TRUE, FALSE, Cat(Cat(read, Unread), r), f_message, <<>>, sent[p])
        BY <1>8, LineBytes
      <4>. QED BY <1>2, <1>5, <2>7, <2>8, <3>1, <4>1 DEF LineInv
    <3>2. CASE q # p
      <4>1. HasMessenger(q)' = HasMessenger(q) /\ Connected(q)' = Connected(q) /\ Hung(q)' = Hung(q)
        BY <1>0, <3>2, OtherClients
      <4>2. Of(q, r) = {}
        BY <1>8, <3>2 DEF LineOK
      <4>3. PICK m \in BOOLEAN, c \in BOOLEAN, h \in BOOLEAN : m = HasMessenger(q) /\ c = Connected(q) /\ h = Hung(q)
        BY Booleans
      <4>4. LineOK(q, m, c, h, Cat(read, Unread), f_message, rx[q], sent[q])
        BY <1>7, <4>3 DEF LineInv
      <4>5. LineOK(q, m, c, h, Cat(Cat(read, Unread), r), f_message, rx[q], sent[q])
        BY <1>3, <4>2, <4>4, LineOtherBytes
      <4>. QED BY <1>5, <2>7, <2>8, <3>2, <4>1, <4>3, <4>5 DEF LineInv
    <3>. QED BY <3>1, <3>2
  <2>. QED BY <1>5, <2>5, <2>8, <2>9 DEF DataInv
<1>. QED BY <1>9, <1>10

\* The messages of a client: some of those there are, and the rest is lost
\* when the connection is closed.
LEMMA ClientMessages ==
  ASSUME NetInv, DataInv, UNCHANGED sent, NEW i \in DOMAIN f_connections, NEW events, Client(i, events),
         f_connections[i].type = "messenger"
  PROVE  DataInv'
<1>0. PICK p : p = f_connections[i].peer
  OBVIOUS
<1>1. p \in Peers /\ HasMessenger(p) = TRUE /\ Connected(p) = TRUE
  BY <1>0, OneClient
<1>3. PICK r : r = rx[p] /\ r \in Lists(Item)
  BY <1>1 DEF DataInv
<1>4. PICK l \in Nat : l = Len(r)
  BY <1>3, ListLen
<1>5. UNCHANGED <<f_connection_data, f_data_position, read>>
  BY DEF Client
<1>6. PICK k \in 0 .. l :
        /\ rx' = [rx EXCEPT ![p] = IF "RDHUP" \in events THEN <<>> ELSE Drop(r, k)]
        /\ f_message' = Cat(f_message, Slice(r, 1, k))
  <2>1. PICK n \in {0, l} : \E k \in IF n = 0 THEN {n} ELSE 1 .. n :
          /\ rx' = [rx EXCEPT ![p] = IF "RDHUP" \in events THEN <<>> ELSE SubSeq(@, k + 1, Len(@))]
          /\ f_message' = f_message \o SubSeq(rx[p], 1, k)
    BY <1>0, <1>3, <1>4 DEF Client
  <2>2. PICK k \in IF n = 0 THEN {n} ELSE 1 .. n :
          /\ rx' = [rx EXCEPT ![p] = IF "RDHUP" \in events THEN <<>> ELSE SubSeq(@, k + 1, Len(@))]
          /\ f_message' = f_message \o SubSeq(rx[p], 1, k)
    BY <2>1
  <2>3. k \in 0 .. l
    BY <2>1, <2>2
  <2>4. rx' = [rx EXCEPT ![p] = IF "RDHUP" \in events THEN <<>> ELSE SubSeq(rx[p], k + 1, Len(rx[p]))]
    BY <2>2
  <2>. QED BY <1>3, <2>2, <2>3, <2>4 DEF Drop, Slice, Cat
<1>7. ASSUME NEW q \in Peers PROVE LineInv(q)
  BY DEF DataInv
<1>8. PICK u, d : u = Slice(r, 1, k) /\ d = Drop(r, k)
  OBVIOUS
<1>9. u \in Lists(Item) /\ d \in Lists(Item) /\ r = Cat(u, d)
  <2>1. 0 \in 0 .. l
    OBVIOUS
  <2>2. /\ Slice(r, 0 + 1, k) \in Lists(Item)
        /\ Drop(r, 0) = Cat(Slice(r, 0 + 1, k), Drop(r, k))
    BY <1>3, <1>4, <1>6, <2>1, DropSplit
  <2>3. 0 + 1 = 1
    OBVIOUS
  <2>4. Drop(r, 0) = r
    BY <1>3, WholeSlice DEF Drop
  <2>5. d \in Lists(Item)
    BY <1>3, <1>4, <1>8, DropIs
  <2>. QED BY <1>8, <2>2, <2>3, <2>4, <2>5
<1>10. f_message' = Cat(f_message, u) /\ f_message' \in Lists(Item)
  BY <1>6, <1>8, <1>9, Joined DEF DataInv
<1>11. /\ rx' \in [Peers -> Lists(Item)] /\ \A q \in Peers : q # p => rx'[q] = rx[q]
       /\ rx'[p] = IF "RDHUP" \in events THEN <<>> ELSE d
  BY <1>1, <1>6, <1>8, <1>9, OfEmpty DEF DataInv
<1>12. UNCHANGED Unread
  BY <1>5 DEF Unread
<1>13. ASSUME NEW q \in Peers PROVE LineInv(q)'
  <2>1. CASE q = p
    <3>1. PICK h \in BOOLEAN : h = Hung(p)
      BY Booleans
    <3>2. LineOK(p, TRUE, TRUE, h, Cat(read, Unread), f_message, Cat(u, d), sent[p])
      BY <1>1, <1>3, <1>7, <1>9, <3>1 DEF LineInv
    <3>3. /\ LineOK(p, TRUE, TRUE, h, Cat(read, Unread), Cat(f_message, u), d, sent[p])
          /\ LineOK(p, TRUE, TRUE, TRUE, Cat(read, Unread), Cat(f_message, u), <<>>, sent[p])
      BY <1>1, <1>9, <3>2, LineMessages
    <3>4. /\ HasMessenger(p)' = TRUE /\ Connected(p)' = TRUE
          /\ Hung(p)' = ~(f_connections[i].open /\ ~("RDHUP" \in events /\ f_connections[i].type = "messenger"))
      BY <1>0, <1>1, ThisClient
    <3>5. f_connections[i].open \in BOOLEAN /\ Hung(p) = ~f_connections[i].open
      BY <1>0, OneClient DEF Connection
    <3>6. CASE "RDHUP" \in events
      <4>1. Hung(p)' = TRUE /\ rx'[p] = <<>>
        BY <1>11, <3>4, <3>6
      <4>. QED BY <1>5, <1>10, <1>12, <2>1, <3>3, <3>4, <4>1 DEF LineInv
    <3>7. CASE "RDHUP" \notin events
      <4>1. Hung(p)' = h /\ rx'[p] = d
        BY <1>11, <3>1, <3>4, <3>5, <3>7
      <4>. QED BY <1>5, <1>10, <1>12, <2>1, <3>3, <3>4, <4>1 DEF LineInv
    <3>. QED BY <3>6, <3>7
  <2>2. CASE q # p
    <3>1. HasMessenger(q)' = HasMessenger(q) /\ Connected(q)' = Connected(q) /\ Hung(q)' = Hung(q)
      BY <1>0, <2>2, OtherClients
    <3>2. Of(q, u) = {}
      <4>1. Of(q, Cat(u, d)) = {}
        BY <1>1, <1>3, <1>7, <1>9, <2>2 DEF LineInv, LineOK
      <4>. QED BY <1>9, <4>1, OfCat
    <3>3. PICK m \in BOOLEAN, c \in BOOLEAN, h \in BOOLEAN : m = HasMessenger(q) /\ c = Connected(q) /\ h = Hung(q)
      BY Booleans
    <3>4. LineOK(q, m, c, h, Cat(read, Unread), f_message, rx[q], sent[q])
      BY <1>7, <3>3 DEF LineInv
    <3>5. LineOK(q, m, c, h, Cat(read, Unread), Cat(f_message, u), rx[q], sent[q])
      BY <1>9, <3>2, <3>4, LineOtherMessages
    <3>. QED BY <1>5, <1>10, <1>11, <1>12, <2>2, <3>1, <3>3, <3>5 DEF LineInv
  <2>. QED BY <2>1, <2>2
<1>. QED BY <1>5, <1>10, <1>11, <1>13 DEF DataInv

---------------------------------------------------------------------------
(***************************************************************************)
(* The script keeps them, and what follows.                                 *)
(***************************************************************************)

\* Every step keeps what each peer sent, in order.
LEMMA DataStep ==
  ASSUME FlowInv, NetInv, ServeInv, DataInv, [Next]_vars
  PROVE  DataInv'
<1>1. CASE UNCHANGED <<data, f_connections, rx, sent>>
  BY <1>1, DataSame
<1>2. CASE Disconnect
  BY <1>2, DisconnectData
<1>3. CASE ClearData
  BY <1>3, ClearDataData
<1>4. CASE ClearMessage
  BY <1>4, ClearMessageData
<1>5. CASE VerifyData
  BY <1>5, VerifyDataData
<1>6. CASE SendMessage
  BY <1>6, SendMessageData
<1>7. CASE Exit
  BY <1>7, ExitData
<1>8. CASE Serve
  <2>1. PICK e \in serving : \/ e[1] = 0 /\ Accept
                             \/ e[1] = 0 /\ UNCHANGED <<data, f_connections, net, rx>>
                             \/ e[1] # 0 /\ Client(e[1], e[2])
    BY <1>8 DEF Serve
  <2>2. UNCHANGED sent
    BY <1>8 DEF Serve
  <2>3. CASE e[1] = 0 /\ Accept
    <3>1. f_listen \in {"tcp", "messenger"}
      BY <2>3 DEF ServeInv, FlowInv
    <3>. QED BY <2>2, <2>3, <3>1, AcceptData DEF Accept
  <2>4. CASE UNCHANGED <<data, f_connections, net, rx>>
    BY <2>2, <2>4, DataSame
  <2>5. CASE e[1] # 0 /\ Client(e[1], e[2])
    <3>1. e[1] \in DOMAIN f_connections
      BY <2>5 DEF ServeInv
    <3>2. f_connections[e[1]].type \in {"tcp", "messenger"}
      BY <3>1, OneClient DEF Connection
    <3>. QED BY <2>2, <2>5, <3>1, <3>2, ClientBytes, ClientMessages
  <2>. QED BY <2>1, <2>3, <2>4, <2>5
<1>9. CASE \E p \in Peers : \E command \in {"A", "B"} : Send(p, command)
  BY <1>9, SendLine
<1>. QED BY <1>1, <1>2, <1>3, <1>4, <1>5, <1>6, <1>7, <1>8, <1>9, DataSteps

\* At first no peer sent anything.
LEMMA DataInit == ASSUME Init PROVE DataInv
<1>1. f_connection_data = <<>> /\ f_data_position = 0 /\ f_message = <<>> /\ read = <<>> /\ f_connections = <<>>
  BY DEF Init
<1>2. DataOK(f_connection_data, f_data_position) /\ Unread = <<>>
  BY <1>1, NoBytes DEF Unread
<1>3. rx \in [Peers -> Lists(Item)] /\ sent \in [Peers -> Nat]
  BY OfEmpty DEF Init
<1>4. ASSUME NEW p \in Peers PROVE LineInv(p)
  <2>1. DOMAIN f_connections = {}
    BY <1>1
  <2>2. HasMessenger(p) = FALSE /\ Connected(p) = FALSE /\ Hung(p) = FALSE
    BY <2>1 DEF HasMessenger, Connected, Hung
  <2>3. PICK e : e = <<>> /\ e \in Lists(Item) /\ Of(p, e) = {} /\ Cat(e, e) = e
    BY OfEmpty, CatEmpty
  <2>4. LineOK(p, FALSE, FALSE, FALSE, e, e, e, 0)
    BY <2>3, LineNew
  <2>5. rx[p] = <<>> /\ sent[p] = 0
    BY DEF Init
  <2>. QED BY <1>1, <1>2, <2>2, <2>3, <2>4, <2>5 DEF LineInv
<1>. QED BY <1>1, <1>2, <1>3, <1>4, OfEmpty DEF DataInv

\* StreamIntact follows from what is true of each peer.
LEMMA StreamIs == ASSUME DataInv PROVE StreamIntact
<1>1. read \in Lists(Item) /\ Unread \in Lists(Item) /\ f_message \in Lists(Item)
  BY BytesIn DEF DataInv, Unread
<1>2. ASSUME NEW p \in Peers
      PROVE  Consecutive(p, Stream(p)) /\ (HasMessenger(p) \/ Numbers(p, Stream(p)) = 1 .. sent[p])
  <2>1. rx[p] \in Lists(Item)
    BY DEF DataInv
  <2>2. Stream(p) = Cat(Cat(Cat(read, Unread), f_message), rx[p])
    BY DEF Stream, Cat
  <2>3. PICK m \in BOOLEAN, c \in BOOLEAN, h \in BOOLEAN : m = HasMessenger(p) /\ c = Connected(p) /\ h = Hung(p)
    BY Booleans
  <2>4. LineOK(p, m, c, h, Cat(read, Unread), f_message, rx[p], sent[p])
    BY <2>3 DEF DataInv, LineInv
  <2>5. LET s == Cat(Cat(Cat(read, Unread), f_message), rx[p])
        IN  Consecutive(p, s) /\ (m \/ Numbers(p, s) = 1 .. sent[p])
    BY <2>4, LineStream
  <2>. QED BY <2>2, <2>3, <2>5
<1>3. f_connection_data # <<>> => f_data_position < Len(f_connection_data[1])
  <2>1. DataOK(f_connection_data, f_data_position)
    BY DEF DataInv
  <2>2. f_connection_data # <<>> => Head(f_connection_data) = f_connection_data[1]
    BY <2>1 DEF DataOK, Lists
  <2>. QED BY <2>1, <2>2 DEF DataOK
<1>. QED BY <1>2, <1>3 DEF StreamIntact

\* EndsOnce follows from where the threads and the script are.
LEMMA EndsIs == ASSUME ThreadInv, FlowInv, DataInv PROVE EndsOnce
BY DEF ThreadInv, FlowInv, DataInv, DataOK, EndsOnce, TypeOK

\* The inductive invariant.
ScriptInv == ReporterInv /\ DataInv

\* And for each peer, what the script read, has in its buffers and still has to
\* receive is what the peer sent, in this order (state.cpp:293-376,
\* direct_tcp_server_client.cpp:50-95).
THEOREM ScriptInvariant == Spec => []ScriptInv
<1>1. Init => ScriptInv
  BY ReporterInit, DataInit DEF ReporterInv, ScriptInv
<1>2. ScriptInv /\ [Next]_vars => ScriptInv'
  BY ThreadStep, FlowStep, NetStep, ServeStep, DataStep DEF ReporterInv, ScriptInv
<1>. QED BY <1>1, <1>2, PTL DEF Spec

\* A script gets the bytes of each peer once and in the order they were sent,
\* for any sizes of the buffers and of the reads; its messages are consecutive
\* (state.cpp:293-376, direct_tcp_server_client.cpp:50-95).
THEOREM StreamKept == Spec => []StreamIntact
<1>1. ScriptInv => StreamIntact
  BY StreamIs DEF ScriptInv
<1>. QED BY <1>1, ScriptInvariant, PTL

\* communicator::run() returns only when the script ended, and the done signal
\* is sent once, whether the script ends in start(), in the thread, with an
\* exception or because of stop() (executor.cpp:134-151, 1430-1450, 1490-1521).
THEOREM ScriptEnds == Spec => []EndsOnce
<1>1. ScriptInv => EndsOnce
  BY EndsIs DEF ScriptInv, ReporterInv
<1>. QED BY <1>1, ScriptInvariant, PTL

=============================================================================
