---------------------------- MODULE ListTheorems ----------------------------
(***************************************************************************)
(* Facts about lists, the sequences the proofs about messages and the      *)
(* reporter are about, for any elements: what a concatenation, a part, a   *)
(* list without its beginning and a list of lists put one after the other  *)
(* are, and induction over a position and functions defined by recursion   *)
(* on one, which follow from Nat being well-founded under <.               *)
(***************************************************************************)
EXTENDS Integers, Sequences, FiniteSets, SequencesExt, FiniteSetTheorems, TLAPS

---------------------------------------------------------------------------
(***************************************************************************)
(* Numbers, sequences, and functions defined by recursion on a position.   *)
(***************************************************************************)

\* A set of natural numbers that is not empty has a least element.
LEMMA Least ==
  ASSUME NEW S \in SUBSET Nat, S # {}
  PROVE  \E n \in S : \A m \in S : n <= m
<1>. DEFINE R == OpToRel(<, Nat)
<1>1. \A x, y \in Nat : x < y => <<x, y>> \in R
  BY Zenon DEF OpToRel
<1>2. IsWellFoundedOn(R, Nat)
  BY NatLessThanWellFounded, Zenon
<1>. HIDE DEF R
<1>3. \E x \in S : \A y \in S : ~(<<y, x>> \in R)
  BY <1>2, WFMin
<1>4. \E x \in S : \A y \in S : ~(y < x)
  BY <1>1, <1>3, Zenon
<1>. QED BY <1>4

\* The largest element of a set of integers between two bounds.
LEMMA Greatest ==
  ASSUME NEW a \in Int, NEW b \in Int, NEW S \in SUBSET (a .. b), S # {}
  PROVE  \E n \in S : \A m \in S : m <= n
<1>. DEFINE T == {k \in Nat : b - k \in S}
<1>1. \A n \in S : b - n \in Nat /\ b - (b - n) = n
  OBVIOUS
<1>2. \A n \in S : b - n \in T
  BY <1>1
<1>3. T # {} /\ T \in SUBSET Nat
  BY <1>2
<1>4. PICK t \in T : \A u \in T : t <= u
  BY <1>3, Least
<1>5. b - t \in S /\ t \in Nat
  BY <1>4
<1>6. \A m \in S : t <= b - m
  BY <1>2, <1>4
<1>. QED BY <1>5, <1>6

\* A set of numbers that has the first one and the successor of each is all.
LEMMA Upward ==
  ASSUME NEW a \in Int, NEW b \in Int, NEW S,
         a \in S, \A n \in a .. b - 1 : n \in S => n + 1 \in S
  PROVE  \A n \in a .. b : n \in S
<1>. DEFINE T == {n \in 0 .. b - a : a + n \notin S}
<1>1. SUFFICES ASSUME T # {} PROVE FALSE
  <2>1. \A n \in a .. b : n - a \in 0 .. b - a /\ a + (n - a) = n
    OBVIOUS
  <2>2. T = {} => \A n \in a .. b : n \in S
    BY <2>1
  <2>. QED BY <2>2
<1>2. T \in SUBSET Nat
  OBVIOUS
<1>3. PICK n \in T : \A m \in T : n <= m
  BY <1>1, <1>2, Least
<1>4. n \in 0 .. b - a /\ a + n \notin S /\ n # 0
  BY <1>3
<1>5. n - 1 \in 0 .. b - a /\ n - 1 \notin T
  BY <1>3, <1>4
<1>6. a + (n - 1) \in S
  BY <1>5
<1>7. a + (n - 1) \in a .. b - 1 /\ (a + (n - 1)) + 1 = a + n
  BY <1>4
<1>. QED BY <1>4, <1>6, <1>7

\* The same from the end, where each may need all that follow.
LEMMA Downward ==
  ASSUME NEW a \in Int, NEW b \in Int, NEW S,
         \A n \in a .. b : (\A m \in n + 1 .. b : m \in S) => n \in S
  PROVE  \A n \in a .. b : n \in S
<1>. DEFINE T == {n \in a .. b : n \notin S}
<1>1. SUFFICES ASSUME T # {} PROVE FALSE
  OBVIOUS
<1>2. PICK n \in T : \A m \in T : m <= n
  BY <1>1, Greatest
<1>3. \A m \in n + 1 .. b : m \in S
  BY <1>2
<1>. QED BY <1>2, <1>3

\* A function that calls itself at a later argument, or stops, exists.
IsRecursive(f, a, b, X, stop, base, next, G) ==
    /\ f \in [a .. b -> X]
    /\ \A k \in a .. b : f[k] = IF k \in stop THEN base[k] ELSE G[k][f[next[k]]]

\* There is a function that is defined by recursion on later positions.
LEMMA Recursion ==
  ASSUME NEW a \in Int, NEW b \in Int, a <= b, NEW X,
         NEW stop, NEW base \in [a .. b -> X],
         NEW next \in [a .. b -> Int], \A k \in (a .. b) \ stop : next[k] \in k + 1 .. b,
         NEW G \in [a .. b -> [X -> X]]
  PROVE  \E f : IsRecursive(f, a, b, X, stop, base, next, G)
<1>. DEFINE Good(n, f) ==
              /\ f \in [n .. b -> X]
              /\ \A k \in n .. b : f[k] = IF k \in stop THEN base[k] ELSE G[k][f[next[k]]]
            S == {n \in a .. b : \E f : Good(n, f)}
<1>1. ASSUME NEW n \in a .. b, \A m \in n + 1 .. b : m \in S
      PROVE  n \in S
  <2>1. PICK f : n < b => Good(n + 1, f)
    <3>1. n < b => n + 1 \in S
      <4>1. n < b => n + 1 \in n + 1 .. b
        OBVIOUS
      <4>. HIDE DEF S
      <4>. QED BY <1>1, <4>1
    <3>. QED BY <3>1
  <2>. DEFINE g == [k \in n .. b |-> IF k = n
                      THEN IF n \in stop THEN base[n] ELSE G[n][f[next[n]]]
                      ELSE f[k]]
  <2>2. \A k \in n .. b : k # n => k \in n + 1 .. b /\ n < b
    OBVIOUS
  <2>3. n \notin stop => next[n] \in n + 1 .. b /\ n < b /\ f[next[n]] \in X
    BY <2>1
  <2>4. g[n] \in X
    BY <2>3
  <2>5. \A k \in n .. b : k # n => g[k] = f[k] /\ f[k] \in X
    BY <2>1, <2>2
  <2>6. g \in [n .. b -> X]
    BY <2>4, <2>5
  <2>7. g[n] = IF n \in stop THEN base[n] ELSE G[n][g[next[n]]]
    BY <2>3, <2>5
  <2>8. ASSUME NEW k \in n .. b, k # n
        PROVE  g[k] = IF k \in stop THEN base[k] ELSE G[k][g[next[k]]]
    <3>1. k \in n + 1 .. b /\ n < b /\ k \in a .. b
      BY <2>2, <2>8
    <3>2. f[k] = IF k \in stop THEN base[k] ELSE G[k][f[next[k]]]
      BY <2>1, <3>1
    <3>3. k \notin stop => next[k] \in n .. b /\ next[k] # n
      BY <3>1
    <3>. QED BY <2>5, <2>8, <3>2, <3>3
  <2>. HIDE DEF g
  <2>9. Good(n, g)
    BY <2>6, <2>7, <2>8
  <2>. QED BY <2>9
<1>2. \A n \in a .. b : n \in S
  <2>. HIDE DEF S
  <2>. QED BY <1>1, Downward
<1>3. a \in S
  BY <1>2
<1>4. PICK f : Good(a, f)
  BY <1>3
<1>5. IsRecursive(f, a, b, X, stop, base, next, G)
  BY <1>4 DEF IsRecursive
<1>. QED BY <1>5

\* Sequences and what is done with them. The names hide the operators of the
\* module Sequences from the steps that only need the facts below.
Lists(T) == Seq(T)
Cat(u, v) == u \o v

\* What a concatenation is, position by position.
LEMMA Concat ==
  ASSUME NEW T, NEW u \in Lists(T), NEW v \in Lists(T)
  PROVE  /\ Cat(u, v) \in Lists(T) /\ Len(Cat(u, v)) = Len(u) + Len(v)
         /\ Len(u) \in Nat /\ Len(v) \in Nat
         /\ \A i \in 1 .. Len(u) : Cat(u, v)[i] = u[i]
         /\ \A i \in 1 .. Len(v) : Cat(u, v)[Len(u) + i] = v[i]
BY DEF Lists, Cat

\* A position in a part is a position in the whole.
LEMMA Within ==
  ASSUME NEW a \in Nat, NEW b \in Nat, NEW c \in Nat, NEW l \in Nat,
         b = a + l, b <= c, NEW k \in 1 .. l
  PROVE  a + k \in 1 .. c
OBVIOUS

\* The length of a list is a number.
LEMMA ListLen == ASSUME NEW T, NEW u \in Lists(T) PROVE Len(u) \in Nat
BY DEF Lists

\* FlattenSeq() is a function of the sequences so far that is well defined.
LEMMA Flatten ==
  ASSUME NEW T, NEW n \in Nat \ {0}, NEW s \in [1 .. n -> Lists(T)]
  PROVE  \E f \in [1 .. n -> Lists(T)] :
            /\ FlattenSeq(s) = f[n]
            /\ f[1] = s[1]
            /\ \A i \in 2 .. n : f[i] = Cat(f[i - 1], s[i])
<1>1. Len(s) = n
  OBVIOUS
<1>. DEFINE Good(m, f) ==
              /\ f \in [1 .. m -> Lists(T)]
              /\ \A i \in 1 .. m : f[i] = IF i = 1 THEN s[i] ELSE Cat(f[i - 1], s[i])
            S == {m \in 1 .. n : \E f : Good(m, f)}
<1>3. 1 \in S
  <2>. DEFINE f == [i \in 1 .. 1 |-> s[1]]
  <2>1. Good(1, f)
    OBVIOUS
  <2>. HIDE DEF f
  <2>. QED BY <2>1
<1>4. ASSUME NEW m \in 1 .. n - 1, m \in S PROVE m + 1 \in S
  <2>1. PICK f : Good(m, f)
    BY <1>4
  <2>. DEFINE g == [i \in 1 .. m + 1 |-> IF i = m + 1 THEN Cat(f[m], s[m + 1]) ELSE f[i]]
  <2>2. f[m] \in Lists(T) /\ s[m + 1] \in Lists(T) /\ m + 1 \in 1 .. n
    BY <2>1
  <2>3. g[m + 1] = Cat(f[m], s[m + 1]) /\ \A i \in 1 .. m : g[i] = f[i] /\ f[i] \in Lists(T)
    BY <2>1
  <2>6. Cat(f[m], s[m + 1]) \in Lists(T)
    BY <2>2, Concat
  <2>4. g \in [1 .. m + 1 -> Lists(T)]
    <3>1. \A i \in 1 .. m + 1 : i = m + 1 \/ i \in 1 .. m
      OBVIOUS
    <3>2. \A i \in 1 .. m + 1 : g[i] \in Lists(T)
      BY <2>3, <2>6, <3>1, Zenon
    <3>3. g = [i \in 1 .. m + 1 |-> g[i]]
      OBVIOUS
    <3>. HIDE DEF g
    <3>. QED BY <3>2, <3>3
  <2>5. ASSUME NEW i \in 1 .. m + 1
        PROVE  g[i] = IF i = 1 THEN s[i] ELSE Cat(g[i - 1], s[i])
    <3>1. CASE i = m + 1
      BY <2>3, <3>1
    <3>2. CASE i \in 1 .. m
      <4>1. f[i] = IF i = 1 THEN s[i] ELSE Cat(f[i - 1], s[i])
        BY <2>1, <3>2
      <4>2. i # 1 => i - 1 \in 1 .. m
        BY <3>2
      <4>. QED BY <2>3, <3>2, <4>1, <4>2
    <3>. QED BY <3>1, <3>2
  <2>. HIDE DEF g
  <2>7. Good(m + 1, g)
    BY <2>4, <2>5
  <2>. QED BY <2>2, <2>7
<1>5. \E f : Good(n, f)
  <2>. HIDE DEF S
  <2>1. \A m \in 1 .. n : m \in S
    BY <1>3, <1>4, Upward
  <2>2. n \in S
    BY <2>1
  <2>. QED BY <2>2 DEF S
<1>. DEFINE Def(f) == f = [i \in 1 .. Len(s) |-> IF i = 1 THEN s[i] ELSE Cat(f[i - 1], s[i])]
            flatten == CHOOSE flatten : Def(flatten)
<1>6. FlattenSeq(s) = flatten[n]
  BY <1>1 DEF FlattenSeq, Cat
<1>7. Def(flatten)
  <2>1. PICK f : Good(n, f)
    BY <1>5
  <2>2. Def(f)
    BY <1>1, <2>1
  <2>. HIDE DEF Def
  <2>. QED BY <2>2
<1>. HIDE DEF flatten
<1>8. /\ flatten[1] = s[1]
      /\ \A i \in 2 .. n : flatten[i] = Cat(flatten[i - 1], s[i])
      /\ flatten = [i \in 1 .. n |-> flatten[i]]
  BY <1>1, <1>7
<1>9. \A m \in 1 .. n : flatten[m] \in Lists(T)
  <2>. DEFINE U == {m \in 1 .. n : flatten[m] \in Lists(T)}
  <2>1. 1 \in U
    BY <1>8
  <2>2. ASSUME NEW m \in 1 .. n - 1, m \in U PROVE m + 1 \in U
    <3>1. m + 1 \in 2 .. n /\ m + 1 \in 1 .. n /\ (m + 1) - 1 = m
      OBVIOUS
    <3>2. flatten[m + 1] = Cat(flatten[m], s[m + 1])
      BY <1>8, <3>1
    <3>3. flatten[m] \in Lists(T) /\ s[m + 1] \in Lists(T)
      BY <2>2, <3>1
    <3>4. Cat(flatten[m], s[m + 1]) \in Lists(T)
      BY <3>3, Concat, Zenon
    <3>. QED BY <3>1, <3>2, <3>4
  <2>. HIDE DEF U
  <2>3. \A m \in 1 .. n : m \in U
    BY <2>1, <2>2, Upward
  <2>. QED BY <2>3 DEF U
<1>10. flatten \in [1 .. n -> Lists(T)]
  BY <1>8, <1>9
<1>. QED BY <1>6, <1>8, <1>10

\* What FlattenSeq() makes of a sequence of sequences: offset[i] elements come
\* from the first i of them.
Offsets(offset, n, s, flat) ==
    /\ offset \in [0 .. n -> Nat] /\ offset[0] = 0
    /\ \A i \in 1 .. n : offset[i] = offset[i - 1] + Len(s[i])
    /\ \A i \in 0 .. n : offset[i] <= offset[n]
    /\ Len(flat) = offset[n]
    /\ \A i \in 1 .. n : \A k \in 1 .. Len(s[i]) : flat[offset[i - 1] + k] = s[i][k]

\* FlattenSeq() puts its pieces one after the other.
LEMMA FlattenOffsets ==
  ASSUME NEW T, NEW n \in Nat, NEW s \in [1 .. n -> Lists(T)]
  PROVE  /\ FlattenSeq(s) \in Lists(T)
         /\ \E offset : Offsets(offset, n, s, FlattenSeq(s))
<1>. DEFINE Goal(offset) ==
            /\ offset[0] = 0
            /\ \A i \in 1 .. n : offset[i] = offset[i - 1] + Len(s[i])
            /\ \A i \in 0 .. n : offset[i] <= offset[n]
            /\ FlattenSeq(s) \in Lists(T) /\ Len(FlattenSeq(s)) = offset[n]
            /\ \A i \in 1 .. n : \A k \in 1 .. Len(s[i]) :
                  FlattenSeq(s)[offset[i - 1] + k] = s[i][k]
<1>2. CASE n = 0
  <2>1. FlattenSeq(s) = s /\ s = <<>> /\ s \in Lists(T) /\ Len(s) = 0
    BY <1>2 DEF FlattenSeq, Lists
  <2>. DEFINE offset == [i \in 0 .. n |-> 0]
  <2>2. offset \in [0 .. n -> Nat] /\ \A i \in 0 .. n : offset[i] = 0
    OBVIOUS
  <2>. HIDE DEF offset
  <2>3. Goal(offset)
    BY <1>2, <2>1, <2>2
  <2>4. Offsets(offset, n, s, FlattenSeq(s)) /\ FlattenSeq(s) \in Lists(T)
    BY <2>2, <2>3 DEF Offsets
  <2>. QED BY <2>4
<1>3. CASE n # 0
  <2>1. PICK flatten \in [1 .. n -> Lists(T)] :
            /\ FlattenSeq(s) = flatten[n]
            /\ flatten[1] = s[1]
            /\ \A i \in 2 .. n : flatten[i] = Cat(flatten[i - 1], s[i])
    BY <1>3, Flatten
  <2>. DEFINE offset == [i \in 0 .. n |-> IF i = 0 THEN 0 ELSE Len(flatten[i])]
  <2>2. \A i \in 1 .. n : flatten[i] \in Lists(T) /\ s[i] \in Lists(T)
                           /\ Len(flatten[i]) \in Nat /\ Len(s[i]) \in Nat
    BY ListLen
  <2>3. /\ offset \in [0 .. n -> Nat] /\ offset[0] = 0
        /\ \A i \in 1 .. n : offset[i] = Len(flatten[i])
    BY <2>2
  <2>. HIDE DEF offset
  <2>4. ASSUME NEW i \in 2 .. n
        PROVE  /\ i \in 1 .. n /\ i - 1 \in 1 .. n
               /\ offset[i] = offset[i - 1] + Len(s[i])
               /\ \A k \in 1 .. offset[i - 1] : flatten[i][k] = flatten[i - 1][k]
               /\ \A k \in 1 .. Len(s[i]) : flatten[i][offset[i - 1] + k] = s[i][k]
    <3>1. i \in 1 .. n /\ i - 1 \in 1 .. n
      OBVIOUS
    <3>2. PICK u, v : u = flatten[i - 1] /\ v = s[i]
      OBVIOUS
    <3>3. /\ u \in Lists(T) /\ v \in Lists(T) /\ flatten[i] = Cat(u, v)
          /\ offset[i] = Len(Cat(u, v)) /\ offset[i - 1] = Len(u)
      BY <2>1, <2>2, <2>3, <3>1, <3>2
    <3>4. /\ Len(Cat(u, v)) = Len(u) + Len(v)
          /\ \A k \in 1 .. Len(u) : Cat(u, v)[k] = u[k]
          /\ \A k \in 1 .. Len(v) : Cat(u, v)[Len(u) + k] = v[k]
      <4>1. u \in Lists(T) /\ v \in Lists(T)
        BY <3>3
      <4>. QED BY <4>1, Concat
    <3>. QED BY <3>1, <3>2, <3>3, <3>4, Zenon
  <2>5. \A i \in 1 .. n : offset[i] = offset[i - 1] + Len(s[i])
    <3>1. offset[1] = offset[1 - 1] + Len(s[1])
      BY <1>3, <2>1, <2>2, <2>3
    <3>2. \A i \in 1 .. n : i = 1 \/ i \in 2 .. n
      OBVIOUS
    <3>. QED BY <2>4, <3>1, <3>2, Zenon
  \* What is in the first m of them stays where it is.
  <2>. DEFINE Placed(m) ==
              /\ \A i \in 0 .. m : offset[i] <= offset[m]
              /\ \A i \in 1 .. m : \A k \in 1 .. Len(s[i]) :
                    flatten[m][offset[i - 1] + k] = s[i][k]
            P == {m \in 1 .. n : Placed(m)}
  <2>6. 1 \in P
    <3>1. \A i \in 0 .. 1 : offset[i] <= offset[1]
      BY <1>3, <2>3
    <3>2. \A k \in 1 .. Len(s[1]) : flatten[1][offset[1 - 1] + k] = s[1][k]
      BY <1>3, <2>1, <2>2, <2>3
    <3>. QED BY <1>3, <3>1, <3>2
  <2>7. ASSUME NEW m \in 1 .. n - 1, m \in P PROVE m + 1 \in P
    <3>1. /\ m + 1 \in 2 .. n /\ m + 1 \in 1 .. n /\ (m + 1) - 1 = m /\ m \in 1 .. n
          /\ m \in 0 .. n /\ m + 1 \in 0 .. n
      OBVIOUS
    <3>2. /\ offset[m + 1] = offset[m] + Len(s[m + 1])
          /\ offset[m] \in Nat /\ offset[m + 1] \in Nat /\ Len(s[m + 1]) \in Nat
          /\ \A k \in 1 .. offset[m] : flatten[m + 1][k] = flatten[m][k]
          /\ \A k \in 1 .. Len(s[m + 1]) : flatten[m + 1][offset[m] + k] = s[m + 1][k]
      <4>1. /\ offset[m] \in Nat /\ offset[m + 1] \in Nat /\ Len(s[m + 1]) \in Nat
        BY <2>2, <2>3, <3>1
      <4>2. PICK j \in 2 .. n : j = m + 1 /\ j - 1 = m
        BY <3>1
      <4>3. /\ offset[j] = offset[j - 1] + Len(s[j])
            /\ \A k \in 1 .. offset[j - 1] : flatten[j][k] = flatten[j - 1][k]
            /\ \A k \in 1 .. Len(s[j]) : flatten[j][offset[j - 1] + k] = s[j][k]
        BY <2>4
      <4>. QED BY <4>1, <4>2, <4>3, Zenon
    <3>3. ASSUME NEW i \in 0 .. m + 1 PROVE offset[i] <= offset[m + 1]
      <4>1. CASE i \in 0 .. m
        <5>1. offset[i] <= offset[m] /\ offset[i] \in Nat
          BY <2>3, <2>7, <4>1
        <5>. QED BY <3>2, <5>1
      <4>2. CASE i = m + 1
        BY <3>2, <4>2
      <4>. QED BY <4>1, <4>2
    <3>4. ASSUME NEW i \in 1 .. m + 1, NEW k \in 1 .. Len(s[i])
          PROVE  flatten[m + 1][offset[i - 1] + k] = s[i][k]
      <4>1. CASE i = m + 1
        BY <3>1, <3>2, <4>1
      <4>2. CASE i \in 1 .. m
        <5>1. i \in 1 .. n /\ i - 1 \in 0 .. n /\ i \in 0 .. m
          BY <4>2
        <5>2. /\ offset[i] <= offset[m] /\ flatten[m][offset[i - 1] + k] = s[i][k]
              /\ offset[i] = offset[i - 1] + Len(s[i])
              /\ offset[i - 1] \in Nat /\ offset[i] \in Nat /\ Len(s[i]) \in Nat
          BY <2>2, <2>3, <2>5, <2>7, <4>2, <5>1
        <5>3. offset[i - 1] + k \in 1 .. offset[m]
          BY <3>2, <5>2, Within, Zenon
        <5>. QED BY <3>2, <5>2, <5>3
      <4>. QED BY <4>1, <4>2
    <3>. QED BY <3>1, <3>3, <3>4
  <2>8. n \in P
    <3>. HIDE DEF P
    <3>1. \A m \in 1 .. n : m \in P
      BY <2>6, <2>7, Upward
    <3>. QED BY <1>3, <3>1
  <2>9. Goal(offset)
    BY <1>3, <2>1, <2>2, <2>3, <2>5, <2>8
  <2>10. Offsets(offset, n, s, FlattenSeq(s)) /\ FlattenSeq(s) \in Lists(T)
    BY <2>3, <2>9 DEF Offsets
  <2>. QED BY <2>10
<1>. QED BY <1>2, <1>3

\* Offsets that do not decrease from one to the next do not decrease.
LEMMA Monotone ==
  ASSUME NEW n \in Nat, NEW o \in [0 .. n -> Nat], \A i \in 1 .. n : o[i - 1] <= o[i]
  PROVE  \A i, j \in 0 .. n : i <= j => o[i] <= o[j]
<1>1. ASSUME NEW i \in 0 .. n PROVE \A j \in i .. n : o[i] <= o[j]
  <2>. DEFINE P == {j \in i .. n : o[i] <= o[j]}
  <2>0. i \in Int /\ n \in Int
    OBVIOUS
  <2>1. i \in P
    OBVIOUS
  <2>2. ASSUME NEW j \in i .. n - 1, j \in P PROVE j + 1 \in P
    <3>1. j + 1 \in 1 .. n /\ (j + 1) - 1 = j /\ j \in 0 .. n /\ j + 1 \in 0 .. n /\ j + 1 \in i .. n
      OBVIOUS
    <3>2. o[j] <= o[j + 1] /\ o[i] \in Nat /\ o[j] \in Nat /\ o[j + 1] \in Nat /\ o[i] <= o[j]
      BY <2>2, <3>1
    <3>. QED BY <3>1, <3>2
  <2>. HIDE DEF P
  <2>3. \A j \in i .. n : j \in P
    BY <2>0, <2>1, <2>2, Upward
  <2>. QED BY <2>3 DEF P
<1>. QED BY <1>1

\* A function of the positions up to n is a list.
LEMMA IsList ==
  ASSUME NEW T, NEW n \in Nat, NEW s \in [1 .. n -> T]
  PROVE  s \in Lists(T) /\ Len(s) = n
BY DEF Lists

\* A part of a list, and a list of one element.
Slice(l, a, b) == SubSeq(l, a, b)

\* What a part of a list is, position by position.
LEMMA Part ==
  ASSUME NEW T, NEW l \in Lists(T), NEW a \in Int, NEW b \in Int,
         1 <= a, a <= b + 1, b <= Len(l)
  PROVE  /\ Slice(l, a, b) \in Lists(T) /\ Len(Slice(l, a, b)) = b - a + 1
         /\ \A i \in 1 .. b - a + 1 : Slice(l, a, b)[i] = l[a + i - 1]
<1>1. PICK n \in Nat : n = b - a + 1
  OBVIOUS
<1>2. \A i \in 1 .. n : a + i - 1 \in 1 .. Len(l)
  BY <1>1 DEF Lists
<1>3. \A i \in 1 .. n : l[a + i - 1] \in T
  <2>1. \A j \in 1 .. Len(l) : l[j] \in T
    BY DEF Lists
  <2>. QED BY <1>2, <2>1
<1>. DEFINE s == [i \in 1 .. n |-> l[a + i - 1]]
<1>4. Slice(l, a, b) = s
  BY <1>1 DEF Lists, Slice
<1>5. s \in [1 .. n -> T] /\ \A i \in 1 .. n : s[i] = l[a + i - 1]
  BY <1>3
<1>. HIDE DEF s
<1>6. s \in Lists(T) /\ Len(s) = n
  BY <1>5, IsList
<1>. QED BY <1>1, <1>4, <1>5, <1>6

\* A list of one element.
LEMMA Single ==
  ASSUME NEW T, NEW m \in T
  PROVE  <<m>> \in Lists(T) /\ Len(<<m>>) = 1 /\ <<m>>[1] = m
BY DEF Lists

\* Two lists with the same elements are the same.
LEMMA SameList ==
  ASSUME NEW T, NEW u \in Lists(T), NEW v \in Lists(T), Len(u) = Len(v),
         \A i \in 1 .. Len(u) : u[i] = v[i]
  PROVE  u = v
BY DEF Lists

\* The elements of a list.
LEMMA ListElements ==
  ASSUME NEW T, NEW u \in Lists(T)
  PROVE  Len(u) \in Nat /\ DOMAIN u = 1 .. Len(u) /\ \A i \in 1 .. Len(u) : u[i] \in T
BY DEF Lists

\* The empty list is a list.
LEMMA Empty == ASSUME NEW T PROVE <<>> \in Lists(T) /\ Len(<<>>) = 0
BY DEF Lists

\* Only the empty list has no elements.
LEMMA EmptyIs == ASSUME NEW T, NEW u \in Lists(T) PROVE Len(u) = 0 <=> u = <<>>
BY DEF Lists

\* What a concatenation, a list with an element in front, and a part are.
IsCat(w, u, v) ==
    /\ Len(w) = Len(u) + Len(v) /\ Len(u) \in Nat /\ Len(v) \in Nat
    /\ \A i \in 1 .. Len(u) : w[i] = u[i]
    /\ \A i \in 1 .. Len(v) : w[Len(u) + i] = v[i]

\* A concatenation is one.
LEMMA Joined ==
  ASSUME NEW T, NEW u \in Lists(T), NEW v \in Lists(T)
  PROVE  Cat(u, v) \in Lists(T) /\ IsCat(Cat(u, v), u, v)
BY DEF Lists, Cat, IsCat

Just(c) == <<c>>
IsInFront(w, c, v) ==
    /\ Len(w) = Len(v) + 1 /\ Len(v) \in Nat
    /\ w[1] = c /\ \A i \in 1 .. Len(v) : w[i + 1] = v[i]

\* A list with one element in front is one.
LEMMA InFront ==
  ASSUME NEW T, NEW c \in T, NEW v \in Lists(T)
  PROVE  Cat(Just(c), v) \in Lists(T) /\ IsInFront(Cat(Just(c), v), c, v)
<1>1. PICK u : u = Just(c) /\ u \in Lists(T) /\ Len(u) = 1 /\ u[1] = c
  BY Single DEF Just
<1>2. PICK w : w = Cat(u, v) /\ w \in Lists(T) /\ IsCat(w, u, v)
  BY <1>1, Joined
<1>3. w[1] = c /\ Len(w) = Len(v) + 1 /\ Len(v) \in Nat
  BY <1>1, <1>2 DEF IsCat
<1>4. ASSUME NEW i \in 1 .. Len(v) PROVE w[i + 1] = v[i]
  <2>1. w[Len(u) + i] = v[i] /\ Len(u) + i = i + 1
    BY <1>1, <1>2, <1>3 DEF IsCat
  <2>. QED BY <2>1
<1>. QED BY <1>1, <1>2, <1>3, <1>4 DEF IsInFront

IsSlice(w, u, a, b) ==
    Len(w) = b - a + 1 /\ \A i \in 1 .. b - a + 1 : w[i] = u[a + i - 1]

\* A part is one.
LEMMA Sliced ==
  ASSUME NEW T, NEW u \in Lists(T), NEW a \in Int, NEW b \in Int,
         1 <= a, a <= b + 1, b <= Len(u)
  PROVE  Slice(u, a, b) \in Lists(T) /\ IsSlice(Slice(u, a, b), u, a, b)
BY Part DEF IsSlice

\* A suffix is its first element and the rest.
LEMMA Suffix ==
  ASSUME NEW T, NEW u \in Lists(T), NEW a \in 1 .. Len(u)
  PROVE  Slice(u, a, Len(u)) = Cat(Just(u[a]), Slice(u, a + 1, Len(u)))
<1>0. Len(u) \in Nat /\ u[a] \in T
  BY ListElements
<1>1. PICK n \in Int : n = Len(u) /\ a \in 1 .. n
  BY <1>0
<1>2. PICK v : v = Slice(u, a, n) /\ v \in Lists(T) /\ IsSlice(v, u, a, n)
  <2>1. 1 <= a /\ a <= n + 1 /\ n <= Len(u)
    BY <1>1
  <2>. QED BY <1>1, <2>1, Sliced
<1>3. PICK b \in Int : b = a + 1
  OBVIOUS
<1>4. PICK w : w = Slice(u, b, n) /\ w \in Lists(T) /\ IsSlice(w, u, b, n)
  <2>1. 1 <= b /\ b <= n + 1 /\ n <= Len(u)
    BY <1>1, <1>3
  <2>. QED BY <1>1, <2>1, Sliced
<1>5. PICK x : x = Cat(Just(u[a]), w) /\ x \in Lists(T) /\ IsInFront(x, u[a], w)
  BY <1>0, <1>4, InFront
<1>6. Len(x) = Len(v) /\ Len(v) = n - a + 1 /\ Len(w) = n - b + 1
  <2>1. Len(v) = n - a + 1
    BY <1>2 DEF IsSlice
  <2>2. Len(w) = n - b + 1
    BY <1>4 DEF IsSlice
  <2>3. Len(x) = Len(w) + 1
    BY <1>5 DEF IsInFront
  <2>. QED BY <1>1, <1>3, <2>1, <2>2, <2>3
<1>7. ASSUME NEW i \in 1 .. Len(v) PROVE v[i] = x[i]
  <2>1. CASE i = 1
    <3>1. v[1] = u[a + 1 - 1] /\ a + 1 - 1 = a
      BY <1>1, <1>2 DEF IsSlice
    <3>. QED BY <1>5, <2>1, <3>1 DEF IsInFront
  <2>2. CASE i # 1
    <3>1. PICK j \in Int : j = i - 1 /\ j + 1 = i /\ j \in 1 .. Len(w) /\ j \in 1 .. n - b + 1
                           /\ i \in 1 .. n - a + 1 /\ b + j - 1 = a + i - 1
      BY <1>1, <1>3, <1>6, <2>2
    <3>2. x[j + 1] = w[j]
      BY <1>5, <3>1 DEF IsInFront
    <3>3. w[j] = u[b + j - 1]
      BY <1>4, <3>1 DEF IsSlice
    <3>4. v[i] = u[a + i - 1]
      BY <1>2, <3>1 DEF IsSlice
    <3>. QED BY <3>1, <3>2, <3>3, <3>4
  <2>. QED BY <2>1, <2>2
<1>8. v = x
  BY <1>2, <1>5, <1>6, <1>7, SameList
<1>. QED BY <1>1, <1>2, <1>3, <1>4, <1>5, <1>8

\* The suffix after the end is empty.
LEMMA SuffixEnd ==
  ASSUME NEW T, NEW u \in Lists(T)
  PROVE  Slice(u, Len(u) + 1, Len(u)) = <<>>
<1>1. PICK n \in Nat, a \in Int : n = Len(u) /\ a = n + 1
  BY ListLen
<1>2. Slice(u, a, n) \in Lists(T) /\ Len(Slice(u, a, n)) = 0
  <2>1. 1 <= a /\ a <= n + 1 /\ n <= Len(u) /\ n - a + 1 = 0
    BY <1>1
  <2>. QED BY <2>1, <1>1, Part
<1>3. PICK v : v = Slice(u, a, n) /\ v \in Lists(T) /\ Len(v) = 0
  BY <1>2
<1>4. v = <<>>
  BY <1>3, EmptyIs
<1>. QED BY <1>1, <1>3, <1>4

\* A list is a part of itself.
LEMMA WholeSlice ==
  ASSUME NEW T, NEW u \in Lists(T)
  PROVE  Slice(u, 1, Len(u)) = u
BY DEF Lists, Slice

---------------------------------------------------------------------------
(***************************************************************************)
(* Lists without their beginning, and lists of lists.                      *)
(***************************************************************************)

\* Concatenation is associative.
LEMMA CatCat ==
  ASSUME NEW T, NEW u \in Lists(T), NEW v \in Lists(T), NEW w \in Lists(T)
  PROVE  Cat(Cat(u, v), w) = Cat(u, Cat(v, w))
<1>1. PICK uv : uv = Cat(u, v) /\ uv \in Lists(T) /\ IsCat(uv, u, v)
  BY Joined
<1>2. PICK vw : vw = Cat(v, w) /\ vw \in Lists(T) /\ IsCat(vw, v, w)
  BY Joined
<1>3. PICK s : s = Cat(uv, w) /\ s \in Lists(T) /\ IsCat(s, uv, w)
  BY <1>1, Joined
<1>4. PICK t : t = Cat(u, vw) /\ t \in Lists(T) /\ IsCat(t, u, vw)
  BY <1>2, Joined
<1>5. PICK a \in Nat, b \in Nat, c \in Nat : a = Len(u) /\ b = Len(v) /\ c = Len(w)
  BY ListLen
<1>6. Len(uv) = a + b /\ Len(vw) = b + c /\ Len(s) = a + b + c /\ Len(t) = a + b + c
  BY <1>1, <1>2, <1>3, <1>4, <1>5 DEF IsCat
<1>7. ASSUME NEW i \in 1 .. a + b + c PROVE s[i] = t[i]
  <2>1. CASE i <= a
    <3>1. i \in 1 .. a /\ i \in 1 .. a + b
      BY <1>5, <2>1
    <3>2. s[i] = uv[i] /\ uv[i] = u[i] /\ t[i] = u[i]
      BY <1>1, <1>3, <1>4, <1>5, <1>6, <3>1 DEF IsCat
    <3>. QED BY <3>2
  <2>2. CASE a < i /\ i <= a + b
    <3>1. PICK j \in 1 .. b : i = a + j
      <4>1. i - a \in 1 .. b /\ i = a + (i - a)
        BY <1>5, <2>2
      <4>. QED BY <4>1
    <3>2. i \in 1 .. a + b /\ j \in 1 .. b + c
      BY <1>5, <2>2, <3>1
    <3>3. s[i] = uv[i] /\ uv[a + j] = v[j] /\ t[a + j] = vw[j] /\ vw[j] = v[j]
      BY <1>1, <1>2, <1>3, <1>4, <1>5, <1>6, <3>1, <3>2 DEF IsCat
    <3>. QED BY <3>1, <3>3
  <2>3. CASE a + b < i
    <3>1. PICK k \in 1 .. c : i = a + b + k
      <4>1. i - (a + b) \in 1 .. c /\ i = a + b + (i - (a + b))
        BY <1>5, <2>3
      <4>. QED BY <4>1
    <3>2. b + k \in 1 .. b + c /\ i = a + (b + k)
      BY <1>5, <3>1
    <3>3. s[a + b + k] = w[k] /\ t[a + (b + k)] = vw[b + k] /\ vw[b + k] = w[k]
      BY <1>1, <1>2, <1>3, <1>4, <1>5, <1>6, <3>1, <3>2 DEF IsCat
    <3>. QED BY <3>1, <3>2, <3>3
  <2>. QED BY <1>5, <2>1, <2>2, <2>3
<1>8. s = t
  BY <1>3, <1>4, <1>6, <1>7, SameList
<1>. QED BY <1>1, <1>2, <1>3, <1>4, <1>8

\* The empty list at either side.
LEMMA CatEmpty ==
  ASSUME NEW T, NEW u \in Lists(T)
  PROVE  Cat(u, <<>>) = u /\ Cat(<<>>, u) = u
<1>0. PICK e : e = <<>> /\ e \in Lists(T) /\ Len(e) = 0
  BY Empty
<1>1. PICK v : v = Cat(u, e) /\ v \in Lists(T) /\ IsCat(v, u, e)
  BY <1>0, Joined
<1>2. PICK w : w = Cat(e, u) /\ w \in Lists(T) /\ IsCat(w, e, u)
  BY <1>0, Joined
<1>3. PICK n \in Nat : n = Len(u)
  BY ListLen
<1>4. v = u
  <2>1. Len(v) = Len(u) /\ \A i \in 1 .. Len(v) : v[i] = u[i]
    BY <1>0, <1>1, <1>3 DEF IsCat
  <2>. QED BY <1>1, <2>1, SameList
<1>5. w = u
  <2>1. Len(w) = n
    BY <1>0, <1>2, <1>3 DEF IsCat
  <2>2. ASSUME NEW i \in 1 .. n PROVE w[i] = u[i]
    <3>1. w[0 + i] = u[i] /\ 0 + i = i
      BY <1>0, <1>2, <1>3 DEF IsCat
    <3>. QED BY <3>1
  <2>. QED BY <1>2, <1>3, <2>1, <2>2, SameList
<1>. QED BY <1>0, <1>1, <1>2, <1>4, <1>5

\* What is left of a list after its first elements.
Drop(u, a) == Slice(u, a + 1, Len(u))

IsDrop(v, u, n, a) == Len(v) = n - a /\ \A i \in 1 .. n - a : v[i] = u[a + i]

\* It is a list.
LEMMA DropIs ==
  ASSUME NEW T, NEW u \in Lists(T), NEW n \in Nat, n = Len(u), NEW a \in 0 .. n
  PROVE  Drop(u, a) \in Lists(T) /\ IsDrop(Drop(u, a), u, n, a)
<1>1. PICK b \in Int : b = a + 1 /\ 1 <= b /\ b <= n + 1 /\ n <= Len(u)
  OBVIOUS
<1>2. PICK v : v = Slice(u, b, n) /\ v \in Lists(T) /\ IsSlice(v, u, b, n)
  BY <1>1, Sliced
<1>3. n - b + 1 = n - a /\ \A i \in 1 .. n - a : b + i - 1 = a + i
  BY <1>1
<1>. QED BY <1>1, <1>2, <1>3 DEF IsSlice, Drop, IsDrop

\* The rest of a concatenation, if the first part is not over.
LEMMA DropCat ==
  ASSUME NEW T, NEW u \in Lists(T), NEW v \in Lists(T), NEW a \in 0 .. Len(u)
  PROVE  Drop(Cat(u, v), a) = Cat(Drop(u, a), v)
<1>1. PICK n \in Nat, m \in Nat : n = Len(u) /\ m = Len(v)
  BY ListLen
<1>2. PICK w : w = Cat(u, v) /\ w \in Lists(T) /\ IsCat(w, u, v)
  BY Joined
<1>3. Len(w) = n + m /\ a \in 0 .. n /\ a \in 0 .. n + m /\ n + m \in Nat
  BY <1>1, <1>2 DEF IsCat
<1>4. PICK x : x = Drop(w, a) /\ x \in Lists(T) /\ IsDrop(x, w, n + m, a)
  BY <1>2, <1>3, DropIs
<1>5. PICK y : y = Drop(u, a) /\ y \in Lists(T) /\ IsDrop(y, u, n, a)
  BY <1>1, <1>3, DropIs
<1>. USE DEF IsDrop
<1>6. PICK z : z = Cat(y, v) /\ z \in Lists(T) /\ IsCat(z, y, v)
  BY <1>5, Joined
<1>7. Len(z) = n + m - a
  BY <1>1, <1>3, <1>5, <1>6 DEF IsCat
<1>8. ASSUME NEW i \in 1 .. n + m - a PROVE x[i] = z[i]
  <2>1. CASE i <= n - a
    <3>1. i \in 1 .. n - a /\ a + i \in 1 .. n
      BY <1>3, <2>1
    <3>2. z[i] = y[i] /\ w[a + i] = u[a + i]
      BY <1>1, <1>2, <1>5, <1>6, <3>1 DEF IsCat
    <3>. QED BY <1>4, <1>5, <3>1, <3>2
  <2>2. CASE n - a < i
    <3>1. PICK j \in 1 .. m : i = (n - a) + j /\ a + i = n + j
      <4>1. i - (n - a) \in 1 .. m
        BY <1>1, <1>3, <2>2
      <4>2. i = (n - a) + (i - (n - a)) /\ a + i = n + (i - (n - a))
        BY <1>3
      <4>. QED BY <4>1, <4>2
    <3>2. z[(n - a) + j] = v[j] /\ w[n + j] = v[j]
      BY <1>1, <1>2, <1>5, <1>6, <3>1 DEF IsCat
    <3>. QED BY <1>4, <3>1, <3>2
  <2>. QED BY <1>3, <2>1, <2>2
<1>9. x = z
  BY <1>4, <1>6, <1>7, <1>8, SameList
<1>. QED BY <1>2, <1>4, <1>5, <1>6, <1>9

\* A piece that is taken from a list, and what is left then.
LEMMA DropSplit ==
  ASSUME NEW T, NEW u \in Lists(T), NEW n \in Nat, n = Len(u), NEW a \in 0 .. n, NEW b \in a .. n
  PROVE  /\ Slice(u, a + 1, b) \in Lists(T) /\ Len(Slice(u, a + 1, b)) = b - a
         /\ Drop(u, a) = Cat(Slice(u, a + 1, b), Drop(u, b))
<1>1. PICK c \in Int : c = a + 1 /\ 1 <= c /\ c <= b + 1 /\ b <= Len(u) /\ b \in 0 .. n
  OBVIOUS
<1>2. PICK v : v = Slice(u, c, b) /\ v \in Lists(T) /\ IsSlice(v, u, c, b)
  BY <1>1, Sliced
<1>3. Len(v) = b - a /\ \A i \in 1 .. b - a : v[i] = u[a + i]
  <2>1. b - c + 1 = b - a /\ \A i \in 1 .. b - a : c + i - 1 = a + i
    BY <1>1
  <2>. QED BY <1>2, <2>1 DEF IsSlice
<1>4. PICK x : x = Drop(u, a) /\ x \in Lists(T) /\ IsDrop(x, u, n, a)
  BY DropIs
<1>5. PICK y : y = Drop(u, b) /\ y \in Lists(T) /\ IsDrop(y, u, n, b)
  BY <1>1, DropIs
<1>. USE DEF IsDrop
<1>6. PICK z : z = Cat(v, y) /\ z \in Lists(T) /\ IsCat(z, v, y)
  BY <1>2, <1>5, Joined
<1>7. Len(z) = n - a
  BY <1>3, <1>5, <1>6 DEF IsCat
<1>8. ASSUME NEW i \in 1 .. n - a PROVE x[i] = z[i]
  <2>1. CASE i <= b - a
    <3>1. i \in 1 .. b - a
      BY <2>1
    <3>2. z[i] = v[i]
      BY <1>3, <1>6, <3>1 DEF IsCat
    <3>. QED BY <1>3, <1>4, <3>1, <3>2
  <2>2. CASE b - a < i
    <3>1. PICK j \in 1 .. n - b : i = (b - a) + j /\ a + i = b + j
      <4>1. i - (b - a) \in 1 .. n - b
        BY <2>2
      <4>2. i = (b - a) + (i - (b - a)) /\ a + i = b + (i - (b - a))
        OBVIOUS
      <4>. QED BY <4>1, <4>2
    <3>2. z[(b - a) + j] = y[j] /\ y[j] = u[b + j]
      BY <1>3, <1>5, <1>6, <3>1 DEF IsCat
    <3>. QED BY <1>4, <3>1, <3>2
  <2>. QED BY <2>1, <2>2
<1>9. x = z
  BY <1>4, <1>6, <1>7, <1>8, SameList
<1>. QED BY <1>1, <1>2, <1>3, <1>4, <1>5, <1>6, <1>9

\* A list is a function of its positions.
LEMMA AsFunction ==
  ASSUME NEW T, NEW u \in Lists(T), NEW n, n = Len(u)
  PROVE  u \in [1 .. n -> T]
BY DEF Lists

\* A list with one more.
LEMMA AppendIs ==
  ASSUME NEW T, NEW b \in Lists(T), NEW x \in T, NEW n \in Nat, n = Len(b)
  PROVE  /\ Append(b, x) \in Lists(T) /\ Append(b, x) \in [1 .. n + 1 -> T]
         /\ Append(b, x)[n + 1] = x /\ \A i \in 1 .. n : Append(b, x)[i] = b[i]
<1>1. Append(b, x) \in Seq(T) /\ Len(Append(b, x)) = n + 1
  BY DEF Lists
<1>2. Append(b, x)[n + 1] = x /\ \A i \in 1 .. n : Append(b, x)[i] = b[i]
  BY DEF Lists
<1>3. Append(b, x) \in [1 .. n + 1 -> T]
  <2>1. Append(b, x) \in Lists(T)
    BY <1>1 DEF Lists
  <2>. QED BY <1>1, <2>1, AsFunction
<1>. QED BY <1>1, <1>2, <1>3 DEF Lists

\* A list without its first.
LEMMA TailIs ==
  ASSUME NEW T, NEW b \in Lists(T), NEW n \in Nat, n = Len(b), n # 0
  PROVE  /\ Tail(b) \in Lists(T) /\ Tail(b) \in [1 .. n - 1 -> T] /\ Len(Tail(b)) = n - 1
         /\ \A i \in 1 .. n - 1 : Tail(b)[i] = b[i + 1]
         /\ Head(b) = b[1] /\ Head(b) \in T
<1>1. Tail(b) \in Seq(T) /\ Len(Tail(b)) = n - 1 /\ b # <<>>
  BY DEF Lists
<1>2. \A i \in 1 .. n - 1 : Tail(b)[i] = b[i + 1]
  BY <1>1 DEF Lists
<1>3. Tail(b) \in [1 .. n - 1 -> T]
  <2>1. Tail(b) \in Lists(T)
    BY <1>1 DEF Lists
  <2>. QED BY <1>1, <2>1, AsFunction
<1>4. Head(b) = b[1] /\ Head(b) \in T
  BY <1>1 DEF Lists
<1>. QED BY <1>1, <1>2, <1>3, <1>4 DEF Lists

\* Nothing is in no buffers, and a buffer at the end is at the end.
LEMMA FlatAppend ==
  ASSUME NEW T, NEW b \in Lists(Lists(T)), NEW x \in Lists(T)
  PROVE  /\ FlattenSeq(<<>>) = <<>> /\ FlattenSeq(b) \in Lists(T)
         /\ FlattenSeq(Append(b, x)) = Cat(FlattenSeq(b), x)
<1>1. FlattenSeq(<<>>) = <<>>
  BY DEF FlattenSeq
<1>2. PICK n \in Nat : n = Len(b) /\ DOMAIN b = 1 .. n /\ \A i \in 1 .. n : b[i] \in Lists(T)
  BY ListElements
<1>. DEFINE c == Append(b, x)
<1>3. /\ c \in [1 .. n + 1 -> Lists(T)] /\ c[n + 1] = x
      /\ \A i \in 1 .. n : c[i] = b[i]
  BY <1>2, AppendIs
<1>. HIDE DEF c
<1>9. c = Append(b, x) /\ n + 1 \in Nat \ {0}
  BY DEF c
<1>4. n = 0 => b = <<>>
  BY <1>2, EmptyIs
<1>5. b \in [1 .. n -> Lists(T)]
  BY <1>2 DEF Lists
<1>10. PICK k \in Nat \ {0} : k = n + 1
  OBVIOUS
<1>11. c \in [1 .. k -> Lists(T)]
  BY <1>3, <1>10
<1>12. PICK g \in [1 .. k -> Lists(T)] :
            /\ FlattenSeq(c) = g[k]
            /\ g[1] = c[1]
            /\ \A i \in 2 .. k : g[i] = Cat(g[i - 1], c[i])
  BY <1>11, Flatten
<1>6. /\ g \in [1 .. n + 1 -> Lists(T)]
      /\ FlattenSeq(c) = g[n + 1]
      /\ g[1] = c[1]
      /\ \A i \in 2 .. n + 1 : g[i] = Cat(g[i - 1], c[i])
  BY <1>10, <1>12
<1>7. CASE n = 0
  <2>1. FlattenSeq(c) = x
    BY <1>3, <1>6, <1>7
  <2>2. Cat(<<>>, x) = x
    BY CatEmpty
  <2>3. <<>> \in Lists(T)
    BY Empty
  <2>. QED BY <1>1, <1>9, <1>4, <1>7, <2>1, <2>2, <2>3
<1>8. CASE n # 0
  <2>1. n \in Nat \ {0}
    BY <1>8
  <2>2. PICK f \in [1 .. n -> Lists(T)] :
            /\ FlattenSeq(b) = f[n]
            /\ f[1] = b[1]
            /\ \A i \in 2 .. n : f[i] = Cat(f[i - 1], b[i])
    BY <1>5, <2>1, Flatten
  <2>. DEFINE S == {i \in 1 .. n : g[i] = f[i]}
  <2>3. 1 \in S
    BY <1>3, <1>6, <2>1, <2>2
  <2>4. ASSUME NEW i \in 1 .. n - 1, i \in S PROVE i + 1 \in S
    <3>1. i + 1 \in 2 .. n /\ i + 1 \in 2 .. n + 1 /\ i + 1 \in 1 .. n /\ (i + 1) - 1 = i
      BY <2>1
    <3>2. f[i + 1] = Cat(f[i], b[i + 1]) /\ g[i + 1] = Cat(g[i], c[i + 1])
      BY <1>6, <2>2, <3>1
    <3>. QED BY <1>3, <2>4, <3>1, <3>2
  <2>. HIDE DEF S
  <2>5. \A i \in 1 .. n : i \in S
    <3>1. 1 \in Int /\ n \in Int
      OBVIOUS
    <3>. QED BY <2>3, <2>4, <3>1, Upward
  <2>6. g[n] = f[n] /\ f[n] \in Lists(T)
    BY <2>1, <2>2, <2>5 DEF S
  <2>7. n + 1 \in 2 .. n + 1 /\ (n + 1) - 1 = n
    BY <2>1
  <2>8. g[n + 1] = Cat(g[n], x)
    BY <1>3, <1>6, <2>7
  <2>. QED BY <1>1, <1>9, <1>6, <2>2, <2>6, <2>8
<1>. QED BY <1>7, <1>8

\* The first buffer is in front of the others.
LEMMA FlatFirst ==
  ASSUME NEW T, NEW b \in Lists(Lists(T)), b # <<>>
  PROVE  /\ Head(b) \in Lists(T) /\ Tail(b) \in Lists(Lists(T))
         /\ FlattenSeq(b) = Cat(Head(b), FlattenSeq(Tail(b)))
<1>1. PICK n \in Nat : n = Len(b) /\ DOMAIN b = 1 .. n /\ \A i \in 1 .. n : b[i] \in Lists(T)
  BY ListElements
<1>2. n # 0
  BY <1>1, EmptyIs
<1>. DEFINE t == Tail(b)
            h == Head(b)
<1>3. /\ t \in Lists(Lists(T)) /\ Len(t) = n - 1 /\ t \in [1 .. n - 1 -> Lists(T)]
      /\ \A i \in 1 .. n - 1 : t[i] = b[i + 1]
  BY <1>1, <1>2, TailIs
<1>4. h = b[1] /\ h \in Lists(T)
  BY <1>1, <1>2, TailIs
<1>. HIDE DEF t, h
<1>9. t = Tail(b) /\ h = Head(b)
  BY DEF t, h
<1>5. b \in [1 .. n -> Lists(T)] /\ n \in Nat \ {0}
  BY <1>1, <1>2 DEF Lists
<1>6. PICK w \in [1 .. n -> Lists(T)] :
            /\ FlattenSeq(b) = w[n]
            /\ w[1] = b[1]
            /\ \A i \in 2 .. n : w[i] = Cat(w[i - 1], b[i])
  BY <1>5, Flatten
<1>7. CASE n = 1
  <2>1. t = <<>>
    BY <1>3, <1>7, EmptyIs
  <2>2. FlattenSeq(t) = <<>>
    BY <2>1, FlatAppend, Empty
  <2>3. Cat(h, <<>>) = h
    BY <1>4, CatEmpty
  <2>. QED BY <1>3, <1>9, <1>4, <1>6, <1>7, <2>2, <2>3
<1>8. CASE n # 1
  <2>1. PICK m \in Nat \ {0} : m = n - 1 /\ n = m + 1
    BY <1>5, <1>8
  <2>2. PICK g \in [1 .. m -> Lists(T)] :
            /\ FlattenSeq(t) = g[m]
            /\ g[1] = t[1]
            /\ \A i \in 2 .. m : g[i] = Cat(g[i - 1], t[i])
    <3>1. t \in [1 .. m -> Lists(T)]
      BY <1>3, <2>1
    <3>2. m \in Nat \ {0}
      BY <2>1
    <3>4. \A x \in [1 .. m -> Lists(T)] : \E g \in [1 .. m -> Lists(T)] :
            /\ FlattenSeq(x) = g[m]
            /\ g[1] = x[1]
            /\ \A i \in 2 .. m : g[i] = Cat(g[i - 1], x[i])
      BY <3>2, Flatten
    <3>3. \E g \in [1 .. m -> Lists(T)] :
            /\ FlattenSeq(t) = g[m]
            /\ g[1] = t[1]
            /\ \A i \in 2 .. m : g[i] = Cat(g[i - 1], t[i])
      BY <3>1, <3>4
    <3>. QED BY <3>3
  <2>. DEFINE S == {i \in 1 .. m : w[i + 1] = Cat(h, g[i])}
  <2>3. 1 \in S
    <3>1. 2 \in 2 .. n /\ 2 - 1 = 1 /\ 1 \in 1 .. m /\ 1 + 1 = 2
      BY <2>1
    <3>2. w[2] = Cat(w[1], b[2]) /\ t[1] = b[2]
      BY <1>3, <1>6, <2>1, <3>1
    <3>. QED BY <1>4, <1>6, <2>2, <3>1, <3>2
  <2>4. ASSUME NEW i \in 1 .. m - 1, i \in S PROVE i + 1 \in S
    <3>1. PICK j \in Int : j = i + 1 /\ j \in 2 .. m /\ j \in 1 .. m /\ j - 1 = i /\ j + 1 \in 2 .. n
                           /\ (j + 1) - 1 = j /\ j \in 1 .. n - 1 /\ i \in 1 .. m
      BY <2>1
    <3>2. w[j + 1] = Cat(w[j], b[j + 1]) /\ b[j + 1] = t[j]
      BY <1>3, <1>6, <3>1
    <3>3. w[j] = Cat(h, g[i])
      BY <2>4, <3>1
    <3>4. g[j] = Cat(g[i], t[j])
      BY <2>2, <3>1
    <3>5. g[i] \in Lists(T) /\ t[j] \in Lists(T)
      BY <1>3, <2>2, <3>1
    <3>6. Cat(Cat(h, g[i]), t[j]) = Cat(h, Cat(g[i], t[j]))
      BY <1>4, <3>5, CatCat
    <3>. QED BY <3>1, <3>2, <3>3, <3>4, <3>6
  <2>. HIDE DEF S
  <2>5. \A i \in 1 .. m : i \in S
    <3>1. 1 \in Int /\ m \in Int
      OBVIOUS
    <3>. QED BY <2>3, <2>4, <3>1, Upward
  <2>6. w[m + 1] = Cat(h, g[m])
    BY <2>1, <2>5 DEF S
  <2>. QED BY <1>3, <1>9, <1>4, <1>6, <2>1, <2>2, <2>6
<1>. QED BY <1>7, <1>8

=============================================================================
