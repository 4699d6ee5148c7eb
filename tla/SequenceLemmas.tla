--------------------------- MODULE SequenceLemmas ---------------------------
(***************************************************************************)
(* What the proofs about several parts of the system need of numbers,      *)
(* sequences and finite sets: induction over an interval, folds, orders,   *)
(* and the elements of a sequence that loses or takes some.                *)
(***************************************************************************)
EXTENDS Integers, Sequences, FiniteSets, SequencesExt, SequenceTheorems, FiniteSetTheorems,
        WellFoundedInduction, TLAPS

-----------------------------------------------------------------------------
(* Induction over an interval, folds, and sets in an order. *)
\* What holds of 0, and of each number up to n with the one before it, holds up to n.
LEMMA CountUp ==
    ASSUME NEW n \in Nat, NEW P, 0 \in P, \A i \in 1..n : i - 1 \in P => i \in P
    PROVE  0..n \subseteq P
<1> DEFINE D == 0..n
           Bad == {S \in SUBSET D : \E i \in D : i \notin P /\ S = 0..(i - 1)}
<1>1. SUFFICES ASSUME NEW k \in D, k \notin P PROVE FALSE
  OBVIOUS
<1>2. 0..(k - 1) \in Bad
  <2>1. 0..(k - 1) \subseteq D
    OBVIOUS
  <2> HIDE DEF D
  <2> QED
    BY <1>1, <2>1
<1>3. IsFiniteSet(D)
  BY FS_Interval
<1>4. IsWellFoundedOn(StrictSubsetOrdering(D), SUBSET D)
  BY <1>3, FS_StrictSubsetOrderingWellFounded, FS_FiniteSubsetsOfFinite
<1>5. PICK S \in Bad : \A U \in Bad : ~(<<U, S>> \in StrictSubsetOrdering(D))
  <2>1. Bad \subseteq SUBSET D
    OBVIOUS
  <2> HIDE DEF Bad, D
  <2> QED
    BY <1>2, <1>4, <2>1, WFMin
<1>6. PICK i \in D : i \notin P /\ S = 0..(i - 1)
  OBVIOUS
<1>7. i \in 1..n
  BY <1>6
<1>8. i - 1 \notin P
  BY <1>6, <1>7
<1>9. i - 1 \in D
  BY <1>7
<1>10. 0..(i - 2) \in Bad
  <2>1. 0..(i - 2) = 0..((i - 1) - 1) /\ 0..(i - 2) \in SUBSET D
    BY <1>7
  <2> QED
    BY <1>8, <1>9, <2>1
<1>11. <<0..(i - 2), S>> \in StrictSubsetOrdering(D)
  <2>1. 0..(i - 2) \subseteq S /\ i - 1 \in S /\ i - 1 \notin 0..(i - 2)
    BY <1>6, <1>7
  <2>2. S \in SUBSET D /\ 0..(i - 2) \in SUBSET D
    BY <1>5, <1>10
  <2> HIDE DEF D, Bad
  <2> QED
    BY <2>1, <2>2 DEF StrictSubsetOrdering
<1> QED
  BY <1>5, <1>10, <1>11

\* f folds the steps up to n, each of its number and what the one before it made, over T from base.
Stepping(n, T) == [T \X (1..n) -> T]
Folding(f, n, T, base, step) == f \in [0..n -> T] /\ f[0] = base /\ \A i \in 1..n : f[i] = step[<<f[i - 1], i>>]

\* There is a fold of every such steps.
LEMMA FoldExists ==
    ASSUME NEW n \in Nat, NEW T, NEW base \in T, NEW step \in Stepping(n, T)
    PROVE  \E f : Folding(f, n, T, base, step)
<1> USE DEF Stepping, Folding
<1> DEFINE Fold(f, k) == f \in [0..k -> T] /\ f[0] = base /\ \A i \in 1..k : f[i] = step[<<f[i - 1], i>>]
           P == {k \in 0..n : \E f : Fold(f, k)}
<1>1. 0 \in P
  <2> DEFINE g == [i \in 0..0 |-> base]
  <2>1. Fold(g, 0)
    OBVIOUS
  <2>2. 0 \in 0..n
    OBVIOUS
  <2> HIDE DEF g
  <2> QED
    BY <2>1, <2>2
<1>2. ASSUME NEW k \in 1..n, k - 1 \in P PROVE k \in P
  <2>1. PICK f : Fold(f, k - 1)
    BY <1>2
  <2> DEFINE g == [i \in 0..k |-> IF i = k THEN step[<<f[k - 1], k>>] ELSE f[i]]
  <2>2. k - 1 \in 0..(k - 1) /\ f[k - 1] \in T
    BY <2>1
  <2>3. step[<<f[k - 1], k>>] \in T
    BY <2>2
  <2>4. \A i \in 0..(k - 1) : i \in 0..k /\ i # k /\ g[i] = f[i] /\ f[i] \in T
    BY <2>1
  <2>5. g[k] = step[<<f[k - 1], k>>]
    OBVIOUS
  <2>6. g \in [0..k -> T]
    <3>1. ASSUME NEW i \in 0..k PROVE (IF i = k THEN step[<<f[k - 1], k>>] ELSE f[i]) \in T
      <4>1. i = k \/ i \in 0..(k - 1)
        OBVIOUS
      <4> QED
        BY <2>3, <2>4, <4>1
    <3> QED
      BY <3>1
  <2>7. g[0] = base
    BY <2>1, <2>4
  <2>8. ASSUME NEW i \in 1..k PROVE g[i] = step[<<g[i - 1], i>>]
    <3>1. g[i - 1] = f[i - 1]
      BY <2>4
    <3>2. CASE i = k
      BY <2>5, <3>1, <3>2
    <3>3. CASE i # k
      <4>1. i \in 1..(k - 1) /\ i \in 0..(k - 1)
        BY <3>3
      <4>2. f[i] = step[<<f[i - 1], i>>]
        BY <2>1, <4>1
      <4> QED
        BY <2>4, <3>1, <4>1, <4>2
    <3> QED
      BY <3>2, <3>3
  <2> HIDE DEF g
  <2>9. Fold(g, k)
    BY <2>6, <2>7, <2>8
  <2> QED
    BY <2>9
<1>3. n \in P
  <2> HIDE DEF P
  <2> QED
    BY <1>1, <1>2, CountUp
<1> QED
  BY <1>3

\* R orders S: of two one comes before the other, and what comes before comes before what follows.
Orders(R, S) ==
    /\ \A a, b \in S : a # b => <<a, b>> \in R \/ <<b, a>> \in R
    /\ \A a, b, c \in S : <<a, b>> \in R /\ <<b, c>> \in R => <<a, c>> \in R
\* The members of T one after the other.
InOrder(R, T, rs) ==
    rs \in [1..Cardinality(T) -> T] /\ \A i, j \in 1..Cardinality(T) : i < j => <<rs[i], rs[j]>> \in R

\* A finite set that R orders has a last element.
LEMMA LastExists ==
    ASSUME NEW R, NEW S, IsFiniteSet(S), Orders(R, S), S # {}
    PROVE  \E m \in S : \A q \in S \ {m} : <<q, m>> \in R
<1> DEFINE Bad == {T \in SUBSET S : T # {} /\ ~\E m \in T : \A q \in T \ {m} : <<q, m>> \in R}
<1>0. /\ \A a, b \in S : a # b => <<a, b>> \in R \/ <<b, a>> \in R
      /\ \A a, b, c \in S : <<a, b>> \in R /\ <<b, c>> \in R => <<a, c>> \in R
  BY DEF Orders
<1>1. IsFiniteSet(S)
  OBVIOUS
<1>2. SUFFICES ASSUME Bad # {} PROVE FALSE
  OBVIOUS
<1>3. IsWellFoundedOn(StrictSubsetOrdering(S), SUBSET S)
  BY <1>1, FS_StrictSubsetOrderingWellFounded, FS_FiniteSubsetsOfFinite
<1>4. PICK T \in Bad : \A U \in Bad : ~(<<U, T>> \in StrictSubsetOrdering(S))
  <2>1. Bad \subseteq SUBSET S
    OBVIOUS
  <2> HIDE DEF Bad
  <2> QED
    BY <1>2, <1>3, <2>1, WFMin
<1>5. PICK t \in T : TRUE
  OBVIOUS
<1>6. T \ {t} \notin Bad
  <2>1. <<T \ {t}, T>> \in StrictSubsetOrdering(S)
    BY DEF StrictSubsetOrdering
  <2> QED
    BY <1>4, <2>1
<1>7. CASE T \ {t} = {}
  BY <1>7
<1>8. CASE T \ {t} # {}
  <2>1. PICK m \in T \ {t} : \A q \in (T \ {t}) \ {m} : <<q, m>> \in R
    BY <1>6, <1>8
  <2>2. CASE <<t, m>> \in R
    <3>1. \A q \in T \ {m} : <<q, m>> \in R
      BY <2>1, <2>2
    <3> QED
      BY <2>1, <3>1
  <2>3. CASE <<m, t>> \in R
    <3>1. ASSUME NEW q \in T \ {t} PROVE <<q, t>> \in R
      <4>1. q = m \/ <<q, m>> \in R
        BY <2>1
      <4> QED
        BY <2>3, <4>1, <1>0
    <3> QED
      BY <3>1
  <2> QED
    BY <2>1, <2>2, <2>3, <1>0
<1> QED
  BY <1>7, <1>8

\* A finite set that R orders can be listed in that order.
LEMMA OrderExists ==
    ASSUME NEW R, NEW S, IsFiniteSet(S), Orders(R, S)
    PROVE  \E rs : InOrder(R, S, rs)
<1> DEFINE Bad == {T \in SUBSET S : ~\E rs : InOrder(R, T, rs)}
<1>1. IsFiniteSet(S)
  OBVIOUS
<1>2. SUFFICES ASSUME Bad # {} PROVE FALSE
  OBVIOUS
<1>3. IsWellFoundedOn(StrictSubsetOrdering(S), SUBSET S)
  BY <1>1, FS_StrictSubsetOrderingWellFounded, FS_FiniteSubsetsOfFinite
<1>4. PICK T \in Bad : \A U \in Bad : ~(<<U, T>> \in StrictSubsetOrdering(S))
  <2>1. Bad \subseteq SUBSET S
    OBVIOUS
  <2> HIDE DEF Bad
  <2> QED
    BY <1>2, <1>3, <2>1, WFMin
<1>5. T # {}
  <2>1. SUFFICES ASSUME T = {} PROVE InOrder(R, T, [i \in 1..0 |-> i])
    OBVIOUS
  <2>2. Cardinality(T) = 0
    BY <2>1, FS_EmptySet
  <2> QED
    BY <2>2 DEF InOrder
<1>6. PICK m \in T : \A q \in T \ {m} : <<q, m>> \in R
  <2>1. T \in SUBSET S /\ IsFiniteSet(T)
    BY <1>1, FS_Subset
  <2>2. Orders(R, T)
    BY <2>1 DEF Orders
  <2> QED
    BY <1>5, <2>1, <2>2, LastExists
<1>7. PICK rs : InOrder(R, T \ {m}, rs)
  <2>1. <<T \ {m}, T>> \in StrictSubsetOrdering(S)
    BY DEF StrictSubsetOrdering
  <2>2. T \ {m} \notin Bad
    BY <1>4, <2>1
  <2> QED
    BY <2>2
<1> DEFINE n == Cardinality(T)
<1>8. n \in Nat /\ Cardinality(T \ {m}) = n - 1 /\ n >= 1
  <2>1. IsFiniteSet(T)
    BY <1>1, FS_Subset
  <2>2. Cardinality(T \ {m}) = Cardinality(T) - 1 /\ IsFiniteSet(T \ {m})
    BY <2>1, FS_RemoveElement
  <2>3. Cardinality(T) \in Nat /\ Cardinality(T \ {m}) \in Nat
    BY <2>1, <2>2, FS_CardinalityType
  <2> QED
    BY <2>2, <2>3
<1> DEFINE more == [i \in 1..n |-> IF i = n THEN m ELSE rs[i]]
<1>9. InOrder(R, T, more)
  <2> HIDE DEF n
  <2>1. rs \in [1..(n - 1) -> T \ {m}] /\ \A i, j \in 1..(n - 1) : i < j => <<rs[i], rs[j]>> \in R
    BY <1>7, <1>8 DEF InOrder
  <2>2. more \in [1..n -> T]
    <3>1. ASSUME NEW i \in 1..n PROVE (IF i = n THEN m ELSE rs[i]) \in T
      <4>1. CASE i = n
        BY <4>1
      <4>2. CASE i # n
        <5>1. i \in 1..(n - 1)
          BY <1>8, <4>2
        <5> QED
          BY <2>1, <4>2, <5>1
      <4> QED
        BY <4>1, <4>2
    <3> QED
      BY <3>1
  <2>3. ASSUME NEW i \in 1..n, NEW j \in 1..n, i < j PROVE <<more[i], more[j]>> \in R
    <3>1. i \in 1..(n - 1) /\ more[i] = rs[i]
      BY <1>8, <2>3
    <3>2. CASE j = n
      BY <1>6, <2>1, <3>1, <3>2
    <3>3. CASE j # n
      <4>1. j \in 1..(n - 1) /\ more[j] = rs[j]
        BY <1>8, <3>3
      <4> QED
        BY <2>1, <2>3, <3>1, <4>1
    <3> QED
      BY <3>2, <3>3
  <2> HIDE DEF more
  <2> QED
    BY <2>2, <2>3 DEF InOrder, n
<1> QED
  BY <1>9

\* A finite set of numbers that is not empty has a smallest and a largest.
LEMMA ExtremesExist ==
    ASSUME NEW S \in SUBSET Nat, IsFiniteSet(S), S # {}
    PROVE  /\ Min(S) \in S /\ \A x \in S : Min(S) <= x
           /\ Max(S) \in S /\ \A x \in S : x <= Max(S)
<1> DEFINE Up == {p \in S \X S : p[1] < p[2]}
           Down == {p \in S \X S : p[2] < p[1]}
<1>0. \A a \in S : a \in Nat
  OBVIOUS
<1>1. Orders(Up, S) /\ Orders(Down, S)
  <2>1. ASSUME NEW a \in S, NEW b \in S
        PROVE  /\ <<a, b>> \in Up <=> a < b
               /\ <<a, b>> \in Down <=> b < a
    OBVIOUS
  <2> HIDE DEF Up, Down
  <2> QED
    BY <1>0, <2>1 DEF Orders
<1>2. \E m \in S : \A q \in S \ {m} : <<q, m>> \in Up
  <2>1. Orders(Up, S)
    BY <1>1
  <2> HIDE DEF Up, Down
  <2>2. \A T : IsFiniteSet(T) /\ Orders(Up, T) /\ T # {} => \E m \in T : \A q \in T \ {m} : <<q, m>> \in Up
    BY LastExists
  <2> QED
    BY <2>1, <2>2, Zenon
<1>3. \E m \in S : \A q \in S \ {m} : <<q, m>> \in Down
  <2>1. Orders(Down, S)
    BY <1>1
  <2> HIDE DEF Up, Down
  <2>2. \A T : IsFiniteSet(T) /\ Orders(Down, T) /\ T # {} => \E m \in T : \A q \in T \ {m} : <<q, m>> \in Down
    BY LastExists
  <2> QED
    BY <2>1, <2>2, Zenon
<1>4. \E m \in S : \A x \in S : m >= x
  <2>1. PICK m \in S : \A q \in S \ {m} : <<q, m>> \in Up
    BY <1>2, Zenon
  <2>2. ASSUME NEW x \in S PROVE m >= x
    <3>1. CASE x = m
      BY <1>0, <3>1
    <3>2. CASE x # m
      <4>1. <<x, m>> \in Up
        BY <2>1, <3>2
      <4> QED
        BY <1>0, <4>1
    <3> QED
      BY <3>1, <3>2
  <2> QED
    BY <2>2
<1>5. \E m \in S : \A x \in S : m <= x
  <2>1. PICK m \in S : \A q \in S \ {m} : <<q, m>> \in Down
    BY <1>3, Zenon
  <2>2. ASSUME NEW x \in S PROVE m <= x
    <3>1. CASE x = m
      BY <1>0, <3>1
    <3>2. CASE x # m
      <4>1. <<x, m>> \in Down
        BY <2>1, <3>2
      <4> QED
        BY <1>0, <4>1
    <3> QED
      BY <3>1, <3>2
  <2> QED
    BY <2>2
<1>6. Max(S) \in S /\ \A x \in S : Max(S) >= x
  BY <1>4 DEF Max
<1>7. Min(S) \in S /\ \A x \in S : Min(S) <= x
  BY <1>5 DEF Min
<1>8. Max(S) \in Nat
  BY <1>0, <1>6
<1> QED
  BY <1>0, <1>6, <1>7, <1>8

-----------------------------------------------------------------------------
(* The elements of a sequence. *)
\* Sequences of at most n elements.
LEMMA BoundedSeqIs ==
    ASSUME NEW S, NEW n \in Nat, NEW t
    PROVE  t \in BoundedSeq(S, n) <=> t \in Seq(S) /\ Len(t) <= n
<1>1. ASSUME t \in BoundedSeq(S, n) PROVE t \in Seq(S) /\ Len(t) <= n
  <2>1. PICK m \in 0..n : t \in [1..m -> S]
    BY <1>1 DEF BoundedSeq, SeqOf
  <2> QED
    BY <2>1, SeqDef, LenProperties
<1>2. ASSUME t \in Seq(S), Len(t) <= n PROVE t \in BoundedSeq(S, n)
  BY <1>2, LenProperties DEF BoundedSeq, SeqOf
<1> QED
  BY <1>1, <1>2

\* The elements of a sequence are those at its places.
LEMMA ToSetOfSeq ==
    ASSUME NEW T, NEW q \in Seq(T) PROVE ToSet(q) = {q[i] : i \in 1..Len(q)} /\ ToSet(q) \subseteq T
<1>1. DOMAIN q = 1..Len(q) /\ \A i \in 1..Len(q) : q[i] \in T
  BY LenProperties, ElementOfSeq
<1> QED
  BY <1>1 DEF ToSet

\* What stands at a place of a sequence is one of its elements.
LEMMA MemberAt == ASSUME NEW T, NEW q \in Seq(T), NEW i \in 1..Len(q) PROVE q[i] \in ToSet(q)
BY ToSetOfSeq

\* The first elements of a sequence, one after the other.
LEMMA PrefixIs ==
    ASSUME NEW T, NEW q \in Seq(T)
    PROVE  /\ SubSeq(q, 1, 0) = <<>> /\ SubSeq(q, 1, Len(q)) = q
           /\ \A i \in 1..Len(q) : SubSeq(q, 1, i) = Append(SubSeq(q, 1, i - 1), q[i])
           /\ \A i \in 0..Len(q) : SubSeq(q, 1, i) \in Seq(T)
<1> DEFINE n == Len(q)
<1>1. n \in Nat /\ \A i \in 1..n : q[i] \in T
  BY LenProperties, ElementOfSeq
<1>2. ASSUME NEW i \in 0..n PROVE SubSeq(q, 1, i) = [j \in 1..i |-> q[j]] /\ SubSeq(q, 1, i) \in Seq(T)
  <2> HIDE DEF n
  <2>1. \A j \in 1..i : q[j] \in T
    BY <1>1
  <2>2. SubSeq(q, 1, i) \in Seq(T) /\ Len(SubSeq(q, 1, i)) = i /\ \A j \in 1..i : SubSeq(q, 1, i)[j] = q[j]
    BY <1>1, <2>1, SubSeqProperties
  <2> DEFINE u == SubSeq(q, 1, i)
  <2>3. u \in Seq(T) /\ Len(u) = i /\ \A j \in 1..i : u[j] = q[j]
    BY <2>2
  <2> HIDE DEF u
  <2>4. u = [j \in 1..i |-> u[j]]
    <3>1. DOMAIN u = 1..i /\ u \in [1..Len(u) -> T]
      BY <2>3, LenProperties
    <3> QED
      BY <3>1
  <2>5. u = [j \in 1..i |-> q[j]]
    BY <2>3, <2>4
  <2> QED
    BY <2>3, <2>5 DEF u
<1>3. ASSUME NEW i \in 1..n PROVE SubSeq(q, 1, i) = Append(SubSeq(q, 1, i - 1), q[i])
  <2> DEFINE u == SubSeq(q, 1, i - 1)
             w == Append(u, q[i])
  <2>1. i - 1 \in 0..n /\ i \in 0..n
    OBVIOUS
  <2>2. u = [j \in 1..(i - 1) |-> q[j]] /\ u \in Seq(T)
    BY <1>2, <2>1
  <2>3. Len(u) = i - 1
    <3>1. DOMAIN u = 1..(i - 1) /\ i - 1 \in Nat /\ DOMAIN u = 1..Len(u) /\ Len(u) \in Nat
      BY <2>1, <2>2, LenProperties
    <3> HIDE DEF u
    <3> QED
      BY <3>1
  <2> HIDE DEF u
  <2>4. w \in Seq(T) /\ Len(w) = i /\ w[i] = q[i] /\ \A j \in 1..(i - 1) : w[j] = u[j]
    BY <1>1, <2>2, <2>3, AppendProperties
  <2> HIDE DEF w
  <2>5. \A j \in 1..i : j \in 1..(i - 1) \/ j = i
    OBVIOUS
  <2>6. w = [j \in 1..i |-> w[j]]
    <3>1. w \in [1..Len(w) -> T]
      BY <2>4, LenProperties
    <3> QED
      BY <2>4, <3>1
  <2>7. \A j \in 1..i : w[j] = q[j]
    BY <2>2, <2>4, <2>5
  <2>8. w = [j \in 1..i |-> q[j]]
    BY <2>6, <2>7
  <2> QED
    BY <1>2, <2>1, <2>8 DEF w, u
<1>4. SubSeq(q, 1, n) = q
  BY SubSeqFull
<1>5. SubSeq(q, 1, 0) = <<>>
  <2>1. 0 \in 0..n
    BY <1>1
  <2>2. SubSeq(q, 1, 0) \in Seq(T) /\ SubSeq(q, 1, 0) = [j \in 1..0 |-> q[j]]
    BY <1>2, <2>1
  <2> DEFINE u == SubSeq(q, 1, 0)
  <2>3. DOMAIN u = 1..0 /\ DOMAIN u = 1..Len(u) /\ Len(u) \in Nat
    BY <2>2, LenProperties
  <2> HIDE DEF u
  <2>4. Len(u) = 0
    BY <2>3
  <2> QED
    BY <2>2, <2>4, EmptySeq DEF u
<1> QED
  BY <1>2, <1>3, <1>4, <1>5

\* The elements of two sequences in a row.
LEMMA ToSetOfConcat ==
    ASSUME NEW T, NEW p \in Seq(T), NEW q \in Seq(T)
    PROVE  p \o q \in Seq(T) /\ ToSet(p \o q) = ToSet(p) \cup ToSet(q) /\ Len(p \o q) = Len(p) + Len(q)
<1> DEFINE m == Len(p)
           n == Len(q)
           s == p \o q
<1>1. m \in Nat /\ n \in Nat
  BY LenProperties
<1>2. /\ s \in Seq(T) /\ Len(s) = m + n
      /\ \A i \in 1..(m + n) : s[i] = IF i <= m THEN p[i] ELSE q[i - m]
  BY ConcatProperties
<1>3. ToSet(p) = {p[i] : i \in 1..m} /\ ToSet(q) = {q[i] : i \in 1..n} /\ ToSet(s) = {s[i] : i \in 1..(m + n)}
  BY <1>2, ToSetOfSeq
<1> HIDE DEF m, n, s
<1>4. ToSet(s) \subseteq ToSet(p) \cup ToSet(q)
  <2>1. ASSUME NEW i \in 1..(m + n) PROVE s[i] \in ToSet(p) \cup ToSet(q)
    <3>1. CASE i <= m
      BY <1>1, <1>2, <1>3, <3>1
    <3>2. CASE ~(i <= m)
      <4>1. i - m \in 1..n /\ s[i] = q[i - m]
        BY <1>1, <1>2, <3>2
      <4> QED
        BY <1>3, <4>1
    <3> QED
      BY <3>1, <3>2
  <2> QED
    BY <1>3, <2>1
<1>5. ASSUME NEW i \in 1..m PROVE p[i] \in ToSet(s)
  BY <1>1, <1>2, <1>3
<1>6. ASSUME NEW i \in 1..n PROVE q[i] \in ToSet(s)
  <2>1. m + i \in 1..(m + n) /\ ~(m + i <= m) /\ m + i - m = i
    BY <1>1
  <2> DEFINE k == m + i
  <2>2. k \in 1..(m + n) /\ ~(k <= m) /\ k - m = i
    BY <1>1
  <2> HIDE DEF k
  <2>3. s[k] = q[i]
    <3>1. s[k] = IF k <= m THEN p[k] ELSE q[k - m]
      BY <1>2, <2>2
    <3> QED
      BY <2>2, <3>1
  <2> QED
    BY <1>3, <2>2, <2>3
<1> QED
  BY <1>2, <1>3, <1>4, <1>5, <1>6 DEF m, n, s

\* The first element and the others.
LEMMA ToSetOfTail ==
    ASSUME NEW T, NEW q \in Seq(T), q # <<>>
    PROVE  Tail(q) \in Seq(T) /\ ToSet(Tail(q)) \subseteq ToSet(q) /\ Head(q) \in ToSet(q) /\ Head(q) \in T
           /\ Len(Tail(q)) = Len(q) - 1
<1>1. /\ Head(q) \in T /\ Tail(q) \in Seq(T) /\ Len(Tail(q)) = Len(q) - 1
      /\ \A i \in 1..Len(Tail(q)) : Tail(q)[i] = q[i + 1]
  BY HeadTailProperties
<1>2. Len(q) \in Nat /\ Len(q) >= 1 /\ Head(q) = q[1]
  BY LenProperties, EmptySeq
<1>3. ToSet(q) = {q[i] : i \in 1..Len(q)}
  BY ToSetOfSeq
<1>4. ToSet(Tail(q)) = {Tail(q)[i] : i \in 1..Len(Tail(q))}
  BY <1>1, ToSetOfSeq
<1> DEFINE n == Len(q)
           t == Tail(q)
<1>5. ASSUME NEW i \in 1..(n - 1) PROVE t[i] \in ToSet(q)
  <2>1. i + 1 \in 1..n /\ t[i] = q[i + 1]
    BY <1>1, <1>2
  <2> QED
    BY <1>3, <2>1
<1> QED
  BY <1>1, <1>2, <1>3, <1>4, <1>5

-----------------------------------------------------------------------------
(* Sequences that lose or take an element. *)
\* Without the element at a place: those behind it come forward.
LEMMA RemovedAt ==
    ASSUME NEW S, NEW s \in Seq(S), NEW i \in 1..Len(s)
    PROVE  /\ RemoveAt(s, i) \in Seq(S) /\ Len(RemoveAt(s, i)) = Len(s) - 1
           /\ \A k \in 1..(Len(s) - 1) : RemoveAt(s, i)[k] = IF k < i THEN s[k] ELSE s[k + 1]
<1> DEFINE n == Len(s)
           u == SubSeq(s, 1, i - 1)
           w == SubSeq(s, i + 1, n)
<1>1. n \in Nat /\ \A k \in 1..n : s[k] \in S
  BY LenProperties, ElementOfSeq
<1>2. u \in Seq(S) /\ Len(u) = i - 1 /\ \A k \in 1..(i - 1) : u[k] = s[k]
  <2> HIDE DEF n
  <2>1. \A k \in 1..(i - 1) : s[k] \in S
    BY <1>1 DEF n
  <2> QED
    BY <1>1, <2>1, SubSeqProperties
<1>3. w \in Seq(S) /\ Len(w) = n - i /\ \A k \in 1..(n - i) : w[k] = s[i + k]
  <2> HIDE DEF n
  <2>1. \A k \in (i + 1)..n : s[k] \in S
    BY <1>1 DEF n
  <2>2. i \in 1..n
    BY DEF n
  <2> QED
    BY <1>1, <2>1, <2>2, SubSeqProperties
<1>4. RemoveAt(s, i) = u \o w
  BY DEF RemoveAt
<1>5. i \in 1..n
  OBVIOUS
<1> HIDE DEF n, u, w
<1>6. /\ u \o w \in Seq(S) /\ Len(u \o w) = (i - 1) + (n - i)
      /\ \A k \in 1..((i - 1) + (n - i)) : (u \o w)[k] = IF k <= i - 1 THEN u[k] ELSE w[k - (i - 1)]
  <2>1. /\ u \o w \in Seq(S) /\ Len(u \o w) = Len(u) + Len(w)
        /\ \A k \in 1..(Len(u) + Len(w)) : (u \o w)[k] = IF k <= Len(u) THEN u[k] ELSE w[k - Len(u)]
    BY <1>2, <1>3, ConcatProperties
  <2> QED
    BY <1>2, <1>3, <2>1
<1>7. ASSUME NEW k \in 1..(n - 1) PROVE (u \o w)[k] = IF k < i THEN s[k] ELSE s[k + 1]
  <2>1. k \in 1..((i - 1) + (n - i))
    BY <1>1, <1>5
  <2>2. CASE k < i
    <3>1. k <= i - 1 /\ k \in 1..(i - 1)
      BY <1>5, <2>2
    <3> QED
      BY <1>2, <1>6, <2>1, <2>2, <3>1
  <2>3. CASE ~(k < i)
    <3> DEFINE j == k - (i - 1)
    <3>1. ~(k <= i - 1) /\ j \in 1..(n - i) /\ i + j = k + 1
      BY <1>1, <1>5, <2>3
    <3>2. (u \o w)[k] = w[j]
      BY <1>6, <2>1, <3>1
    <3> HIDE DEF j
    <3> QED
      BY <1>3, <2>3, <3>1, <3>2
  <2> QED
    BY <2>2, <2>3
<1> QED
  BY <1>1, <1>4, <1>5, <1>6, <1>7 DEF n

\* With an element put at a place: those from there on go back.
LEMMA InsertedAt ==
    ASSUME NEW S, NEW s \in Seq(S), NEW i \in 1..(Len(s) + 1), NEW e \in S
    PROVE  /\ InsertAt(s, i, e) \in Seq(S) /\ Len(InsertAt(s, i, e)) = Len(s) + 1
           /\ \A k \in 1..(Len(s) + 1) :
                 InsertAt(s, i, e)[k] = IF k < i THEN s[k] ELSE IF k = i THEN e ELSE s[k - 1]
<1> DEFINE n == Len(s)
           u == SubSeq(s, 1, i - 1)
           v == Append(u, e)
           w == SubSeq(s, i, n)
<1>1. n \in Nat /\ \A k \in 1..n : s[k] \in S
  BY LenProperties, ElementOfSeq
<1>2. u \in Seq(S) /\ Len(u) = i - 1 /\ \A k \in 1..(i - 1) : u[k] = s[k]
  <2> HIDE DEF n
  <2>1. \A k \in 1..(i - 1) : s[k] \in S
    BY <1>1 DEF n
  <2> QED
    BY <1>1, <2>1, SubSeqProperties
<1>3. w \in Seq(S) /\ Len(w) = n + 1 - i /\ \A k \in 1..(n + 1 - i) : w[k] = s[i + k - 1]
  <2> HIDE DEF n
  <2>1. \A k \in i..n : s[k] \in S
    BY <1>1 DEF n
  <2>2. i \in 1..(n + 1)
    BY DEF n
  <2> QED
    BY <1>1, <2>1, <2>2, SubSeqProperties
<1>4. /\ v \in Seq(S) /\ Len(v) = i /\ v[i] = e /\ \A k \in 1..(i - 1) : v[k] = s[k]
  BY <1>2, AppendProperties
<1>5. InsertAt(s, i, e) = v \o w
  <2>1. u \o <<e>> = v
    BY <1>2, AppendIsConcat
  <2> QED
    BY <2>1 DEF InsertAt
<1>6. i \in 1..(n + 1)
  OBVIOUS
<1> HIDE DEF n, u, v, w
<1>7. /\ v \o w \in Seq(S) /\ Len(v \o w) = i + (n + 1 - i)
      /\ \A k \in 1..(i + (n + 1 - i)) : (v \o w)[k] = IF k <= i THEN v[k] ELSE w[k - i]
  <2>1. /\ v \o w \in Seq(S) /\ Len(v \o w) = Len(v) + Len(w)
        /\ \A k \in 1..(Len(v) + Len(w)) : (v \o w)[k] = IF k <= Len(v) THEN v[k] ELSE w[k - Len(v)]
    BY <1>3, <1>4, ConcatProperties
  <2> QED
    BY <1>3, <1>4, <2>1
<1>8. ASSUME NEW k \in 1..(n + 1) PROVE (v \o w)[k] = IF k < i THEN s[k] ELSE IF k = i THEN e ELSE s[k - 1]
  <2>1. k \in 1..(i + (n + 1 - i))
    BY <1>1, <1>6
  <2>2. CASE k < i
    <3>1. k <= i /\ k \in 1..(i - 1)
      BY <1>6, <2>2
    <3> QED
      BY <1>4, <1>7, <2>1, <2>2, <3>1
  <2>3. CASE k = i
    BY <1>4, <1>7, <2>1, <2>3
  <2>4. CASE k > i
    <3> DEFINE j == k - i
    <3>1. ~(k <= i) /\ j \in 1..(n + 1 - i) /\ i + j - 1 = k - 1
      BY <1>1, <1>6, <2>4
    <3>2. (v \o w)[k] = w[j]
      BY <1>7, <2>1, <3>1
    <3> HIDE DEF j
    <3>3. w[j] = s[i + j - 1]
      BY <1>3, <3>1
    <3>4. (v \o w)[k] = s[k - 1]
      BY <3>1, <3>2, <3>3
    <3>5. ~(k < i) /\ k # i
      BY <1>6, <2>4
    <3> QED
      BY <3>4, <3>5
  <2>5. k < i \/ k = i \/ k > i
    BY <1>6
  <2> QED
    BY <2>2, <2>3, <2>4, <2>5
<1> QED
  BY <1>1, <1>5, <1>6, <1>7, <1>8 DEF n

\* Without the only occurrence of a value: the others stay, each once.
LEMMA RemovedFirst ==
    ASSUME NEW S, NEW s \in Seq(S), IsInjective(s), NEW a
    PROVE  /\ RemoveFirst(s, a) \in Seq(S) /\ IsInjective(RemoveFirst(s, a))
           /\ ToSet(RemoveFirst(s, a)) = ToSet(s) \ {a}
           /\ Len(RemoveFirst(s, a)) = IF a \in ToSet(s) THEN Len(s) - 1 ELSE Len(s)
<1> DEFINE n == Len(s)
           t == RemoveFirst(s, a)
<1>1. n \in Nat /\ DOMAIN s = 1..n /\ ToSet(s) = {s[k] : k \in 1..n}
  BY LenProperties, ToSetOfSeq
<1>2. \A j, k \in 1..n : s[j] = s[k] => j = k
  BY <1>1 DEF IsInjective
<1>3. CASE a \notin ToSet(s)
  <2>1. t = s
    BY <1>1, <1>3 DEF RemoveFirst
  <2> QED
    BY <1>3, <2>1
<1>4. CASE a \in ToSet(s)
  <2>1. PICK i \in 1..n : s[i] = a
    BY <1>1, <1>4
  <2>2. SelectInSeq(s, LAMBDA v : v = a) = i
    <3> DEFINE I == {k \in 1..n : s[k] = a}
    <3>1. I = {i}
      BY <1>2, <2>1
    <3>2. Min(I) = i
      BY <2>1, <3>1 DEF Min
    <3> QED
      BY <3>1, <3>2 DEF SelectInSeq
  <2>3. t = RemoveAt(s, i)
    BY <2>1, <2>2 DEF RemoveFirst
  <2>4. /\ t \in Seq(S) /\ Len(t) = n - 1
        /\ \A k \in 1..(n - 1) : t[k] = IF k < i THEN s[k] ELSE s[k + 1]
    BY <2>3, RemovedAt
  <2> HIDE DEF t, n
  <2>5. DOMAIN t = 1..(n - 1) /\ ToSet(t) = {t[k] : k \in 1..(n - 1)}
    BY <2>4, LenProperties, ToSetOfSeq
  <2>6. IsInjective(t)
    <3>1. ASSUME NEW j \in 1..(n - 1), NEW k \in 1..(n - 1), t[j] = t[k] PROVE j = k
      <4> DEFINE f(x) == IF x < i THEN x ELSE x + 1
      <4>1. f(j) \in 1..n /\ f(k) \in 1..n /\ t[j] = s[f(j)] /\ t[k] = s[f(k)]
        BY <1>1, <2>1, <2>4
      <4>2. f(j) = f(k) => j = k
        BY <1>1, <2>1
      <4> HIDE DEF f
      <4> QED
        BY <1>2, <3>1, <4>1, <4>2
    <3> QED
      BY <2>5, <3>1 DEF IsInjective
  <2>7. ASSUME NEW k \in 1..(n - 1) PROVE t[k] \in ToSet(s) \ {a}
    <3> DEFINE j == IF k < i THEN k ELSE k + 1
    <3>1. j \in 1..n /\ j # i /\ t[k] = s[j]
      BY <1>1, <2>1, <2>4
    <3> HIDE DEF j
    <3> QED
      BY <1>1, <1>2, <2>1, <3>1
  <2>8. ASSUME NEW k \in 1..n, s[k] # a PROVE s[k] \in ToSet(t)
    <3> DEFINE j == IF k < i THEN k ELSE k - 1
    <3>1. k # i
      BY <2>1, <2>8
    <3>2. j \in 1..(n - 1) /\ t[j] = s[k]
      BY <1>1, <2>1, <2>4, <3>1
    <3> HIDE DEF j
    <3> QED
      BY <2>5, <3>2
  <2>9. ToSet(t) = ToSet(s) \ {a}
    BY <1>1, <2>5, <2>7, <2>8
  <2> QED
    BY <1>4, <2>4, <2>6, <2>9 DEF t, n
<1> QED
  BY <1>3, <1>4

\* With an element more at its end.
LEMMA Appended ==
    ASSUME NEW S, NEW s \in Seq(S), NEW e \in S
    PROVE  /\ Append(s, e) \in Seq(S) /\ Len(Append(s, e)) = Len(s) + 1
           /\ Append(s, e)[Len(s) + 1] = e /\ \A k \in 1..Len(s) : Append(s, e)[k] = s[k]
           /\ ToSet(Append(s, e)) = ToSet(s) \cup {e}
           /\ IsInjective(s) /\ e \notin ToSet(s) => IsInjective(Append(s, e))
<1> DEFINE n == Len(s)
           t == Append(s, e)
<1>1. n \in Nat /\ DOMAIN s = 1..n /\ ToSet(s) = {s[k] : k \in 1..n}
  BY LenProperties, ToSetOfSeq
<1>2. t \in Seq(S) /\ Len(t) = n + 1 /\ t[n + 1] = e /\ \A k \in 1..n : t[k] = s[k]
  BY AppendProperties
<1> HIDE DEF t, n
<1>3. DOMAIN t = 1..(n + 1) /\ ToSet(t) = {t[k] : k \in 1..(n + 1)}
  BY <1>1, <1>2, LenProperties, ToSetOfSeq
<1>4. \A k \in 1..(n + 1) : k \in 1..n \/ k = n + 1
  BY <1>1
<1>5. n + 1 \in 1..(n + 1) /\ \A k \in 1..n : k \in 1..(n + 1)
  BY <1>1
<1>6. ToSet(t) = ToSet(s) \cup {e}
  <2>1. \A k \in 1..(n + 1) : t[k] \in ToSet(s) \cup {e}
    BY <1>1, <1>2, <1>4
  <2>2. \A k \in 1..n : s[k] \in ToSet(t)
    BY <1>2, <1>3, <1>5
  <2>3. e \in ToSet(t)
    BY <1>2, <1>3, <1>5
  <2> QED
    BY <1>1, <1>3, <2>1, <2>2, <2>3
<1>7. ASSUME IsInjective(s), e \notin ToSet(s) PROVE IsInjective(t)
  <2>1. \A j, k \in 1..n : s[j] = s[k] => j = k
    BY <1>1, <1>7 DEF IsInjective
  <2>2. \A k \in 1..n : s[k] # e
    BY <1>1, <1>7
  <2>3. \A j, k \in 1..(n + 1) : t[j] = t[k] => j = k
    BY <1>2, <1>4, <2>1, <2>2
  <2> QED
    BY <1>3, <2>3 DEF IsInjective
<1> QED
  BY <1>2, <1>6, <1>7 DEF t, n

\* A sequence of different elements is as long as it has elements.
LEMMA LengthOfInjective ==
    ASSUME NEW S, NEW s \in Seq(S), IsInjective(s)
    PROVE  IsFiniteSet(ToSet(s)) /\ Cardinality(ToSet(s)) = Len(s)
<1>1. Len(s) \in Nat /\ DOMAIN s = 1..Len(s) /\ ToSet(s) = {s[k] : k \in 1..Len(s)}
  BY LenProperties, ToSetOfSeq
<1>2. IsFiniteSet(1..Len(s)) /\ Cardinality(1..Len(s)) = Len(s)
  BY <1>1, FS_Interval
<1>3. s \in Bijection(1..Len(s), ToSet(s))
  <2>1. s \in [1..Len(s) -> ToSet(s)]
    BY <1>1
  <2>2. \A j, k \in 1..Len(s) : s[j] = s[k] => j = k
    BY <1>1 DEF IsInjective
  <2> QED
    BY <1>1, <2>1, <2>2 DEF Bijection, Injection, Surjection
<1>4. ExistsBijection(1..Len(s), ToSet(s))
  BY <1>3 DEF ExistsBijection
<1> QED
  BY <1>2, <1>4, FS_Bijection

-----------------------------------------------------------------------------
(* Divisions, and how many a finite set has. *)
\* What a division of whole numbers gives.
LEMMA DivisionIs ==
    ASSUME NEW a \in Nat, NEW s \in Nat \ {0}
    PROVE  /\ a \div s \in Nat /\ (a \div s) * s <= a /\ a < (a \div s) * s + s /\ a \div s <= a
           /\ a >= s => a \div s >= 1
<1> DEFINE q == a \div s
<1>1. q \in Nat /\ q * s <= a /\ a < q * s + s
  OBVIOUS
<1> HIDE DEF q
<1>2. q <= a
  <2>1. q <= q * s
    BY <1>1
  <2>2. q * s \in Nat
    BY <1>1
  <2> QED
    BY <1>1, <2>1, <2>2
<1>3. a >= s => q >= 1
  BY <1>1
<1> QED
  BY <1>1, <1>2, <1>3 DEF q

\* A set that loses an element.
LEMMA OneLess ==
    ASSUME NEW S, IsFiniteSet(S), NEW x, NEW n \in Nat, Cardinality(S) <= n
    PROVE  IsFiniteSet(S \ {x}) /\ Cardinality(S \ {x}) <= n
<1>1. S \ {x} \subseteq S
  OBVIOUS
<1>2. IsFiniteSet(S \ {x}) /\ Cardinality(S \ {x}) <= Cardinality(S)
  BY <1>1, FS_Subset
<1>3. Cardinality(S) \in Nat /\ Cardinality(S \ {x}) \in Nat
  BY <1>2, FS_CardinalityType
<1> QED
  BY <1>2, <1>3

\* A set that takes one stays finite.
LEMMA OneMore == ASSUME NEW S, IsFiniteSet(S), NEW x PROVE IsFiniteSet(S \cup {x})
BY FS_AddElement

\* A set that has one element for another is no larger.
LEMMA OneForAnother ==
    ASSUME NEW S, IsFiniteSet(S), NEW x \in S, NEW y, NEW n \in Nat, Cardinality(S) <= n
    PROVE  IsFiniteSet((S \ {x}) \cup {y}) /\ Cardinality((S \ {x}) \cup {y}) <= n
<1>1. IsFiniteSet(S \ {x}) /\ Cardinality(S \ {x}) = Cardinality(S) - 1
  BY FS_RemoveElement
<1>2. /\ IsFiniteSet((S \ {x}) \cup {y})
      /\ Cardinality((S \ {x}) \cup {y}) \in {Cardinality(S \ {x}), Cardinality(S \ {x}) + 1}
  BY <1>1, FS_AddElement
<1>3. Cardinality(S) \in Nat
  BY FS_CardinalityType
<1> QED
  BY <1>1, <1>2, <1>3
=============================================================================
