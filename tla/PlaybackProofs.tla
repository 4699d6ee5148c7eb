--------------------------- MODULE PlaybackProofs ---------------------------
(***************************************************************************)
(* What the playback of a history shows is right for every value of the    *)
(* constants: the lines of a track, the newest reading of a sensor, the    *)
(* events of the points, the scorecard of a trip and the table of a        *)
(* sensor.  Each part has an invariant of its own that holds at the start  *)
(* and that every step of the part keeps; DashboardProofs puts them        *)
(* together.  What a fold or a search computes is shown by induction over  *)
(* an interval: an interval without a first element that fails holds none. *)
(***************************************************************************)
EXTENDS HistoryPlayback, DrivingEvents, SensorHistory, SequenceLemmas

-----------------------------------------------------------------------------
(* The lines of a track: runs of points, joined by bridges. *)
Point == [trip : Nat, sensed : BOOLEAN]

\* Lines over the points up to n, and what they look like while they are built.
LinesUpTo(n) == {l \in Seq(1..n) : Len(l) >= 2}
Building(n) == [trip : Int, run : Seq(1..n), out : Seq(LinesUpTo(n))]
\* l joins point q to the next, and of the lines out exactly one joins each point up to m so, and none a later one.
JoinsAt(l, q) == \E j \in 1..(Len(l) - 1) : l[j] = q /\ l[j + 1] = q + 1
OnlyAt(out, q, k) == \A h \in DOMAIN out : JoinsAt(out[h], q) <=> h = k
Covers(out, m) ==
    /\ \A q \in 1..m : \E k \in DOMAIN out : OnlyAt(out, q, k)
    /\ \A k \in DOMAIN out : \A q \in Int : JoinsAt(out[k], q) => q \in 1..m

\* The line being built is put with the others.
LEMMA FlushedIsLines ==
    ASSUME NEW n \in Nat, NEW acc \in Building(n) PROVE Flushed(acc) \in Seq(LinesUpTo(n))
<1>1. acc.run \in Seq(1..n) /\ acc.out \in Seq(LinesUpTo(n)) /\ Len(acc.run) \in Nat
  BY LenProperties DEF Building
<1>2. CASE Len(acc.run) < 2
  BY <1>1, <1>2 DEF Flushed
<1>3. CASE ~(Len(acc.run) < 2)
  <2>1. acc.run \in LinesUpTo(n)
    BY <1>1, <1>3 DEF LinesUpTo
  <2> QED
    BY <1>1, <1>3, <2>1, AppendProperties DEF Flushed
<1> QED
  BY <1>2, <1>3

\* The last point of a line being built.
LEMMA LastOfRun ==
    ASSUME NEW n \in Nat, NEW q \in Seq(1..n), q # <<>> PROVE Last(q) \in 1..n /\ Last(q) = q[Len(q)] /\ Len(q) >= 1
<1>1. Len(q) \in Nat /\ Len(q) # 0
  BY LenProperties, EmptySeq
<1>2. Len(q) \in 1..Len(q)
  BY <1>1
<1> QED
  BY <1>1, <1>2, ElementOfSeq DEF Last

\* One more point leaves lines of points so far.
LEMMA DrawnIsBuilding ==
    ASSUME NEW p \in Seq(Point), NEW i \in 1..Len(p), NEW acc \in Building(Len(p))
    PROVE  PointDrawn(acc, p, i) \in Building(Len(p))
<1> DEFINE n == Len(p)
<1>1. n \in Nat /\ p[i] \in Point
  BY LenProperties, ElementOfSeq
<1>2. p[i].trip \in Int
  BY <1>1 DEF Point
<1>3. acc.run \in Seq(1..n) /\ acc.out \in Seq(LinesUpTo(n)) /\ i \in 1..n /\ acc.trip \in Int
  BY DEF Building
<1> HIDE DEF n
<1>4. CASE p[i].trip = acc.trip
  <2>1. Append(acc.run, i) \in Seq(1..n)
    BY <1>3, AppendProperties
  <2>2. PointDrawn(acc, p, i) = [acc EXCEPT !.run = Append(acc.run, i)]
    BY <1>4 DEF PointDrawn
  <2>3. acc \in [trip : Int, run : Seq(1..n), out : Seq(LinesUpTo(n))]
    BY DEF Building, n
  <2>4. PointDrawn(acc, p, i) \in Building(n)
    BY <2>1, <2>2, <2>3 DEF Building
  <2> QED
    BY <2>4 DEF n
<1>5. CASE p[i].trip # acc.trip
  <2>1. <<i>> \in Seq(1..n)
    BY <1>3
  <2>2. CASE acc.run = <<>>
    <3>1. PointDrawn(acc, p, i) = [trip |-> p[i].trip, run |-> <<i>>, out |-> acc.out]
      BY <1>5, <2>2 DEF PointDrawn
    <3>2. PointDrawn(acc, p, i) \in Building(n)
      BY <1>2, <1>3, <2>1, <3>1 DEF Building
    <3> QED
      BY <3>2 DEF n
  <2>3. CASE acc.run # <<>>
    <3> DEFINE bridge == <<Last(acc.run), i>>
               out == Append(Flushed(acc), bridge)
    <3>1. Last(acc.run) \in 1..n
      BY <1>1, <1>3, <2>3, LastOfRun
    <3>2. bridge \in LinesUpTo(n)
      <4>1. bridge \in Seq(1..n) /\ Len(bridge) = 2
        BY <1>3, <3>1
      <4>2. Len(bridge) >= 2
        BY <4>1
      <4> HIDE DEF bridge, n
      <4> QED
        BY <4>1, <4>2 DEF LinesUpTo
    <3>3. Flushed(acc) \in Seq(LinesUpTo(n))
      BY <1>1, FlushedIsLines DEF n
    <3>4. PointDrawn(acc, p, i) = [trip |-> p[i].trip, run |-> <<i>>, out |-> out]
      BY <1>5, <2>3 DEF PointDrawn
    <3> HIDE DEF bridge
    <3>5. out \in Seq(LinesUpTo(n))
      BY <3>2, <3>3, AppendProperties
    <3> HIDE DEF out
    <3>6. PointDrawn(acc, p, i) \in Building(n)
      BY <1>2, <2>1, <3>4, <3>5 DEF Building
    <3> QED
      BY <3>6 DEF n
  <2> QED
    BY <2>2, <2>3
<1> QED
  BY <1>4, <1>5

\* The lines are those of a fold over the points.
LEMMA LayersAreDrawn ==
    ASSUME NEW p \in Seq(Point)
    PROVE  \E f \in [0..Len(p) -> Building(Len(p))] :
              /\ f[0] = NoLayers /\ \A i \in 1..Len(p) : f[i] = PointDrawn(f[i - 1], p, i)
              /\ LayersOf(p) = Flushed(f[Len(p)])
<1> DEFINE n == Len(p)
           T == Building(n)
           step == [x \in T \X (1..n) |-> PointDrawn(x[1], p, x[2])]
           Rec(f) == f = [i \in 0..n |-> IF i = 0 THEN NoLayers ELSE PointDrawn(f[i - 1], p, i)]
           f == CHOOSE g : Rec(g)
<1>1. n \in Nat
  BY LenProperties
<1>2. LayersOf(p) = Flushed(f[n])
  BY DEF LayersOf
<1>3. NoLayers \in T
  <2>1. -1 \in Int /\ <<>> \in Seq(1..n) /\ <<>> \in Seq(LinesUpTo(n))
    OBVIOUS
  <2> HIDE DEF n
  <2> QED
    BY <2>1 DEF Building, NoLayers
<1>4. step \in [T \X (1..n) -> T]
  <2>1. ASSUME NEW x \in T \X (1..n) PROVE PointDrawn(x[1], p, x[2]) \in T
    BY DrawnIsBuilding
  <2> HIDE DEF T, n
  <2> QED
    BY <2>1
<1>5. PICK g : Folding(g, n, T, NoLayers, step)
  <2>1. step \in Stepping(n, T)
    BY <1>4 DEF Stepping
  <2> HIDE DEF T, n, step
  <2> QED
    BY <1>1, <1>3, <2>1, FoldExists
<1>6. \A i \in 1..n : g[i] = PointDrawn(g[i - 1], p, i)
  <2> SUFFICES ASSUME NEW i \in 1..n PROVE g[i] = PointDrawn(g[i - 1], p, i)
    OBVIOUS
  <2> HIDE DEF T
  <2>1. i - 1 \in 0..n
    BY <1>1
  <2> HIDE DEF n
  <2>2. g[i - 1] \in T
    BY <1>5, <2>1 DEF Folding
  <2>3. <<g[i - 1], i>> \in T \X (1..n)
    BY <2>2
  <2>4. step[<<g[i - 1], i>>] = PointDrawn(g[i - 1], p, i)
    BY <2>3
  <2>5. g[i] = step[<<g[i - 1], i>>]
    BY <1>5 DEF Folding
  <2> QED
    BY <2>4, <2>5
<1>7. Rec(g)
  <2>1. \A i \in 0..n : g[i] = IF i = 0 THEN NoLayers ELSE PointDrawn(g[i - 1], p, i)
    BY <1>1, <1>5, <1>6 DEF Folding
  <2> HIDE DEF T, n
  <2> QED
    BY <1>5, <2>1 DEF Folding
<1>8. Rec(f)
  <2> HIDE DEF Rec
  <2> QED
    BY <1>7
<1> HIDE DEF f
<1>9. f[0] = NoLayers /\ \A i \in 1..n : f[i] = PointDrawn(f[i - 1], p, i)
  <2> DEFINE e(i) == IF i = 0 THEN NoLayers ELSE PointDrawn(f[i - 1], p, i)
  <2>1. f = [i \in 0..n |-> e(i)]
    BY <1>8
  <2> HIDE DEF e
  <2>2. \A i \in 0..n : f[i] = e(i)
    BY <2>1
  <2>3. e(0) = NoLayers /\ \A i \in 1..n : e(i) = PointDrawn(f[i - 1], p, i)
    BY DEF e
  <2>4. 0 \in 0..n /\ \A i \in 1..n : i \in 0..n
    BY <1>1
  <2> HIDE DEF n
  <2> QED
    BY <2>2, <2>3, <2>4
<1>10. f \in [0..n -> T]
  <2> DEFINE P == {i \in 0..n : f[i] \in T}
  <2>1. 0 \in P
    BY <1>1, <1>3, <1>9
  <2>2. ASSUME NEW i \in 1..n, i - 1 \in P PROVE i \in P
    <3>1. f[i] = PointDrawn(f[i - 1], p, i)
      BY <1>9
    <3>2. f[i - 1] \in T
      BY <2>2
    <3>3. f[i] \in T
      BY <3>1, <3>2, DrawnIsBuilding
    <3> QED
      BY <1>1, <3>3
  <2>3. 0..n \subseteq P
    <3> HIDE DEF P, n, T
    <3> QED
      BY <1>1, <2>1, <2>2, CountUp
  <2>4. \A i \in 0..n : f[i] \in T
    BY <2>3
  <2>5. f = [i \in 0..n |-> f[i]]
    <3> DEFINE e(i) == IF i = 0 THEN NoLayers ELSE PointDrawn(f[i - 1], p, i)
    <3>1. f = [i \in 0..n |-> e(i)]
      BY <1>8
    <3> HIDE DEF e, n
    <3> QED
      BY <3>1
  <2> HIDE DEF n, T
  <2> QED
    BY <2>4, <2>5
<1> HIDE DEF T, n
<1>11. /\ f \in [0..n -> T] /\ f[0] = NoLayers /\ \A i \in 1..n : f[i] = PointDrawn(f[i - 1], p, i)
       /\ LayersOf(p) = Flushed(f[n])
  BY <1>2, <1>9, <1>10
<1> QED
  BY <1>11 DEF T, n

\* A further line that joins the points from m + 1 to m2, each once.
LEMMA CoversMore ==
    ASSUME NEW n \in Nat, NEW out \in Seq(LinesUpTo(n)), NEW line \in LinesUpTo(n),
           NEW m \in Nat, NEW m2 \in Nat, m <= m2, Covers(out, m),
           \A q \in Int : JoinsAt(line, q) <=> q \in (m + 1)..m2
    PROVE  Covers(Append(out, line), m2)
<1> DEFINE more == Append(out, line)
           L == Len(out)
<1>1. L \in Nat /\ DOMAIN out = 1..L /\ DOMAIN more = 1..(L + 1) /\ more[L + 1] = line
      /\ \A k \in 1..L : more[k] = out[k]
  BY LenProperties, AppendProperties
<1> HIDE DEF more, L
<1>2. \A k \in 1..L : \A q \in Int : JoinsAt(more[k], q) => q \in 1..m
  BY <1>1 DEF Covers
<1>3. \A k \in 1..(L + 1) : k = L + 1 \/ k \in 1..L
  BY <1>1
<1>4. ASSUME NEW q \in 1..m2 PROVE \E k \in DOMAIN more : OnlyAt(more, q, k)
  <2>1. CASE q \in 1..m
    <3>1. PICK k \in 1..L : OnlyAt(out, q, k)
      BY <1>1, <2>1 DEF Covers
    <3>2. ~JoinsAt(more[L + 1], q)
      <4>1. q \notin (m + 1)..m2
        BY <2>1
      <4> QED
        BY <1>1, <4>1
    <3>3. k # L + 1 /\ k \in 1..(L + 1)
      BY <1>1
    <3>4. ASSUME NEW h \in 1..(L + 1) PROVE JoinsAt(more[h], q) <=> h = k
      <4>1. CASE h = L + 1
        BY <3>2, <3>3, <4>1
      <4>2. CASE h \in 1..L
        BY <1>1, <3>1, <4>2 DEF OnlyAt
      <4> QED
        BY <1>3, <4>1, <4>2
    <3>5. OnlyAt(more, q, k)
      BY <1>1, <3>4 DEF OnlyAt
    <3> QED
      BY <1>1, <3>3, <3>5
  <2>2. CASE q \notin 1..m
    <3>1. JoinsAt(more[L + 1], q)
      <4>1. q \in (m + 1)..m2
        BY <2>2
      <4> QED
        BY <1>1, <4>1
    <3>2. ASSUME NEW h \in 1..(L + 1) PROVE JoinsAt(more[h], q) <=> h = L + 1
      <4>1. CASE h = L + 1
        BY <3>1, <4>1
      <4>2. CASE h \in 1..L
        <5>1. ~JoinsAt(more[h], q) /\ h # L + 1
          BY <1>1, <1>2, <2>2, <4>2
        <5> QED
          BY <5>1
      <4> QED
        BY <1>3, <4>1, <4>2
    <3>3. L + 1 \in 1..(L + 1)
      BY <1>1
    <3>4. OnlyAt(more, q, L + 1)
      BY <1>1, <3>2 DEF OnlyAt
    <3> QED
      BY <1>1, <3>3, <3>4
  <2> QED
    BY <2>1, <2>2
<1>5. ASSUME NEW k \in DOMAIN more, NEW q \in Int, JoinsAt(more[k], q) PROVE q \in 1..m2
  <2>1. CASE k = L + 1
    BY <1>1, <1>5, <2>1
  <2>2. CASE k \in 1..L
    BY <1>2, <1>5, <2>2
  <2> QED
    BY <1>1, <1>3, <2>1, <2>2
<1>6. Covers(more, m2)
  BY <1>4, <1>5 DEF Covers
<1> QED
  BY <1>6 DEF more

\* The run while point i was drawn: the points up to i, and the lines before it join all up to its first.
RunUpTo(acc, i) ==
    /\ Len(acc.run) \in 1..i
    /\ \A j \in 1..Len(acc.run) : acc.run[j] = i - Len(acc.run) + j
    /\ Covers(acc.out, i - Len(acc.run))

\* A run of points joins each with the next.
LEMMA RunJoins ==
    ASSUME NEW i \in Nat, NEW q \in Seq(Nat), Len(q) \in 1..i, \A j \in 1..Len(q) : q[j] = i - Len(q) + j
    PROVE  \A k \in Int : JoinsAt(q, k) <=> k \in (i - Len(q) + 1)..(i - 1)
<1> DEFINE L == Len(q)
<1>1. L \in 1..i /\ \A j \in 1..L : q[j] = i - L + j
  OBVIOUS
<1> HIDE DEF L
<1>2. ASSUME NEW k \in Int, NEW j \in 1..(L - 1), q[j] = k, q[j + 1] = k + 1 PROVE k \in (i - L + 1)..(i - 1)
  <2>1. j \in 1..L /\ k = i - L + j
    BY <1>1, <1>2
  <2> QED
    BY <1>1, <2>1
<1>3. ASSUME NEW k \in (i - L + 1)..(i - 1) PROVE \E j \in 1..(L - 1) : q[j] = k /\ q[j + 1] = k + 1
  <2> DEFINE j == k - (i - L)
  <2>1. j \in 1..(L - 1) /\ j \in 1..L /\ j + 1 \in 1..L
    BY <1>1
  <2>2. q[j] = i - L + j /\ q[j + 1] = i - L + (j + 1)
    BY <1>1, <2>1
  <2>3. i - L + j = k /\ i - L + (j + 1) = k + 1
    BY <1>1
  <2> HIDE DEF j
  <2> QED
    BY <2>1, <2>2, <2>3
<1>4. \A k \in Int : JoinsAt(q, k) <=> k \in (i - L + 1)..(i - 1)
  BY <1>2, <1>3 DEF JoinsAt, L
<1> QED
  BY <1>4 DEF L

\* A bridge to a point joins the one before it.
LEMMA BridgeJoins ==
    ASSUME NEW i \in Nat, NEW q, q = <<i - 1, i>>
    PROVE  \A k \in Int : JoinsAt(q, k) <=> k = i - 1
<1>1. Len(q) = 2 /\ q[1] = i - 1 /\ q[2] = i
  OBVIOUS
<1>2. \A k \in Int : JoinsAt(q, k) <=> q[1] = k /\ q[2] = k + 1
  <2>1. 1..(Len(q) - 1) = {1}
    BY <1>1
  <2> QED
    BY <2>1 DEF JoinsAt
<1> QED
  BY <1>1, <1>2

\* The run drawn as a line joins its points.
LEMMA FlushedCovers ==
    ASSUME NEW n \in Nat, NEW acc \in Building(n), NEW i \in 1..n, RunUpTo(acc, i)
    PROVE  Flushed(acc) \in Seq(LinesUpTo(n)) /\ Covers(Flushed(acc), i - 1)
<1> DEFINE L == Len(acc.run)
<1>1. acc.run \in Seq(1..n) /\ acc.out \in Seq(LinesUpTo(n)) /\ L \in 1..i /\ Covers(acc.out, i - L)
  BY DEF Building, RunUpTo
<1>2. CASE L < 2
  <2>1. L = 1
    <3> HIDE DEF L
    <3> QED
      BY <1>1, <1>2
  <2>2. Flushed(acc) = acc.out /\ i - L = i - 1
    BY <1>2, <2>1 DEF Flushed
  <2> QED
    BY <1>1, <2>2
<1>3. CASE ~(L < 2)
  <2>1. Flushed(acc) = Append(acc.out, acc.run)
    BY <1>3 DEF Flushed
  <2>2. acc.run \in LinesUpTo(n)
    BY <1>1, <1>3 DEF LinesUpTo
  <2>3. \A k \in Int : JoinsAt(acc.run, k) <=> k \in ((i - L) + 1)..(i - 1)
    <3>1. acc.run \in Seq(Nat)
      BY <1>1
    <3>2. \A j \in 1..L : acc.run[j] = i - L + j
      BY DEF RunUpTo
    <3>3. \A k \in Int : JoinsAt(acc.run, k) <=> k \in (i - L + 1)..(i - 1)
      <4>1. Len(acc.run) \in 1..i /\ \A j \in 1..Len(acc.run) : acc.run[j] = i - Len(acc.run) + j
        BY DEF RunUpTo
      <4>2. i \in Nat
        OBVIOUS
      <4> QED
        BY <3>1, <4>1, <4>2, RunJoins
    <3> QED
      BY <3>3
  <2>4. i - L \in Nat /\ i - 1 \in Nat /\ i - L <= i - 1
    BY <1>1
  <2> HIDE DEF L
  <2>5. Covers(Append(acc.out, acc.run), i - 1)
    BY <1>1, <2>2, <2>3, <2>4, CoversMore
  <2> QED
    BY <2>1, <2>5, FlushedIsLines
<1> QED
  BY <1>2, <1>3

\* One more point keeps the line being built a run up to it.
LEMMA DrawnRun ==
    ASSUME NEW p \in Seq(Point), NEW i \in 1..Len(p), NEW acc \in Building(Len(p)),
           (acc = NoLayers /\ i = 1) \/ (i >= 2 /\ RunUpTo(acc, i - 1))
    PROVE  RunUpTo(PointDrawn(acc, p, i), i)
<1> DEFINE n == Len(p)
           new == PointDrawn(acc, p, i)
<1>1. n \in Nat /\ i \in 1..n
  BY LenProperties
<1>2. p[i] \in Point /\ p[i].trip \in Nat
  <2>1. p[i] \in Point
    BY ElementOfSeq
  <2> QED
    BY <2>1 DEF Point
<1>3. acc.run \in Seq(1..n) /\ acc.out \in Seq(LinesUpTo(n))
  BY DEF Building
<1>4. CASE acc = NoLayers /\ i = 1
  <2>1. acc.trip = -1 /\ acc.run = <<>> /\ acc.out = <<>>
    BY <1>4 DEF NoLayers
  <2>2. p[i].trip # acc.trip
    BY <1>2, <2>1
  <2>3. new.run = <<i>> /\ new.out = <<>>
    BY <2>1, <2>2 DEF PointDrawn
  <2>4. Len(new.run) = 1 /\ new.run[1] = 1
    <3> HIDE DEF new
    <3> QED
      BY <1>4, <2>3
  <2>5. Covers(new.out, 0)
    BY <2>3 DEF Covers
  <2>6. \A j \in 1..1 : new.run[j] = j
    BY <2>4
  <2> HIDE DEF new
  <2>7. RunUpTo(new, 1)
    BY <2>4, <2>5, <2>6 DEF RunUpTo
  <2> QED
    BY <1>4, <2>7 DEF new
<1>5. CASE i >= 2 /\ RunUpTo(acc, i - 1)
  <2> DEFINE L == Len(acc.run)
  <2>1. L \in 1..(i - 1) /\ Covers(acc.out, (i - 1) - L) /\ \A j \in 1..L : acc.run[j] = (i - 1) - L + j
    BY <1>5 DEF RunUpTo
  <2>2. CASE p[i].trip = acc.trip
    <3>1. new.run = Append(acc.run, i) /\ new.out = acc.out
      <4>1. acc \in [trip : Int, run : Seq(1..n), out : Seq(LinesUpTo(n))]
        BY DEF Building
      <4>2. new = [acc EXCEPT !.run = Append(acc.run, i)]
        BY <2>2 DEF PointDrawn
      <4> HIDE DEF n, new
      <4> QED
        BY <4>1, <4>2
    <3>2. Len(new.run) = L + 1 /\ new.run[L + 1] = i /\ \A j \in 1..L : new.run[j] = acc.run[j]
      BY <1>3, <3>1, AppendProperties
    <3> HIDE DEF new, L
    <3>3. i - (L + 1) = (i - 1) - L
      BY <1>1, <2>1
    <3>4. ASSUME NEW j \in 1..(L + 1) PROVE new.run[j] = i - (L + 1) + j
      <4>1. CASE j = L + 1
        BY <1>1, <2>1, <3>2, <4>1
      <4>2. CASE j \in 1..L
        BY <1>1, <2>1, <3>2, <3>3, <4>2
      <4> QED
        BY <2>1, <4>1, <4>2
    <3>5. L + 1 \in 1..i
      BY <1>1, <2>1
    <3> QED
      BY <2>1, <3>1, <3>2, <3>3, <3>4, <3>5 DEF RunUpTo, new
  <2>3. CASE p[i].trip # acc.trip
    <3>1. acc.run # <<>>
      BY <2>1
    <3>2. Last(acc.run) = i - 1
      <4>1. Last(acc.run) = acc.run[L] /\ L \in 1..L
        BY <1>1, <1>3, <2>1, <3>1, LastOfRun
      <4> HIDE DEF L
      <4> QED
        BY <1>1, <2>1, <4>1
    <3> DEFINE bridge == <<i - 1, i>>
               was == Flushed(acc)
    <3>3. new.run = <<i>> /\ new.out = Append(was, bridge)
      BY <2>3, <3>1, <3>2 DEF PointDrawn
    <3>4. i - 1 \in 1..n /\ i \in 1..n
      BY <1>1, <1>5
    <3>5. was \in Seq(LinesUpTo(n)) /\ Covers(was, i - 2)
      <4>1. (i - 1) - 1 = i - 2
        BY <1>1
      <4>2. Flushed(acc) \in Seq(LinesUpTo(n)) /\ Covers(Flushed(acc), (i - 1) - 1)
        BY <1>1, <1>5, <3>4, FlushedCovers
      <4> HIDE DEF n
      <4> QED
        BY <4>1, <4>2
    <3>6. bridge \in LinesUpTo(n)
      <4>1. bridge \in Seq(1..n) /\ Len(bridge) >= 2
        BY <3>4
      <4> HIDE DEF bridge, n
      <4> QED
        BY <4>1 DEF LinesUpTo
    <3>7. \A k \in Int : JoinsAt(bridge, k) <=> k \in ((i - 2) + 1)..(i - 1)
      <4>1. \A k \in Int : JoinsAt(bridge, k) <=> k = i - 1
        BY <1>1, BridgeJoins
      <4> HIDE DEF bridge
      <4> QED
        BY <1>1, <4>1
    <3>8. Covers(Append(was, bridge), i - 1)
      <4>1. i - 2 \in Nat /\ i - 1 \in Nat /\ i - 2 <= i - 1
        BY <1>1, <1>5
      <4> HIDE DEF was, bridge, n
      <4> QED
        BY <1>1, <3>5, <3>6, <3>7, <4>1, CoversMore
    <3>9. Len(new.run) = 1 /\ new.run[1] = i
      BY <3>3
    <3> HIDE DEF new, bridge, was
    <3>10. Covers(new.out, i - Len(new.run)) /\ Len(new.run) \in 1..i
      BY <1>1, <3>3, <3>8, <3>9
    <3>11. \A j \in 1..Len(new.run) : new.run[j] = i - Len(new.run) + j
      <4>1. 1..Len(new.run) = {1} /\ i - Len(new.run) + 1 = i
        BY <1>1, <3>9
      <4> QED
        BY <3>9, <4>1
    <3> QED
      BY <3>10, <3>11 DEF RunUpTo, new
  <2> QED
    BY <2>2, <2>3
<1> QED
  BY <1>4, <1>5

\* The layers are lines over the points, and each point but the last is joined to the next exactly once.
LEMMA LayersCover ==
    ASSUME NEW p \in Seq(Point), p # <<>>
    PROVE  LayersOf(p) \in Seq(LinesUpTo(Len(p))) /\ Covers(LayersOf(p), Len(p) - 1)
<1> DEFINE n == Len(p)
<1>1. n \in Nat /\ n >= 1
  BY LenProperties, EmptySeq
<1>2. PICK f \in [0..n -> Building(n)] :
         f[0] = NoLayers /\ (\A i \in 1..n : f[i] = PointDrawn(f[i - 1], p, i)) /\ LayersOf(p) = Flushed(f[n])
  BY LayersAreDrawn
<1> DEFINE P == {i \in 0..n : i = 0 \/ RunUpTo(f[i], i)}
<1>3. 0 \in P
  BY <1>1
<1>4. ASSUME NEW i \in 1..n, i - 1 \in P PROVE i \in P
  <2>1. f[i] = PointDrawn(f[i - 1], p, i) /\ f[i - 1] \in Building(n)
    <3>1. i - 1 \in 0..n
      BY <1>1
    <3> HIDE DEF n
    <3> QED
      BY <1>2, <3>1
  <2>2. (f[i - 1] = NoLayers /\ i = 1) \/ (i >= 2 /\ RunUpTo(f[i - 1], i - 1))
    <3>1. i = 1 \/ i >= 2
      BY <1>1
    <3> QED
      BY <1>1, <1>2, <1>4, <3>1
  <2>3. RunUpTo(f[i], i)
    BY <2>1, <2>2, DrawnRun
  <2> QED
    BY <1>1, <2>3
<1>5. n \in P
  <2>1. 0..n \subseteq P
    <3> HIDE DEF P, n
    <3> QED
      BY <1>1, <1>3, <1>4, CountUp
  <2> QED
    BY <1>1, <2>1
<1>6. RunUpTo(f[n], n) /\ n \in 1..n /\ f[n] \in Building(n)
  BY <1>1, <1>2, <1>5
<1> HIDE DEF n, P
<1>7. LayersOf(p) \in Seq(LinesUpTo(n)) /\ Covers(LayersOf(p), n - 1)
  BY <1>1, <1>2, <1>6, FlushedCovers
<1> QED
  BY <1>7 DEF n

-----------------------------------------------------------------------------
(* The timeline of a sensor and the binary search in it. *)
\* A timeline up to point i lists the points that carry the sensor, in their order.
ListsSensed(q, p, i) ==
    /\ q \in Seq(1..Len(p))
    /\ \A k \in DOMAIN q : q[k] \in 1..i /\ p[q[k]].sensed
    /\ \A k, h \in DOMAIN q : k < h => q[k] < q[h]
    /\ \A x \in 1..i : p[x].sensed => \E k \in DOMAIN q : q[k] = x

\* One more point keeps the timeline of a sensor complete.
LEMMA SensedListed ==
    ASSUME NEW p \in Seq(Point), NEW i \in 1..Len(p), NEW q, ListsSensed(q, p, i - 1)
    PROVE  ListsSensed(IF p[i].sensed THEN Append(q, i) ELSE q, p, i)
<1> DEFINE n == Len(p)
           L == Len(q)
<1>1. n \in Nat /\ i \in 1..n /\ q \in Seq(1..n) /\ L \in Nat /\ DOMAIN q = 1..L
  BY LenProperties DEF ListsSensed
<1> HIDE DEF n, L
<1>2. \A k \in 1..L : q[k] \in 1..(i - 1) /\ p[q[k]].sensed
  BY <1>1 DEF ListsSensed
<1>3. \A k \in 1..L, h \in 1..L : k < h => q[k] < q[h]
  BY <1>1 DEF ListsSensed
<1>4. \A x \in 1..(i - 1) : p[x].sensed => \E k \in 1..L : q[k] = x
  BY <1>1 DEF ListsSensed
<1>5. CASE p[i].sensed
  <2> DEFINE more == Append(q, i)
  <2>1. more \in Seq(1..n) /\ DOMAIN more = 1..(L + 1) /\ more[L + 1] = i /\ \A k \in 1..L : more[k] = q[k]
    BY <1>1, AppendProperties, LenProperties DEF L
  <2> HIDE DEF more
  <2>2. \A k \in 1..(L + 1) : k \in 1..L \/ k = L + 1
    BY <1>1
  <2>3. ASSUME NEW k \in 1..(L + 1) PROVE more[k] \in 1..i /\ p[more[k]].sensed
    <3>1. CASE k = L + 1
      BY <1>1, <1>5, <2>1, <3>1
    <3>2. CASE k \in 1..L
      <4>1. q[k] \in 1..(i - 1) /\ p[q[k]].sensed /\ more[k] = q[k]
        BY <1>2, <2>1, <3>2
      <4>2. q[k] \in 1..i
        BY <1>1, <4>1
      <4> QED
        BY <4>1, <4>2
    <3> QED
      BY <2>2, <3>1, <3>2
  <2>4. ASSUME NEW k \in 1..(L + 1), NEW h \in 1..(L + 1), k < h PROVE more[k] < more[h]
    <3>1. k \in 1..L /\ q[k] \in 1..(i - 1) /\ more[k] = q[k]
      BY <1>1, <1>2, <2>1, <2>4
    <3>2. CASE h = L + 1
      BY <1>1, <2>1, <3>1, <3>2
    <3>3. CASE h \in 1..L
      BY <1>3, <2>1, <2>4, <3>1, <3>3
    <3> QED
      BY <2>2, <3>2, <3>3
  <2>5. ASSUME NEW x \in 1..i, p[x].sensed PROVE \E k \in 1..(L + 1) : more[k] = x
    <3>1. CASE x = i
      <4>1. L + 1 \in 1..(L + 1)
        BY <1>1
      <4> QED
        BY <2>1, <3>1, <4>1
    <3>2. CASE x # i
      <4>1. x \in 1..(i - 1)
        BY <1>1, <3>2
      <4>2. PICK k \in 1..L : q[k] = x
        BY <1>4, <2>5, <4>1
      <4>3. k \in 1..(L + 1)
        BY <1>1
      <4> QED
        BY <2>1, <4>2, <4>3
    <3> QED
      BY <3>1, <3>2
  <2>6. ListsSensed(more, p, i)
    BY <2>1, <2>3, <2>4, <2>5 DEF ListsSensed, n
  <2> QED
    BY <1>5, <2>6 DEF more
<1>6. CASE ~p[i].sensed
  <2>1. \A k \in 1..L : q[k] \in 1..i
    BY <1>1, <1>2
  <2>2. \A x \in 1..i : p[x].sensed => x \in 1..(i - 1)
    BY <1>1, <1>6
  <2>3. \A x \in 1..i : p[x].sensed => \E k \in 1..L : q[k] = x
    BY <1>4, <2>2
  <2>4. ListsSensed(q, p, i)
    BY <1>1, <1>2, <1>3, <2>1, <2>3 DEF ListsSensed, n
  <2> QED
    BY <1>6, <2>4
<1> QED
  BY <1>5, <1>6

\* _buildHistoryAttrIndex lists the points that carry the sensor, each once and in their order.
LEMMA TimelineLists == ASSUME NEW p \in Seq(Point) PROVE ListsSensed(TimelineOf(p), p, Len(p))
<1> DEFINE n == Len(p)
           T == Seq(1..n)
           found(q, i) == IF p[i].sensed THEN Append(q, i) ELSE q
           step == [x \in T \X (1..n) |-> found(x[1], x[2])]
           e(f, i) == IF i = 0 THEN <<>> ELSE found(f[i - 1], i)
           Rec(f) == f = [i \in 0..n |-> e(f, i)]
           f == CHOOSE g : Rec(g)
<1>1. n \in Nat
  BY LenProperties
<1>2. TimelineOf(p) = f[n]
  BY DEF TimelineOf
<1>3. <<>> \in T
  OBVIOUS
<1>4. ASSUME NEW q \in T, NEW i \in 1..n PROVE found(q, i) \in T
  <2>1. Append(q, i) \in T
    BY AppendProperties
  <2> QED
    BY <2>1
<1>5. step \in Stepping(n, T)
  <2>1. \A x \in T \X (1..n) : x[1] \in T /\ x[2] \in 1..n
    OBVIOUS
  <2> HIDE DEF T, n, found
  <2>2. \A x \in T \X (1..n) : found(x[1], x[2]) \in T
    BY <1>4, <2>1
  <2> QED
    BY <2>2 DEF Stepping
<1>6. PICK g : Folding(g, n, T, <<>>, step)
  <2> HIDE DEF T, n, step
  <2> QED
    BY <1>1, <1>3, <1>5, FoldExists
<1>7. ASSUME NEW i \in 1..n PROVE g[i] = found(g[i - 1], i)
  <2> HIDE DEF T, found
  <2>1. i - 1 \in 0..n
    BY <1>1
  <2> HIDE DEF n
  <2>2. <<g[i - 1], i>> \in T \X (1..n)
    BY <1>6, <2>1 DEF Folding
  <2>3. step[<<g[i - 1], i>>] = found(g[i - 1], i)
    BY <2>2
  <2>4. g[i] = step[<<g[i - 1], i>>]
    BY <1>6 DEF Folding
  <2> QED
    BY <2>3, <2>4
<1>8. Rec(g)
  <2> HIDE DEF found, T
  <2>1. \A i \in 0..n : g[i] = e(g, i)
    BY <1>1, <1>6, <1>7 DEF Folding
  <2> HIDE DEF n, e, step
  <2>2. g \in [0..n -> T]
    BY <1>6 DEF Folding
  <2> QED
    BY <2>1, <2>2
<1>9. Rec(f)
  <2> HIDE DEF Rec
  <2> QED
    BY <1>8
<1> HIDE DEF f, T
<1>10. f[0] = <<>> /\ \A i \in 1..n : f[i] = found(f[i - 1], i)
  <2> HIDE DEF e, n, found
  <2>1. \A i \in 0..n : f[i] = e(f, i)
    BY <1>9
  <2>2. e(f, 0) = <<>> /\ \A i \in 1..n : e(f, i) = found(f[i - 1], i)
    BY DEF e
  <2>3. 0 \in 0..n /\ \A i \in 1..n : i \in 0..n
    BY <1>1
  <2> QED
    BY <2>1, <2>2, <2>3
<1> DEFINE P == {i \in 0..n : ListsSensed(f[i], p, i)}
<1>11. 0 \in P
  <2>1. <<>> \in Seq(1..n) /\ DOMAIN <<>> = {} /\ 0 \in 0..n /\ 1..0 = {}
    BY <1>1
  <2> HIDE DEF n
  <2>2. ListsSensed(<<>>, p, 0)
    BY <2>1 DEF ListsSensed, n
  <2> QED
    BY <1>10, <2>1, <2>2
<1>12. ASSUME NEW i \in 1..n, i - 1 \in P PROVE i \in P
  <2>1. ListsSensed(f[i - 1], p, i - 1)
    BY <1>12
  <2>2. ListsSensed(found(f[i - 1], i), p, i)
    BY <2>1, SensedListed
  <2>3. f[i] = found(f[i - 1], i)
    BY <1>10
  <2> HIDE DEF found
  <2> QED
    BY <1>1, <2>2, <2>3
<1>13. n \in P
  <2>1. 0..n \subseteq P
    <3> HIDE DEF P, n
    <3> QED
      BY <1>1, <1>11, <1>12, CountUp
  <2> QED
    BY <1>1, <2>1
<1> QED
  BY <1>2, <1>13

\* A search of a timeline of m points: what lies before it is not after the current point, what
\* lies behind it is, and best is the last of what lies before.
Searches(s, at, k) ==
    LET m == Len(timeline) IN
    /\ s \in [low : 1..(m + 1), high : 0..m, best : Nat]
    /\ s.low <= s.high + 1
    /\ s.high - s.low + 1 <= m - k \/ s.low > s.high
    /\ \A j \in 1..(s.low - 1) : timeline[j] <= at
    /\ \A j \in (s.high + 1)..m : ~(timeline[j] <= at)
    /\ s.best = IF s.low = 1 THEN 0 ELSE timeline[s.low - 1]

\* The middle of the binary search lies between its ends.
LEMMA MidLies ==
    ASSUME NEW low \in Nat, NEW high \in Nat, low <= high
    PROVE  (low + high) \div 2 \in low..high
<1> DEFINE a == low + high
           q == a \div 2
<1>1. a \in Nat /\ 2 * low <= a /\ a <= 2 * high
  OBVIOUS
<1>2. q \in Int /\ 2 * q <= a /\ a <= 2 * q + 1
  <2> HIDE DEF a
  <2> QED
    BY <1>1
<1> HIDE DEF a, q
<1>3. q \in low..high
  BY <1>1, <1>2
<1> QED
  BY <1>3 DEF q, a

\* A round of the binary search keeps the newest reading between its ends.
LEMMA NarrowedSearches ==
    ASSUME NEW n \in Nat, timeline \in Seq(1..n), \A j, h \in DOMAIN timeline : j < h => timeline[j] < timeline[h],
           NEW at \in 1..n, NEW k \in Nat, NEW s, Searches(s, at, k)
    PROVE  Searches(Narrowed(s, at), at, k + 1)
<1> DEFINE m == Len(timeline)
           mid == (s.low + s.high) \div 2
           new == Narrowed(s, at)
<1>1. m \in Nat /\ DOMAIN timeline = 1..m /\ \A j \in 1..m : timeline[j] \in 1..n
  BY LenProperties, ElementOfSeq
<1> HIDE DEF m
<1>2. /\ s \in [low : 1..(m + 1), high : 0..m, best : Nat]
      /\ s.low <= s.high + 1
      /\ s.high - s.low + 1 <= m - k \/ s.low > s.high
      /\ \A j \in 1..(s.low - 1) : timeline[j] <= at
      /\ \A j \in (s.high + 1)..m : ~(timeline[j] <= at)
      /\ s.best = IF s.low = 1 THEN 0 ELSE timeline[s.low - 1]
  BY DEF Searches, m
<1>3. s.low \in 1..(m + 1) /\ s.high \in 0..m /\ s.best \in Nat
  BY <1>2
<1>4. CASE s.low > s.high
  <2>1. new = s
    BY <1>4 DEF Narrowed
  <2>2. Searches(s, at, k + 1)
    BY <1>2, <1>4 DEF Searches, m
  <2> QED
    BY <2>1, <2>2
<1>5. CASE ~(s.low > s.high)
  <2>1. mid \in s.low..s.high
    <3>1. s.low \in Nat /\ s.high \in Nat /\ s.low <= s.high
      BY <1>3, <1>5
    <3> QED
      BY <3>1, MidLies
  <2> HIDE DEF mid
  <2>2. mid \in 1..m /\ mid - 1 \in 0..m /\ mid + 1 \in 1..(m + 1)
    BY <1>1, <1>3, <2>1
  <2>3. s.high - s.low + 1 <= m - k
    BY <1>2, <1>5
  <2>4. \A j \in 1..m, h \in 1..m : j < h => timeline[j] < timeline[h]
    BY <1>1
  <2>5. CASE timeline[mid] <= at
    <3>1. new = [low |-> mid + 1, high |-> s.high, best |-> timeline[mid]]
      BY <1>5, <2>5 DEF Narrowed, mid
    <3>2. new.low = mid + 1 /\ new.high = s.high /\ new.best = timeline[mid]
      BY <3>1
    <3>3. timeline[mid] \in 1..n
      BY <1>1, <2>2
    <3>4. new \in [low : 1..(m + 1), high : 0..m, best : Nat]
      BY <1>3, <2>2, <3>1, <3>3
    <3> HIDE DEF new
    <3>5. \A j \in 1..(new.low - 1) : timeline[j] <= at
      <4> SUFFICES ASSUME NEW j \in 1..mid PROVE timeline[j] <= at
        BY <2>2, <3>2
      <4>1. j \in 1..m /\ (j = mid \/ j < mid)
        BY <1>1, <2>2
      <4>2. timeline[j] \in 1..n /\ (j < mid => timeline[j] < timeline[mid])
        BY <1>1, <2>2, <2>4, <4>1
      <4> QED
        BY <2>5, <3>3, <4>1, <4>2
    <3>6. new.low <= new.high + 1 /\ new.high - new.low + 1 <= m - (k + 1) /\ new.low # 1 /\ new.low - 1 = mid
      <4> DEFINE l == s.low
                 h == s.high
                 nl == new.low
                 nh == new.high
      <4>1. l \in Int /\ l >= 1 /\ h \in Int /\ mid \in Int /\ l <= mid /\ mid <= h /\ h - l + 1 <= m - k /\ nl = mid + 1 /\ nh = h
        BY <1>3, <2>1, <2>3, <3>2
      <4> HIDE DEF l, h, nl, nh
      <4>2. nl <= nh + 1 /\ nh - nl + 1 <= m - (k + 1) /\ nl # 1 /\ nl - 1 = mid
        BY <1>1, <4>1
      <4> QED
        BY <4>2 DEF nl, nh
    <3>7. Searches(new, at, k + 1)
      BY <1>2, <3>2, <3>4, <3>5, <3>6 DEF Searches, m
    <3> QED
      BY <3>7 DEF new
  <2>6. CASE ~(timeline[mid] <= at)
    <3>1. new = [low |-> s.low, high |-> mid - 1, best |-> s.best]
      BY <1>5, <2>6 DEF Narrowed, mid
    <3>2. new.low = s.low /\ new.high = mid - 1 /\ new.best = s.best
      BY <3>1
    <3>3. new \in [low : 1..(m + 1), high : 0..m, best : Nat]
      BY <1>3, <2>2, <3>1
    <3> HIDE DEF new
    <3>4. \A j \in (new.high + 1)..m : ~(timeline[j] <= at)
      <4> SUFFICES ASSUME NEW j \in mid..m PROVE ~(timeline[j] <= at)
        BY <2>2, <3>2
      <4>1. j \in 1..m /\ (j = mid \/ mid < j)
        BY <1>1, <2>2
      <4>2. timeline[j] \in 1..n /\ timeline[mid] \in 1..n /\ (mid < j => timeline[mid] < timeline[j])
        BY <1>1, <2>2, <2>4, <4>1
      <4> QED
        BY <2>6, <4>1, <4>2
    <3>5. new.low <= new.high + 1 /\ new.high - new.low + 1 <= m - (k + 1)
      <4> DEFINE l == s.low
                 h == s.high
                 nl == new.low
                 nh == new.high
      <4>1. l \in Int /\ h \in Int /\ mid \in Int /\ l <= mid /\ mid <= h /\ h - l + 1 <= m - k /\ nl = l /\ nh = mid - 1
        BY <1>3, <2>1, <2>3, <3>2
      <4> HIDE DEF l, h, nl, nh
      <4>2. nl <= nh + 1 /\ nh - nl + 1 <= m - (k + 1)
        BY <1>1, <4>1
      <4> QED
        BY <4>2 DEF nl, nh
    <3>6. Searches(new, at, k + 1)
      BY <1>2, <3>2, <3>3, <3>4, <3>5 DEF Searches, m
    <3> QED
      BY <3>6 DEF new
  <2> QED
    BY <2>5, <2>6
<1> QED
  BY <1>4, <1>5

\* Of the points shown the search finds the last one that carries the sensor and is not after the current one.
LEMMA ResolvedIsLatest ==
    ASSUME shown \in Seq(Point), ListsSensed(timeline, shown, Len(shown)), NEW at \in DOMAIN shown
    PROVE  LET seen == {i \in 1..at : shown[i].sensed}
           IN  ResolvedAt(at) = IF seen = {} THEN 0 ELSE CHOOSE i \in seen : \A j \in seen : j <= i
<1> DEFINE n == Len(shown)
           m == Len(timeline)
           S == {s \in [low : 1..(m + 1), high : 0..m, best : Nat] : \E k \in Nat : Searches(s, at, k)}
           start == [low |-> 1, high |-> m, best |-> 0]
           step == [x \in S \X (1..m) |-> Narrowed(x[1], at)]
           e(f, k) == IF k = 0 THEN start ELSE Narrowed(f[k - 1], at)
           Rec(f) == f = [k \in 0..m |-> e(f, k)]
           f == CHOOSE g : Rec(g)
<1>1. n \in Nat /\ at \in 1..n
  BY LenProperties
<1>2. /\ timeline \in Seq(1..n) /\ m \in Nat /\ DOMAIN timeline = 1..m
      /\ \A j, h \in DOMAIN timeline : j < h => timeline[j] < timeline[h]
  BY LenProperties DEF ListsSensed
<1> HIDE DEF n, m
<1>3. ResolvedAt(at) = f[m].best
  BY DEF ResolvedAt, m
<1>4. Searches(start, at, 0)
  <2>1. start \in [low : 1..(m + 1), high : 0..m, best : Nat] /\ start.low = 1 /\ start.high = m /\ start.best = 0
    BY <1>2
  <2> HIDE DEF start
  <2>2. 1..(start.low - 1) = {} /\ (start.high + 1)..m = {} /\ start.low <= start.high + 1 /\ start.high - start.low + 1 <= m - 0
    BY <1>2, <2>1
  <2> QED
    BY <2>1, <2>2 DEF Searches, m
<1>5. ASSUME NEW s, NEW k \in Nat, Searches(s, at, k) PROVE s \in S
  BY <1>5 DEF Searches, m
<1>6. start \in S
  BY <1>4, <1>5
<1> HIDE DEF start
<1>7. ASSUME NEW s \in S PROVE Narrowed(s, at) \in S
  <2>1. PICK k \in Nat : Searches(s, at, k)
    OBVIOUS
  <2>2. Searches(Narrowed(s, at), at, k + 1)
    BY <1>1, <1>2, <2>1, NarrowedSearches
  <2> QED
    BY <1>5, <2>2
<1> HIDE DEF S
<1>8. step \in Stepping(m, S)
  <2>1. \A x \in S \X (1..m) : x[1] \in S
    OBVIOUS
  <2> QED
    BY <1>7, <2>1 DEF Stepping
<1>9. PICK g : Folding(g, m, S, start, step)
  <2> HIDE DEF step
  <2> QED
    BY <1>2, <1>6, <1>8, FoldExists
<1>10. ASSUME NEW k \in 1..m PROVE g[k] = Narrowed(g[k - 1], at)
  <2>1. k - 1 \in 0..m
    BY <1>2
  <2>2. <<g[k - 1], k>> \in S \X (1..m)
    BY <1>9, <2>1 DEF Folding
  <2>3. step[<<g[k - 1], k>>] = Narrowed(g[k - 1], at)
    BY <2>2
  <2>4. g[k] = step[<<g[k - 1], k>>]
    BY <1>9 DEF Folding
  <2> QED
    BY <2>3, <2>4
<1>11. Rec(g)
  <2>1. \A k \in 0..m : g[k] = e(g, k)
    BY <1>2, <1>9, <1>10 DEF Folding
  <2> HIDE DEF e, step
  <2>2. g \in [0..m -> S]
    BY <1>9 DEF Folding
  <2> QED
    BY <2>1, <2>2
<1>12. Rec(f)
  <2> HIDE DEF Rec
  <2> QED
    BY <1>11
<1> HIDE DEF f
<1>13. f[0] = start /\ \A k \in 1..m : f[k] = Narrowed(f[k - 1], at)
  <2> HIDE DEF e
  <2>1. \A k \in 0..m : f[k] = e(f, k)
    BY <1>12
  <2>2. e(f, 0) = start /\ \A k \in 1..m : e(f, k) = Narrowed(f[k - 1], at)
    BY DEF e
  <2>3. 0 \in 0..m /\ \A k \in 1..m : k \in 0..m
    BY <1>2
  <2> QED
    BY <2>1, <2>2, <2>3
<1> DEFINE P == {k \in 0..m : Searches(f[k], at, k)}
<1>14. 0 \in P
  BY <1>2, <1>4, <1>13
<1>15. ASSUME NEW k \in 1..m, k - 1 \in P PROVE k \in P
  <2>1. k - 1 \in Nat /\ (k - 1) + 1 = k
    BY <1>2
  <2>2. Searches(f[k - 1], at, k - 1)
    BY <1>15
  <2>3. Searches(Narrowed(f[k - 1], at), at, (k - 1) + 1)
    BY <1>1, <1>2, <2>1, <2>2, NarrowedSearches
  <2> QED
    BY <1>2, <1>13, <2>1, <2>3
<1>16. Searches(f[m], at, m)
  <2>1. 0..m \subseteq P
    <3> HIDE DEF P
    <3> QED
      BY <1>2, <1>14, <1>15, CountUp
  <2> QED
    BY <1>2, <2>1
<1> DEFINE s == f[m]
           seen == {i \in 1..at : shown[i].sensed}
<1>17. /\ s.low \in 1..(m + 1) /\ s.high \in 0..m
       /\ s.low <= s.high + 1 /\ (s.high - s.low + 1 <= m - m \/ s.low > s.high)
       /\ \A j \in 1..(s.low - 1) : timeline[j] <= at
       /\ \A j \in (s.high + 1)..m : ~(timeline[j] <= at)
       /\ s.best = IF s.low = 1 THEN 0 ELSE timeline[s.low - 1]
  BY <1>16 DEF Searches, m
<1> HIDE DEF s
<1>18. s.high = s.low - 1 /\ \A j \in s.low..m : ~(timeline[j] <= at)
  BY <1>2, <1>17
<1>19. \A j \in 1..m : timeline[j] \in 1..n /\ shown[timeline[j]].sensed
  BY <1>2 DEF ListsSensed, n
<1>20. ASSUME NEW i \in seen PROVE \E j \in 1..(s.low - 1) : timeline[j] = i
  <2>1. i \in 1..n /\ shown[i].sensed
    BY <1>1
  <2>2. PICK j \in 1..m : timeline[j] = i
    BY <1>2, <2>1 DEF ListsSensed, n
  <2>3. timeline[j] <= at
    BY <1>1, <2>2
  <2>4. j \in 1..(s.low - 1)
    BY <1>2, <1>17, <1>18, <2>3
  <2> QED
    BY <2>2, <2>4
<1>21. CASE s.low = 1
  <2>1. seen = {}
    <3>1. 1..(s.low - 1) = {}
      BY <1>21
    <3> HIDE DEF seen
    <3> QED
      BY <1>20, <3>1
  <2>2. s.best = 0
    BY <1>17, <1>21
  <2> QED
    BY <1>3, <2>1, <2>2 DEF s
<1>22. CASE s.low # 1
  <2> DEFINE k == s.low - 1
             i == timeline[k]
  <2>1. k \in 1..m /\ k \in 1..(s.low - 1)
    BY <1>2, <1>17, <1>22
  <2>2. i \in 1..n /\ shown[i].sensed /\ i <= at
    BY <1>17, <1>19, <2>1
  <2>3. i \in seen
    BY <1>1, <2>2
  <2>4. ASSUME NEW j \in seen PROVE j <= i
    <3>1. PICK h \in 1..(s.low - 1) : timeline[h] = j
      BY <1>20
    <3>2. h \in 1..m /\ (h = k \/ h < k)
      BY <1>2, <1>17, <3>1
    <3>3. h < k => timeline[h] < timeline[k]
      BY <1>2, <2>1, <3>2
    <3>4. j \in Int
      OBVIOUS
    <3> QED
      BY <2>2, <3>1, <3>2, <3>3, <3>4
  <2>5. s.best = i
    BY <1>17, <1>22
  <2>6. \A j \in seen : j \in Int
    OBVIOUS
  <2> HIDE DEF i, seen
  <2>7. \A x \in seen : (\A j \in seen : j <= x) => x = i
    BY <2>3, <2>4, <2>6
  <2>8. (CHOOSE x \in seen : \A j \in seen : j <= x) = i
    BY <2>3, <2>4, <2>7
  <2>9. ResolvedAt(at) = IF seen = {} THEN 0 ELSE CHOOSE x \in seen : \A j \in seen : j <= x
    BY <1>3, <2>3, <2>5, <2>8 DEF s
  <2> QED
    BY <2>9 DEF seen
<1> QED
  BY <1>21, <1>22

-----------------------------------------------------------------------------
(* The invariant of the playback, and its steps. *)
Coloured(c) == \A t \in DOMAIN c : c[t] \in 0..(Palette - 1)

\* A number of a trip gives a colour of the palette.
LEMMA ColourInPalette == ASSUME NEW x \in Int PROVE x % Palette \in 0..(Palette - 1)
<1>1. Palette \in Nat \ {0}
  BY HistoryPlaybackAssumption
<1> QED
  BY <1>1

\* Lines give trips a colour and change none.
LEMMA LineColoursKeep ==
    ASSUME NEW known, Coloured(known), NEW p \in Seq(Point), p # <<>>
    PROVE  /\ Coloured(LineColours(known, p))
           /\ \A t \in DOMAIN known : t \in DOMAIN LineColours(known, p) /\ LineColours(known, p)[t] = known[t]
<1> DEFINE L == LayersOf(p)
           D == {p[l[1]].trip : l \in {k \in ToSet(L) : p[k[1]].trip = p[k[2]].trip}}
           R == [t \in DOMAIN known \cup (D \ {0}) |-> IF t \in DOMAIN known THEN known[t] ELSE t % Palette]
<1>1. LineColours(known, p) = R
  BY DEF LineColours
<1>2. ASSUME NEW t \in D PROVE t \in Nat
  <2>1. PICK l \in ToSet(L) : t = p[l[1]].trip
    OBVIOUS
  <2>2. L \in Seq(LinesUpTo(Len(p)))
    BY LayersCover
  <2> HIDE DEF L
  <2>3. PICK k \in DOMAIN L : l = L[k]
    BY <2>1 DEF ToSet
  <2>4. l \in LinesUpTo(Len(p))
    BY <2>2, <2>3, LenProperties, ElementOfSeq
  <2>5. l \in Seq(1..Len(p)) /\ Len(l) >= 2
    BY <2>4 DEF LinesUpTo
  <2>6. l[1] \in 1..Len(p)
    <3>1. 1 \in 1..Len(l)
      BY <2>5, LenProperties
    <3> QED
      BY <2>5, <3>1, ElementOfSeq
  <2>7. p[l[1]] \in Point
    BY <2>6, ElementOfSeq
  <2> QED
    BY <2>1, <2>7 DEF Point
<1> HIDE DEF D
<1>3. ASSUME NEW t \in DOMAIN R PROVE R[t] \in 0..(Palette - 1)
  <2>1. CASE t \in DOMAIN known
    BY <2>1 DEF Coloured
  <2>2. CASE t \notin DOMAIN known
    <3>1. t \in Nat /\ R[t] = t % Palette
      BY <1>2, <2>2
    <3> QED
      BY <3>1, ColourInPalette
  <2> QED
    BY <2>1, <2>2
<1>4. \A t \in DOMAIN known : t \in DOMAIN R /\ R[t] = known[t]
  OBVIOUS
<1>5. Coloured(R)
  <2> HIDE DEF R
  <2> QED
    BY <1>3 DEF Coloured
<1> QED
  BY <1>1, <1>4, <1>5

\* The trips of a range are a sequence.
LEMMA TripsAreListed == ASSUME NEW p \in Seq(Point) PROVE TripsOf(p) \in Seq(Nat)
<1> DEFINE n == Len(p)
           S == {p[i].trip : i \in DOMAIN p} \ {0}
           R == {x \in S \X S : x[1] > x[2]}
           Sorted(o) == o \in [1..Cardinality(S) -> S] /\ \A i, j \in DOMAIN o : i < j => o[i] > o[j]
           order == CHOOSE o \in [1..Cardinality(S) -> S] : \A i, j \in DOMAIN o : i < j => o[i] > o[j]
<1>1. n \in Nat /\ DOMAIN p = 1..n /\ \A i \in 1..n : p[i] \in Point
  BY LenProperties, ElementOfSeq
<1>2. S \subseteq Nat
  <2>1. \A i \in 1..n : p[i].trip \in Nat
    BY <1>1 DEF Point
  <2> QED
    BY <1>1, <2>1
<1>3. IsFiniteSet(S)
  <2> DEFINE I == {p[i].trip : i \in 1..n}
             f == [i \in 1..n |-> p[i].trip]
  <2>1. IsFiniteSet(1..n)
    BY <1>1, FS_Interval
  <2>2. f \in Surjection(1..n, I)
    BY DEF Surjection
  <2>3. IsFiniteSet(I)
    <3> HIDE DEF f, I
    <3> QED
      BY <2>1, <2>2, FS_Surjection
  <2>4. S \subseteq I
    BY <1>1
  <2> HIDE DEF I, S
  <2> QED
    BY <2>3, <2>4, FS_Subset
<1> HIDE DEF S
<1>4. \A a, b \in S : <<a, b>> \in R <=> a > b
  OBVIOUS
<1>5. Orders(R, S)
  <2>1. \A a \in S : a \in Int
    BY <1>2
  <2> HIDE DEF R
  <2>2. \A a, b \in S : a # b => <<a, b>> \in R \/ <<b, a>> \in R
    BY <1>4, <2>1
  <2>3. \A a, b, c \in S : <<a, b>> \in R /\ <<b, c>> \in R => <<a, c>> \in R
    BY <1>4, <2>1
  <2> QED
    BY <2>2, <2>3 DEF Orders
<1>6. PICK o : InOrder(R, S, o)
  <2> HIDE DEF R
  <2> QED
    BY <1>3, <1>5, OrderExists
<1>7. o \in [1..Cardinality(S) -> S] /\ \A i, j \in DOMAIN o : i < j => o[i] > o[j]
  <2>1. o \in [1..Cardinality(S) -> S] /\ \A i, j \in 1..Cardinality(S) : i < j => <<o[i], o[j]>> \in R
    BY <1>6 DEF InOrder
  <2> HIDE DEF R
  <2> QED
    BY <1>4, <2>1
<1>8. order \in [1..Cardinality(S) -> S]
  BY <1>7
<1>9. TripsOf(p) = order
  BY DEF TripsOf, S
<1>10. Cardinality(S) \in Nat
  BY <1>3, FS_CardinalityType
<1> HIDE DEF order
<1>11. order \in [1..Cardinality(S) -> Nat]
  BY <1>2, <1>8
<1>12. order \in Seq(Nat)
  BY <1>10, <1>11, SeqDef
<1> QED
  BY <1>9, <1>12

\* Listing trips keeps the colours that were given.
LEMMA ListColoursKeep ==
    ASSUME Coloured(colours), NEW trips \in Seq(Nat)
    PROVE  /\ Coloured(ListColours(trips))
           /\ \A t \in DOMAIN colours : t \in DOMAIN ListColours(trips) /\ ListColours(trips)[t] = colours[t]
<1> DEFINE Age(t) == Len(trips) - CHOOSE i \in DOMAIN trips : trips[i] = t
           R == [t \in DOMAIN colours \cup ToSet(trips) |-> IF t \in DOMAIN colours THEN colours[t] ELSE Age(t) % Palette]
<1>1. ListColours(trips) = R
  BY DEF ListColours
<1>2. Len(trips) \in Nat /\ DOMAIN trips = 1..Len(trips)
  BY LenProperties
<1>3. ASSUME NEW t \in ToSet(trips) PROVE Age(t) \in Int
  <2>1. \E i \in DOMAIN trips : trips[i] = t
    BY DEF ToSet
  <2>2. (CHOOSE i \in DOMAIN trips : trips[i] = t) \in 1..Len(trips)
    BY <1>2, <2>1
  <2> QED
    BY <1>2, <2>2
<1> HIDE DEF Age
<1>4. ASSUME NEW t \in DOMAIN R PROVE R[t] \in 0..(Palette - 1)
  <2>1. CASE t \in DOMAIN colours
    BY <2>1 DEF Coloured
  <2>2. CASE t \notin DOMAIN colours
    <3>1. Age(t) \in Int /\ R[t] = Age(t) % Palette
      BY <1>3, <2>2
    <3> QED
      BY <3>1, ColourInPalette
  <2> QED
    BY <2>1, <2>2
<1>5. \A t \in DOMAIN colours : t \in DOMAIN R /\ R[t] = colours[t]
  OBVIOUS
<1>6. Coloured(R)
  <2> HIDE DEF R
  <2> QED
    BY <1>4 DEF Coloured
<1> QED
  BY <1>1, <1>5, <1>6

\* A batch is part of the track and not larger than a batch.
LEMMA PageIsBatch ==
    ASSUME NEW p \in Seq(Point), NEW offset \in Nat, PageFrom(p, offset) # <<>>
    PROVE  PageFrom(p, offset) \in Seq(Point) /\ Len(PageFrom(p, offset)) \in 1..BatchSize
<1> DEFINE e == IF offset + BatchSize < Len(p) THEN offset + BatchSize ELSE Len(p)
           page == SubSeq(p, offset + 1, e)
<1>1. BatchSize \in Nat \ {0} /\ Len(p) \in Nat
  BY HistoryPlaybackAssumption, LenProperties
<1>2. e \in Nat /\ e <= Len(p) /\ e - offset <= BatchSize
  BY <1>1
<1>3. PageFrom(p, offset) = page
  BY DEF PageFrom
<1> HIDE DEF e
<1>4. offset + 1 <= e
  <2> SUFFICES ASSUME ~(offset + 1 <= e) PROVE page = <<>>
    BY <1>3
  <2> QED
    BY <1>2
<1>5. page \in Seq(Point) /\ Len(page) = e - (offset + 1) + 1
  <2>1. offset + 1 \in 1..(Len(p) + 1) /\ e \in offset..Len(p)
    BY <1>1, <1>2, <1>4
  <2> QED
    BY <1>2, <1>4, <2>1, SubSeqProperties
<1>6. Len(page) \in 1..BatchSize
  BY <1>1, <1>2, <1>4, <1>5
<1> QED
  BY <1>3, <1>5, <1>6

BatchLoads == [points : Tracks, same : BOOLEAN, reuse : BOOLEAN, stage : {"positions", "trips"}]

\* The points shown are a batch, and the timeline is theirs.
BatchShown ==
    /\ shown \in Seq(Point) /\ Len(shown) <= BatchSize /\ timeline \in Seq(1..BatchSize)
    /\ shown = <<>> \/ ListsSensed(timeline, shown, Len(shown))
\* A load that awaits its trips shows their batch already, one for the track of the session keeps its colours.
LoadKnown ==
    batchLoad = NoLoad \/ /\ batchLoad \in BatchLoads
                          /\ batchLoad.stage = "trips" => shown # <<>> /\ playOpen
                          /\ batchLoad.stage = "positions" /\ playOpen /\ batchLoad.points = track => batchLoad.same
Awaiting == batchLoad # NoLoad /\ batchLoad.stage = "trips"
\* Lines are those of the points shown, but while the trips of the next ones are awaited.
LinesShown == shown = <<>> \/ lines = <<>> \/ lines = LayersOf(shown) \/ Awaiting
SessionOver == ~playOpen => shown = <<>> /\ ~playing /\ ~posMarker /\ lines = <<>> /\ clipAt = 0 /\ ~ecoOnMap /\ ~showEco
ClipKnown == clipFresh /\ clipAt # 0 /\ shown # <<>> => clipAt \in DOMAIN shown
PlayTyped ==
    /\ track \in Tracks \cup {<<>>} /\ (playOpen => track \in Tracks)
    /\ playOpen \in BOOLEAN /\ hasNext \in BOOLEAN /\ playing \in BOOLEAN /\ posMarker \in BOOLEAN
    /\ batchOffset \in Nat /\ playIndex \in 1..BatchSize /\ tripList \in Seq(Nat) /\ clipAt \in 0..BatchSize
    /\ clipFresh \in BOOLEAN /\ ecoEvents \in BOOLEAN /\ ecoLayer \in BOOLEAN /\ ecoOnMap \in BOOLEAN /\ showEco \in BOOLEAN
    /\ lateAnswers \subseteq {"clips", "eco"}
HistoryInv ==
    PlayTyped /\ BatchShown /\ LoadKnown /\ LinesShown /\ SessionOver /\ ClipKnown /\ Coloured(colours)

\* A batch has at least one point.
LEMMA SizesPositive == BatchSize \in Nat /\ BatchSize >= 1 /\ NoLoad \notin BatchLoads
BY HistoryPlaybackAssumption DEF BatchLoads

\* A track is a sequence of points.
LEMMA TracksArePoints == \A p \in Tracks : p \in Seq(Point) /\ p # <<>>
BY HistoryPlaybackAssumption DEF Point

\* What the invariant says of a track drawn, a reading and the end of a session.
LEMMA HistoryInvGives == HistoryInv => HistoryPlaybackTypeOK /\ NothingAfterExit /\ TrackIsUnbroken /\ LatestReading
<1> SUFFICES ASSUME HistoryInv PROVE HistoryPlaybackTypeOK /\ NothingAfterExit /\ TrackIsUnbroken /\ LatestReading
  OBVIOUS
<1>0. PlayTyped /\ BatchShown /\ LoadKnown /\ LinesShown /\ SessionOver /\ ClipKnown /\ Coloured(colours)
  BY DEF HistoryInv
<1>1. HistoryPlaybackTypeOK
  <2>1. timeline \in Seq(1..BatchSize)
    BY <1>0 DEF BatchShown
  <2>2. ToSet(timeline) \subseteq 1..BatchSize
    <3>1. \A k \in DOMAIN timeline : timeline[k] \in 1..BatchSize
      BY <2>1, ElementOfSeq, LenProperties
    <3> QED
      BY <3>1 DEF ToSet
  <2>3. Len(shown) <= BatchSize
    BY <1>0 DEF BatchShown
  <2>4. /\ track \in Tracks \cup {<<>>} /\ {playOpen, hasNext, playing, posMarker} \subseteq BOOLEAN
        /\ batchOffset \in Nat /\ playIndex \in 1..BatchSize /\ clipAt \in 0..BatchSize
        /\ {clipFresh, ecoEvents, ecoLayer, ecoOnMap, showEco} \subseteq BOOLEAN /\ lateAnswers \subseteq {"clips", "eco"}
    BY <1>0 DEF PlayTyped
  <2> QED
    BY <1>0, <2>2, <2>3, <2>4 DEF HistoryPlaybackTypeOK, Coloured
<1>2. NothingAfterExit
  BY <1>0 DEF SessionOver, NothingAfterExit
<1>3. TrackIsUnbroken
  <2> SUFFICES ASSUME batchLoad = NoLoad, lines # <<>>, NEW i \in 1..(Len(shown) - 1)
               PROVE  Cardinality({k \in DOMAIN lines : \E j \in 1..(Len(lines[k]) - 1) :
                                     lines[k][j] = i /\ lines[k][j + 1] = i + 1}) = 1
    BY DEF TrackIsUnbroken
  <2>1. shown \in Seq(Point) /\ Len(shown) \in Nat
    BY <1>0, LenProperties DEF BatchShown
  <2>2. shown # <<>>
    <3> SUFFICES ASSUME shown = <<>> PROVE FALSE
      OBVIOUS
    <3>1. Len(shown) = 0
      OBVIOUS
    <3> QED
      BY <3>1
  <2>3. lines = LayersOf(shown)
    BY <1>0, <2>2 DEF LinesShown, Awaiting
  <2>4. Covers(lines, Len(shown) - 1)
    BY <2>1, <2>2, <2>3, LayersCover
  <2>5. PICK k \in DOMAIN lines : OnlyAt(lines, i, k)
    BY <2>4 DEF Covers
  <2>6. {h \in DOMAIN lines : \E j \in 1..(Len(lines[h]) - 1) : lines[h][j] = i /\ lines[h][j + 1] = i + 1} = {k}
    <3>1. \A h \in DOMAIN lines : (\E j \in 1..(Len(lines[h]) - 1) : lines[h][j] = i /\ lines[h][j + 1] = i + 1) <=> h = k
      BY <2>5 DEF OnlyAt, JoinsAt
    <3> QED
      BY <3>1
  <2> QED
    BY <2>6, FS_Singleton
<1>4. LatestReading
  <2> SUFFICES ASSUME NEW at \in DOMAIN shown
               PROVE  LET seen == {i \in 1..at : shown[i].sensed}
                      IN  ResolvedAt(at) = IF seen = {} THEN 0 ELSE CHOOSE i \in seen : \A j \in seen : j <= i
    BY DEF LatestReading
  <2>1. shown \in Seq(Point) /\ (shown = <<>> \/ ListsSensed(timeline, shown, Len(shown)))
    BY <1>0 DEF BatchShown
  <2>2. shown # <<>>
    OBVIOUS
  <2> QED
    BY <2>1, <2>2, ResolvedIsLatest
<1> QED
  BY <1>1, <1>2, <1>3, <1>4

\* The playback starts in the invariant.
LEMMA HistoryInvInit == HistoryPlaybackInit => HistoryInv
<1> SUFFICES ASSUME HistoryPlaybackInit PROVE HistoryInv
  OBVIOUS
<1> USE DEF HistoryPlaybackInit
<1>1. <<>> \in Seq(Point) /\ <<>> \in Seq(1..BatchSize) /\ <<>> \in Seq(Nat) /\ Len(<<>>) = 0 /\ DOMAIN <<>> = {}
  OBVIOUS
<1>2. PlayTyped
  <2>1. playIndex \in 1..BatchSize /\ clipAt \in 0..BatchSize
    BY SizesPositive
  <2>2. track \in Tracks \cup {<<>>} /\ (playOpen => track \in Tracks) /\ tripList \in Seq(Nat) /\ batchOffset \in Nat
    BY <1>1
  <2>3. /\ playOpen \in BOOLEAN /\ hasNext \in BOOLEAN /\ playing \in BOOLEAN /\ posMarker \in BOOLEAN
        /\ clipFresh \in BOOLEAN /\ ecoEvents \in BOOLEAN /\ ecoLayer \in BOOLEAN /\ ecoOnMap \in BOOLEAN /\ showEco \in BOOLEAN
    OBVIOUS
  <2>4. lateAnswers \subseteq {"clips", "eco"}
    OBVIOUS
  <2> QED
    BY <2>1, <2>2, <2>3, <2>4 DEF PlayTyped
<1>3. BatchShown
  BY <1>1, SizesPositive DEF BatchShown
<1>4. LoadKnown /\ LinesShown /\ SessionOver /\ ClipKnown
  BY DEF LoadKnown, LinesShown, SessionOver, ClipKnown
<1>5. Coloured(colours)
  BY <1>1 DEF Coloured
<1> QED
  BY <1>2, <1>3, <1>4, <1>5 DEF HistoryInv

\* A step of another part keeps it.
LEMMA HistoryStutter == HistoryInv /\ UNCHANGED playbackVars => HistoryInv'
<1> SUFFICES ASSUME HistoryInv, UNCHANGED playbackVars PROVE HistoryInv'
  OBVIOUS
<1> USE DEF HistoryInv, playbackVars
<1>1. PlayTyped'
  BY DEF PlayTyped
<1>2. BatchShown'
  BY DEF BatchShown
<1>3. LoadKnown' /\ LinesShown' /\ SessionOver' /\ ClipKnown'
  BY DEF LoadKnown, LinesShown, Awaiting, SessionOver, ClipKnown
<1>4. Coloured(colours')
  OBVIOUS
<1> QED
  BY <1>1, <1>2, <1>3, <1>4

\* The steps that begin a load.
LEMMA BeginLoadKept ==
    ASSUME HistoryInv, NEW p \in Tracks, NEW offset \in Nat, NEW same \in BOOLEAN, NEW reuse \in BOOLEAN,
           playOpen /\ p = track => same, BeginLoad(p, offset, same, reuse)
    PROVE  HistoryInv'
<1> USE DEF HistoryInv
<1> DEFINE load == [points |-> p, same |-> same, reuse |-> reuse, stage |-> "positions"]
<1>1. /\ batchLoad' = load /\ batchOffset' = offset /\ lines' = <<>> /\ posMarker' = FALSE /\ playing' = FALSE
      /\ UNCHANGED <<track, playOpen, hasNext, shown, playIndex, timeline, tripList, colours>>
      /\ UNCHANGED <<clipAt, clipFresh, ecoEvents, ecoLayer, ecoOnMap, showEco, lateAnswers>>
  BY DEF BeginLoad, extraVars
<1>2. load \in BatchLoads /\ load.stage = "positions" /\ load.points = p /\ load.same = same
  BY DEF BatchLoads
<1> HIDE DEF load
<1>3. PlayTyped'
  BY <1>1 DEF PlayTyped
<1>4. BatchShown'
  BY <1>1 DEF BatchShown
<1>5. LoadKnown'
  BY <1>1, <1>2 DEF LoadKnown
<1>6. LinesShown' /\ SessionOver' /\ ClipKnown'
  BY <1>1 DEF LinesShown, SessionOver, ClipKnown
<1>7. Coloured(colours')
  BY <1>1
<1> QED
  BY <1>3, <1>4, <1>5, <1>6, <1>7

\* Opening a history keeps it.
LEMMA OpenSessionKept == ASSUME HistoryInv, NEW p \in Tracks, OpenSession(p) PROVE HistoryInv'
<1> DEFINE same == playOpen /\ p = track
           reuse == same /\ batchOffset > 0
<1>1. playOpen \in BOOLEAN /\ 0 \in Nat
  BY DEF HistoryInv, PlayTyped
<1>2. same \in BOOLEAN /\ reuse \in BOOLEAN
  BY <1>1
<1>3. BeginLoad(p, 0, same, reuse)
  BY DEF OpenSession
<1>4. playOpen /\ p = track => same
  OBVIOUS
<1> HIDE DEF same, reuse
<1> QED
  BY <1>1, <1>2, <1>3, <1>4, BeginLoadKept

\* Asking for the batch before or after keeps it.
LEMMA LoadBatchKept == ASSUME HistoryInv, NEW direction \in {-1, 1}, LoadBatch(direction) PROVE HistoryInv'
<1> DEFINE offset == batchOffset + direction * BatchSize
<1>1. playOpen /\ offset \in 0..MaxOffset /\ BeginLoad(track, offset, TRUE, TRUE)
  BY DEF LoadBatch
<1> HIDE DEF offset
<1>2. offset \in Nat
  BY <1>1
<1>3. track \in Tracks
  BY <1>1 DEF HistoryInv, PlayTyped
<1> QED
  BY <1>1, <1>2, <1>3, BeginLoadKept

\* What a step does to colours and to the place in the data.
ColoursKept == playOpen /\ playOpen' /\ track' = track => \A t \in DOMAIN colours : t \in DOMAIN colours' /\ colours'[t] = colours[t]
InData == (shown # <<>> => playIndex \in DOMAIN shown) /\ shown' # <<>> /\ playIndex' \notin DOMAIN shown' => ~clipFresh

\* Steps that leave colours, or the points and the cursor, alone are allowed.
LEMMA StepsOfKept ==
    /\ UNCHANGED colours => ColoursKept
    /\ UNCHANGED <<shown, playIndex>> => InData
BY DEF ColoursKept, InData

\* What is shown is numbered from 1 and at most a batch.
LEMMA DomainOfShown == ASSUME HistoryInv, shown # <<>> PROVE DOMAIN shown = 1..Len(shown) /\ Len(shown) \in 1..BatchSize
<1>1. shown \in Seq(Point) /\ Len(shown) <= BatchSize
  BY DEF HistoryInv, BatchShown
<1>2. Len(shown) \in Nat /\ DOMAIN shown = 1..Len(shown) /\ Len(shown) # 0
  BY <1>1, LenProperties, EmptySeq
<1> QED
  BY <1>1, <1>2, SizesPositive

\* A drawn batch.
LEMMA PositionsShownKept == ASSUME HistoryInv, PositionsShown PROVE HistoryInv' /\ ColoursKept /\ InData
<1> USE DEF HistoryInv
<1> DEFINE p == batchLoad.points
           batch == PageFrom(p, batchOffset)
           reused == batchLoad.reuse /\ tripList # <<>>
           kept == IF batchLoad.same THEN colours ELSE <<>>
           next == [batchLoad EXCEPT !.stage = "trips"]
<1>1. batchLoad # NoLoad /\ batchLoad.stage = "positions" /\ batchLoad \in BatchLoads
  BY DEF PositionsShown, LoadKnown
<1>2. p \in Tracks /\ batchLoad.same \in BOOLEAN /\ batchLoad.reuse \in BOOLEAN
  BY <1>1 DEF BatchLoads
<1>3. p \in Seq(Point) /\ p # <<>> /\ batchOffset \in Nat
  BY <1>2, TracksArePoints DEF PlayTyped
<1>4. /\ batch # <<>> /\ shown' = batch /\ playIndex' = 1 /\ timeline' = TimelineOf(batch)
      /\ hasNext' = (batchOffset + BatchSize < Len(p))
      /\ track' = p /\ playOpen' = TRUE /\ clipFresh' = (clipAt = 0)
      /\ UNCHANGED <<batchOffset, playing, tripList, clipAt, ecoEvents, ecoLayer, ecoOnMap, showEco>>
  BY DEF PositionsShown
<1>5. \/ /\ reused /\ batchLoad' = NoLoad /\ colours' = LineColours(kept, batch) /\ lines' = LayersOf(batch)
         /\ posMarker' = TRUE /\ lateAnswers' = {"clips", "eco"}
      \/ ~reused /\ batchLoad' = next /\ colours' = kept /\ UNCHANGED <<lines, posMarker, lateAnswers>>
  BY DEF PositionsShown
<1>6. batch \in Seq(Point) /\ Len(batch) \in 1..BatchSize
  BY <1>3, <1>4, PageIsBatch
<1>7. Coloured(kept)
  BY DEF Coloured
<1>8. next \in BatchLoads /\ next.stage = "trips"
  <2>1. batchLoad \in [points : Tracks, same : BOOLEAN, reuse : BOOLEAN, stage : {"positions", "trips"}]
    BY <1>1 DEF BatchLoads
  <2>2. next \in [points : Tracks, same : BOOLEAN, reuse : BOOLEAN, stage : {"positions", "trips"}]
    BY <2>1
  <2> QED
    BY <2>1, <2>2 DEF BatchLoads
<1>9. next # NoLoad
  BY <1>8, SizesPositive
<1>10. Coloured(LineColours(kept, batch))
       /\ \A t \in DOMAIN kept : t \in DOMAIN LineColours(kept, batch) /\ LineColours(kept, batch)[t] = kept[t]
  BY <1>4, <1>6, <1>7, LineColoursKeep
<1> HIDE DEF batch, kept, next, p, reused
<1>11. /\ Coloured(colours')
       /\ \A t \in DOMAIN kept : t \in DOMAIN colours' /\ colours'[t] = kept[t]
  BY <1>5, <1>7, <1>10
<1>12. ListsSensed(timeline', shown', Len(shown'))
  BY <1>4, <1>6, TimelineLists
<1>13. timeline' \in Seq(1..BatchSize)
  <2>1. timeline' \in Seq(1..Len(batch))
    BY <1>4, <1>12 DEF ListsSensed
  <2>2. Len(timeline') \in Nat /\ timeline' \in [1..Len(timeline') -> 1..Len(batch)]
    BY <2>1, LenProperties
  <2>3. 1..Len(batch) \subseteq 1..BatchSize
    BY <1>6, SizesPositive
  <2>4. timeline' \in [1..Len(timeline') -> 1..BatchSize]
    BY <2>2, <2>3
  <2> QED
    BY <2>2, <2>4, SeqDef
<1>14. BatchShown'
  BY <1>4, <1>6, <1>12, <1>13 DEF BatchShown
<1>15. PlayTyped'
  <2>1. hasNext' \in BOOLEAN /\ clipFresh' \in BOOLEAN
    BY <1>4
  <2>2. posMarker' \in BOOLEAN /\ lateAnswers' \subseteq {"clips", "eco"}
    BY <1>5 DEF PlayTyped
  <2>3. playIndex' \in 1..BatchSize
    BY <1>4, SizesPositive
  <2> QED
    BY <1>2, <1>4, <2>1, <2>2, <2>3 DEF PlayTyped, p
<1>16. LoadKnown'
  BY <1>4, <1>5, <1>8 DEF LoadKnown
<1>17. LinesShown'
  BY <1>4, <1>5, <1>8, <1>9 DEF LinesShown, Awaiting
<1>18. SessionOver'
  BY <1>4 DEF SessionOver
<1>19. ClipKnown'
  BY <1>4 DEF ClipKnown
<1>20. ColoursKept
  <2> SUFFICES ASSUME playOpen, track' = track PROVE \A t \in DOMAIN colours : t \in DOMAIN colours' /\ colours'[t] = colours[t]
    BY DEF ColoursKept
  <2>1. p = track
    BY <1>4
  <2>2. batchLoad.same
    BY <1>1, <2>1 DEF LoadKnown, p
  <2> QED
    BY <1>11, <2>2 DEF kept
<1>21. InData
  <2>1. 1 \in DOMAIN shown'
    <3>1. DOMAIN batch = 1..Len(batch)
      BY <1>6, LenProperties
    <3> QED
      BY <1>4, <1>6, <3>1
  <2> QED
    BY <1>4, <2>1 DEF InData
<1> QED
  BY <1>11, <1>14, <1>15, <1>16, <1>17, <1>18, <1>19, <1>20, <1>21

\* The trips that arrive keep the invariant, and the colours given before.
LEMMA TripsListedKept == ASSUME HistoryInv, NEW ok \in BOOLEAN, TripsListed(ok) PROVE HistoryInv' /\ ColoursKept /\ InData
<1> USE DEF HistoryInv
<1> DEFINE trips == IF ok THEN TripsOf(batchLoad.points) ELSE <<>>
           listed == IF ok THEN ListColours(tripList') ELSE colours
<1>1. /\ batchLoad # NoLoad /\ batchLoad.stage = "trips" /\ tripList' = trips
      /\ colours' = LineColours(listed, shown) /\ lines' = LayersOf(shown) /\ batchLoad' = NoLoad
      /\ posMarker' = TRUE /\ lateAnswers' = {"clips", "eco"}
      /\ UNCHANGED <<track, playOpen, batchOffset, hasNext, shown, timeline>>
      /\ UNCHANGED <<playIndex, playing, clipAt, clipFresh, ecoEvents, ecoLayer, ecoOnMap, showEco>>
  BY DEF TripsListed, dataVars
<1>2. batchLoad \in BatchLoads /\ shown # <<>> /\ playOpen
  BY <1>1 DEF LoadKnown
<1>3. shown \in Seq(Point) /\ batchLoad.points \in Seq(Point)
  BY <1>2, TracksArePoints DEF BatchShown, BatchLoads
<1>4. trips \in Seq(Nat)
  <2>1. <<>> \in Seq(Nat)
    OBVIOUS
  <2> QED
    BY <1>3, <2>1, TripsAreListed
<1> HIDE DEF trips
<1>5. /\ Coloured(listed)
      /\ \A t \in DOMAIN colours : t \in DOMAIN listed /\ listed[t] = colours[t]
  BY <1>1, <1>4, ListColoursKeep
<1> HIDE DEF listed
<1>6. /\ Coloured(LineColours(listed, shown))
      /\ \A t \in DOMAIN listed : t \in DOMAIN LineColours(listed, shown) /\ LineColours(listed, shown)[t] = listed[t]
  BY <1>2, <1>3, <1>5, LineColoursKeep
<1>7. Coloured(colours') /\ \A t \in DOMAIN colours : t \in DOMAIN colours' /\ colours'[t] = colours[t]
  BY <1>1, <1>5, <1>6
<1>8. PlayTyped'
  BY <1>1, <1>4 DEF PlayTyped
<1>9. BatchShown'
  BY <1>1 DEF BatchShown
<1>10. LoadKnown' /\ LinesShown' /\ SessionOver' /\ ClipKnown'
  BY <1>1, <1>2 DEF LoadKnown, LinesShown, SessionOver, ClipKnown
<1>11. ColoursKept
  BY <1>7 DEF ColoursKept
<1>12. InData
  BY <1>1, StepsOfKept
<1> QED
  BY <1>7, <1>8, <1>9, <1>10, <1>11, <1>12

\* An answer without points keeps it.
LEMMA NothingFoundKept == ASSUME HistoryInv, NothingFound PROVE HistoryInv' /\ ColoursKept /\ InData
<1> USE DEF HistoryInv
<1>1. /\ batchLoad' = NoLoad /\ shown' = <<>> /\ playIndex' = 1 /\ hasNext' = FALSE
      /\ UNCHANGED <<track, playOpen, batchOffset, timeline, tripList, colours, lines, playing, posMarker>>
      /\ UNCHANGED <<clipAt, clipFresh, ecoEvents, ecoLayer, ecoOnMap, showEco, lateAnswers>>
  BY DEF NothingFound, colourVars, extraVars
<1>2. <<>> \in Seq(Point) /\ Len(<<>>) = 0
  OBVIOUS
<1>3. PlayTyped'
  <2>1. playIndex' \in 1..BatchSize
    BY <1>1, SizesPositive
  <2> QED
    BY <1>1, <2>1 DEF PlayTyped
<1>4. BatchShown'
  BY <1>1, <1>2, SizesPositive DEF BatchShown
<1>5. LoadKnown' /\ LinesShown' /\ SessionOver' /\ ClipKnown'
  BY <1>1 DEF LoadKnown, LinesShown, SessionOver, ClipKnown
<1>6. ColoursKept /\ InData /\ Coloured(colours')
  BY <1>1 DEF ColoursKept, InData
<1> QED
  BY <1>3, <1>4, <1>5, <1>6

\* So does a load that is given up.
LEMMA LoadGivenUpKept == ASSUME HistoryInv, LoadGivenUp PROVE HistoryInv' /\ ColoursKept /\ InData
<1> USE DEF HistoryInv
<1>1. /\ batchLoad # NoLoad /\ batchLoad.stage = "positions" /\ batchLoad' = NoLoad
      /\ UNCHANGED <<track, playOpen, batchOffset, hasNext, shown, timeline, tripList, colours, lines, playIndex, playing, posMarker>>
      /\ UNCHANGED <<clipAt, clipFresh, ecoEvents, ecoLayer, ecoOnMap, showEco, lateAnswers>>
  BY DEF LoadGivenUp, dataVars, colourVars, extraVars
<1>2. PlayTyped'
  BY <1>1 DEF PlayTyped
<1>3. BatchShown'
  BY <1>1 DEF BatchShown
<1>4. LoadKnown' /\ SessionOver' /\ ClipKnown'
  BY <1>1 DEF LoadKnown, SessionOver, ClipKnown
<1>5. LinesShown'
  BY <1>1 DEF LinesShown, Awaiting
<1>6. ColoursKept /\ InData /\ Coloured(colours')
  BY <1>1, StepsOfKept
<1> QED
  BY <1>2, <1>3, <1>4, <1>5, <1>6

\* So does drawing the lines again.
LEMMA RedrawLinesKept == ASSUME HistoryInv, RedrawLines PROVE HistoryInv' /\ ColoursKept /\ InData
<1> USE DEF HistoryInv
<1>1. /\ shown # <<>> /\ colours' = LineColours(colours, shown) /\ lines' = LayersOf(shown)
      /\ UNCHANGED <<track, playOpen, batchOffset, hasNext, shown, timeline, tripList, playIndex, playing, posMarker, batchLoad>>
      /\ UNCHANGED <<clipAt, clipFresh, ecoEvents, ecoLayer, ecoOnMap, showEco, lateAnswers>>
  BY DEF RedrawLines, dataVars, extraVars
<1>2. shown \in Seq(Point)
  BY DEF BatchShown
<1>3. Coloured(colours') /\ \A t \in DOMAIN colours : t \in DOMAIN colours' /\ colours'[t] = colours[t]
  BY <1>1, <1>2, LineColoursKeep
<1>4. PlayTyped'
  BY <1>1 DEF PlayTyped
<1>5. BatchShown'
  BY <1>1 DEF BatchShown
<1>6. LoadKnown' /\ LinesShown' /\ SessionOver' /\ ClipKnown'
  BY <1>1 DEF LoadKnown, LinesShown, SessionOver, ClipKnown
<1>7. ColoursKept
  BY <1>3 DEF ColoursKept
<1>8. InData
  BY <1>1, StepsOfKept
<1> QED
  BY <1>3, <1>4, <1>5, <1>6, <1>7, <1>8

\* Only the place in the data, the marker there and whether the playback runs are other than before.
LEMMA PlayedKept ==
    ASSUME HistoryInv, playIndex' \in 1..BatchSize, playing' \in BOOLEAN, posMarker' \in BOOLEAN,
           UNCHANGED <<track, playOpen, batchOffset, hasNext, shown, timeline, tripList, colours, lines, batchLoad>>,
           UNCHANGED <<clipAt, clipFresh, ecoEvents, ecoLayer, ecoOnMap, showEco, lateAnswers>>,
           ~playOpen => ~playing' /\ ~posMarker',
           shown # <<>> /\ playIndex \in DOMAIN shown => playIndex' \in DOMAIN shown \/ ~clipFresh
    PROVE  HistoryInv' /\ ColoursKept /\ InData
<1> USE DEF HistoryInv
<1>1. PlayTyped'
  BY DEF PlayTyped
<1>2. BatchShown'
  BY DEF BatchShown
<1>3. LoadKnown' /\ LinesShown' /\ SessionOver' /\ ClipKnown'
  BY DEF LoadKnown, LinesShown, Awaiting, SessionOver, ClipKnown
<1>4. Coloured(colours') /\ ColoursKept
  BY StepsOfKept
<1>5. InData
  BY DEF InData
<1> QED
  BY <1>1, <1>2, <1>3, <1>4, <1>5

\* So does starting and stopping to play.
LEMMA TogglePlaybackKept == ASSUME HistoryInv, TogglePlayback PROVE HistoryInv' /\ ColoursKept /\ InData
<1>1. /\ shown # <<>> /\ playing' = ~playing /\ posMarker' = (posMarker \/ playing')
      /\ UNCHANGED <<track, playOpen, batchOffset, hasNext, shown, timeline, tripList, colours, lines, batchLoad, playIndex>>
      /\ UNCHANGED <<clipAt, clipFresh, ecoEvents, ecoLayer, ecoOnMap, showEco, lateAnswers>>
  BY DEF TogglePlayback, dataVars, colourVars, extraVars
<1>2. playing \in BOOLEAN /\ posMarker \in BOOLEAN /\ playIndex \in 1..BatchSize /\ playOpen
  BY <1>1 DEF HistoryInv, PlayTyped, SessionOver
<1>3. playing' \in BOOLEAN /\ posMarker' \in BOOLEAN
  BY <1>1, <1>2
<1> QED
  BY <1>1, <1>2, <1>3, PlayedKept

\* So does a tick of the clock, which stays in the data.
LEMMA TickKept == ASSUME HistoryInv, Tick PROVE HistoryInv' /\ ColoursKept /\ InData
<1>1. /\ playing
      /\ \/ playIndex >= Len(shown) /\ playing' = FALSE /\ UNCHANGED <<playIndex, posMarker>>
         \/ ~(playIndex >= Len(shown)) /\ playIndex' = playIndex + 1 /\ posMarker' = TRUE /\ UNCHANGED playing
      /\ UNCHANGED <<track, playOpen, batchOffset, hasNext, shown, timeline, tripList, colours, lines, batchLoad>>
      /\ UNCHANGED <<clipAt, clipFresh, ecoEvents, ecoLayer, ecoOnMap, showEco, lateAnswers>>
  BY DEF Tick, dataVars, colourVars, extraVars
<1>2. playing \in BOOLEAN /\ posMarker \in BOOLEAN /\ playIndex \in 1..BatchSize /\ playOpen /\ Len(shown) \in Nat /\ Len(shown) <= BatchSize
  BY <1>1, LenProperties DEF HistoryInv, PlayTyped, SessionOver, BatchShown
<1>3. playing' \in BOOLEAN /\ posMarker' \in BOOLEAN
  BY <1>1, <1>2
<1> DEFINE i == playIndex
           l == Len(shown)
           j == playIndex'
<1>4. /\ i \in 1..BatchSize /\ l \in Nat /\ l <= BatchSize /\ BatchSize \in Nat
      /\ j = i \/ (~(i >= l) /\ j = i + 1)
  <2>1. i \in 1..BatchSize /\ l \in Nat /\ l <= BatchSize /\ BatchSize \in Nat
    BY <1>2, SizesPositive
  <2>2. CASE playIndex >= Len(shown) /\ playing' = FALSE /\ UNCHANGED <<playIndex, posMarker>>
    BY <2>1, <2>2
  <2>3. CASE ~(playIndex >= Len(shown)) /\ playIndex' = playIndex + 1 /\ posMarker' = TRUE /\ UNCHANGED playing
    BY <2>1, <2>3
  <2> QED
    BY <1>1, <2>2, <2>3
<1>6. j \in 1..BatchSize /\ (i \in 1..l => j \in 1..l)
  <2> HIDE DEF i, l, j
  <2> QED
    BY <1>4
<1>5. shown # <<>> /\ playIndex \in DOMAIN shown => playIndex' \in DOMAIN shown
  <2> SUFFICES ASSUME shown # <<>>, playIndex \in DOMAIN shown PROVE playIndex' \in DOMAIN shown
    OBVIOUS
  <2>1. DOMAIN shown = 1..Len(shown)
    BY DomainOfShown
  <2> QED
    BY <1>6, <2>1
<1> QED
  BY <1>1, <1>2, <1>3, <1>5, <1>6, PlayedKept

\* So does a jump of the cursor into the data.
LEMMA JumpKept ==
    ASSUME HistoryInv, NEW index \in 1..BatchSize, JumpTo(index), index \in DOMAIN shown \/ shown = <<>> \/ ~clipFresh
    PROVE  HistoryInv' /\ ColoursKept /\ InData
<1>1. /\ playIndex' = index /\ playing' = FALSE /\ posMarker' = (posMarker \/ index \in DOMAIN shown)
      /\ UNCHANGED <<track, playOpen, batchOffset, hasNext, shown, timeline, tripList, colours, lines, batchLoad>>
      /\ UNCHANGED <<clipAt, clipFresh, ecoEvents, ecoLayer, ecoOnMap, showEco, lateAnswers>>
  BY DEF JumpTo, dataVars, colourVars, extraVars
<1>2. posMarker \in BOOLEAN
  BY DEF HistoryInv, PlayTyped
<1>3. posMarker' \in BOOLEAN
  BY <1>1, <1>2
<1>4. ~playOpen => ~posMarker'
  <2> SUFFICES ASSUME ~playOpen PROVE ~posMarker'
    OBVIOUS
  <2>1. shown = <<>> /\ ~posMarker
    BY DEF HistoryInv, SessionOver
  <2>2. DOMAIN shown = {}
    BY <2>1
  <2> QED
    BY <1>1, <2>1, <2>2
<1> QED
  BY <1>1, <1>3, <1>4, PlayedKept

\* So does the slider.
LEMMA SeekKept == ASSUME HistoryInv, Seek PROVE HistoryInv' /\ ColoursKept /\ InData
<1>1. PICK index \in DOMAIN shown : JumpTo(index)
  BY DEF Seek
<1>2. shown # <<>>
  BY <1>1
<1>3. index \in 1..BatchSize
  BY <1>2, DomainOfShown, SizesPositive
<1> QED
  BY <1>1, <1>3, JumpKept

\* So does a step of the cursor.
LEMMA StepKept == ASSUME HistoryInv, NEW delta \in {-1, 1}, Step(delta) PROVE HistoryInv' /\ ColoursKept /\ InData
<1> DEFINE low == IF Len(shown) < playIndex + delta THEN Len(shown) ELSE playIndex + delta
           index == IF low < 1 THEN 1 ELSE low
<1>1. shown # <<>> /\ JumpTo(index)
  BY DEF Step
<1>2. DOMAIN shown = 1..Len(shown) /\ Len(shown) \in 1..BatchSize /\ playIndex \in 1..BatchSize
  BY <1>1, DomainOfShown DEF HistoryInv, PlayTyped
<1>3. index \in 1..Len(shown)
  BY <1>2, SizesPositive
<1> HIDE DEF index
<1>4. index \in 1..BatchSize /\ index \in DOMAIN shown
  BY <1>2, <1>3, SizesPositive
<1> QED
  BY <1>1, <1>4, JumpKept

\* So does a click on a clip, old or fresh.
LEMMA ClickClipKept == ASSUME HistoryInv, ClickClip PROVE HistoryInv' /\ ColoursKept /\ InData
<1>1. clipAt # 0 /\ JumpTo(clipAt)
  BY DEF ClickClip
<1>2. clipAt \in 0..BatchSize /\ (clipFresh /\ shown # <<>> => clipAt \in DOMAIN shown)
  BY <1>1 DEF HistoryInv, PlayTyped, ClipKnown
<1>3. clipAt \in 1..BatchSize
  BY <1>1, <1>2, SizesPositive
<1> QED
  BY <1>1, <1>2, <1>3, JumpKept

\* So do the clips that arrive.
LEMMA ClipsArriveKept == ASSUME HistoryInv, NEW ok \in BOOLEAN, ClipsArrive(ok) PROVE HistoryInv' /\ ColoursKept /\ InData
<1> USE DEF HistoryInv
<1>1. /\ lateAnswers' = lateAnswers \ {"clips"}
      /\ UNCHANGED <<track, playOpen, batchOffset, hasNext, shown, timeline, tripList, colours, lines>>
      /\ UNCHANGED <<playIndex, playing, posMarker, batchLoad, ecoEvents, ecoLayer, ecoOnMap, showEco>>
  BY DEF ClipsArrive, dataVars, colourVars
<1>2. \/ UNCHANGED <<clipAt, clipFresh>>
      \/ clipAt' \in (IF Len(shown) < 2 THEN {0} ELSE {0} \cup DOMAIN shown) /\ clipFresh' = TRUE
  BY DEF ClipsArrive
<1>3. /\ clipAt' \in 0..BatchSize /\ clipFresh' \in BOOLEAN
      /\ clipFresh' /\ clipAt' # 0 /\ shown # <<>> => clipAt' \in DOMAIN shown
      /\ ~playOpen => clipAt' = 0
  <2>1. CASE UNCHANGED <<clipAt, clipFresh>>
    BY <2>1 DEF PlayTyped, ClipKnown, SessionOver
  <2>2. CASE clipAt' \in (IF Len(shown) < 2 THEN {0} ELSE {0} \cup DOMAIN shown) /\ clipFresh' = TRUE
    <3>1. CASE shown = <<>>
      <4>1. Len(shown) = 0
        BY <3>1
      <4>2. clipAt' = 0
        BY <2>2, <4>1
      <4> QED
        BY <2>2, <3>1, <4>2, SizesPositive
    <3>2. CASE shown # <<>>
      <4>1. DOMAIN shown = 1..Len(shown) /\ Len(shown) \in 1..BatchSize
        BY <3>2, DomainOfShown
      <4>2. clipAt' = 0 \/ clipAt' \in DOMAIN shown
        BY <2>2
      <4>3. clipAt' \in 0..BatchSize
        BY <4>1, <4>2, SizesPositive
      <4>4. playOpen
        BY <3>2 DEF SessionOver
      <4> QED
        BY <2>2, <4>2, <4>3, <4>4
    <3> QED
      BY <3>1, <3>2
  <2> QED
    BY <1>2, <2>1, <2>2
<1>4. PlayTyped'
  BY <1>1, <1>3 DEF PlayTyped
<1>5. BatchShown'
  BY <1>1 DEF BatchShown
<1>6. LoadKnown' /\ LinesShown' /\ SessionOver' /\ ClipKnown'
  BY <1>1, <1>3 DEF LoadKnown, LinesShown, Awaiting, SessionOver, ClipKnown
<1>7. Coloured(colours') /\ ColoursKept /\ InData
  BY <1>1, StepsOfKept
<1> QED
  BY <1>4, <1>5, <1>6, <1>7

\* Only the eco events are other than before.
LEMMA EcoKept ==
    ASSUME HistoryInv, ecoEvents' \in BOOLEAN, ecoLayer' \in BOOLEAN, ecoOnMap' \in BOOLEAN, showEco' \in BOOLEAN,
           lateAnswers' \subseteq lateAnswers, ~playOpen => ~ecoOnMap' /\ ~showEco',
           UNCHANGED <<track, playOpen, batchOffset, hasNext, shown, timeline, tripList, colours, lines>>,
           UNCHANGED <<playIndex, playing, posMarker, batchLoad, clipAt, clipFresh>>
    PROVE  HistoryInv' /\ ColoursKept /\ InData
<1> USE DEF HistoryInv
<1>1. PlayTyped'
  BY DEF PlayTyped
<1>2. BatchShown'
  BY DEF BatchShown
<1>3. LoadKnown' /\ LinesShown' /\ SessionOver' /\ ClipKnown'
  BY DEF LoadKnown, LinesShown, Awaiting, SessionOver, ClipKnown
<1>4. Coloured(colours') /\ ColoursKept /\ InData
  BY StepsOfKept
<1> QED
  BY <1>1, <1>2, <1>3, <1>4

\* So does the scorecard that arrives.
LEMMA EcoArrivesKept == ASSUME HistoryInv, NEW found \in BOOLEAN, EcoArrives(found) PROVE HistoryInv' /\ ColoursKept /\ InData
<1>1. /\ lateAnswers' = lateAnswers \ {"eco"} /\ ecoEvents' = found /\ ecoLayer' = (ecoLayer \/ found)
      /\ ecoOnMap' = IF ecoLayer THEN ecoOnMap ELSE found /\ showEco
      /\ UNCHANGED <<track, playOpen, batchOffset, hasNext, shown, timeline, tripList, colours, lines>>
      /\ UNCHANGED <<playIndex, playing, posMarker, batchLoad, clipAt, clipFresh, showEco>>
  BY DEF EcoArrives, dataVars, colourVars
<1>2. ecoLayer \in BOOLEAN /\ ecoOnMap \in BOOLEAN /\ showEco \in BOOLEAN
  BY DEF HistoryInv, PlayTyped
<1>3. ~playOpen => ~ecoOnMap /\ ~showEco
  BY DEF HistoryInv, SessionOver
<1>4. (ecoLayer \/ found) \in BOOLEAN /\ (found /\ showEco) \in BOOLEAN
  BY <1>2
<1>5. ecoOnMap' \in BOOLEAN /\ (~playOpen => ~ecoOnMap')
  BY <1>1, <1>2, <1>3, <1>4
<1> QED
  BY <1>1, <1>2, <1>3, <1>4, <1>5, EcoKept

\* So does showing and hiding the scorecard.
LEMMA ToggleEcoKept == ASSUME HistoryInv, ToggleEco PROVE HistoryInv' /\ ColoursKept /\ InData
<1>1. /\ playOpen /\ showEco' = ~showEco /\ ecoOnMap' = (ecoLayer /\ showEco')
      /\ UNCHANGED <<track, playOpen, batchOffset, hasNext, shown, timeline, tripList, colours, lines>>
      /\ UNCHANGED <<playIndex, playing, posMarker, batchLoad, clipAt, clipFresh, ecoEvents, ecoLayer, lateAnswers>>
  BY DEF ToggleEco, dataVars, colourVars
<1>2. ecoEvents \in BOOLEAN /\ ecoLayer \in BOOLEAN /\ showEco \in BOOLEAN
  BY DEF HistoryInv, PlayTyped
<1>3. (~showEco) \in BOOLEAN /\ (ecoLayer /\ ~showEco) \in BOOLEAN
  BY <1>2
<1>4. showEco' \in BOOLEAN /\ ecoOnMap' \in BOOLEAN
  BY <1>1, <1>3
<1> QED
  BY <1>1, <1>2, <1>4, EcoKept

\* So does leaving the playback, which takes everything off the map.
LEMMA ExitPlaybackKept == ASSUME HistoryInv, ExitPlayback PROVE HistoryInv' /\ ColoursKept /\ InData
<1> USE DEF HistoryInv
<1>1. /\ playOpen' = FALSE /\ shown' = <<>> /\ playIndex' = 1 /\ timeline' = <<>>
      /\ colours' = <<>> /\ lines' = <<>> /\ tripList' = <<>>
      /\ batchOffset' = 0 /\ hasNext' = FALSE /\ batchLoad' = NoLoad
      /\ playing' = FALSE /\ posMarker' = FALSE /\ clipAt' = 0 /\ clipFresh' = TRUE
      /\ ecoEvents' = FALSE /\ ecoLayer' = FALSE /\ ecoOnMap' = FALSE /\ showEco' = FALSE
      /\ UNCHANGED <<track, lateAnswers>>
  BY DEF ExitPlayback
<1>2. <<>> \in Seq(Point) /\ <<>> \in Seq(1..BatchSize) /\ <<>> \in Seq(Nat) /\ Len(<<>>) = 0 /\ DOMAIN <<>> = {}
  OBVIOUS
<1>3. PlayTyped'
  <2>1. playIndex' \in 1..BatchSize /\ clipAt' \in 0..BatchSize
    BY <1>1, SizesPositive
  <2> QED
    BY <1>1, <1>2, <2>1 DEF PlayTyped
<1>4. BatchShown'
  BY <1>1, <1>2, SizesPositive DEF BatchShown
<1>5. LoadKnown' /\ LinesShown' /\ SessionOver' /\ ClipKnown'
  BY <1>1 DEF LoadKnown, LinesShown, SessionOver, ClipKnown
<1>6. Coloured(colours')
  <2>1. Coloured(<<>>)
    BY <1>2 DEF Coloured
  <2> QED
    BY <1>1, <2>1
<1>7. ColoursKept /\ InData
  BY <1>1 DEF ColoursKept, InData
<1> QED
  BY <1>3, <1>4, <1>5, <1>6, <1>7

\* What each step of the playback keeps.
LEMMA HistoryStep == HistoryInv /\ HistoryPlaybackNext => HistoryInv' /\ ColoursKept /\ InData
<1> SUFFICES ASSUME HistoryInv, HistoryPlaybackNext PROVE HistoryInv' /\ ColoursKept /\ InData
  OBVIOUS
<1>1. ASSUME NEW points \in Tracks, OpenSession(points) PROVE HistoryInv' /\ ColoursKept /\ InData
  <2>1. UNCHANGED <<colours, shown, playIndex>>
    BY <1>1 DEF OpenSession, BeginLoad
  <2> QED
    BY <1>1, <2>1, OpenSessionKept, StepsOfKept
<1>2. ASSUME NEW direction \in {-1, 1}, LoadBatch(direction) PROVE HistoryInv' /\ ColoursKept /\ InData
  <2>1. UNCHANGED <<colours, shown, playIndex>>
    BY <1>2 DEF LoadBatch, BeginLoad
  <2> QED
    BY <1>2, <2>1, LoadBatchKept, StepsOfKept
<1> QED
  BY <1>1, <1>2, PositionsShownKept, TripsListedKept, NothingFoundKept, LoadGivenUpKept, RedrawLinesKept,
     TogglePlaybackKept, TickKept, SeekKept, StepKept, ClickClipKept, ClipsArriveKept, EcoArrivesKept,
     ToggleEcoKept, ExitPlaybackKept DEF HistoryPlaybackNext

-----------------------------------------------------------------------------
(* The events of the points. *)
\* The points of a history with their times.
Driven == [time : Nat, speed : Speeds, course : Courses, flag : Flag]
InTime(p) == /\ p \in Seq(Driven) /\ \A i \in 1..Len(p) : p[i].time >= StartTime
             /\ \A i, j \in 1..Len(p) : i <= j => p[i].time <= p[j].time
Fatigue == {"warning", "severe"}
EventsUpTo(n) == [at : 1..n, kind : Offence \cup Fatigue]
Seen(n) == [last : [Offence -> Nat], secs : Int, warned : SUBSET Fatigue, events : SUBSET EventsUpTo(n)]

\* One more point leaves events of points so far.
LEMMA ExtractedIsSeen ==
    ASSUME NEW p, InTime(p), NEW i \in 1..Len(p), NEW acc \in Seen(Len(p))
    PROVE  Extracted(acc, p, i) \in Seen(Len(p))
<1> DEFINE n == Len(p)
           kinds == Offences(p, i)
           secs == acc.secs + Dt(p, i)
           tired == Tired(secs, acc.warned)
           found == Due(acc.last, p[i].time, kinds) \cup tired
           more == {[at |-> i, kind |-> k] : k \in found}
           last == LastEvents(acc.last, p[i].time, kinds)
           new == [last |-> last, secs |-> secs, warned |-> acc.warned \cup tired, events |-> acc.events \cup more]
<1>1. acc.last \in [Offence -> Nat] /\ acc.secs \in Int /\ acc.warned \in SUBSET Fatigue /\ acc.events \in SUBSET EventsUpTo(n)
  BY DEF Seen
<1>2. n \in Nat /\ p[i].time \in Nat
  <2>1. p \in Seq(Driven)
    BY DEF InTime
  <2>2. p[i] \in Driven
    BY <2>1, ElementOfSeq
  <2> QED
    BY <2>1, <2>2, LenProperties DEF Driven
<1>3. Dt(p, i) \in Int
  <2> DEFINE dt == IF i = 1 THEN 0 ELSE p[i].time - p[i - 1].time
  <2>1. Dt(p, i) = IF dt \in 1..20 THEN dt ELSE 3
    BY DEF Dt
  <2> HIDE DEF dt
  <2>2. CASE dt \in 1..20
    BY <2>1, <2>2
  <2>3. CASE dt \notin 1..20
    BY <2>1, <2>3
  <2> QED
    BY <2>2, <2>3
<1>4. tired \subseteq Fatigue
  BY DEF Tired, Fatigue
<1>5. kinds \subseteq Offence /\ Due(acc.last, p[i].time, kinds) \subseteq Offence
  BY DEF Offences, Due
<1>6. last \in [Offence -> Nat]
  <2>1. \A k \in Offence : (IF k \in Due(acc.last, p[i].time, kinds) THEN p[i].time ELSE acc.last[k]) \in Nat
    BY <1>1, <1>2
  <2> QED
    BY <2>1 DEF LastEvents
<1>7. Extracted(acc, p, i) = new
  BY DEF Extracted
<1> HIDE DEF tired, kinds, last
<1>8. more \subseteq EventsUpTo(n)
  BY <1>4, <1>5 DEF EventsUpTo
<1> HIDE DEF more, found
<1>9. secs \in Int
  BY <1>1, <1>3
<1> HIDE DEF secs, n
<1>10. new \in Seen(n)
  BY <1>1, <1>4, <1>6, <1>8, <1>9 DEF Seen
<1> QED
  BY <1>7, <1>10 DEF n

\* f is what the points make of nothing seen, one after the other.
SeenBy(f, p) ==
    /\ f \in [0..Len(p) -> Seen(Len(p))] /\ f[0] = NothingSeen
    /\ \A i \in 1..Len(p) : f[i] = Extracted(f[i - 1], p, i)

\* The events of points are those of the fold over them.
LEMMA EventsAreSeen ==
    ASSUME NEW p, InTime(p)
    PROVE  \E f : SeenBy(f, p) /\ EventsOf(p) = IF Len(p) < 2 THEN {} ELSE f[Len(p)].events
<1> DEFINE n == Len(p)
           T == Seen(n)
           step == [x \in T \X (1..n) |-> Extracted(x[1], p, x[2])]
           e(f, i) == IF i = 0 THEN NothingSeen ELSE Extracted(f[i - 1], p, i)
           Rec(f) == f = [i \in 0..n |-> e(f, i)]
           f == CHOOSE g : Rec(g)
<1>1. n \in Nat
  BY LenProperties DEF InTime
<1>2. EventsOf(p) = IF n < 2 THEN {} ELSE f[n].events
  BY DEF EventsOf
<1>3. NothingSeen \in T
  BY DEF NothingSeen, Seen
<1>4. ASSUME NEW acc \in T, NEW i \in 1..n PROVE Extracted(acc, p, i) \in T
  BY ExtractedIsSeen
<1> HIDE DEF T
<1>5. step \in Stepping(n, T)
  <2>1. \A x \in T \X (1..n) : x[1] \in T /\ x[2] \in 1..n
    OBVIOUS
  <2> HIDE DEF n
  <2>2. \A x \in T \X (1..n) : Extracted(x[1], p, x[2]) \in T
    BY <1>4, <2>1
  <2> QED
    BY <2>2 DEF Stepping
<1>6. PICK g : Folding(g, n, T, NothingSeen, step)
  <2> HIDE DEF n, step
  <2> QED
    BY <1>1, <1>3, <1>5, FoldExists
<1>7. ASSUME NEW i \in 1..n PROVE g[i] = Extracted(g[i - 1], p, i)
  <2>1. i - 1 \in 0..n
    BY <1>1
  <2> HIDE DEF n
  <2>2. <<g[i - 1], i>> \in T \X (1..n)
    BY <1>6, <2>1 DEF Folding
  <2>3. step[<<g[i - 1], i>>] = Extracted(g[i - 1], p, i)
    BY <2>2
  <2>4. g[i] = step[<<g[i - 1], i>>]
    BY <1>6 DEF Folding
  <2> QED
    BY <2>3, <2>4
<1>8. Rec(g)
  <2>1. \A i \in 0..n : g[i] = e(g, i)
    BY <1>1, <1>6, <1>7 DEF Folding
  <2> HIDE DEF n, e, step
  <2>2. g \in [0..n -> T]
    BY <1>6 DEF Folding
  <2> QED
    BY <2>1, <2>2
<1>9. Rec(f)
  <2> HIDE DEF Rec
  <2> QED
    BY <1>8
<1> HIDE DEF f
<1>10. f[0] = NothingSeen /\ \A i \in 1..n : f[i] = Extracted(f[i - 1], p, i)
  <2> HIDE DEF e, n
  <2>1. \A i \in 0..n : f[i] = e(f, i)
    BY <1>9
  <2>2. e(f, 0) = NothingSeen /\ \A i \in 1..n : e(f, i) = Extracted(f[i - 1], p, i)
    BY DEF e
  <2>3. 0 \in 0..n /\ \A i \in 1..n : i \in 0..n
    BY <1>1
  <2> QED
    BY <2>1, <2>2, <2>3
<1> DEFINE P == {i \in 0..n : f[i] \in T}
<1>11. 0 \in P
  BY <1>1, <1>3, <1>10
<1>12. ASSUME NEW i \in 1..n, i - 1 \in P PROVE i \in P
  <2>1. f[i - 1] \in T
    BY <1>12
  <2>2. f[i] \in T
    BY <1>4, <1>10, <2>1
  <2> QED
    BY <1>1, <2>2
<1>13. \A i \in 0..n : f[i] \in T
  <2>1. 0..n \subseteq P
    <3> HIDE DEF P, n
    <3> QED
      BY <1>1, <1>11, <1>12, CountUp
  <2> QED
    BY <2>1
<1>14. f \in [0..n -> T]
  <2> HIDE DEF e, n
  <2>1. f = [i \in 0..n |-> e(f, i)]
    BY <1>9
  <2>2. DOMAIN f = 0..n /\ f = [i \in 0..n |-> f[i]]
    BY <2>1
  <2> QED
    BY <1>13, <2>2
<1> HIDE DEF n
<1>15. SeenBy(f, p)
  BY <1>10, <1>14 DEF SeenBy, T, n
<1> QED
  BY <1>2, <1>15 DEF n

\* What the events of the first i points are: each of a point so far, the last one of a kind known,
\* two of a kind further apart than its quiet time, one for each offence, and no warning after the severe one.
Apart(p, k, a, b) == p[b].time - p[a].time > Quiet(k)
OfPoints(acc, i) == \A e \in acc.events : e.at \in 1..i
LastKnown(acc, p) ==
    /\ \A e \in acc.events : e.kind \in Offence => p[e.at].time <= acc.last[e.kind]
    /\ \A k \in Offence : acc.last[k] = 0 \/ \E e \in acc.events : e.kind = k /\ p[e.at].time = acc.last[k]
AllApart(acc, p) == \A e, f \in acc.events : e.kind = f.kind /\ e.at < f.at => e.kind \in Offence /\ Apart(p, e.kind, e.at, f.at)
Reported(acc, p, j) == \A k \in Offences(p, j) : \E e \in acc.events : e.kind = k /\ e.at <= j /\ ~Apart(p, k, e.at, j)
Warned(acc) ==
    /\ \A e \in acc.events : e.kind \in Fatigue => e.kind \in acc.warned
    /\ \A e, f \in acc.events : e.kind = "warning" /\ f.kind = "severe" => e.at < f.at
SeenRight(acc, p, i) ==
    OfPoints(acc, i) /\ LastKnown(acc, p) /\ AllApart(acc, p) /\ (\A j \in 1..i : Reported(acc, p, j)) /\ Warned(acc)

\* Points in time are later than any quiet time.
LEMMA TimesOfPoints ==
    ASSUME NEW p, InTime(p), NEW i \in 1..Len(p) PROVE p[i].time \in Nat /\ p[i].time > 20
<1>1. p[i].time >= StartTime /\ p[i] \in Driven
  BY ElementOfSeq DEF InTime
<1>2. p[i].time \in Nat
  BY <1>1 DEF Driven
<1>3. StartTime > 20
  BY EcoEventsAssumption
<1> QED
  BY <1>1, <1>2, <1>3, EcoEventsAssumption

\* The quiet time of a kind.
LEMMA QuietIsShort == ASSUME NEW k PROVE Quiet(k) \in Nat /\ Quiet(k) <= 20
BY DEF Quiet

\* A warning of fatigue comes once, and not with the severe one.
LEMMA TiredOnce ==
    ASSUME NEW secs, NEW warned
    PROVE  LET tired == Tired(secs, warned) IN
           /\ tired \subseteq Fatigue /\ \A k \in tired : k \notin warned
           /\ "warning" \in tired => warned = {} /\ "severe" \notin tired
BY DEF Tired, Fatigue

\* One more point keeps the events so far right, and takes none away.
LEMMA ExtractedIsRight ==
    ASSUME NEW p, InTime(p), NEW i \in 1..Len(p), NEW acc \in Seen(Len(p)), SeenRight(acc, p, i - 1)
    PROVE  SeenRight(Extracted(acc, p, i), p, i) /\ acc.events \subseteq Extracted(acc, p, i).events
<1> DEFINE n == Len(p)
           kinds == Offences(p, i)
           time == p[i].time
           due == Due(acc.last, time, kinds)
           secs == acc.secs + Dt(p, i)
           tired == Tired(secs, acc.warned)
           more == {[at |-> i, kind |-> k] : k \in due \cup tired}
           last == LastEvents(acc.last, time, kinds)
           new == Extracted(acc, p, i)
<1>0. n \in Nat /\ i \in 1..n
  BY LenProperties DEF InTime
<1>1. new.last = last /\ new.warned = acc.warned \cup tired /\ new.events = acc.events \cup more
  BY DEF Extracted
<1>2. acc.last \in [Offence -> Nat] /\ acc.events \in SUBSET EventsUpTo(n)
  BY DEF Seen
<1>3. time \in Nat /\ time > 20
  BY TimesOfPoints
<1>4. kinds \subseteq Offence /\ due = {k \in kinds : time - acc.last[k] > Quiet(k)}
  BY DEF Offences, Due
<1>5. \A k \in Offence : last[k] = IF k \in due THEN time ELSE acc.last[k]
  BY DEF LastEvents
<1>6. tired \subseteq Fatigue /\ (\A k \in tired : k \notin acc.warned) /\ ("warning" \in tired => acc.warned = {} /\ "severe" \notin tired)
  BY TiredOnce
<1> HIDE DEF kinds, due, tired, last, new, secs
<1>7. \A e \in more : e.at = i /\ (e.kind \in due \/ e.kind \in tired)
  OBVIOUS
<1>8. ASSUME NEW k \in due \cup tired PROVE \E e \in more : e.at = i /\ e.kind = k
  <2> DEFINE e == [at |-> i, kind |-> k]
  <2>1. e \in more /\ e.at = i /\ e.kind = k
    OBVIOUS
  <2> HIDE DEF e, more
  <2> QED
    BY <2>1
<1> HIDE DEF more
<1>9. \A k \in Fatigue : k \notin Offence
  BY DEF Fatigue, Offence
<1>10. OfPoints(acc, i - 1) /\ LastKnown(acc, p) /\ AllApart(acc, p) /\ (\A j \in 1..(i - 1) : Reported(acc, p, j)) /\ Warned(acc)
  BY DEF SeenRight
<1>11. \A e \in acc.events : e.at \in 1..(i - 1) /\ e.at \in 1..n /\ p[e.at].time \in Nat /\ p[e.at].time <= time
  <2> SUFFICES ASSUME NEW e \in acc.events PROVE e.at \in 1..(i - 1) /\ e.at \in 1..n /\ p[e.at].time \in Nat /\ p[e.at].time <= time
    OBVIOUS
  <2>1. e.at \in 1..(i - 1)
    BY <1>10 DEF OfPoints
  <2>2. e.at \in 1..n /\ e.at <= i
    BY <1>0, <2>1
  <2>3. p[e.at].time \in Nat
    BY <2>2, TimesOfPoints
  <2>4. p[e.at].time <= time
    BY <1>0, <2>2 DEF InTime
  <2> QED
    BY <2>1, <2>2, <2>3, <2>4
<1> HIDE DEF n, time
<1>12. OfPoints(new, i)
  <2>1. \A e \in acc.events : e.at \in 1..i
    BY <1>0, <1>11
  <2>2. \A e \in more : e.at \in 1..i
    BY <1>0, <1>7
  <2> QED
    BY <1>1, <2>1, <2>2 DEF OfPoints
<1>13. LastKnown(new, p)
  <2>1. ASSUME NEW e \in new.events, e.kind \in Offence PROVE p[e.at].time <= new.last[e.kind]
    <3>1. CASE e \in acc.events
      <4>1. p[e.at].time <= acc.last[e.kind]
        BY <1>10, <2>1, <3>1 DEF LastKnown
      <4>2. last[e.kind] = time \/ last[e.kind] = acc.last[e.kind]
        BY <1>5, <2>1
      <4> QED
        BY <1>1, <1>11, <3>1, <4>1, <4>2
    <3>2. CASE e \in more
      <4>1. e.at = i /\ e.kind \in due
        BY <1>6, <1>7, <1>9, <2>1, <3>2
      <4>2. new.last[e.kind] = time /\ p[e.at].time = time
        BY <1>1, <1>5, <2>1, <4>1 DEF time
      <4> QED
        BY <1>3, <4>2
    <3> QED
      BY <1>1, <2>1, <3>1, <3>2
  <2>2. ASSUME NEW k \in Offence PROVE new.last[k] = 0 \/ \E e \in new.events : e.kind = k /\ p[e.at].time = new.last[k]
    <3>1. CASE k \in due
      <4>1. PICK e \in more : e.at = i /\ e.kind = k
        BY <1>8, <3>1
      <4>2. new.last[k] = time /\ p[e.at].time = time
        BY <1>1, <1>5, <3>1, <4>1 DEF time
      <4> QED
        BY <1>1, <4>1, <4>2
    <3>2. CASE k \notin due
      <4>1. new.last[k] = acc.last[k]
        BY <1>1, <1>5, <3>2
      <4>2. acc.last[k] = 0 \/ \E e \in acc.events : e.kind = k /\ p[e.at].time = acc.last[k]
        BY <1>10 DEF LastKnown
      <4> QED
        BY <1>1, <4>1, <4>2
    <3> QED
      BY <3>1, <3>2
  <2> QED
    BY <2>1, <2>2 DEF LastKnown
<1>14. AllApart(new, p)
  <2> SUFFICES ASSUME NEW e \in new.events, NEW f \in new.events, e.kind = f.kind, e.at < f.at
               PROVE  e.kind \in Offence /\ Apart(p, e.kind, e.at, f.at)
    BY DEF AllApart
  <2>1. CASE e \in acc.events /\ f \in acc.events
    BY <1>10, <2>1 DEF AllApart
  <2>2. CASE e \in acc.events /\ f \in more
    <3>1. f.at = i /\ (f.kind \in due \/ f.kind \in tired)
      BY <1>7, <2>2
    <3>2. CASE f.kind \in due
      <4>1. f.kind \in Offence /\ time - acc.last[f.kind] > Quiet(f.kind)
        BY <1>4, <3>2
      <4>2. p[e.at].time <= acc.last[f.kind]
        BY <1>10, <2>2, <4>1 DEF LastKnown
      <4>3. acc.last[f.kind] \in Nat
        BY <1>2, <4>1
      <4>4. time - p[e.at].time > Quiet(f.kind)
        <5> DEFINE x == p[e.at].time
                   y == acc.last[f.kind]
                   q == Quiet(f.kind)
        <5>1. x \in Nat /\ y \in Nat /\ q \in Nat /\ time \in Nat /\ x <= y /\ time - y > q
          BY <1>3, <1>11, <2>2, <4>1, <4>2, <4>3, QuietIsShort
        <5> HIDE DEF x, y, q, time
        <5>2. time - x > q
          BY <5>1
        <5> QED
          BY <5>2 DEF x, q
      <4> QED
        BY <3>1, <4>1, <4>4 DEF Apart, time
    <3>3. CASE f.kind \in tired
      <4>1. e.kind \in acc.warned
        BY <1>6, <1>10, <2>2, <3>3 DEF Warned
      <4> QED
        BY <1>6, <3>3, <4>1
    <3> QED
      BY <3>1, <3>2, <3>3
  <2>3. CASE e \in more
    <3>1. e.at = i /\ f.at \in 1..i
      BY <1>7, <1>12, <2>3 DEF OfPoints
    <3> QED
      BY <1>0, <3>1
  <2> QED
    BY <1>1, <2>1, <2>2, <2>3
<1>15. ASSUME NEW j \in 1..i PROVE Reported(new, p, j)
  <2>1. CASE j # i
    <3>1. j \in 1..(i - 1)
      BY <1>0, <2>1
    <3> QED
      BY <1>1, <1>10, <3>1 DEF Reported
  <2>2. CASE j = i
    <3> SUFFICES ASSUME NEW k \in kinds
                 PROVE  \E e \in new.events : e.kind = k /\ e.at <= i /\ ~Apart(p, k, e.at, i)
      BY <2>2 DEF Reported, kinds
    <3>1. CASE k \in due
      <4>1. PICK e \in more : e.at = i /\ e.kind = k
        BY <1>8, <3>1
      <4>2. ~Apart(p, k, i, i)
        <5>1. time - time = 0 /\ ~(0 > Quiet(k))
          BY <1>3, QuietIsShort
        <5> QED
          BY <5>1 DEF Apart, time
      <4>3. i <= i
        BY <1>0
      <4> QED
        BY <1>1, <4>1, <4>2, <4>3
    <3>2. CASE k \notin due
      <4>1. ~(time - acc.last[k] > Quiet(k)) /\ k \in Offence /\ acc.last[k] \in Nat
        BY <1>2, <1>4, <3>2
      <4>2. acc.last[k] # 0
        BY <1>3, <4>1, QuietIsShort
      <4>3. PICK e \in acc.events : e.kind = k /\ p[e.at].time = acc.last[k]
        BY <1>10, <4>1, <4>2 DEF LastKnown
      <4>4. e.at <= i
        BY <1>0, <1>11
      <4>5. ~Apart(p, k, e.at, i)
        BY <4>1, <4>3 DEF Apart, time
      <4> QED
        BY <1>1, <4>3, <4>4, <4>5
    <3> QED
      BY <3>1, <3>2
  <2> QED
    BY <2>1, <2>2
<1>16. Warned(new)
  <2>1. ASSUME NEW e \in new.events, e.kind \in Fatigue PROVE e.kind \in new.warned
    <3>1. CASE e \in acc.events
      BY <1>1, <1>10, <2>1, <3>1 DEF Warned
    <3>2. CASE e \in more
      <4>1. e.kind \in tired
        BY <1>4, <1>7, <1>9, <2>1, <3>2
      <4> QED
        BY <1>1, <4>1
    <3> QED
      BY <1>1, <2>1, <3>1, <3>2
  <2>2. ASSUME NEW e \in new.events, NEW f \in new.events, e.kind = "warning", f.kind = "severe" PROVE e.at < f.at
    <3>0. e.kind \in Fatigue /\ f.kind \in Fatigue
      BY <2>2 DEF Fatigue
    <3>1. CASE e \in acc.events /\ f \in acc.events
      BY <1>10, <2>2, <3>1 DEF Warned
    <3>2. CASE e \in acc.events /\ f \in more
      <4>1. f.at = i /\ e.at \in 1..(i - 1)
        BY <1>7, <1>11, <3>2
      <4> QED
        BY <1>0, <4>1
    <3>3. CASE e \in more
      <4>1. "warning" \in tired
        BY <1>4, <1>7, <1>9, <2>2, <3>0, <3>3
      <4>2. acc.warned = {} /\ "severe" \notin tired
        BY <1>6, <4>1
      <4>3. f \notin acc.events
        BY <1>10, <3>0, <4>2 DEF Warned
      <4>4. f \in more
        BY <1>1, <4>3
      <4>5. "severe" \in tired
        BY <1>4, <1>7, <1>9, <2>2, <3>0, <4>4
      <4> QED
        BY <4>2, <4>5
    <3> QED
      BY <1>1, <3>1, <3>2, <3>3
  <2> QED
    BY <2>1, <2>2 DEF Warned
<1>17. SeenRight(new, p, i) /\ acc.events \subseteq new.events
  BY <1>1, <1>12, <1>13, <1>14, <1>15, <1>16 DEF SeenRight
<1> QED
  BY <1>17 DEF new

\* The events of the first points are right, for however many points.
LEMMA SeenIsRight ==
    ASSUME NEW p, InTime(p), NEW f, SeenBy(f, p) PROVE \A i \in 0..Len(p) : SeenRight(f[i], p, i)
<1> DEFINE n == Len(p)
           P == {i \in 0..n : SeenRight(f[i], p, i)}
<1>1. n \in Nat
  BY LenProperties DEF InTime
<1>2. 0 \in P
  <2>1. f[0].events = {} /\ f[0].last = [k \in Offence |-> 0]
    BY DEF SeenBy, NothingSeen
  <2>2. \A k \in Offence : f[0].last[k] = 0
    BY <2>1
  <2>3. 1..0 = {}
    OBVIOUS
  <2>4. SeenRight(f[0], p, 0)
    BY <2>1, <2>2, <2>3 DEF SeenRight, OfPoints, LastKnown, AllApart, Warned
  <2> QED
    BY <1>1, <2>4
<1>3. ASSUME NEW i \in 1..n, i - 1 \in P PROVE i \in P
  <2>1. i - 1 \in 0..n /\ i \in 0..n
    BY <1>1
  <2>2. f[i - 1] \in Seen(n) /\ f[i] = Extracted(f[i - 1], p, i)
    BY <2>1 DEF SeenBy
  <2>3. SeenRight(f[i - 1], p, i - 1)
    BY <1>3
  <2>4. SeenRight(f[i], p, i)
    BY <2>2, <2>3, ExtractedIsRight
  <2> QED
    BY <2>1, <2>4
<1>4. 0..n \subseteq P
  <2> HIDE DEF P, n
  <2> QED
    BY <1>1, <1>2, <1>3, CountUp
<1> QED
  BY <1>4

\* The events of a point depend on it and the point before it only.
LEMMA SameSeen ==
    ASSUME NEW p, NEW q, NEW i \in Nat, NEW acc, q[i] = p[i], i = 1 \/ q[i - 1] = p[i - 1]
    PROVE  Extracted(acc, q, i) = Extracted(acc, p, i)
<1>1. Dt(q, i) = Dt(p, i)
  BY DEF Dt
<1>2. Offences(q, i) = Offences(p, i)
  <2>1. CASE i = 1
    <3> DEFINE d == Dt(p, i)
    <3>1. Dt(q, i) = d
      BY <1>1
    <3> HIDE DEF d
    <3> QED
      BY <2>1, <3>1 DEF Offences, d
  <2>2. CASE q[i - 1] = p[i - 1] /\ i # 1
    <3> DEFINE d == Dt(p, i)
    <3>1. Dt(q, i) = d
      BY <1>1
    <3> HIDE DEF d
    <3> QED
      BY <2>2, <3>1 DEF Offences, d
  <2> QED
    BY <2>1, <2>2
<1> QED
  BY <1>1, <1>2 DEF Extracted

\* Points in time without the last are in time.
LEMMA FrontInTime ==
    ASSUME NEW p, InTime(p), Len(p) >= 2
    PROVE  InTime(Front(p)) /\ Len(Front(p)) = Len(p) - 1 /\ \A i \in 1..(Len(p) - 1) : Front(p)[i] = p[i]
<1> DEFINE n == Len(p)
           q == Front(p)
<1>1. p \in Seq(Driven) /\ n \in Nat /\ n >= 2
  BY LenProperties DEF InTime
<1>2. q = SubSeq(p, 1, n - 1)
  BY DEF Front
<1>3. \A i \in 1..(n - 1) : p[i] \in Driven
  <2>1. \A i \in 1..n : p[i] \in Driven
    BY <1>1, ElementOfSeq
  <2> QED
    BY <1>1, <2>1
<1>4. q \in Seq(Driven) /\ Len(q) = n - 1 /\ \A i \in 1..(n - 1) : q[i] = p[i]
  <2> DEFINE e == n - 1
  <2>1. 1 \in Int /\ e \in Int /\ 1 <= e /\ e - 1 + 1 = e /\ \A i \in 1..e : 1 + i - 1 = i
    BY <1>1
  <2>2. /\ SubSeq(p, 1, e) \in Seq(Driven) /\ Len(SubSeq(p, 1, e)) = e - 1 + 1
        /\ \A i \in 1..(e - 1 + 1) : SubSeq(p, 1, e)[i] = p[1 + i - 1]
    <3> HIDE DEF e
    <3> QED
      BY <1>3, <2>1, SubSeqProperties DEF e
  <2> HIDE DEF e, q
  <2> QED
    BY <1>2, <2>1, <2>2 DEF e
<1> HIDE DEF q, n
<1>5. \A i \in 1..(n - 1) : i \in 1..n
  BY <1>1
<1>6. \A i \in 1..(n - 1) : q[i].time >= StartTime
  BY <1>4, <1>5 DEF InTime, n
<1>7. \A i, j \in 1..(n - 1) : i <= j => q[i].time <= q[j].time
  BY <1>4, <1>5 DEF InTime, n
<1>8. InTime(q)
  BY <1>4, <1>6, <1>7 DEF InTime
<1> QED
  BY <1>4, <1>8 DEF q, n

\* A point that follows takes no event away.
LEMMA EventsStay ==
    ASSUME NEW p, InTime(p), Len(p) >= 3 PROVE EventsOf(Front(p)) \subseteq EventsOf(p)
<1> DEFINE n == Len(p)
           q == Front(p)
<1>1. n \in Nat /\ n >= 3 /\ InTime(q) /\ Len(q) = n - 1 /\ \A i \in 1..(n - 1) : q[i] = p[i]
  BY FrontInTime, LenProperties DEF InTime
<1> HIDE DEF q
<1>2. PICK f : SeenBy(f, p) /\ EventsOf(p) = IF n < 2 THEN {} ELSE f[n].events
  BY EventsAreSeen
<1>3. PICK g : SeenBy(g, q) /\ EventsOf(q) = IF Len(q) < 2 THEN {} ELSE g[Len(q)].events
  BY <1>1, EventsAreSeen
<1>4. EventsOf(p) = f[n].events /\ EventsOf(q) = g[n - 1].events
  BY <1>1, <1>2, <1>3
<1> DEFINE P == {i \in 0..(n - 1) : g[i] = f[i]}
<1>5. 0 \in P
  BY <1>1, <1>2, <1>3 DEF SeenBy
<1>6. ASSUME NEW i \in 1..(n - 1), i - 1 \in P PROVE i \in P
  <2>1. i \in 1..Len(q) /\ i \in 1..Len(p) /\ i \in Nat
    BY <1>1
  <2>2. g[i] = Extracted(g[i - 1], q, i) /\ f[i] = Extracted(f[i - 1], p, i)
    BY <1>2, <1>3, <2>1 DEF SeenBy
  <2>3. g[i - 1] = f[i - 1]
    BY <1>6
  <2>4. q[i] = p[i] /\ (i = 1 \/ q[i - 1] = p[i - 1])
    <3>1. i = 1 \/ i - 1 \in 1..(n - 1)
      BY <1>1
    <3> QED
      BY <1>1, <3>1
  <2>5. Extracted(f[i - 1], q, i) = Extracted(f[i - 1], p, i)
    BY <2>1, <2>4, SameSeen
  <2> QED
    BY <1>1, <2>2, <2>3, <2>5
<1>7. g[n - 1] = f[n - 1]
  <2>1. 0..(n - 1) \subseteq P
    <3>1. n - 1 \in Nat
      BY <1>1
    <3> DEFINE m == n - 1
    <3> HIDE DEF P, n, m
    <3>2. m \in Nat /\ 0 \in P /\ \A i \in 1..m : i - 1 \in P => i \in P
      BY <1>5, <1>6, <3>1 DEF m
    <3>3. 0..m \subseteq P
      BY <3>2, CountUp
    <3> QED
      BY <3>3 DEF m
  <2>2. n - 1 \in 0..(n - 1)
    BY <1>1
  <2> QED
    BY <2>1, <2>2
<1>8. f[n - 1].events \subseteq f[n].events
  <2>1. n \in 1..Len(p) /\ n - 1 \in 0..Len(p)
    BY <1>1
  <2>2. f[n] = Extracted(f[n - 1], p, n) /\ f[n - 1] \in Seen(Len(p)) /\ SeenRight(f[n - 1], p, n - 1)
    BY <1>2, <2>1, SeenIsRight DEF SeenBy
  <2> HIDE DEF n
  <2> QED
    BY <2>1, <2>2, ExtractedIsRight
<1> QED
  BY <1>4, <1>7, <1>8 DEF q

\* Whatever was driven in time, its events are sound.
LEMMA EventsAreSound == InTime(driven) => EcoEventsSound
<1> SUFFICES ASSUME InTime(driven) PROVE EcoEventsSound
  OBVIOUS
<1> DEFINE n == Len(driven)
           E == EventsOf(driven)
<1>1. n \in Nat
  BY LenProperties DEF InTime
<1>2. PICK f : SeenBy(f, driven) /\ E = IF n < 2 THEN {} ELSE f[n].events
  BY EventsAreSeen
<1>3. SeenRight(f[n], driven, n) /\ f[n] \in Seen(n)
  <2>1. n \in 0..Len(driven)
    BY <1>1
  <2> QED
    BY <1>2, <2>1, SeenIsRight DEF SeenBy
<1>4. OfPoints(f[n], n) /\ AllApart(f[n], driven) /\ (\A j \in 1..n : Reported(f[n], driven, j)) /\ Warned(f[n])
  BY <1>3 DEF SeenRight
<1> HIDE DEF E, n
<1>5. E \subseteq f[n].events /\ (n >= 2 => E = f[n].events)
  BY <1>1, <1>2
<1>6. \A i \in 1..n : driven[i].time \in Int
  BY TimesOfPoints DEF n
<1>7. \A k, i, j : i \in 1..n /\ j \in 1..n => (Apart(driven, k, i, j) <=> ~(driven[j].time - driven[i].time <= Quiet(k)))
  <2> SUFFICES ASSUME NEW k, NEW i \in 1..n, NEW j \in 1..n
               PROVE  Apart(driven, k, i, j) <=> ~(driven[j].time - driven[i].time <= Quiet(k))
    OBVIOUS
  <2>1. driven[i].time \in Int /\ driven[j].time \in Int /\ Quiet(k) \in Nat
    BY <1>6, QuietIsShort
  <2> QED
    BY <2>1 DEF Apart
<1>8. \A e \in E : e.at \in 1..n
  BY <1>4, <1>5 DEF OfPoints
<1>9. \A e, h \in E : e.kind = h.kind /\ e.at < h.at =>
         e.kind \in Offence /\ ~(driven[h.at].time - driven[e.at].time <= Quiet(e.kind))
  <2> SUFFICES ASSUME NEW e \in E, NEW h \in E, e.kind = h.kind, e.at < h.at
               PROVE  e.kind \in Offence /\ ~(driven[h.at].time - driven[e.at].time <= Quiet(e.kind))
    OBVIOUS
  <2>1. e.kind \in Offence /\ Apart(driven, e.kind, e.at, h.at)
    BY <1>4, <1>5 DEF AllApart
  <2> QED
    BY <1>7, <1>8, <2>1
<1>10. n >= 2 => \A i \in 1..n : \A k \in Offences(driven, i) :
          \E e \in E : e.kind = k /\ e.at <= i /\ driven[i].time - driven[e.at].time <= Quiet(k)
  <2> SUFFICES ASSUME n >= 2, NEW i \in 1..n, NEW k \in Offences(driven, i)
               PROVE  \E e \in E : e.kind = k /\ e.at <= i /\ driven[i].time - driven[e.at].time <= Quiet(k)
    OBVIOUS
  <2>1. PICK e \in E : e.kind = k /\ e.at <= i /\ ~Apart(driven, k, e.at, i)
    BY <1>4, <1>5 DEF Reported
  <2>2. driven[i].time - driven[e.at].time <= Quiet(k)
    BY <1>7, <1>8, <2>1
  <2> QED
    BY <2>1, <2>2
<1>11. \A e, h \in E : e.kind = "warning" /\ h.kind = "severe" => e.at < h.at
  BY <1>4, <1>5 DEF Warned
<1>12. n >= 3 => EventsOf(Front(driven)) \subseteq E
  BY EventsStay DEF n, E
<1>13. DOMAIN driven = 1..n
  BY LenProperties DEF InTime, n
<1> QED
  BY <1>9, <1>10, <1>11, <1>12, <1>13 DEF EcoEventsSound, E, n

\* No points are in time.
LEMMA DrivenInit == EcoEventsInit => InTime(driven)
<1> SUFFICES ASSUME driven = <<>> PROVE InTime(driven)
  BY DEF EcoEventsInit
<1>1. driven \in Seq(Driven) /\ Len(driven) = 0 /\ 1..0 = {}
  OBVIOUS
<1> QED
  BY <1>1 DEF InTime

\* A point that follows keeps them in time.
LEMMA DriveOnKept == InTime(driven) /\ EcoEventsNext => InTime(driven)'
<1> SUFFICES ASSUME InTime(driven), DriveOn PROVE InTime(driven')
  BY DEF EcoEventsNext
<1> DEFINE n == Len(driven)
<1>1. driven \in Seq(Driven) /\ n \in Nat
  BY LenProperties DEF InTime
<1>2. PICK step \in Steps, speed \in Speeds, course \in Courses, flag \in Flag :
         LET time == IF driven = <<>> THEN StartTime ELSE Last(driven).time + step
         IN driven' = Append(driven, [time |-> time, speed |-> speed, course |-> course, flag |-> flag])
  BY DEF DriveOn
<1> DEFINE time == IF driven = <<>> THEN StartTime ELSE Last(driven).time + step
           x == [time |-> time, speed |-> speed, course |-> course, flag |-> flag]
<1>3. driven' = Append(driven, x)
  BY <1>2
<1>4. step \in Nat /\ StartTime \in Nat
  BY EcoEventsAssumption
<1>5. time \in Nat /\ time >= StartTime /\ \A i \in 1..n : driven[i].time <= time
  <2>1. CASE driven = <<>>
    <3>1. n = 0 /\ 1..0 = {}
      BY <2>1
    <3> QED
      BY <1>4, <2>1, <3>1
  <2>2. CASE driven # <<>>
    <3>1. n \in 1..n
      BY <1>1, <2>2, EmptySeq
    <3>2. driven[n].time \in Nat /\ driven[n].time >= StartTime
      BY <3>1, TimesOfPoints DEF InTime
    <3>3. \A i \in 1..n : driven[i].time \in Nat /\ driven[i].time <= driven[n].time
      <4> SUFFICES ASSUME NEW i \in 1..n PROVE driven[i].time \in Nat /\ driven[i].time <= driven[n].time
        OBVIOUS
      <4>1. i <= n
        BY <1>1
      <4> QED
        BY <3>1, <4>1, TimesOfPoints DEF InTime
    <3>4. time = driven[n].time + step
      BY <2>2 DEF Last
    <3> HIDE DEF time, n
    <3> QED
      BY <1>4, <3>2, <3>3, <3>4
  <2> QED
    BY <2>1, <2>2
<1> HIDE DEF time
<1>6. x \in Driven /\ x.time = time
  BY <1>5 DEF Driven
<1> HIDE DEF x, n
<1> DEFINE p == driven'
<1>7. p \in Seq(Driven) /\ Len(p) = n + 1 /\ p[n + 1] = x /\ \A i \in 1..n : p[i] = driven[i]
  BY <1>1, <1>3, <1>6, AppendProperties DEF n
<1> HIDE DEF p
<1>8. \A i \in 1..(n + 1) : i = n + 1 \/ i \in 1..n
  BY <1>1
<1>9. \A i \in 1..(n + 1) : p[i].time >= StartTime
  BY <1>5, <1>6, <1>7, <1>8 DEF InTime, n
<1>10. ASSUME NEW i \in 1..(n + 1), NEW j \in 1..(n + 1), i <= j PROVE p[i].time <= p[j].time
  <2>1. CASE j = n + 1
    <3>1. CASE i = n + 1
      BY <1>5, <1>6, <1>7, <2>1, <3>1
    <3>2. CASE i \in 1..n
      BY <1>5, <1>6, <1>7, <2>1, <3>2
    <3> QED
      BY <1>8, <3>1, <3>2
  <2>2. CASE j \in 1..n
    <3>1. i \in 1..n
      BY <1>1, <1>10, <2>2
    <3> QED
      BY <1>7, <1>10, <2>2, <3>1 DEF InTime, n
  <2> QED
    BY <1>8, <2>1, <2>2
<1>11. InTime(p)
  BY <1>7, <1>9, <1>10 DEF InTime
<1> QED
  BY <1>11 DEF p

-----------------------------------------------------------------------------
(* The scorecard. *)
\* The only request under way is that of the trip in the title, and a scorecard or pins to be shown
\* are of an open history.
EcoInv ==
    /\ TripEcoTypeOK /\ TripEcoSound
    /\ ecoCalls \subseteq {ecoTitle}
    /\ ~ecoSession => ~ecoShown /\ ~ecoOpen

\* The scorecard starts in the invariant.
LEMMA EcoInvInit == TripEcoInit => EcoInv
<1> SUFFICES ASSUME TripEcoInit PROVE EcoInv
  OBVIOUS
<1>1. TripEcoTypeOK
  BY DEF TripEcoInit, TripEcoTypeOK, OfTrips
<1>2. TripEcoSound
  BY DEF TripEcoInit, TripEcoSound
<1> QED
  BY <1>1, <1>2 DEF TripEcoInit, EcoInv

\* The pins are of the trips the scorecard is of.
LEMMA PinsAreDrawn ==
    ASSUME EcoInv, NEW filter \in OfTrips, NEW history \in SUBSET OfTrips, NEW data,
           PinsDrawn(filter, history, data), ecoShown' = ecoShown
    PROVE  /\ ecoHistory' \in SUBSET OfTrips /\ ecoPins' \in SUBSET OfTrips
           /\ ecoLast' \in OfTrips \cup {Never} /\ ecoPinned' \in BOOLEAN
           /\ ecoPinned' <=> ecoShown' /\ ecoPins' # {}
<1>1. CASE ecoLast = filter /\ ecoPins # {}
  BY <1>1 DEF PinsDrawn, EcoInv, TripEcoTypeOK, TripEcoSound
<1>2. CASE ~(ecoLast = filter /\ ecoPins # {})
  <2>1. PICK extracted \in IF ecoSession THEN SUBSET OfTrips ELSE {{}} :
           LET known == IF filter # NoTrip /\ data.trip = filter /\ data.found THEN {filter} ELSE history
               source == IF known = {} THEN extracted ELSE known
           IN /\ ecoHistory' = (IF known = {} THEN extracted ELSE history)
              /\ ecoPins' = (IF filter = NoTrip THEN source ELSE source \cap {filter, NoTrip})
              /\ ecoPinned' = (ecoShown /\ ecoPins' # {}) /\ ecoLast' = filter
    BY <1>2 DEF PinsDrawn
  <2>2. extracted \in SUBSET OfTrips
    OBVIOUS
  <2>3. ecoPinned' = (ecoShown /\ ecoPins' # {}) /\ ecoLast' = filter
    BY <2>1
  <2>4. ecoShown \in BOOLEAN
    BY DEF EcoInv, TripEcoTypeOK
  <2>5. ecoPinned' \in BOOLEAN /\ (ecoPinned' <=> ecoShown' /\ ecoPins' # {})
    BY <2>3, <2>4
  <2> QED
    BY <2>1, <2>2, <2>3, <2>5
<1> QED
  BY <1>1, <1>2

\* Every step of the scorecard keeps it.
LEMMA EcoStep == EcoInv /\ TripEcoNext => EcoInv'
<1> SUFFICES ASSUME EcoInv, TripEcoNext PROVE EcoInv'
  OBVIOUS
<1> USE DEF EcoInv
<1>1. NoTrip \in OfTrips /\ EcoTrip \subseteq OfTrips /\ ecoHistory \in SUBSET OfTrips
  BY DEF OfTrips, TripEcoTypeOK
<1>2. CASE EnterHistory
  BY <1>2 DEF EnterHistory, ecoMap, ecoCard, TripEcoTypeOK, TripEcoSound
<1>3. CASE ToggleEcoEvents
  <2>1. ecoShown' \in BOOLEAN /\ ecoPinned' = (ecoShown' /\ ecoPins # {})
    BY <1>3 DEF ToggleEcoEvents, TripEcoTypeOK
  <2>2. ecoPinned' \in BOOLEAN /\ (ecoPinned' <=> ecoShown' /\ ecoPins # {})
    BY <2>1
  <2> QED
    BY <1>3, <2>1, <2>2 DEF ToggleEcoEvents, ecoCard, TripEcoTypeOK, TripEcoSound
<1>4. CASE CloseTripEco
  BY <1>4 DEF CloseTripEco, ScoreClosed, GivenUp, ecoMap, TripEcoTypeOK, TripEcoSound
<1>5. CASE RedrawAllPins
  <2>1. PinsDrawn(NoTrip, ecoHistory, ecoData) /\ ecoShown' = ecoShown
    BY <1>5 DEF RedrawAllPins
  <2>2. /\ ecoHistory' \in SUBSET OfTrips /\ ecoPins' \in SUBSET OfTrips
        /\ ecoLast' \in OfTrips \cup {Never} /\ ecoPinned' \in BOOLEAN
        /\ ecoPinned' <=> ecoShown' /\ ecoPins' # {}
    BY <1>1, <2>1, PinsAreDrawn
  <2> QED
    BY <1>5, <2>2 DEF RedrawAllPins, ecoCard, TripEcoTypeOK, TripEcoSound
<1>6. CASE SetTripEcoFilter
  BY <1>6 DEF SetTripEcoFilter, ecoMap, TripEcoTypeOK, TripEcoSound
<1>7. CASE JumpToTripEcoEvent
  <2>1. ecoShown' = TRUE /\ ecoPinned' = (ecoPins # {}) /\ ecoSession
    BY <1>7 DEF JumpToTripEcoEvent, TripEcoTypeOK
  <2>2. ecoPinned' \in BOOLEAN /\ (ecoPinned' <=> ecoShown' /\ ecoPins # {})
    BY <2>1
  <2> QED
    BY <1>7, <2>1, <2>2 DEF JumpToTripEcoEvent, ScoreClosed, GivenUp, TripEcoTypeOK, TripEcoSound
<1>8. CASE LeaveHistory
  BY <1>8 DEF LeaveHistory, ScoreClosed, GivenUp, TripEcoTypeOK, TripEcoSound
<1>9. ASSUME NEW found \in SUBSET OfTrips, SessionEvents(found) PROVE EcoInv'
  <2>1. PinsDrawn(NoTrip, found, ecoData) /\ ecoShown' = ecoShown
    BY <1>9 DEF SessionEvents
  <2>2. /\ ecoHistory' \in SUBSET OfTrips /\ ecoPins' \in SUBSET OfTrips
        /\ ecoLast' \in OfTrips \cup {Never} /\ ecoPinned' \in BOOLEAN
        /\ ecoPinned' <=> ecoShown' /\ ecoPins' # {}
    BY <1>1, <2>1, PinsAreDrawn
  <2> QED
    BY <1>9, <2>2 DEF SessionEvents, ecoCard, TripEcoTypeOK, TripEcoSound
<1>10. ASSUME NEW trip \in EcoTrip, OpenTripEco(trip) PROVE EcoInv'
  <2>1. PinsDrawn(trip, ecoHistory, ecoData) /\ ecoShown' = ecoShown
    BY <1>10 DEF OpenTripEco
  <2>2. /\ ecoHistory' \in SUBSET OfTrips /\ ecoPins' \in SUBSET OfTrips
        /\ ecoLast' \in OfTrips \cup {Never} /\ ecoPinned' \in BOOLEAN
        /\ ecoPinned' <=> ecoShown' /\ ecoPins' # {}
    BY <1>1, <2>1, PinsAreDrawn
  <2> QED
    BY <1>1, <1>10, <2>2 DEF OpenTripEco, GivenUp, TripEcoTypeOK, TripEcoSound
<1>11. ASSUME NEW trip \in ecoCalls, NEW found \in BOOLEAN, ScoreShown(trip, found), NEW history \in SUBSET OfTrips,
              PinsDrawn(trip, history, ecoData') PROVE EcoInv'
  <2>1. trip \in EcoTrip /\ trip = ecoTitle /\ ecoShown' = ecoShown
    BY <1>11 DEF TripEcoTypeOK, ScoreShown
  <2>2. /\ ecoHistory' \in SUBSET OfTrips /\ ecoPins' \in SUBSET OfTrips
        /\ ecoLast' \in OfTrips \cup {Never} /\ ecoPinned' \in BOOLEAN
        /\ ecoPinned' <=> ecoShown' /\ ecoPins' # {}
    BY <1>1, <1>11, <2>1, PinsAreDrawn
  <2>3. ecoData' \in [trip : OfTrips, found : BOOLEAN] /\ ecoData'.trip = ecoTitle
    BY <1>1, <1>11, <2>1 DEF ScoreShown
  <2> QED
    BY <1>11, <2>1, <2>2, <2>3 DEF ScoreShown, TripEcoTypeOK, TripEcoSound
<1>12. ASSUME NEW trip \in ecoCalls, ScoreFails(trip) PROVE EcoInv'
  <2>1. PICK found \in IF trip \in ecoHistory THEN {TRUE} ELSE BOOLEAN :
          ScoreShown(trip, found) /\ PinsDrawn(trip, ecoHistory, ecoData')
    BY <1>12 DEF ScoreFails
  <2>2. found \in BOOLEAN
    OBVIOUS
  <2> QED
    BY <1>1, <1>11, <2>1, <2>2
<1>13. ASSUME NEW trip \in ecoCalls, NEW found \in BOOLEAN, ScoreArrives(trip, found) PROVE EcoInv'
  <2> DEFINE history == IF found THEN ecoHistory \cup {trip} ELSE ecoHistory
  <2>1. history \in SUBSET OfTrips
    BY <1>1 DEF TripEcoTypeOK
  <2>2. ScoreShown(trip, found) /\ PinsDrawn(trip, history, ecoData')
    BY <1>13 DEF ScoreArrives
  <2> HIDE DEF history
  <2> QED
    BY <1>11, <2>1, <2>2
<1> QED
  BY <1>2, <1>3, <1>4, <1>5, <1>6, <1>7, <1>8, <1>9, <1>10, <1>12, <1>13 DEF TripEcoNext

\* A step of another part keeps it.
LEMMA EcoStutter == EcoInv /\ UNCHANGED tripEcoVars => EcoInv'
BY DEF EcoInv, tripEcoVars, TripEcoTypeOK, TripEcoSound

-----------------------------------------------------------------------------
(* The history of a sensor. *)
\* Requests and readings are of the sensor in the title; an open window has one.
SensorInv ==
    /\ SensorHistoryTypeOK /\ SensorHistorySound
    /\ shData \in [of : Sensor, readings : Readings] \cup {NoReadings}
    /\ IsFiniteSet(shLoads) /\ \A load \in shLoads : load.of = shTitle /\ load.of \in Sensor
    /\ shOpen => shTitle \in Sensor

\* Readings of a sensor are in a row.
LEMMA ReadingsAreSequences == ASSUME NEW q \in Readings PROVE q \in Seq(Reading)
<1>0. MaxReadings \in Nat
  BY SensorHistoryAssumption
<1>1. PICK n \in 0..MaxReadings : q \in [1..n -> Reading]
  BY DEF Readings
<1> QED
  BY <1>0, <1>1, SeqDef

\* The rows of a table are counted.
LEMMA RowsAreCounted ==
    ASSUME NEW q \in Readings, NEW changes PROVE RowsOf(q, changes) \in Nat /\ RowsGuessed(q, changes) \in Nat
<1>1. q \in Seq(Reading)
  BY ReadingsAreSequences
<1>2. Len(q) \in Nat /\ DOMAIN q = 1..Len(q)
  BY <1>1, LenProperties
<1>3. ASSUME NEW S \in SUBSET (DOMAIN q) PROVE Cardinality(S) \in Nat
  <2>1. IsFiniteSet(DOMAIN q)
    BY <1>2, FS_Interval
  <2> QED
    BY <2>1, FS_Subset, FS_CardinalityType
<1> QED
  BY <1>2, <1>3 DEF RowsOf, RowsGuessed

\* So are its pages: rows fill at least one.
LEMMA PagesAreCounted ==
    ASSUME NEW rows \in Nat PROVE ReadingPages(rows) \in Nat /\ (rows > 0 => ReadingPages(rows) >= 1)
<1>1. ReadingsPage \in Nat /\ ReadingsPage >= 1
  BY SensorHistoryAssumption
<1> DEFINE p == ReadingsPage
           a == rows + p - 1
           q == a \div p
<1>2. a \in Nat /\ p \in Nat /\ p > 0
  BY <1>1
<1>3. q \in Nat
  <2> HIDE DEF a, p
  <2> QED
    BY <1>2
<1>4. ASSUME rows > 0 PROVE q >= 1
  <2>1. a >= p
    BY <1>1, <1>4
  <2> HIDE DEF a, p
  <2> QED
    BY <1>2, <2>1
<1> QED
  BY <1>3, <1>4 DEF ReadingPages

\* A page asked for is cut to the pages there are.
LEMMA PageIsWithin ==
    ASSUME NEW page \in Nat, NEW rows \in Nat
    PROVE  PageWithin(page, rows) \in Nat /\ (rows > 0 => PageWithin(page, rows) \in 1..ReadingPages(rows))
BY PagesAreCounted DEF PageWithin

\* A table that is drawn shows a page it has.
LEMMA TableIsDrawn ==
    ASSUME NEW data \in [of : Sensor, readings : Readings] \cup {NoReadings}, NEW changes, NEW page \in Nat,
           TableDrawn(data, changes, page)
    PROVE  /\ shPage' \in Nat /\ shTable' \in {shTable, "rows"}
           /\ data # NoReadings =>
                /\ shTable' = "rows"
                /\ RowsOf(data.readings, changes) > 0 => shPage' \in 1..ReadingPages(RowsOf(data.readings, changes))
           /\ data = NoReadings => shTable' = shTable
<1>1. CASE data = NoReadings
  BY <1>1 DEF TableDrawn
<1>2. CASE data # NoReadings
  <2>1. data.readings \in Readings
    BY <1>2
  <2>2. RowsOf(data.readings, changes) \in Nat
    BY <2>1, RowsAreCounted
  <2> QED
    BY <1>2, <2>2, PageIsWithin DEF TableDrawn
<1> QED
  BY <1>1, <1>2

\* A history of a sensor without loads is well typed.
LEMMA TypeKept ==
    ASSUME shTitle' \in Sensor \cup {NoSensor}, shSpan' \in SpanOfTime, shOnlyChanges' \in BOOLEAN, shPage' \in Nat,
           shData'.readings \in Readings, shOpen' \in BOOLEAN, shTable' \in {"blank", "loading", "failed", "rows"},
           shLoads' = {}, shHistory' \in Spans, shJump' \in Spans
    PROVE  SensorHistoryTypeOK'
<1>1. Cardinality(shLoads') = 0 /\ MaxSensorLoads \in Nat
  BY FS_EmptySet, SensorHistoryAssumption
<1>2. Cardinality(shLoads') <= MaxSensorLoads
  BY <1>1
<1>3. shLoads' \subseteq Spans
  OBVIOUS
<1> HIDE DEF Spans, Readings
<1> QED
  BY <1>2, <1>3 DEF SensorHistoryTypeOK

\* The history of a sensor starts in the invariant.
LEMMA SensorInvInit == SensorHistoryInit => SensorInv
<1> SUFFICES ASSUME SensorHistoryInit PROVE SensorInv
  OBVIOUS
<1> USE DEF SensorHistoryInit
<1>1. shSpan \in SpanOfTime
  BY SensorHistoryAssumption
<1>2. <<>> \in Readings /\ NoReadings.readings = <<>>
  <2>1. <<>> \in [1..0 -> Reading] /\ 0 \in 0..MaxReadings
    BY SensorHistoryAssumption
  <2> QED
    BY <2>1 DEF Readings, NoReadings
<1>3. IsFiniteSet(shLoads) /\ Cardinality(shLoads) = 0 /\ MaxSensorLoads \in Nat
  BY FS_EmptySet, SensorHistoryAssumption
<1>4. SensorHistoryTypeOK
  <2>1. shLoads \subseteq Spans /\ Cardinality(shLoads) <= MaxSensorLoads
    BY <1>3
  <2>2. NoSpan \in Spans
    BY DEF Spans
  <2> QED
    BY <1>1, <1>2, <2>1, <2>2 DEF SensorHistoryTypeOK
<1>5. SensorHistorySound
  BY DEF SensorHistorySound
<1> QED
  BY <1>3, <1>4, <1>5 DEF SensorInv

\* Every step of it keeps the invariant.
LEMMA SensorStep == SensorInv /\ SensorHistoryNext => SensorInv'
<1> SUFFICES ASSUME SensorInv, SensorHistoryNext PROVE SensorInv'
  OBVIOUS
<1> USE DEF SensorInv, shOnMap, shView
<1>1. MaxSensorLoads \in Nat /\ NoSensor \notin Sensor
  BY SensorHistoryAssumption
<1>2. shData \in [of : Sensor, readings : Readings] \cup {NoReadings}
  OBVIOUS
<1>3. ASSUME NEW S, shLoads' = {} \/ shLoads' = {S}, S \in Spans, S.of = shTitle', S.of \in Sensor, Cardinality(shLoads') <= MaxSensorLoads
      PROVE  shLoads' \subseteq Spans /\ IsFiniteSet(shLoads') /\ \A load \in shLoads' : load.of = shTitle' /\ load.of \in Sensor
  BY <1>3, FS_Singleton, FS_EmptySet
<1>4. IsFiniteSet({}) /\ Cardinality({}) = 0
  BY FS_EmptySet
<1>5. ASSUME NEW sensor \in Sensor, OpenSensorHistory(sensor) PROVE SensorInv'
  <2> DEFINE span == CHOOSE s \in SpanOfTime : TRUE
             S == [of |-> sensor, span |-> span]
  <2>1. span \in SpanOfTime
    BY SensorHistoryAssumption
  <2> HIDE DEF span
  <2>2. S \in Spans /\ S.of = sensor
    BY <2>1 DEF Spans
  <2>3. /\ shLoads' = {S} /\ Cardinality(shLoads') <= MaxSensorLoads /\ shSpan' = span /\ shTable' = "loading"
        /\ shTitle' = sensor /\ shOpen' = TRUE /\ shOnlyChanges' = TRUE /\ shPage' = 1 /\ shData' = NoReadings
        /\ shHistory' = shHistory /\ shJump' = shJump
    BY <1>5 DEF OpenSensorHistory, LoadReadings, Aborted, span
  <2> HIDE DEF S
  <2>4. shLoads' \subseteq Spans /\ IsFiniteSet(shLoads') /\ \A load \in shLoads' : load.of = shTitle' /\ load.of \in Sensor
    BY <1>3, <2>2, <2>3
  <2>5. NoReadings.readings \in Readings
    <3>1. <<>> \in [1..0 -> Reading] /\ 0 \in 0..MaxReadings
      BY SensorHistoryAssumption
    <3> QED
      BY <3>1 DEF Readings, NoReadings
  <2>6. SensorHistoryTypeOK'
    BY <2>1, <2>3, <2>4, <2>5 DEF SensorHistoryTypeOK
  <2>7. SensorHistorySound'
    BY <2>3 DEF SensorHistorySound
  <2> QED
    BY <2>3, <2>4, <2>6, <2>7
<1>6. ASSUME NEW span \in SpanOfTime, SelectRange(span) PROVE SensorInv'
  <2> DEFINE S == [of |-> shTitle, span |-> span]
  <2>1. S \in Spans /\ S.of = shTitle /\ shTitle \in Sensor
    BY <1>6 DEF SelectRange, Spans
  <2>2. /\ shLoads' = {S} /\ Cardinality(shLoads') <= MaxSensorLoads /\ shSpan' = span /\ shTable' = "loading"
        /\ UNCHANGED <<shTitle, shOnlyChanges, shPage, shData, shOpen, shHistory, shJump>>
    BY <1>6 DEF SelectRange, LoadReadings, Aborted
  <2> HIDE DEF S
  <2>3. shLoads' \subseteq Spans /\ IsFiniteSet(shLoads') /\ \A load \in shLoads' : load.of = shTitle' /\ load.of \in Sensor
    BY <1>3, <2>1, <2>2
  <2>4. SensorHistoryTypeOK'
    BY <2>2, <2>3 DEF SensorHistoryTypeOK
  <2>5. SensorHistorySound'
    BY <2>2 DEF SensorHistorySound
  <2> QED
    BY <2>2, <2>3, <2>4, <2>5
<1>7. ASSUME NEW load \in shLoads
      PROVE  /\ IsFiniteSet(shLoads \ {load}) /\ Cardinality(shLoads \ {load}) <= MaxSensorLoads
  <2>1. Cardinality(shLoads) <= MaxSensorLoads /\ Cardinality(shLoads) \in Nat
    BY FS_CardinalityType DEF SensorHistoryTypeOK
  <2>2. IsFiniteSet(shLoads \ {load}) /\ Cardinality(shLoads \ {load}) = Cardinality(shLoads) - 1
    BY FS_RemoveElement
  <2> QED
    BY <1>1, <2>1, <2>2
<1>8. ASSUME NEW load \in shLoads, NEW readings \in Readings, ReadingsArrive(load, readings) PROVE SensorInv'
  <2> DEFINE data == [of |-> load.of, readings |-> readings]
  <2>1. data \in [of : Sensor, readings : Readings] /\ data.of = shTitle /\ data # NoReadings
    BY <1>1 DEF NoReadings
  <2>2. /\ shLoads' = shLoads \ {load} /\ shData' = data /\ TableDrawn(data, shOnlyChanges, 1)
        /\ UNCHANGED <<shTitle, shSpan, shOnlyChanges, shOpen, shHistory, shJump>>
    BY <1>8 DEF ReadingsArrive
  <2> HIDE DEF data
  <2>3. /\ shPage' \in Nat /\ shTable' = "rows"
        /\ RowsOf(data.readings, shOnlyChanges) > 0 => shPage' \in 1..ReadingPages(RowsOf(data.readings, shOnlyChanges))
    BY <2>1, <2>2, TableIsDrawn
  <2>4. SensorHistoryTypeOK'
    BY <1>7, <2>1, <2>2, <2>3 DEF SensorHistoryTypeOK
  <2>5. SensorHistorySound'
    BY <2>1, <2>2, <2>3 DEF SensorHistorySound
  <2> QED
    BY <1>7, <2>1, <2>2, <2>4, <2>5
<1>9. ASSUME NEW load \in shLoads, ReadingsFail(load) PROVE SensorInv'
  <2>1. /\ shLoads' = shLoads \ {load} /\ shTable' = "failed"
        /\ UNCHANGED <<shTitle, shSpan, shOnlyChanges, shPage, shData, shOpen, shHistory, shJump>>
    BY <1>9 DEF ReadingsFail
  <2>2. SensorHistoryTypeOK'
    BY <1>7, <2>1 DEF SensorHistoryTypeOK
  <2>3. SensorHistorySound'
    BY <2>1 DEF SensorHistorySound
  <2> QED
    BY <1>7, <2>1, <2>2, <2>3
<1>10. CASE CloseSensorHistory
  <2>1. /\ shLoads' = {} /\ shOpen' = FALSE
        /\ UNCHANGED <<shTitle, shSpan, shOnlyChanges, shPage, shData, shTable, shHistory, shJump>>
    BY <1>10 DEF CloseSensorHistory, Aborted
  <2>2. SensorHistoryTypeOK'
    <3>1. /\ shTitle \in Sensor \cup {NoSensor} /\ shSpan \in SpanOfTime /\ shOnlyChanges \in BOOLEAN /\ shPage \in Nat
          /\ shData.readings \in Readings /\ shTable \in {"blank", "loading", "failed", "rows"}
          /\ shHistory \in Spans /\ shJump \in Spans
      BY DEF SensorHistoryTypeOK
    <3> QED
      BY <2>1, <3>1, TypeKept
  <2>3. SensorHistorySound'
    BY <2>1 DEF SensorHistorySound
  <2> QED
    BY <1>4, <2>1, <2>2, <2>3
<1>11. ASSUME NEW changes \in BOOLEAN, NEW page \in Nat, TableDrawn(shData, changes, page), shOnlyChanges' = changes,
              UNCHANGED <<shTitle, shSpan, shData, shOpen, shLoads, shHistory, shJump>>
       PROVE  SensorInv'
  <2>1. /\ shPage' \in Nat /\ shTable' \in {shTable, "rows"}
        /\ shData # NoReadings =>
             /\ shTable' = "rows"
             /\ RowsOf(shData.readings, changes) > 0 => shPage' \in 1..ReadingPages(RowsOf(shData.readings, changes))
        /\ shData = NoReadings => shTable' = shTable
    BY <1>2, <1>11, TableIsDrawn
  <2>2. SensorHistoryTypeOK'
    BY <1>11, <2>1 DEF SensorHistoryTypeOK
  <2>3. SensorHistorySound'
    BY <1>11, <2>1 DEF SensorHistorySound
  <2> QED
    BY <1>11, <2>2, <2>3
<1>12. CASE ToggleOnlyChanges
  <2>1. shOnlyChanges' \in BOOLEAN
    BY <1>12 DEF ToggleOnlyChanges, SensorHistoryTypeOK
  <2> QED
    BY <1>11, <1>12, <2>1 DEF ToggleOnlyChanges
<1>13. ASSUME NEW dir \in {-1, 1}, ChangePage(dir) PROVE SensorInv'
  <2>1. shPage \in Nat /\ shOnlyChanges \in BOOLEAN
    BY DEF SensorHistoryTypeOK
  <2>2. shPage + dir \in Nat
    <3>1. shData.readings \in Readings
      BY DEF SensorHistoryTypeOK
    <3>2. ReadingPages(RowsGuessed(shData.readings, shOnlyChanges)) \in Nat
      BY <3>1, RowsAreCounted, PagesAreCounted
    <3> QED
      BY <1>13, <2>1, <3>2 DEF ChangePage
  <2> QED
    BY <1>11, <1>13, <2>1, <2>2 DEF ChangePage
<1>14. CASE GoToReading
  <2> DEFINE here == [of |-> shTitle, span |-> shSpan]
  <2>1. here \in Spans
    BY <1>14 DEF GoToReading, Spans, SensorHistoryTypeOK
  <2>2. /\ shLoads' = {} /\ shOpen' = FALSE /\ shJump' \in {here, shJump}
        /\ UNCHANGED <<shTitle, shSpan, shOnlyChanges, shPage, shData, shTable, shHistory>>
    BY <1>14 DEF GoToReading, Aborted
  <2> HIDE DEF here
  <2>3. SensorHistoryTypeOK'
    <3>1. /\ shTitle \in Sensor \cup {NoSensor} /\ shSpan \in SpanOfTime /\ shOnlyChanges \in BOOLEAN /\ shPage \in Nat
          /\ shData.readings \in Readings /\ shTable \in {"blank", "loading", "failed", "rows"}
          /\ shHistory \in Spans /\ shJump \in Spans
      BY DEF SensorHistoryTypeOK
    <3> QED
      BY <2>1, <2>2, <3>1, TypeKept
  <2>4. SensorHistorySound'
    BY <2>2 DEF SensorHistorySound
  <2> QED
    BY <1>4, <2>2, <2>3, <2>4
<1>15. ASSUME shHistory' \in Spans, shJump' \in Spans, UNCHANGED shView PROVE SensorInv'
  <2>1. SensorHistoryTypeOK' /\ SensorHistorySound'
    BY <1>15 DEF SensorHistoryTypeOK, SensorHistorySound
  <2> QED
    BY <1>15, <2>1
<1>16. NoSpan \in Spans
  BY DEF Spans
<1>17. CASE JumpArrives
  BY <1>15, <1>16, <1>17 DEF JumpArrives, SensorHistoryTypeOK
<1>18. ASSUME NEW history \in Spans, OtherHistory(history) PROVE SensorInv'
  BY <1>15, <1>16, <1>18 DEF OtherHistory
<1> QED
  BY <1>5, <1>6, <1>8, <1>9, <1>10, <1>12, <1>13, <1>14, <1>17, <1>18 DEF SensorHistoryNext

\* A step of another part keeps it.
LEMMA SensorStutter == SensorInv /\ UNCHANGED sensorHistoryVars => SensorInv'
BY DEF SensorInv, sensorHistoryVars, SensorHistoryTypeOK, SensorHistorySound
=============================================================================
