----------------------------- MODULE TripProofs ------------------------------
(***************************************************************************)
(* Proofs about TripLifecycle and TripHistory.                             *)
(***************************************************************************)
EXTENDS TripHistory, FiniteSetTheorems, TLAPS

-----------------------------------------------------------------------------
(* TypeOK and StoredTripsValid for any sessions at once and device times   *)
(* in any order.  A trip that a session has read may be ended, merged or   *)
(* deleted by another one before the first commits.  What holds all the    *)
(* same: the trip keeps its start, an id is not used again, and a distance *)
(* that is long enough is not followed by one that is not.                 *)
Valid(r) == r.end # NoTime => r.distance >= MinDistance /\ r.end - r.start >= MinDuration
SeenIsOld == \A s \in Session : seen[s].active < nextTrip /\ seen[s].lastTrip < nextTrip
RowIsOld ==
    \A s \in Session : phase[s] = "read" /\ row[s] # Gone =>
        LET t == Wanted(pos[s], seen[s]) IN
        t \in DOMAIN trips =>
            /\ row[s].start = trips[t].start
            /\ row[s].distance >= MinDistance => trips[t].distance >= MinDistance
TripsInv == TypeOK /\ SeenIsOld /\ RowIsOld /\ StoredTripsValid

\* The columns that a session writes (the ORM writes those whose value it changed).
LEMMA WrittenTrip ==
    ASSUME NEW old \in TripRow, NEW seenRow, NEW new
    PROVE  Written(old, seenRow, new) =
             [start |-> IF new.start = seenRow.start THEN old.start ELSE new.start,
              end |-> IF new.end = seenRow.end THEN old.end ELSE new.end,
              distance |-> IF new.distance = seenRow.distance THEN old.distance ELSE new.distance]
  BY DEF Written, TripRow

\* The row that a session leaves is a row again.
LEMMA WrittenState ==
    ASSUME NEW old \in StateRow, NEW v \in StateRow, NEW new \in StateRow
    PROVE  Written(old, v, new) \in StateRow /\ DOMAIN Written(old, v, new) = DOMAIN old
  BY DEF Written, StateRow

\* The trip a session wants is one of the two it has seen.
LEMMA WantedIsSeen ==
    ASSUME NEW p, NEW v
    PROVE  Wanted(p, v) \in {v.active, v.lastTrip, NoTrip}
  BY DEF Wanted

\* The trip logic leaves a row of device_states, with the trips it has seen or a new one.
LEMMA LogicIsRow ==
    ASSUME NEW p \in Position, NEW v \in StateRow, NEW r \in TripRow \cup {Gone},
           nextTrip \in 1..(MaxTrips + 1), Opens(p, v, r) => nextTrip <= MaxTrips
    PROVE  /\ AfterTripLogic(p, v, r) \in StateRow
           /\ AfterTripLogic(p, v, r).active \in {v.active, v.lastTrip, NoTrip} \cup (IF Opens(p, v, r) THEN {nextTrip} ELSE {})
           /\ AfterTripLogic(p, v, r).lastTrip \in {v.active, v.lastTrip}
  <1> USE TripLifecycleAssumption
  <1>1. CASE Merges(p, v, r)
    <2>1. r.distance \in Nat
      BY <1>1 DEF Merges, TripRow
    <2>2. AfterTripLogic(p, v, r) = [v EXCEPT !.active = v.lastTrip, !.tripOdometer = r.distance]
      BY <1>1 DEF AfterTripLogic, Opens, Merges, Ends, Starts
    <2>3. QED
      BY <2>1, <2>2 DEF StateRow
  <1>2. CASE ~Merges(p, v, r) /\ Opens(p, v, r)
    <2>1. AfterTripLogic(p, v, r) = [v EXCEPT !.active = nextTrip, !.tripOdometer = 0]
      BY <1>2 DEF AfterTripLogic, Opens, Ends, Starts
    <2>2. nextTrip \in TripId
      BY <1>2 DEF TripId
    <2>3. v = [active |-> v.active, lastTrip |-> v.lastTrip, lastOff |-> v.lastOff,
               tripOdometer |-> v.tripOdometer, totalOdometer |-> v.totalOdometer]
      BY DEF StateRow
    <2>4. AfterTripLogic(p, v, r) = [active |-> nextTrip, lastTrip |-> v.lastTrip, lastOff |-> v.lastOff,
                                     tripOdometer |-> 0, totalOdometer |-> v.totalOdometer]
      BY <2>1, <2>3
    <2>5. QED
      BY <1>2, <2>2, <2>4 DEF StateRow
  <1>3. CASE ~Merges(p, v, r) /\ ~Opens(p, v, r)
    BY <1>3 DEF AfterTripLogic, StateRow, Position
  <1>4. QED
    BY <1>1, <1>2, <1>3

\* The row of a session is a row of device_states, with the trips it has seen or a new one.
LEMMA AfterIsRow ==
    ASSUME NEW p \in Position, NEW v \in StateRow, NEW r \in TripRow \cup {Gone},
           nextTrip \in 1..(MaxTrips + 1), Opens(p, v, r) => nextTrip <= MaxTrips
    PROVE  /\ AfterPosition(p, v, r) \in StateRow
           /\ AfterPosition(p, v, r).active \in {v.active, v.lastTrip, NoTrip} \cup (IF Opens(p, v, r) THEN {nextTrip} ELSE {})
           /\ AfterPosition(p, v, r).lastTrip \in {v.active, v.lastTrip}
  <1> USE TripLifecycleAssumption
  <1>1. /\ AfterTripLogic(p, v, r) \in StateRow
        /\ AfterTripLogic(p, v, r).active \in {v.active, v.lastTrip, NoTrip} \cup (IF Opens(p, v, r) THEN {nextTrip} ELSE {})
        /\ AfterTripLogic(p, v, r).lastTrip \in {v.active, v.lastTrip}
    BY LogicIsRow
  <1>2. p.moved \in Nat
    BY DEF Position
  <1> DEFINE w == AfterTripLogic(p, v, r)
  <1>3. w.totalOdometer \in Nat /\ w.tripOdometer \in Nat
    BY <1>1 DEF StateRow
  <1> DEFINE m == w.totalOdometer + p.moved
             n == IF w.active = NoTrip THEN w.tripOdometer ELSE w.tripOdometer + p.moved
  <1>4. AfterPosition(p, v, r) = [w EXCEPT !.totalOdometer = m, !.tripOdometer = n]
    BY DEF AfterPosition
  <1>5. m \in Nat /\ n \in Nat
    BY <1>2, <1>3
  <1> HIDE DEF w, m, n
  <1>6. QED
    BY <1>1, <1>4, <1>5 DEF StateRow, w

\* What a commit leaves of the trip it has read, against the trip as it is by then.
LEMMA CommitKeepsTrip ==
    ASSUME NEW p \in Position, NEW v \in StateRow, NEW r \in TripRow \cup {Gone}, NEW now \in TripRow,
           r # Gone => r.start = now.start /\ (r.distance >= MinDistance => now.distance >= MinDistance),
           ~Deletes(p, v, r)
    PROVE  LET w == Written(now, r, TripRowAfter(p, v, r)) IN
           /\ w \in TripRow /\ w.start = now.start
           /\ now.distance >= MinDistance => w.distance >= MinDistance
           /\ Valid(now) => Valid(w)
  <1> USE TripLifecycleAssumption
  <1> DEFINE w == Written(now, r, TripRowAfter(p, v, r))
  <1>0. now = [start |-> now.start, end |-> now.end, distance |-> now.distance]
        /\ now.start \in Time /\ now.end \in Time \cup {NoTime} /\ now.distance \in Nat
    BY DEF TripRow
  <1>1. CASE r # Gone /\ Ends(p, v)
    <2>1. TripRowAfter(p, v, r) = [r EXCEPT !.end = p.time, !.distance = v.tripOdometer]
      BY <1>1 DEF TripRowAfter, EndedRow, Merges, Ends, Starts
    <2>2. r \in TripRow
      BY <1>1
    <2>7. TripRowAfter(p, v, r).start = r.start /\ TripRowAfter(p, v, r).end = p.time
          /\ TripRowAfter(p, v, r).distance = v.tripOdometer
      BY <2>1, <2>2 DEF TripRow
    <2>3. w = [start |-> now.start, end |-> IF p.time = r.end THEN now.end ELSE p.time,
               distance |-> IF v.tripOdometer = r.distance THEN now.distance ELSE v.tripOdometer]
      BY <1>1, <2>7, WrittenTrip
    <2>4. v.tripOdometer \in Nat /\ v.tripOdometer >= MinDistance
          /\ p.time \in Time /\ p.time - now.start >= MinDuration
      BY <1>0, <1>1 DEF Deletes, TooShort, StateRow, Position, Time
    <2>5. r.distance \in Nat /\ (v.tripOdometer = r.distance => now.distance >= MinDistance)
      BY <1>1, <2>2, <2>4 DEF TripRow
    <2>6. QED
      BY <1>0, <2>3, <2>4, <2>5 DEF TripRow, Valid
  <1>2. CASE Merges(p, v, r) /\ ~(r # Gone /\ Ends(p, v))
    <2>1. TripRowAfter(p, v, r) = [r EXCEPT !.end = NoTime] /\ r \in TripRow
      BY <1>2 DEF TripRowAfter, Merges
    <2>2. w = [start |-> now.start, end |-> IF NoTime = r.end THEN now.end ELSE NoTime, distance |-> now.distance]
      BY <2>1, WrittenTrip DEF TripRow
    <2>3. QED
      BY <1>0, <2>2 DEF TripRow, Valid
  <1>3. CASE ~Merges(p, v, r) /\ ~(r # Gone /\ Ends(p, v))
    <2>1. TripRowAfter(p, v, r) = r
      BY <1>3 DEF TripRowAfter
    <2>2. w = now
      BY <1>0, <2>1, WrittenTrip
    <2>3. QED
      BY <2>2
  <1>4. QED
    BY <1>1, <1>2, <1>3

\* A commit keeps the trips as they are but for the one the session has read, adds at most an
\* open one, and names only trips that are there.
LEMMA CommitStep ==
    ASSUME TripsInv, NEW s \in Session, Commit(s)
    PROVE  TripsInv'
  <1> USE TripLifecycleAssumption DEF TripsInv, TypeOK
  <1> DEFINE p == pos[s]
             v == seen[s]
             r == row[s]
             t == Wanted(p, v)
             after == AfterPosition(p, v, r)
             new == Written(state, v, after)
             opened == IF Opens(p, v, r) THEN {nextTrip} ELSE {}
             gone == IF Deletes(p, v, r) THEN {t} ELSE {}
  <1>1. /\ p \in Position /\ v \in StateRow /\ r \in TripRow \cup {Gone} /\ phase[s] = "read"
        /\ nextTrip \in Nat /\ v.active < nextTrip /\ v.lastTrip < nextTrip /\ t < nextTrip
    BY WantedIsSeen DEF Commit, SeenIsOld, NoTrip
  <1>2. /\ Opens(p, v, r) => nextTrip <= MaxTrips
        /\ nextTrip' = IF Opens(p, v, r) THEN nextTrip + 1 ELSE nextTrip
        /\ latest' = latest
        /\ \A c \in {"active", "lastTrip"} : after[c] # v[c] => after[c] \in DOMAIN trips \cup {NoTrip, nextTrip}
    BY DEF Commit, Conflict
  <1>3. /\ phase' = [phase EXCEPT ![s] = "idle"] /\ pos' = [pos EXCEPT ![s] = NoPosition]
        /\ seen' = [seen EXCEPT ![s] = NewState] /\ row' = [row EXCEPT ![s] = Gone]
    BY DEF Commit
  <1>4. DOMAIN trips' = (DOMAIN trips \ gone) \cup opened
    BY DEF Commit
  <1>5. \A u \in DOMAIN trips \ gone :
           trips'[u] = IF u = t THEN Written(trips[u], r, TripRowAfter(p, v, r)) ELSE trips[u]
    BY <1>1 DEF Commit
  <1>6. Opens(p, v, r) => trips'[nextTrip] = [start |-> p.time, end |-> NoTime, distance |-> 0]
    BY <1>4 DEF Commit
  <1>7. state' = [c \in DOMAIN new |->
                    IF c \in {"active", "lastTrip"} /\ Deletes(p, v, r) /\ t \in DOMAIN trips /\ new[c] = t
                    THEN NoTrip ELSE new[c]]
    BY DEF Commit
  <1> HIDE DEF p, v, r
  <1>8. \A u \in DOMAIN trips \ gone : /\ trips'[u] \in TripRow /\ trips'[u].start = trips[u].start
                                       /\ trips[u].distance >= MinDistance => trips'[u].distance >= MinDistance
                                       /\ Valid(trips'[u])
    <2> SUFFICES ASSUME NEW u \in DOMAIN trips \ gone
                 PROVE  /\ trips'[u] \in TripRow /\ trips'[u].start = trips[u].start
                        /\ trips[u].distance >= MinDistance => trips'[u].distance >= MinDistance
                        /\ Valid(trips'[u])
      OBVIOUS
    <2>1. trips[u] \in TripRow /\ Valid(trips[u])
      BY DEF StoredTripsValid, Valid
    <2>2. CASE u # t
      BY <1>5, <2>1, <2>2
    <2>3. CASE u = t
      <3>1. r # Gone => r.start = trips[t].start /\ (r.distance >= MinDistance => trips[t].distance >= MinDistance)
        BY <1>1, <2>3 DEF RowIsOld, p, v, r
      <3>2. ~Deletes(p, v, r)
        BY <2>3
      <3>3. trips'[u] = Written(trips[u], r, TripRowAfter(p, v, r))
        BY <1>5, <2>3
      <3>4. QED
        BY <1>1, <2>1, <2>3, <3>1, <3>2, <3>3, CommitKeepsTrip
    <2>4. QED
      BY <2>2, <2>3
  <1>9. \A u \in opened : trips'[u] \in TripRow /\ Valid(trips'[u])
    BY <1>1, <1>6 DEF Valid, TripRow, Position, Time
  <1>10. /\ after \in StateRow /\ after.active \in {v.active, v.lastTrip, NoTrip} \cup opened
         /\ after.lastTrip \in {v.active, v.lastTrip}
    BY <1>1, <1>2, AfterIsRow
  <1>11. state' \in StateRow /\ {state'.active, state'.lastTrip} \subseteq DOMAIN trips' \cup {NoTrip}
    <2>1. new \in StateRow /\ DOMAIN new = {"active", "lastTrip", "lastOff", "tripOdometer", "totalOdometer"}
      BY <1>1, <1>10, WrittenState DEF StateRow
    <2>2. \A c \in {"active", "lastTrip"} : new[c] \in DOMAIN trips \cup {NoTrip} \cup opened
      <3>1. \A c \in {"active", "lastTrip"} : new[c] = IF after[c] = v[c] THEN state[c] ELSE after[c]
        BY DEF Written, StateRow
      <3>2. \A c \in {"active", "lastTrip"} : state[c] \in DOMAIN trips \cup {NoTrip}
        OBVIOUS
      <3>3. \A c \in {"active", "lastTrip"} : after[c] = nextTrip => nextTrip \in opened
        BY <1>1, <1>10 DEF NoTrip
      <3>4. QED
        BY <1>2, <3>1, <3>2, <3>3
    <2>3. state'.active \in {new.active, NoTrip} /\ state'.lastTrip \in {new.lastTrip, NoTrip}
          /\ state'.lastOff = new.lastOff /\ state'.tripOdometer = new.tripOdometer
          /\ state'.totalOdometer = new.totalOdometer
          /\ state' = [active |-> state'.active, lastTrip |-> state'.lastTrip, lastOff |-> state'.lastOff,
                       tripOdometer |-> state'.tripOdometer, totalOdometer |-> state'.totalOdometer]
      BY <1>7, <2>1
    <2>4. state' \in StateRow
      BY <2>1, <2>3 DEF StateRow
    <2>5. gone \cap DOMAIN trips \subseteq {t} /\ (gone \cap DOMAIN trips # {} => Deletes(p, v, r) /\ t \in DOMAIN trips)
      OBVIOUS
    <2>6. state'.active \notin gone \cap DOMAIN trips /\ state'.lastTrip \notin gone \cap DOMAIN trips
      BY <1>7, <2>1, <2>5 DEF NoTrip
    <2>7. QED
      BY <1>4, <2>2, <2>3, <2>4, <2>6
  <1>12. TypeOK'
    <2>1. \A u \in DOMAIN trips' : trips'[u] \in TripRow
      BY <1>4, <1>8, <1>9
    <2>2. DOMAIN trips' \subseteq 1..(nextTrip' - 1) /\ nextTrip' \in 1..(MaxTrips + 1)
      BY <1>2, <1>4
    <2>3. NoPosition \in Position /\ NewState \in StateRow
      BY DEF NoPosition, Position, NewState, StateRow, Time, NoTrip, NoTime
    <2>4. QED
      BY <1>2, <1>3, <1>11, <2>1, <2>2, <2>3
  <1>13. SeenIsOld'
    <2>1. \A q \in Session : seen'[q] = IF q = s THEN NewState ELSE seen[q]
      BY <1>3
    <2>2. nextTrip' \in Nat /\ nextTrip <= nextTrip' /\ nextTrip' > 0
      BY <1>1, <1>2
    <2>3. \A q \in Session : seen[q].active \in Int /\ seen[q].lastTrip \in Int
      BY DEF StateRow, TripId, NoTrip
    <2>4. QED
      BY <1>1, <2>1, <2>2, <2>3 DEF SeenIsOld, NewState, NoTrip
  <1>14. RowIsOld'
    <2> SUFFICES ASSUME NEW q \in Session, phase'[q] = "read", row'[q] # Gone,
                        Wanted(pos'[q], seen'[q]) \in DOMAIN trips'
                 PROVE  /\ row'[q].start = trips'[Wanted(pos'[q], seen'[q])].start
                        /\ row'[q].distance >= MinDistance =>
                             trips'[Wanted(pos'[q], seen'[q])].distance >= MinDistance
      BY DEF RowIsOld
    <2>1. q # s
      BY <1>3
    <2>2. phase[q] = "read" /\ row'[q] = row[q] /\ pos'[q] = pos[q] /\ seen'[q] = seen[q]
      BY <1>3, <2>1
    <2> DEFINE u == Wanted(pos[q], seen[q])
    <2>3. u # nextTrip
      <3>1. u \in {seen[q].active, seen[q].lastTrip, NoTrip}
        BY WantedIsSeen
      <3>2. QED
        BY <1>1, <3>1 DEF SeenIsOld, StateRow, TripId, NoTrip
    <2>4. u \in DOMAIN trips \ gone
      BY <1>4, <2>2, <2>3
    <2>5. row[q].start = trips[u].start /\ (row[q].distance >= MinDistance => trips[u].distance >= MinDistance)
      BY <2>2, <2>4 DEF RowIsOld
    <2>6. QED
      BY <1>8, <2>2, <2>4, <2>5
  <1>15. StoredTripsValid'
    BY <1>4, <1>8, <1>9 DEF StoredTripsValid, Valid
  <1>16. QED
    BY <1>12, <1>13, <1>14, <1>15

\* Every step keeps what is stored valid.
LEMMA TripsStep ==
    ASSUME TripsInv, [Next]_vars
    PROVE  TripsInv'
  <1> USE TripLifecycleAssumption DEF TripsInv, TypeOK
  <1>1. ASSUME NEW s \in Session, Load(s)
        PROVE  TripsInv'
    <2>1. TypeOK'
      BY <1>1 DEF Load, Position
    <2>2. SeenIsOld'
      BY <1>1 DEF Load, SeenIsOld, NoTrip
    <2>3. RowIsOld'
      BY <1>1 DEF Load, RowIsOld
    <2>4. QED
      BY <1>1, <2>1, <2>2, <2>3 DEF Load, StoredTripsValid
  <1>2. ASSUME NEW s \in Session, ReadTrip(s)
        PROVE  TripsInv'
    <2>1. TypeOK'
      BY <1>2 DEF ReadTrip
    <2>2. SeenIsOld'
      BY <1>2 DEF ReadTrip, SeenIsOld
    <2>3. RowIsOld'
      BY <1>2 DEF ReadTrip, RowIsOld
    <2>4. QED
      BY <1>2, <2>1, <2>2, <2>3 DEF ReadTrip, StoredTripsValid
  <1>3. ASSUME NEW s \in Session, Commit(s)
        PROVE  TripsInv'
    BY <1>3, CommitStep
  <1>4. ASSUME NEW s \in Session, Rollback(s)
        PROVE  TripsInv'
    <2>1. TypeOK'
      BY <1>4 DEF Rollback, NoPosition, NewState, Position, StateRow, Time, NoTrip, NoTime
    <2>2. SeenIsOld'
      BY <1>4 DEF Rollback, SeenIsOld, NewState, NoTrip
    <2>3. RowIsOld'
      BY <1>4 DEF Rollback, RowIsOld
    <2>4. QED
      BY <1>4, <2>1, <2>2, <2>3 DEF Rollback, StoredTripsValid
  <1>5. CASE UNCHANGED vars
    BY <1>5 DEF vars, sessionVars, SeenIsOld, RowIsOld, StoredTripsValid
  <1>6. QED
    BY <1>1, <1>2, <1>3, <1>4, <1>5 DEF Next

\* A device without trips.
LEMMA InitiallyValid ==
    ASSUME Init
    PROVE  TripsInv
  <1>1. DOMAIN trips = {}
    BY DEF Init
  <1>2. TypeOK
    BY <1>1, TripLifecycleAssumption DEF Init, TypeOK, NewState, StateRow, NoPosition, Position, Time, NoTrip, NoTime
  <1>3. SeenIsOld /\ RowIsOld /\ StoredTripsValid
    BY <1>1 DEF Init, SeenIsOld, RowIsOld, StoredTripsValid, NewState, NoTrip
  <1>4. QED
    BY <1>2, <1>3 DEF TripsInv

\* Types, and every stored trip that has ended is long enough (core/database.py:1514), however
\* many sessions there are and in whatever order the positions come.
THEOREM StoredTripsAreValid == Spec => [](TypeOK /\ StoredTripsValid)
  <1>1. Init => TripsInv
    BY InitiallyValid
  <1>2. TripsInv /\ [Next]_vars => TripsInv'
    BY TripsStep
  <1>3. TripsInv => TypeOK /\ StoredTripsValid
    BY DEF TripsInv
  <1>4. QED
    BY <1>1, <1>2, <1>3, PTL DEF Spec

-----------------------------------------------------------------------------
(* OnlyActiveTripOpen for one session at a time, device times in any       *)
(* order: what the session has read is still so when it commits.           *)
OneSession == \A s, q \in Session : s = q
ReadIsCurrent ==
    \A s \in Session :
        /\ phase[s] # "idle" => seen[s] = state
        /\ phase[s] = "read" =>
             LET t == Wanted(pos[s], seen[s]) IN row[s] = IF t \in DOMAIN trips THEN trips[t] ELSE Gone
SingleInv == TripsInv /\ OnlyActiveTripOpen /\ ReadIsCurrent

\* The commit of the only session opens, ends or continues the active trip.
LEMMA SingleCommit ==
    ASSUME OneSession, SingleInv, NEW s \in Session, Commit(s)
    PROVE  OnlyActiveTripOpen'
  <1> USE TripLifecycleAssumption DEF SingleInv, TripsInv, TypeOK
  <1> DEFINE p == pos[s]
             v == state
             r == row[s]
             t == Wanted(p, v)
             after == AfterPosition(p, v, r)
             opened == IF Opens(p, v, r) THEN {nextTrip} ELSE {}
             gone == IF Deletes(p, v, r) THEN {t} ELSE {}
  <1>1. /\ seen[s] = v /\ r = (IF t \in DOMAIN trips THEN trips[t] ELSE Gone)
        /\ p \in Position /\ v \in StateRow /\ r \in TripRow \cup {Gone} /\ nextTrip \in Nat
    BY DEF Commit, ReadIsCurrent
  <1>2. /\ v.active \in DOMAIN trips \cup {NoTrip} /\ NoTrip \notin DOMAIN trips /\ nextTrip \notin DOMAIN trips
        /\ nextTrip # NoTrip /\ Gone \notin TripRow /\ p.time # NoTime
    BY <1>1 DEF NoTrip, Gone, TripRow, Time, Position, NoTime
  <1>3. DOMAIN trips' = (DOMAIN trips \ gone) \cup opened
    BY <1>1 DEF Commit
  <1>4. \A u \in DOMAIN trips \ gone :
           trips'[u] = IF u = t THEN Written(trips[u], r, TripRowAfter(p, v, r)) ELSE trips[u]
    BY <1>1, <1>2 DEF Commit
  <1>5. Opens(p, v, r) => trips'[nextTrip].end = NoTime
    BY <1>1, <1>3 DEF Commit
  <1>6. after.active = AfterTripLogic(p, v, r).active /\ after \in StateRow
    <2>1. AfterPosition(p, v, r) \in StateRow
      BY <1>1, AfterIsRow DEF Commit
    <2>2. QED
      BY <2>1 DEF AfterPosition, StateRow
  <1>7. state'.active = IF Deletes(p, v, r) /\ t \in DOMAIN trips /\ after.active = t THEN NoTrip ELSE after.active
    <2>1. Written(state, v, after).active = after.active /\ "active" \in DOMAIN Written(state, v, after)
      BY <1>1 DEF Written, StateRow
    <2>2. QED
      BY <1>1, <2>1 DEF Commit
  <1>8. \A u \in DOMAIN trips : trips[u] \in TripRow /\ (trips[u].end = NoTime <=> u = v.active)
    BY DEF OnlyActiveTripOpen
  <1>9. t \in DOMAIN trips \ gone => trips'[t].end = TripRowAfter(p, v, r).end
    <2>1. ASSUME t \in DOMAIN trips \ gone
          PROVE  trips'[t].end = TripRowAfter(p, v, r).end
      <3>1. trips'[t] = Written(trips[t], trips[t], TripRowAfter(p, v, r))
        BY <1>1, <1>4, <2>1
      <3>2. QED
        BY <1>8, <2>1, <3>1, WrittenTrip
    <2>2. QED
      BY <2>1
  <1> HIDE DEF p, v, r, after
  <1>10. CASE Ends(p, v)
    <2>1. t = v.active /\ t \in DOMAIN trips /\ r # Gone /\ r \in TripRow
      BY <1>1, <1>2, <1>8, <1>10 DEF Wanted, Ends
    <2>2. after.active = NoTrip /\ ~Opens(p, v, r) /\ state'.active = NoTrip
      BY <1>6, <1>7, <1>10, <1>1 DEF AfterTripLogic, Merges, Opens, Starts, Ends, StateRow
    <2>3. TripRowAfter(p, v, r) = [r EXCEPT !.end = p.time, !.distance = v.tripOdometer]
      BY <1>10, <2>1 DEF TripRowAfter, EndedRow, Merges, Ends, Starts
    <2>4. TripRowAfter(p, v, r).end = p.time
      BY <2>1, <2>3 DEF TripRow
    <2>5. QED
      BY <1>2, <1>3, <1>4, <1>8, <1>9, <2>1, <2>2, <2>4 DEF OnlyActiveTripOpen
  <1>11. CASE Merges(p, v, r)
    <2>1. t = v.lastTrip /\ t \in DOMAIN trips /\ r \in TripRow /\ v.active = NoTrip
      BY <1>1, <1>8, <1>11 DEF Wanted, Merges, Starts, Ends
    <2>2. ~Deletes(p, v, r) /\ ~Opens(p, v, r) /\ ~Ends(p, v)
      BY <1>11 DEF Deletes, Merges, Opens, Starts, Ends
    <2>3. state'.active = t
      BY <1>1, <1>6, <1>7, <1>11, <2>1, <2>2 DEF AfterTripLogic, StateRow
    <2>4. TripRowAfter(p, v, r).end = NoTime
      BY <1>11, <2>1, <2>2 DEF TripRowAfter, TripRow
    <2>5. QED
      BY <1>2, <1>3, <1>4, <1>8, <1>9, <2>1, <2>2, <2>3, <2>4 DEF OnlyActiveTripOpen
  <1>12. CASE Opens(p, v, r)
    <2>1. v.active = NoTrip /\ ~Ends(p, v) /\ ~Merges(p, v, r) /\ ~Deletes(p, v, r)
      BY <1>12 DEF Opens, Starts, Ends, Merges, Deletes
    <2>2. state'.active = nextTrip
      BY <1>1, <1>6, <1>7, <1>12, <2>1 DEF AfterTripLogic, StateRow
    <2>3. TripRowAfter(p, v, r) = r
      BY <2>1 DEF TripRowAfter
    <2>4. \A u \in DOMAIN trips : trips'[u].end = trips[u].end
      BY <1>1, <1>4, <1>9, <2>1, <2>3
    <2>5. QED
      BY <1>2, <1>3, <1>5, <1>8, <1>12, <2>1, <2>2, <2>4 DEF OnlyActiveTripOpen
  <1>13. CASE ~Ends(p, v) /\ ~Merges(p, v, r) /\ ~Opens(p, v, r)
    <2>1. ~Deletes(p, v, r) /\ TripRowAfter(p, v, r) = r
      BY <1>13 DEF Deletes, TripRowAfter
    <2>2. state'.active = v.active
      BY <1>6, <1>7, <1>13, <2>1 DEF AfterTripLogic
    <2>3. \A u \in DOMAIN trips : trips'[u].end = trips[u].end
      BY <1>1, <1>4, <1>9, <2>1
    <2>4. QED
      BY <1>2, <1>3, <1>8, <1>13, <2>1, <2>2, <2>3 DEF OnlyActiveTripOpen
  <1>14. QED
    BY <1>10, <1>11, <1>12, <1>13

\* Every step of the only session keeps what it has read current.
LEMMA SingleStep ==
    ASSUME OneSession, SingleInv, [Next]_vars
    PROVE  SingleInv'
  <1> USE DEF SingleInv, TripsInv, TypeOK
  <1>1. TripsInv'
    BY TripsStep
  <1>2. ASSUME NEW s \in Session, Load(s)
        PROVE  SingleInv'
    <2>1. seen'[s] = state /\ state' = state /\ phase'[s] = "loaded" /\ UNCHANGED trips
      BY <1>2 DEF Load
    <2>2. QED
      BY <1>1, <2>1 DEF OneSession, ReadIsCurrent, OnlyActiveTripOpen
  <1>3. ASSUME NEW s \in Session, ReadTrip(s)
        PROVE  SingleInv'
    <2>1. /\ phase[s] = "loaded" /\ phase'[s] = "read" /\ UNCHANGED <<state, trips, seen, pos>>
          /\ row'[s] = LET t == Wanted(pos[s], seen[s]) IN IF t \in DOMAIN trips THEN trips[t] ELSE Gone
      BY <1>3 DEF ReadTrip
    <2>2. QED
      BY <1>1, <2>1 DEF OneSession, ReadIsCurrent, OnlyActiveTripOpen
  <1>4. ASSUME NEW s \in Session, Commit(s)
        PROVE  SingleInv'
    <2>1. phase'[s] = "idle"
      BY <1>4 DEF Commit
    <2>2. QED
      BY <1>1, <1>4, <2>1, SingleCommit DEF OneSession, ReadIsCurrent
  <1>5. ASSUME NEW s \in Session, Rollback(s)
        PROVE  SingleInv'
    <2>1. phase'[s] = "idle" /\ UNCHANGED <<state, trips>>
      BY <1>5 DEF Rollback
    <2>2. QED
      BY <1>1, <2>1 DEF OneSession, ReadIsCurrent, OnlyActiveTripOpen
  <1>6. CASE UNCHANGED vars
    BY <1>1, <1>6 DEF vars, sessionVars, ReadIsCurrent, OnlyActiveTripOpen
  <1>7. QED
    BY <1>2, <1>3, <1>4, <1>5, <1>6 DEF Next

\* A device whose positions are processed one at a time has no open trip but the active one
\* (core/database.py:1393), in whatever order they come.
THEOREM OneTripOpen ==
    ASSUME OneSession
    PROVE  Spec => []OnlyActiveTripOpen
  <1>1. Init => SingleInv
    <2> SUFFICES ASSUME Init
                 PROVE  SingleInv
      OBVIOUS
    <2>1. TripsInv
      BY InitiallyValid
    <2>2. QED
      BY <2>1 DEF Init, SingleInv, ReadIsCurrent, OnlyActiveTripOpen
  <1>2. SingleInv /\ [Next]_vars => SingleInv'
    BY SingleStep
  <1>3. SingleInv => OnlyActiveTripOpen
    BY DEF SingleInv
  <1>4. QED
    BY <1>1, <1>2, <1>3, PTL DEF Spec

-----------------------------------------------------------------------------
(* What the commit of the only session does, case by case.  What it read   *)
(* is still so, and it cannot fail.                                        *)
Ending(p) == Ends(p, state) /\ state.active \in DOMAIN trips
Continuing(p) ==
    /\ Starts(p, state) /\ state.lastTrip \in DOMAIN trips
    /\ state.lastOff # NoTime /\ p.time - state.lastOff \in Debounce..MergeGap
\* What it leaves of the trips: D are the ones it leaves alone.
Untouched(D) == D \subseteq DOMAIN trips' /\ \A t \in D : trips'[t] = trips[t]

Dropped(p) ==
    /\ Ending(p) /\ TooShort(p, state, trips[state.active])
    /\ DOMAIN trips' = DOMAIN trips \ {state.active} /\ Untouched(DOMAIN trips')
    /\ state'.active = NoTrip /\ state'.lastTrip = NoTrip /\ state'.lastOff = p.time
    /\ state'.tripOdometer = state.tripOdometer
Kept(p) ==
    /\ Ending(p) /\ DOMAIN trips' = DOMAIN trips /\ Untouched(DOMAIN trips \ {state.active})
    /\ trips'[state.active] = EndedRow(p, state, trips[state.active])
    /\ state'.active = NoTrip /\ state'.lastTrip = state.active /\ state'.lastOff = p.time
    /\ state'.tripOdometer = state.tripOdometer
Continued(p) ==
    /\ Continuing(p) /\ DOMAIN trips' = DOMAIN trips /\ Untouched(DOMAIN trips \ {state.lastTrip})
    /\ trips'[state.lastTrip] = [trips[state.lastTrip] EXCEPT !.end = NoTime]
    /\ state'.active = state.lastTrip /\ state'.lastTrip = state.lastTrip /\ state'.lastOff = state.lastOff
    /\ state'.tripOdometer = trips[state.lastTrip].distance + p.moved
Opened(p) ==
    /\ Starts(p, state) /\ nextTrip \in TripId
    /\ DOMAIN trips' = DOMAIN trips \cup {nextTrip} /\ Untouched(DOMAIN trips)
    /\ trips'[nextTrip] = [start |-> p.time, end |-> NoTime, distance |-> 0]
    /\ state'.active = nextTrip /\ state'.lastTrip = state.lastTrip /\ state'.lastOff = state.lastOff
    /\ state'.tripOdometer = p.moved
Passed(p) ==
    /\ p.ignition = "off" => state.active = NoTrip
    /\ DOMAIN trips' = DOMAIN trips /\ Untouched(DOMAIN trips)
    /\ state'.active = state.active /\ state'.lastTrip = state.lastTrip /\ state'.lastOff = state.lastOff
    /\ state'.tripOdometer = state.tripOdometer + (IF state.active = NoTrip THEN 0 ELSE p.moved)

\* One of the five, whatever the position is.
LEMMA CommitCases ==
    ASSUME OneSession, SingleInv, NEW s \in Session, Commit(s)
    PROVE  /\ seen[s] = state /\ pos[s] \in Position
           /\ Deletes(pos[s], state, row[s]) <=> Dropped(pos[s])
           /\ Ending(pos[s]) => row[s] = trips[state.active]
           /\ state'.totalOdometer = state.totalOdometer + pos[s].moved
           /\ Dropped(pos[s]) \/ Kept(pos[s]) \/ Continued(pos[s]) \/ Opened(pos[s]) \/ Passed(pos[s])
  <1> USE TripLifecycleAssumption DEF SingleInv, TripsInv, TypeOK
  <1> DEFINE p == pos[s]
             v == state
             r == row[s]
             t == Wanted(p, v)
             after == AfterPosition(p, v, r)
             logic == AfterTripLogic(p, v, r)
             opened == IF Opens(p, v, r) THEN {nextTrip} ELSE {}
             gone == IF Deletes(p, v, r) THEN {t} ELSE {}
  <1>1. /\ seen[s] = v /\ r = (IF t \in DOMAIN trips THEN trips[t] ELSE Gone)
        /\ p \in Position /\ v \in StateRow /\ r \in TripRow \cup {Gone} /\ nextTrip \in Nat
    BY DEF Commit, ReadIsCurrent
  <1>2. /\ v.active \in DOMAIN trips \cup {NoTrip} /\ NoTrip \notin DOMAIN trips /\ nextTrip \notin DOMAIN trips
        /\ nextTrip # NoTrip /\ Gone \notin TripRow /\ p.time # NoTime /\ p.moved \in Nat /\ p.time \in Nat
        /\ Opens(p, v, r) => nextTrip \in TripId
    <2>1. Opens(p, v, r) => nextTrip <= MaxTrips
      BY <1>1 DEF Commit
    <2>2. QED
      BY <1>1, <2>1 DEF NoTrip, Gone, TripRow, Time, Position, NoTime, TripId
  <1>3. DOMAIN trips' = (DOMAIN trips \ gone) \cup opened
    BY <1>1 DEF Commit
  <1>4. \A u \in DOMAIN trips \ gone :
           trips'[u] = IF u = t THEN Written(trips[u], r, TripRowAfter(p, v, r)) ELSE trips[u]
    BY <1>1, <1>2 DEF Commit
  <1>5. Opens(p, v, r) => trips'[nextTrip] = [start |-> p.time, end |-> NoTime, distance |-> 0]
    BY <1>1, <1>3 DEF Commit
  <1>6. /\ after.active = logic.active /\ after.lastTrip = logic.lastTrip /\ after.lastOff = logic.lastOff
        /\ after.tripOdometer = logic.tripOdometer + (IF logic.active = NoTrip THEN 0 ELSE p.moved)
        /\ after.totalOdometer = logic.totalOdometer + p.moved
        /\ after \in StateRow
    <2>1. after \in StateRow
      BY <1>1, AfterIsRow DEF Commit
    <2>2. logic \in StateRow
      BY <1>1, LogicIsRow DEF Commit
    <2>3. after = [logic EXCEPT !.totalOdometer = @ + p.moved,
                                !.tripOdometer  = IF logic.active = NoTrip THEN @ ELSE @ + p.moved]
      BY DEF AfterPosition
    <2>4. QED
      BY <1>2, <2>1, <2>2, <2>3 DEF StateRow
  <1>7. /\ state'.active = IF Deletes(p, v, r) /\ t \in DOMAIN trips /\ after.active = t THEN NoTrip ELSE after.active
        /\ state'.lastTrip = IF Deletes(p, v, r) /\ t \in DOMAIN trips /\ after.lastTrip = t THEN NoTrip ELSE after.lastTrip
        /\ state'.lastOff = after.lastOff /\ state'.tripOdometer = after.tripOdometer
        /\ state'.totalOdometer = after.totalOdometer
    <2>1. Written(state, v, after) = [c \in DOMAIN v |-> after[c]]
      BY DEF Written
    <2>2. DOMAIN v = {"active", "lastTrip", "lastOff", "tripOdometer", "totalOdometer"}
      BY <1>1 DEF StateRow
    <2>3. QED
      BY <1>1, <2>1, <2>2 DEF Commit
  <1>8. \A u \in DOMAIN trips : trips[u] \in TripRow /\ (trips[u].end = NoTime <=> u = v.active)
    BY DEF OnlyActiveTripOpen
  <1>9. t \in DOMAIN trips \ gone => trips'[t] = TripRowAfter(p, v, r)
    <2> SUFFICES ASSUME t \in DOMAIN trips \ gone
                 PROVE  trips'[t] = TripRowAfter(p, v, r)
      OBVIOUS
    <2>1. trips'[t] = Written(trips[t], trips[t], TripRowAfter(p, v, r)) /\ r = trips[t]
      BY <1>1, <1>4
    <2>2. TripRowAfter(p, v, r) = [start |-> TripRowAfter(p, v, r).start, end |-> TripRowAfter(p, v, r).end,
                                   distance |-> TripRowAfter(p, v, r).distance]
      <3>1. r \in TripRow
        BY <1>8, <2>1
      <3>2. TripRowAfter(p, v, r) \in {r, EndedRow(p, v, r), [r EXCEPT !.end = NoTime]}
        BY DEF TripRowAfter
      <3>3. QED
        BY <3>1, <3>2 DEF EndedRow, TripRow
    <2>3. QED
      BY <1>8, <2>1, <2>2, WrittenTrip
  <1>10. v.totalOdometer \in Nat /\ v.tripOdometer \in Nat
    BY <1>1 DEF StateRow
  <1>20. Ending(p) => r = trips[v.active] /\ r # Gone
    BY <1>1, <1>2, <1>8 DEF Ending, Wanted
  <1>21. Dropped(p) => Deletes(p, v, r)
    BY <1>20 DEF Dropped, Ending, Deletes
  <1> HIDE DEF p, v, r, after, logic
  <1>11. CASE Ends(p, v)
    <2>1. t = v.active /\ t \in DOMAIN trips /\ r = trips[t] /\ r # Gone /\ r \in TripRow
      BY <1>1, <1>2, <1>8, <1>11 DEF Wanted, Ends
    <2>2. ~Opens(p, v, r) /\ ~Merges(p, v, r)
      BY <1>11 DEF Opens, Merges, Starts, Ends
    <2>3. logic = [v EXCEPT !.active = NoTrip, !.lastTrip = v.active, !.lastOff = p.time]
      BY <1>11, <2>2 DEF AfterTripLogic, logic
    <2>4. logic.active = NoTrip /\ logic.lastTrip = t /\ logic.lastOff = p.time
          /\ logic.tripOdometer = v.tripOdometer /\ logic.totalOdometer = v.totalOdometer
      BY <1>1, <2>1, <2>3 DEF StateRow
    <2>5. state'.active = NoTrip /\ state'.lastOff = p.time /\ state'.tripOdometer = v.tripOdometer
          /\ state'.totalOdometer = v.totalOdometer + p.moved
      BY <1>6, <1>7, <1>10, <2>4
    <2>6. CASE Deletes(p, v, r)
      <3>1. state'.lastTrip = NoTrip
        BY <1>6, <1>7, <2>1, <2>4, <2>6
      <3>2. DOMAIN trips' = DOMAIN trips \ {t} /\ \A u \in DOMAIN trips \ {t} : trips'[u] = trips[u]
        BY <1>3, <1>4, <2>2, <2>6
      <3>3. TooShort(p, v, trips[t])
        BY <2>1, <2>6 DEF Deletes
      <3>4. Dropped(p)
        BY <1>11, <2>1, <2>5, <3>1, <3>2, <3>3 DEF Dropped, Ending, Untouched, v
      <3>5. QED
        BY <1>1, <1>20, <2>5, <2>6, <3>4 DEF p, v, r
    <2>7. CASE ~Deletes(p, v, r)
      <3>1. state'.lastTrip = t
        BY <1>6, <1>7, <2>4, <2>7
      <3>2. TripRowAfter(p, v, r) = EndedRow(p, v, r)
        BY <1>11, <2>1, <2>2 DEF TripRowAfter
      <3>3. DOMAIN trips' = DOMAIN trips /\ trips'[t] = EndedRow(p, v, trips[t])
        BY <1>3, <1>9, <2>1, <2>2, <2>7, <3>2
      <3>4. Kept(p)
        BY <1>4, <1>11, <2>1, <2>5, <2>7, <3>1, <3>3 DEF Kept, Ending, Untouched, v
      <3>5. QED
        BY <1>1, <1>20, <1>21, <2>5, <2>7, <3>4 DEF p, v, r
    <2>8. QED
      BY <2>6, <2>7
  <1>12. CASE Merges(p, v, r)
    <2>1. t = v.lastTrip /\ t \in DOMAIN trips /\ r = trips[t] /\ r \in TripRow /\ v.active = NoTrip
      BY <1>1, <1>8, <1>12 DEF Wanted, Merges, Starts, Ends
    <2>2. ~Deletes(p, v, r) /\ ~Opens(p, v, r) /\ ~Ends(p, v)
      BY <1>12 DEF Deletes, Merges, Opens, Starts, Ends
    <2>3. logic = [v EXCEPT !.active = v.lastTrip, !.tripOdometer = r.distance]
      BY <1>12, <2>2 DEF AfterTripLogic, logic
    <2>4. logic.active = t /\ logic.lastTrip = t /\ logic.lastOff = v.lastOff /\ logic.tripOdometer = r.distance
          /\ logic.totalOdometer = v.totalOdometer /\ t # NoTrip
      BY <1>1, <1>2, <2>1, <2>3 DEF StateRow
    <2>5. state'.active = t /\ state'.lastTrip = t /\ state'.lastOff = v.lastOff
          /\ state'.tripOdometer = r.distance + p.moved /\ state'.totalOdometer = v.totalOdometer + p.moved
      BY <1>6, <1>7, <2>2, <2>4
    <2>6. TripRowAfter(p, v, r) = [r EXCEPT !.end = NoTime]
      BY <1>12, <2>2 DEF TripRowAfter
    <2>7. DOMAIN trips' = DOMAIN trips /\ trips'[t] = [trips[t] EXCEPT !.end = NoTime]
      BY <1>3, <1>9, <2>1, <2>2, <2>6
    <2>8. Continuing(p)
      <3>1. v.lastOff \in Int /\ p.time \in Int
        BY <1>1 DEF StateRow, Position, Time, NoTime
      <3>2. Starts(p, v) /\ v.lastOff # NoTime /\ Gap(p, v) \in 1..MergeGap /\ Gap(p, v) \notin 1..(Debounce - 1)
        BY <1>12 DEF Merges, WithinMergeGap, Debounced
      <3>3. Gap(p, v) \in Debounce..MergeGap
        BY <3>1, <3>2 DEF Gap
      <3>4. QED
        BY <2>1, <3>2, <3>3 DEF Continuing, Gap, v
    <2>9. Continued(p)
      BY <1>4, <2>1, <2>2, <2>5, <2>7, <2>8 DEF Continued, Untouched, v
    <2>10. QED
      BY <1>1, <1>20, <1>21, <2>2, <2>5, <2>9 DEF p, v, r
  <1>13. CASE Opens(p, v, r)
    <2>1. Starts(p, v) /\ v.active = NoTrip /\ ~Ends(p, v) /\ ~Merges(p, v, r) /\ ~Deletes(p, v, r)
      BY <1>13 DEF Opens, Starts, Ends, Merges, Deletes
    <2>2. logic = [v EXCEPT !.active = nextTrip, !.tripOdometer = 0]
      BY <1>13, <2>1 DEF AfterTripLogic, logic
    <2>3. logic.active = nextTrip /\ logic.lastTrip = v.lastTrip /\ logic.lastOff = v.lastOff
          /\ logic.tripOdometer = 0 /\ logic.totalOdometer = v.totalOdometer
      BY <1>1, <2>2 DEF StateRow
    <2>4. state'.active = nextTrip /\ state'.lastTrip = v.lastTrip /\ state'.lastOff = v.lastOff
          /\ state'.tripOdometer = p.moved /\ state'.totalOdometer = v.totalOdometer + p.moved
      BY <1>2, <1>6, <1>7, <2>1, <2>3
    <2>5. TripRowAfter(p, v, r) = r
      BY <2>1 DEF TripRowAfter
    <2>6. DOMAIN trips' = DOMAIN trips \cup {nextTrip} /\ \A u \in DOMAIN trips : trips'[u] = trips[u]
      BY <1>1, <1>3, <1>4, <1>9, <1>13, <2>1, <2>5
    <2>7. Opened(p)
      BY <1>2, <1>5, <1>13, <2>1, <2>4, <2>6 DEF Opened, Untouched, v
    <2>8. QED
      BY <1>1, <1>20, <1>21, <2>1, <2>4, <2>7 DEF p, v, r
  <1>14. CASE ~Ends(p, v) /\ ~Merges(p, v, r) /\ ~Opens(p, v, r)
    <2>1. ~Deletes(p, v, r) /\ TripRowAfter(p, v, r) = r /\ logic = v
      BY <1>14 DEF Deletes, TripRowAfter, AfterTripLogic, logic
    <2>2. state'.active = v.active /\ state'.lastTrip = v.lastTrip /\ state'.lastOff = v.lastOff
          /\ state'.tripOdometer = v.tripOdometer + (IF v.active = NoTrip THEN 0 ELSE p.moved)
          /\ state'.totalOdometer = v.totalOdometer + p.moved
      BY <1>6, <1>7, <2>1
    <2>3. DOMAIN trips' = DOMAIN trips /\ \A u \in DOMAIN trips : trips'[u] = trips[u]
      BY <1>1, <1>3, <1>4, <1>9, <1>14, <2>1
    <2>4. p.ignition = "off" => v.active = NoTrip
      BY <1>14 DEF Ends
    <2>5. Passed(p)
      BY <2>2, <2>3, <2>4 DEF Passed, Untouched, v
    <2>6. QED
      BY <1>1, <1>20, <1>21, <2>1, <2>2, <2>5 DEF p, v, r
  <1>15. QED
    BY <1>11, <1>12, <1>13, <1>14

\* The flush of the only session does not fail: what it names is still there.
LEMMA SingleNeverConflicts ==
    ASSUME SingleInv, NEW s \in Session, phase[s] = "read"
    PROVE  ~Conflict(s)
  <1> USE DEF SingleInv, TripsInv, TypeOK
  <1> DEFINE p == pos[s]
             v == state
             r == row[s]
             t == Wanted(p, v)
             after == AfterPosition(p, v, r)
             logic == AfterTripLogic(p, v, r)
  <1>1. seen[s] = v /\ r = (IF t \in DOMAIN trips THEN trips[t] ELSE Gone) /\ v \in StateRow
    BY DEF ReadIsCurrent
  <1>2. TripRowAfter(p, v, r) # r => t \in DOMAIN trips
    BY <1>1 DEF TripRowAfter, Merges
  <1>3. logic.active \in {v.active, nextTrip, NoTrip} \cup DOMAIN trips /\ logic.lastTrip \in {v.active, v.lastTrip}
        /\ DOMAIN logic = DOMAIN v
    <2>1. CASE Merges(p, v, r)
      <3>1. v.lastTrip \in DOMAIN trips
        BY <1>1, <2>1 DEF Merges, Wanted, Ends, Starts
      <3>2. logic = [v EXCEPT !.active = v.lastTrip, !.tripOdometer = r.distance]
        BY <2>1 DEF AfterTripLogic, Opens, Merges, Ends, Starts
      <3>3. QED
        BY <1>1, <3>1, <3>2 DEF StateRow
    <2>2. CASE Opens(p, v, r)
      <3>1. logic = [v EXCEPT !.active = nextTrip, !.tripOdometer = 0]
        BY <2>2 DEF AfterTripLogic, Opens, Merges, Ends, Starts
      <3>2. QED
        BY <1>1, <3>1 DEF StateRow
    <2>3. CASE ~Merges(p, v, r) /\ ~Opens(p, v, r)
      BY <1>1, <2>3 DEF AfterTripLogic, StateRow
    <2>4. QED
      BY <2>1, <2>2, <2>3
  <1>4. after.active = logic.active /\ after.lastTrip = logic.lastTrip
    <2>1. DOMAIN logic = {"active", "lastTrip", "lastOff", "tripOdometer", "totalOdometer"}
      BY <1>1, <1>3 DEF StateRow
    <2> HIDE DEF logic
    <2>2. after.active = logic.active
      BY DEF AfterPosition, logic
    <2>3. after.lastTrip = logic.lastTrip
      BY DEF AfterPosition, logic
    <2>4. QED
      BY <2>2, <2>3
  <1>5. \A c \in {"active", "lastTrip"} : after[c] # v[c] => after[c] \in DOMAIN trips \cup {NoTrip, nextTrip}
    BY <1>3, <1>4
  <1>6. QED
    BY <1>1, <1>2, <1>5 DEF Conflict

-----------------------------------------------------------------------------
(* The record, one session at a time.  The last trip is the one a merge    *)
(* would continue, and while device times are in order nothing lies after  *)
(* the last position.                                                      *)
LastTripIsLast ==
    /\ state.active # NoTrip => \A t \in DOMAIN trips : t <= state.active
    /\ state.active = NoTrip /\ state.lastTrip # NoTrip =>
          (\A t \in DOMAIN trips : t <= state.lastTrip) /\ trips[state.lastTrip].end = state.lastOff
NothingAhead ==
    /\ \A s \in Session : phase[s] # "idle" => pos[s].time = latest
    /\ \A x \in driven : x <= latest /\ x \in Time
    /\ inOrder => /\ state.lastOff <= latest
                  /\ \A t \in DOMAIN trips : trips[t].start <= latest /\ trips[t].end <= state.lastOff
HistoryInv == SingleInv /\ LastTripIsLast /\ NothingAhead /\ TripsDisjoint /\ NothingDrivenIsLost

\* What every step of the record keeps or forgets.
LEMMA RecordEffect ==
    ASSUME HistoryNext
    PROVE  /\ inOrder' => inOrder /\ latest <= latest'
           /\ ~inOrder' => driven' = {} /\ discarded' = {}
           /\ (\A s \in Session : ~(phase[s] = "read" /\ phase'[s] = "idle")) =>
                 (inOrder' => driven' = driven /\ discarded' = discarded)
  BY DEF HistoryNext

\* What the record notes of the commit of the only session.
LEMMA CommitRecord ==
    ASSUME OneSession, TypeOK, HistoryNext, NEW s \in Session, Commit(s), inOrder'
    PROVE  /\ driven' = driven \cup (IF pos[s].ignition = "on" /\ (seen[s].active # NoTrip \/ state'.active # NoTrip)
                                    THEN {pos[s].time} ELSE {})
           /\ discarded' = discarded \cup (IF Deletes(pos[s], seen[s], row[s])
                                          THEN {EndedRow(pos[s], seen[s], row[s])} ELSE {})
  <1>1. phase[s] = "read" /\ phase'[s] = "idle"
    BY DEF Commit, TypeOK
  <1>2. {q \in Session : inOrder' /\ phase[q] = "read" /\ phase'[q] = "idle"} = {s}
    BY <1>1 DEF OneSession
  <1>3. QED
    BY <1>2 DEF HistoryNext

\* A step that leaves the trips and the device row alone.
LEMMA HistoryKept ==
    ASSUME HistoryInv, HistoryNext, SingleInv', UNCHANGED <<state, trips>>, latest' \in Time,
           \A s \in Session : phase'[s] # "idle" => pos'[s].time = latest',
           \A s \in Session : ~(phase[s] = "read" /\ phase'[s] = "idle")
    PROVE  HistoryInv'
  <1> USE DEF HistoryInv
  <1>1. LastTripIsLast'
    BY DEF LastTripIsLast
  <1>2. inOrder' => inOrder /\ latest <= latest' /\ driven' = driven /\ discarded' = discarded
    BY RecordEffect
  <1>3. ~inOrder' => driven' = {} /\ discarded' = {}
    BY RecordEffect
  <1>4. latest \in Int /\ latest' \in Int /\ state.lastOff \in Int /\ (\A t \in DOMAIN trips : trips[t].start \in Int)
    BY TripLifecycleAssumption DEF SingleInv, TripsInv, TypeOK, StateRow, TripRow, Time, NoTime
  <1>5. NothingAhead'
    <2>1. CASE inOrder'
      BY <1>2, <1>4, <2>1 DEF NothingAhead, Time
    <2>2. CASE ~inOrder'
      BY <1>3, <2>2 DEF NothingAhead
    <2>3. QED
      BY <2>1, <2>2
  <1>6. TripsDisjoint' /\ NothingDrivenIsLost'
    BY <1>2, <1>3 DEF TripsDisjoint, NothingDrivenIsLost
  <1>7. QED
    BY <1>1, <1>5, <1>6

\* A commit of the only session keeps the record true.
LEMMA HistoryCommit ==
    ASSUME OneSession, HistoryInv, HistoryNext, NEW s \in Session, Commit(s), SingleInv'
    PROVE  HistoryInv'
  <1> USE DEF HistoryInv
  <1> DEFINE p == pos[s]
  <1>0. TypeOK /\ OnlyActiveTripOpen /\ OnlyActiveTripOpen' /\ TypeOK'
    BY DEF SingleInv, TripsInv
  <1>1. /\ seen[s] = state /\ p \in Position
        /\ Deletes(p, state, row[s]) <=> Dropped(p)
        /\ Ending(p) => row[s] = trips[state.active]
        /\ Dropped(p) \/ Kept(p) \/ Continued(p) \/ Opened(p) \/ Passed(p)
    BY CommitCases
  <1>2. p.time = latest /\ latest' = latest /\ latest \in Int /\ p.time \in Time /\ p.time # NoTime /\ Time \subseteq Int
    BY <1>0, <1>1 DEF Commit, NothingAhead, TypeOK, Time, Position, NoTime
  <1>3. /\ state.lastOff \in Int
        /\ \A t \in DOMAIN trips : /\ t \in Int /\ trips[t].start \in Int /\ trips[t].end \in Int
                                   /\ trips[t].end = NoTime <=> t = state.active
                                   /\ t < nextTrip
                                   /\ trips[t] = [start |-> trips[t].start, end |-> trips[t].end, distance |-> trips[t].distance]
        /\ NoTrip \notin DOMAIN trips /\ {state.active, state.lastTrip} \subseteq DOMAIN trips \cup {NoTrip}
        /\ NoTime \in Int /\ NoTime <= latest /\ nextTrip \in Int /\ nextTrip \notin DOMAIN trips
        /\ nextTrip # NoTrip
    BY <1>0 DEF TypeOK, OnlyActiveTripOpen, StateRow, TripRow, Time, NoTime, NoTrip
  <1>4. \A t \in DOMAIN trips' : trips'[t].end = NoTime <=> t = state'.active
    BY <1>0 DEF OnlyActiveTripOpen
  <1>5. \A s1 \in Session : phase'[s1] = "idle"
    BY DEF Commit, OneSession, SingleInv, TripsInv, TypeOK
  <1> DEFINE a == state.active
             l == state.lastTrip
  <1>6. Dropped(p) => Ends(p, state) /\ a \in DOMAIN trips
    BY DEF Dropped, Ending
  <1>7. Kept(p) => /\ Ends(p, state) /\ a \in DOMAIN trips /\ trips'[a].start = trips[a].start
                   /\ trips'[a].end = p.time
    BY <1>3 DEF Kept, Ending, EndedRow
  <1>8. Continued(p) => /\ state.active = NoTrip /\ l \in DOMAIN trips /\ trips'[l].start = trips[l].start
                        /\ trips'[l].end = NoTime /\ p.ignition = "on" /\ l # NoTrip
    BY <1>3 DEF Continued, Continuing, Starts
  <1>9. Opened(p) => /\ state.active = NoTrip /\ trips'[nextTrip].start = p.time
                     /\ trips'[nextTrip].end = NoTime /\ p.ignition = "on"
    BY DEF Opened, Starts
  <1> HIDE DEF p
  <1>10. LastTripIsLast'
    <2>1. CASE Dropped(p)
      BY <2>1 DEF Dropped, LastTripIsLast
    <2>2. CASE Kept(p)
      BY <1>3, <1>7, <2>2 DEF Kept, LastTripIsLast
    <2>3. CASE Continued(p)
      BY <1>3, <1>8, <2>3 DEF Continued, LastTripIsLast
    <2>4. CASE Opened(p)
      BY <1>3, <1>9, <2>4 DEF Opened, LastTripIsLast
    <2>5. CASE Passed(p)
      BY <1>3, <2>5 DEF Passed, LastTripIsLast, Untouched
    <2>6. QED
      BY <1>1, <2>1, <2>2, <2>3, <2>4, <2>5
  <1>11. NothingAhead' /\ TripsDisjoint' /\ NothingDrivenIsLost'
    <2>1. CASE ~inOrder'
      <3>1. driven' = {}
        BY <2>1, RecordEffect
      <3>2. QED
        BY <1>5, <2>1, <3>1 DEF NothingAhead, TripsDisjoint, NothingDrivenIsLost
    <2>2. CASE inOrder'
      <3>1. /\ inOrder
            /\ driven' = driven \cup (IF p.ignition = "on" /\ (state.active # NoTrip \/ state'.active # NoTrip)
                                    THEN {p.time} ELSE {})
            /\ discarded' = discarded \cup (IF Deletes(p, state, row[s]) THEN {EndedRow(p, state, row[s])} ELSE {})
        BY <1>0, <1>1, <2>2, CommitRecord, RecordEffect DEF p
      <3>2. /\ state.lastOff <= latest
            /\ \A t \in DOMAIN trips : trips[t].start <= latest /\ trips[t].end <= state.lastOff
            /\ \A x \in driven : x <= latest /\ x \in Int
        BY <1>2, <3>1 DEF NothingAhead
      <3>3. state'.lastOff \in {state.lastOff, latest} /\ state'.lastOff <= latest /\ state.lastOff <= state'.lastOff
        BY <1>1, <1>2, <1>3, <3>2 DEF Dropped, Kept, Continued, Opened, Passed
      <3>4. \A t \in DOMAIN trips' : trips'[t].start <= latest /\ trips'[t].end <= state'.lastOff
        <4> SUFFICES ASSUME NEW t \in DOMAIN trips'
                     PROVE  trips'[t].start <= latest /\ trips'[t].end <= state'.lastOff
          OBVIOUS
        <4>1. CASE t \in DOMAIN trips /\ trips'[t] = trips[t]
          BY <1>2, <1>3, <3>2, <3>3, <4>1
        <4>2. CASE Kept(p) /\ t = a
          BY <1>2, <1>3, <1>7, <3>2, <4>2 DEF Kept
        <4>3. CASE Continued(p) /\ t = l
          <5>1. NoTime <= state'.lastOff
            BY <1>3, <1>8, <3>2, <3>3, <4>3 DEF Continued, Continuing, NoTime, SingleInv, TripsInv, TypeOK, StateRow, Time
          <5>2. QED
            BY <1>2, <1>3, <1>8, <3>2, <4>3, <5>1
        <4>4. CASE Opened(p) /\ t = nextTrip
          <5>1. NoTime <= state'.lastOff
            BY <3>3 DEF NoTime, SingleInv, TripsInv, TypeOK, StateRow, Time
          <5>2. QED
            BY <1>2, <1>9, <4>4, <5>1
        <4>5. QED
          BY <1>1, <4>1, <4>2, <4>3, <4>4 DEF Dropped, Kept, Continued, Opened, Passed, Untouched
      <3>5. NothingAhead'
        BY <1>2, <1>5, <3>1, <3>2, <3>3, <3>4 DEF NothingAhead
      <3>6. TripsDisjoint'
        <4> SUFFICES ASSUME NEW t \in DOMAIN trips', NEW u \in DOMAIN trips', t < u
                     PROVE  trips'[t].end # NoTime /\ trips'[t].end <= trips'[u].start
          BY DEF TripsDisjoint
        <4>1. CASE t \in DOMAIN trips /\ u \in DOMAIN trips
          <5>1. trips[t].end # NoTime /\ trips[t].end <= trips[u].start
            BY <3>1, <4>1 DEF TripsDisjoint
          <5>2. trips'[u].start = trips[u].start
            BY <1>1, <1>3, <1>7, <1>8, <4>1 DEF Dropped, Kept, Continued, Opened, Passed, Untouched
          <5>3. trips'[t].end = trips[t].end
            <6>1. t # a
              BY <1>3, <4>1, <5>1
            <6>2. Continued(p) => t # l
              BY <1>3, <1>8, <4>1 DEF LastTripIsLast
            <6>3. QED
              BY <1>1, <1>3, <4>1, <6>1, <6>2 DEF Dropped, Kept, Continued, Opened, Passed, Untouched
          <5>4. QED
            BY <5>1, <5>2, <5>3
        <4>2. CASE Opened(p) /\ u = nextTrip /\ t \in DOMAIN trips
          <5>1. trips'[t] = trips[t] /\ trips[t].end # NoTime
            BY <1>3, <1>9, <4>2 DEF Opened, Untouched
          <5>2. QED
            BY <1>2, <1>3, <1>9, <3>2, <4>2, <5>1
        <4>3. QED
          BY <1>1, <1>3, <4>1, <4>2 DEF Dropped, Kept, Continued, Opened, Passed
      <3>7. NothingDrivenIsLost'
        <4> DEFINE Covers(r, x) == r.start <= x /\ (r.end = NoTime \/ x <= r.end)
                   Rows == {trips[t] : t \in DOMAIN trips} \cup discarded
        <4> SUFFICES ASSUME NEW x \in driven'
                     PROVE  \/ \E t \in DOMAIN trips' : Covers(trips'[t], x)
                            \/ \E r \in discarded' : Covers(r, x)
          BY DEF NothingDrivenIsLost
        <4>1. CASE x \in driven
          <5>1. x \in Int /\ x <= latest
            BY <3>2, <4>1
          <5>2. CASE \E r \in discarded : Covers(r, x)
            BY <3>1, <5>2
          <5>3. CASE \E t \in DOMAIN trips : Covers(trips[t], x)
            <6>1. PICK t \in DOMAIN trips : Covers(trips[t], x)
              BY <5>3
            <6>2. CASE t \in DOMAIN trips' /\ trips'[t] = trips[t]
              BY <6>1, <6>2
            <6>3. CASE Kept(p) /\ t = a
              <7>1. Covers(trips'[t], x) /\ t \in DOMAIN trips'
                BY <1>2, <1>7, <5>1, <6>1, <6>3 DEF Kept
              <7>2. QED
                BY <7>1
            <6>4. CASE Continued(p) /\ t = l
              <7>1. Covers(trips'[t], x) /\ t \in DOMAIN trips'
                BY <1>8, <6>1, <6>4 DEF Continued
              <7>2. QED
                BY <7>1
            <6>5. CASE Dropped(p) /\ t = a
              <7>1. Deletes(p, state, row[s]) /\ row[s] = trips[a]
                BY <1>1, <6>5 DEF Dropped, p
              <7>2. EndedRow(p, state, trips[a]) \in discarded'
                BY <3>1, <7>1
              <7>3. Covers(EndedRow(p, state, trips[a]), x)
                BY <1>2, <1>3, <5>1, <6>1, <6>5 DEF EndedRow
              <7>4. QED
                BY <7>2, <7>3
            <6>6. QED
              BY <1>1, <6>2, <6>3, <6>4, <6>5 DEF Dropped, Kept, Continued, Opened, Passed, Untouched
          <5>4. QED
            BY <4>1, <5>2, <5>3 DEF NothingDrivenIsLost
        <4>2. CASE x \notin driven
          <5>1. x = p.time /\ p.ignition = "on" /\ (state.active # NoTrip \/ state'.active # NoTrip)
            BY <3>1, <4>2
          <5>2. state'.active # NoTrip /\ state'.active \in DOMAIN trips'
            <6>1. ~Dropped(p) /\ ~Kept(p)
              BY <1>6, <1>7, <5>1 DEF Ends
            <6>2. state'.active # NoTrip
              BY <1>1, <1>3, <1>8, <5>1, <6>1 DEF Continued, Opened, Passed
            <6>3. QED
              BY <1>0, <6>2 DEF TypeOK
          <5>3. trips'[state'.active].end = NoTime /\ trips'[state'.active].start <= x
            BY <1>2, <1>4, <3>4, <5>1, <5>2
          <5>4. QED
            BY <5>2, <5>3
        <4>3. QED
          BY <4>1, <4>2
      <3>8. QED
        BY <3>5, <3>6, <3>7
    <2>3. QED
      BY <2>1, <2>2
  <1>12. QED
    BY <1>10, <1>11

\* ... and so does every other step.
LEMMA HistoryStep ==
    ASSUME OneSession, HistoryInv, [HistoryNext]_historyVars
    PROVE  HistoryInv'
  <1>1. [Next]_vars
    BY DEF HistoryNext, historyVars
  <1>2. SingleInv'
    BY <1>1, SingleStep DEF HistoryInv
  <1>3. CASE UNCHANGED historyVars
    BY <1>2, <1>3 DEF historyVars, vars, sessionVars, HistoryInv, LastTripIsLast, NothingAhead, TripsDisjoint,
                      NothingDrivenIsLost
  <1>4. CASE HistoryNext
    <2>1. TypeOK /\ TypeOK'
      BY <1>2 DEF HistoryInv, SingleInv, TripsInv
    <2>2. ASSUME NEW s \in Session, Load(s)
          PROVE  HistoryInv'
      <3>1. UNCHANGED <<state, trips>> /\ phase[s] = "idle" /\ phase'[s] = "loaded" /\ pos'[s].time = latest'
            /\ latest' \in Time
        BY <2>1, <2>2 DEF Load, TypeOK
      <3>2. QED
        BY <1>2, <1>4, <3>1, HistoryKept DEF OneSession
    <2>3. ASSUME NEW s \in Session, ReadTrip(s)
          PROVE  HistoryInv'
      <3>1. UNCHANGED <<state, trips, pos, latest>> /\ phase[s] = "loaded" /\ phase'[s] = "read" /\ latest \in Time
        BY <2>1, <2>3 DEF ReadTrip, TypeOK
      <3>2. pos'[s].time = latest'
        BY <3>1 DEF HistoryInv, NothingAhead
      <3>3. QED
        BY <1>2, <1>4, <3>1, <3>2, HistoryKept DEF OneSession
    <2>4. ASSUME NEW s \in Session, Commit(s)
          PROVE  HistoryInv'
      BY <1>2, <1>4, <2>4, HistoryCommit
    <2>5. ASSUME NEW s \in Session, Rollback(s)
          PROVE  HistoryInv'
      BY <2>5, SingleNeverConflicts DEF Rollback, HistoryInv
    <2>6. QED
      BY <1>4, <2>2, <2>3, <2>4, <2>5 DEF HistoryNext, Next
  <1>5. QED
    BY <1>3, <1>4

\* A device without trips has driven nothing.
LEMMA HistoryInitially ==
    ASSUME HistoryInit
    PROVE  HistoryInv
  <1>1. TripsInv
    BY InitiallyValid DEF HistoryInit
  <1>2. SingleInv
    BY <1>1 DEF HistoryInit, Init, SingleInv, ReadIsCurrent, OnlyActiveTripOpen
  <1>3. QED
    BY <1>2 DEF HistoryInit, Init, HistoryInv, LastTripIsLast, NothingAhead, TripsDisjoint, NothingDrivenIsLost,
                NewState, NoTrip, NoTime

\* While the device times of a device are in order its trips follow one another, if its positions
\* are processed one at a time.
THEOREM TripsFollowOneAnother ==
    ASSUME OneSession
    PROVE  HistorySpec => []TripsDisjoint
  <1>1. HistoryInit => HistoryInv
    BY HistoryInitially
  <1>2. HistoryInv /\ [HistoryNext]_historyVars => HistoryInv'
    BY HistoryStep
  <1>3. HistoryInv => TripsDisjoint
    BY DEF HistoryInv
  <1>4. QED
    BY <1>1, <1>2, <1>3, PTL DEF HistorySpec

\* While device times are in order, no position driven is outside every trip: what a trip ends with,
\* what is merged and what is deleted as too short still covers it (core/database.py:1449).
THEOREM DrivingIsKept ==
    ASSUME OneSession
    PROVE  HistorySpec => []NothingDrivenIsLost
  <1>1. HistoryInit => HistoryInv
    BY HistoryInitially
  <1>2. HistoryInv /\ [HistoryNext]_historyVars => HistoryInv'
    BY HistoryStep
  <1>3. HistoryInv => NothingDrivenIsLost
    BY DEF HistoryInv
  <1>4. QED
    BY <1>1, <1>2, <1>3, PTL DEF HistorySpec

\* A step that changes the trips is the commit of the last position.
LEMMA TripsStepCases ==
    ASSUME OneSession, HistoryInv, [HistoryNext]_historyVars, trips' # trips
    PROVE  \E s \in Session : /\ pos[s] \in Position /\ pos[s].time = latest
                              /\ Dropped(pos[s]) \/ Kept(pos[s]) \/ Continued(pos[s]) \/ Opened(pos[s]) \/ Passed(pos[s])
  <1>1. PICK s \in Session : Commit(s)
    BY DEF HistoryNext, historyVars, vars, Next, Load, ReadTrip, Rollback
  <1>2. pos[s].time = latest
    BY <1>1 DEF Commit, HistoryInv, NothingAhead
  <1>3. QED
    BY <1>1, <1>2, CommitCases DEF HistoryInv

\* A merge continues the last trip as it was, within the merge gap (core/database.py:1402).
THEOREM OnlyTheLastIsContinued ==
    ASSUME OneSession
    PROVE  HistorySpec => MergesContinueTheLast
  <1> DEFINE Continues ==
        inOrder => \A t \in DOMAIN trips \cap DOMAIN trips' :
          (trips[t].end # NoTime /\ trips'[t].end = NoTime) =>
              /\ t = state.lastTrip /\ \A u \in DOMAIN trips : u <= t
              /\ trips'[t] = [trips[t] EXCEPT !.end = NoTime]
              /\ latest - trips[t].end \in Debounce..MergeGap
  <1>1. HistoryInit => HistoryInv
    BY HistoryInitially
  <1>2. HistoryInv /\ [HistoryNext]_historyVars => HistoryInv'
    BY HistoryStep
  <1>3. HistoryInv /\ [HistoryNext]_historyVars => [Continues]_historyVars
    <2> SUFFICES ASSUME HistoryInv, [HistoryNext]_historyVars, NEW t \in DOMAIN trips \cap DOMAIN trips',
                        trips[t].end # NoTime, trips'[t].end = NoTime
                 PROVE  /\ t = state.lastTrip /\ \A u \in DOMAIN trips : u <= t
                        /\ trips'[t] = [trips[t] EXCEPT !.end = NoTime]
                        /\ latest - trips[t].end \in Debounce..MergeGap
      OBVIOUS
    <2>1. PICK s \in Session : /\ pos[s] \in Position /\ pos[s].time = latest
                              /\ \/ Dropped(pos[s]) \/ Kept(pos[s]) \/ Continued(pos[s]) \/ Opened(pos[s])
                                 \/ Passed(pos[s])
      BY TripsStepCases
    <2>2. TypeOK /\ OnlyActiveTripOpen /\ LastTripIsLast
      BY DEF HistoryInv, SingleInv, TripsInv
    <2>3. ~Dropped(pos[s]) /\ ~Opened(pos[s]) /\ ~Passed(pos[s])
      BY DEF Dropped, Opened, Passed, Untouched
    <2>4. ~Kept(pos[s])
      <3>1. t = state.active => t \notin DOMAIN trips
        BY <2>2 DEF OnlyActiveTripOpen
      <3>2. QED
        BY <3>1 DEF Kept, Untouched
    <2>5. Continued(pos[s]) /\ t = state.lastTrip
      BY <2>1, <2>3, <2>4 DEF Continued, Untouched
    <2>6. trips[t].end = state.lastOff /\ \A u \in DOMAIN trips : u <= t
      BY <2>2, <2>5 DEF LastTripIsLast, Continued, Continuing, Starts, TypeOK, NoTrip
    <2>7. QED
      BY <2>1, <2>5, <2>6 DEF Continued, Continuing
  <1>4. QED
    BY <1>1, <1>2, <1>3, PTL DEF HistorySpec, MergesContinueTheLast

\* What is deleted as too short is short by every position driven (core/database.py:1514).
THEOREM LongTripsStay ==
    ASSUME OneSession
    PROVE  HistorySpec => LongTripsAreKept
  <1> DEFINE Keeps ==
        inOrder => \A t \in DOMAIN trips \ DOMAIN trips' :
          \/ state.tripOdometer < MinDistance
          \/ \A x \in driven : x - trips[t].start < MinDuration
  <1>1. HistoryInit => HistoryInv
    BY HistoryInitially
  <1>2. HistoryInv /\ [HistoryNext]_historyVars => HistoryInv'
    BY HistoryStep
  <1>3. HistoryInv /\ [HistoryNext]_historyVars => [Keeps]_historyVars
    <2> SUFFICES ASSUME HistoryInv, [HistoryNext]_historyVars, NEW t \in DOMAIN trips \ DOMAIN trips',
                        NEW x \in driven, ~(state.tripOdometer < MinDistance)
                 PROVE  x - trips[t].start < MinDuration
      OBVIOUS
    <2>1. PICK s \in Session : /\ pos[s] \in Position /\ pos[s].time = latest
                              /\ \/ Dropped(pos[s]) \/ Kept(pos[s]) \/ Continued(pos[s]) \/ Opened(pos[s])
                                 \/ Passed(pos[s])
      BY TripsStepCases
    <2>2. Dropped(pos[s]) /\ t = state.active
      BY <2>1 DEF Dropped, Kept, Continued, Opened, Passed
    <2>3. pos[s].time - trips[t].start < MinDuration
      BY <2>2 DEF Dropped, TooShort
    <2>4. x \in Int /\ x <= latest /\ latest \in Int /\ trips[t].start \in Int
      BY DEF HistoryInv, NothingAhead, SingleInv, TripsInv, TypeOK, TripRow, Time
    <2>5. QED
      BY <2>1, <2>3, <2>4, TripLifecycleAssumption
  <1>4. QED
    BY <1>1, <1>2, <1>3, PTL DEF HistorySpec, LongTripsAreKept

-----------------------------------------------------------------------------
(* Sums over finite sets.  The community modules add the elements in the   *)
(* order CHOOSE takes them; the sum is the same in every order.  The       *)
(* induction over subsets is the minimal counterexample.                   *)
Adds(f, c, D) ==
    f = [S \in SUBSET D |-> IF S = {} THEN 0 ELSE c[CHOOSE x \in S : TRUE] + f[S \ {CHOOSE x \in S : TRUE}]]
SumOver(c, D) == MapThenSumSet(LAMBDA x : c[x], D)

\* The sum is the value of a function that adds.
LEMMA SumAdds ==
    ASSUME NEW c, NEW D
    PROVE  SumOver(c, D) = (CHOOSE f : Adds(f, c, D))[D]
  BY DEF SumOver, MapThenSumSet, MapThenFoldSet, Adds

\* A set of subsets of a finite set has a minimal member.
LEMMA MinimalSubset ==
    ASSUME NEW D, IsFiniteSet(D), NEW T \in SUBSET SUBSET D, T # {}
    PROVE  \E S \in T : \A R \in T : R \subseteq S => R = S
  <1>1. IsWellFoundedOn(StrictSubsetOrdering(D), FiniteSubsetsOf(D))
    BY FS_StrictSubsetOrderingWellFounded
  <1>2. FiniteSubsetsOf(D) = SUBSET D
    BY FS_FiniteSubsetsOfFinite
  <1>3. PICK S \in T : \A R \in T : ~(<<R, S>> \in StrictSubsetOrdering(D))
    BY <1>1, <1>2, WFMin
  <1>4. \A R \in T : R \subseteq S => R = S
    BY <1>3 DEF StrictSubsetOrdering
  <1>5. QED
    BY <1>4

\* What adds has integers for its values.
LEMMA AddsInt ==
    ASSUME NEW D, IsFiniteSet(D), NEW c, \A x \in D : c[x] \in Int, NEW f, Adds(f, c, D), NEW S \in SUBSET D
    PROVE  f[S] \in Int
  <1> DEFINE T == {R \in SUBSET D : f[R] \notin Int}
  <1> SUFFICES ASSUME T # {} PROVE FALSE
    OBVIOUS
  <1>1. PICK R \in T : \A Q \in T : Q \subseteq R => Q = R
    <2>1. T \in SUBSET SUBSET D
      OBVIOUS
    <2> HIDE DEF T
    <2>2. QED
      BY <2>1, MinimalSubset
  <1>2. R # {}
    BY DEF Adds
  <1> DEFINE x == CHOOSE x \in R : TRUE
  <1>3. x \in R /\ x \in D
    BY <1>2
  <1>4. f[R] = c[x] + f[R \ {x}]
    BY <1>2 DEF Adds
  <1> HIDE DEF x
  <1>5. R \ {x} \in SUBSET D /\ R \ {x} # R
    BY <1>3
  <1>6. f[R \ {x}] \in Int
    BY <1>1, <1>5
  <1>7. QED
    BY <1>3, <1>4, <1>6

\* Any element may be taken first.
LEMMA AddsAnyOrder ==
    ASSUME NEW D, IsFiniteSet(D), NEW c, \A x \in D : c[x] \in Int, NEW f, Adds(f, c, D)
    PROVE  \A S \in SUBSET D : \A x \in S : f[S] = c[x] + f[S \ {x}]
  <1> DEFINE T == {R \in SUBSET D : \E x \in R : f[R] # c[x] + f[R \ {x}]}
  <1> SUFFICES ASSUME T # {} PROVE FALSE
    OBVIOUS
  <1>1. PICK R \in T : \A Q \in T : Q \subseteq R => Q = R
    <2>1. T \in SUBSET SUBSET D
      OBVIOUS
    <2> HIDE DEF T
    <2>2. QED
      BY <2>1, MinimalSubset
  <1>2. PICK x \in R : f[R] # c[x] + f[R \ {x}]
    OBVIOUS
  <1> DEFINE y == CHOOSE y \in R : TRUE
  <1>3. y \in R /\ f[R] = c[y] + f[R \ {y}]
    BY <1>2 DEF Adds
  <1> HIDE DEF y
  <1>4. x # y /\ x \in D /\ y \in D
    BY <1>2, <1>3
  <1> DEFINE A == R \ {x}
             B == R \ {y}
             C == R \ {x, y}
  <1>5. A \in SUBSET D /\ B \in SUBSET D /\ C \in SUBSET D /\ A # R /\ B # R /\ A \ {y} = C /\ B \ {x} = C
        /\ y \in A /\ x \in B
    BY <1>2, <1>3, <1>4
  <1>6. f[A] = c[y] + f[C] /\ f[B] = c[x] + f[C]
    <2>1. A \notin T /\ B \notin T
      BY <1>1, <1>5
    <2>2. QED
      BY <1>5, <2>1
  <1>7. f[C] \in Int /\ c[x] \in Int /\ c[y] \in Int
    BY <1>4, <1>5, AddsInt
  <1>8. QED
    BY <1>2, <1>3, <1>6, <1>7

\* There is a function that adds.
LEMMA AddsExists ==
    ASSUME NEW D, IsFiniteSet(D), NEW c, \A x \in D : c[x] \in Int
    PROVE  \E f : Adds(f, c, D)
  <1> DEFINE T == {R \in SUBSET D : ~ \E f : Adds(f, c, R)}
  <1> SUFFICES ASSUME T # {} PROVE FALSE
    OBVIOUS
  <1>1. PICK R \in T : \A Q \in T : Q \subseteq R => Q = R
    <2>1. T \in SUBSET SUBSET D
      OBVIOUS
    <2> HIDE DEF T
    <2>2. QED
      BY <2>1, MinimalSubset
  <1>2. R # {}
    <2> SUFFICES ASSUME R = {} PROVE FALSE
      OBVIOUS
    <2> DEFINE z == [S \in SUBSET R |-> 0]
    <2>1. Adds(z, c, R)
      BY DEF Adds
    <2>2. QED
      BY <2>1
  <1>3. PICK x \in R : TRUE
    BY <1>2
  <1> DEFINE E == R \ {x}
  <1>4. E \in SUBSET D /\ E # R /\ E \subseteq R /\ x \in D /\ R \in SUBSET D
    OBVIOUS
  <1>5. PICK f : Adds(f, c, E)
    BY <1>1, <1>4
  <1>6. IsFiniteSet(E) /\ \A y \in E : c[y] \in Int
    BY <1>4, FS_Subset
  <1>7. /\ \A S \in SUBSET E : f[S] \in Int
        /\ \A S \in SUBSET E : \A y \in S : f[S] = c[y] + f[S \ {y}]
        /\ f[{}] = 0
    <2>1. f[{}] = 0
      BY <1>5 DEF Adds
    <2>2. QED
      BY <1>5, <1>6, <2>1, AddsInt, AddsAnyOrder
  <1> HIDE DEF E, T
  <1> DEFINE g == [S \in SUBSET R |-> IF x \in S THEN c[x] + f[S \ {x}] ELSE f[S]]
  <1>8. \A S \in SUBSET R : \A y \in S : g[S] = c[y] + g[S \ {y}]
    <2> SUFFICES ASSUME NEW S \in SUBSET R, NEW y \in S
                 PROVE  g[S] = c[y] + g[S \ {y}]
      OBVIOUS
    <2>1. S \ {y} \in SUBSET R /\ S \ {x} \in SUBSET E
      BY DEF E
    <2>2. CASE x \notin S
      <3>1. S \in SUBSET E /\ x \notin S \ {y}
        BY <2>2 DEF E
      <3>2. QED
        BY <1>7, <2>1, <2>2, <3>1
    <2>3. CASE y = x
      BY <2>1, <2>3
    <2>4. CASE x \in S /\ y # x
      <3>1. g[S] = c[x] + f[S \ {x}] /\ f[S \ {x}] = c[y] + f[(S \ {x}) \ {y}]
        BY <1>7, <2>1, <2>4
      <3>2. g[S \ {y}] = c[x] + f[(S \ {y}) \ {x}]
        BY <2>1, <2>4
      <3>3. (S \ {x}) \ {y} = (S \ {y}) \ {x} /\ (S \ {x}) \ {y} \in SUBSET E
        BY <2>1
      <3>4. c[x] \in Int /\ c[y] \in Int /\ f[(S \ {x}) \ {y}] \in Int
        BY <1>4, <1>7, <3>3
      <3> DEFINE m == f[(S \ {x}) \ {y}]
      <3>5. m \in Int /\ g[S] = c[x] + (c[y] + m) /\ g[S \ {y}] = c[x] + m
        BY <3>1, <3>2, <3>3, <3>4
      <3> HIDE DEF g, m
      <3>6. QED
        BY <3>4, <3>5
    <2>5. QED
      BY <2>2, <2>3, <2>4
  <1>9. g[{}] = 0
    BY <1>7
  <1>10. g = [S \in SUBSET R |-> IF S = {} THEN 0 ELSE c[CHOOSE y \in S : TRUE] + g[S \ {CHOOSE y \in S : TRUE}]]
    <2>1. \A S \in SUBSET R : g[S] = IF S = {} THEN 0 ELSE c[CHOOSE y \in S : TRUE] + g[S \ {CHOOSE y \in S : TRUE}]
      <3> SUFFICES ASSUME NEW S \in SUBSET R, S # {}
                   PROVE  g[S] = c[CHOOSE y \in S : TRUE] + g[S \ {CHOOSE y \in S : TRUE}]
        BY <1>9
      <3>1. (CHOOSE y \in S : TRUE) \in S
        OBVIOUS
      <3> HIDE DEF g
      <3>2. QED
        BY <1>8, <3>1
    <2>2. g = [S \in SUBSET R |-> g[S]]
      OBVIOUS
    <2> HIDE DEF g
    <2>3. QED
      BY <2>1, <2>2
  <1>11. Adds(g, c, R)
    BY <1>10 DEF Adds
  <1>12. QED
    BY <1>1, <1>11 DEF T

\* A function that adds on a set adds on its subsets.
LEMMA AddsUnique ==
    ASSUME NEW D, IsFiniteSet(D), NEW c, NEW f, Adds(f, c, D), NEW E \in SUBSET D, NEW g, Adds(g, c, E)
    PROVE  f[E] = g[E]
  <1> DEFINE T == {R \in SUBSET E : f[R] # g[R]}
  <1> SUFFICES ASSUME T # {} PROVE FALSE
    OBVIOUS
  <1>1. PICK R \in T : \A Q \in T : Q \subseteq R => Q = R
    <2>1. T \in SUBSET SUBSET D
      OBVIOUS
    <2> HIDE DEF T
    <2>2. QED
      BY <2>1, MinimalSubset
  <1>2. R # {}
    BY DEF Adds
  <1> DEFINE x == CHOOSE x \in R : TRUE
  <1>3. x \in R /\ R \in SUBSET D /\ R \in SUBSET E
    BY <1>2
  <1>4. f[R] = c[x] + f[R \ {x}]
    BY <1>2, <1>3 DEF Adds
  <1>5. g[R] = c[x] + g[R \ {x}]
    BY <1>2, <1>3 DEF Adds
  <1> HIDE DEF x
  <1>6. f[R \ {x}] = g[R \ {x}]
    BY <1>1, <1>3
  <1>7. QED
    BY <1>4, <1>5, <1>6

\* The sum of a finite set, without one of its elements.
LEMMA SumWithout ==
    ASSUME NEW D, IsFiniteSet(D), NEW c, \A x \in D : c[x] \in Int, NEW k \in D
    PROVE  SumOver(c, D) = c[k] + SumOver(c, D \ {k})
  <1>1. IsFiniteSet(D \ {k}) /\ D \ {k} \in SUBSET D /\ \A x \in D \ {k} : c[x] \in Int
    BY FS_Subset
  <1> DEFINE f == CHOOSE f : Adds(f, c, D)
             g == CHOOSE g : Adds(g, c, D \ {k})
  <1>2. Adds(f, c, D) /\ Adds(g, c, D \ {k})
    BY <1>1, AddsExists
  <1>3. SumOver(c, D) = f[D] /\ SumOver(c, D \ {k}) = g[D \ {k}]
    BY SumAdds
  <1> HIDE DEF f, g
  <1>4. f[D] = c[k] + f[D \ {k}] /\ f[D \ {k}] = g[D \ {k}]
    BY <1>1, <1>2, AddsAnyOrder, AddsUnique
  <1>5. QED
    BY <1>3, <1>4

\* The sum of integers is one.
LEMMA SumInt ==
    ASSUME NEW D, IsFiniteSet(D), NEW c, \A x \in D : c[x] \in Int
    PROVE  SumOver(c, D) \in Int
  <1>1. Adds(CHOOSE f : Adds(f, c, D), c, D)
    BY AddsExists
  <1>2. QED
    BY <1>1, AddsInt, SumAdds

\* The sum depends on the values alone.
LEMMA SumSame ==
    ASSUME NEW D, NEW c, NEW d, \A x \in D : c[x] = d[x]
    PROVE  SumOver(c, D) = SumOver(d, D)
  <1>1. ASSUME NEW f
        PROVE  Adds(f, c, D) <=> Adds(f, d, D)
    <2>1. \A S \in SUBSET D : S # {} => c[CHOOSE x \in S : TRUE] = d[CHOOSE x \in S : TRUE]
      <3> SUFFICES ASSUME NEW S \in SUBSET D, S # {}
                   PROVE  c[CHOOSE x \in S : TRUE] = d[CHOOSE x \in S : TRUE]
        OBVIOUS
      <3>1. (CHOOSE x \in S : TRUE) \in S
        OBVIOUS
      <3>2. QED
        BY <3>1
    <2>2. [S \in SUBSET D |-> IF S = {} THEN 0 ELSE c[CHOOSE x \in S : TRUE] + f[S \ {CHOOSE x \in S : TRUE}]]
          = [S \in SUBSET D |-> IF S = {} THEN 0 ELSE d[CHOOSE x \in S : TRUE] + f[S \ {CHOOSE x \in S : TRUE}]]
      BY <2>1
    <2>3. QED
      BY <2>2 DEF Adds
  <1>2. (CHOOSE f : Adds(f, c, D)) = (CHOOSE f : Adds(f, d, D))
    BY <1>1
  <1>3. QED
    BY <1>2, SumAdds

\* The sum of nothing.
LEMMA SumNone ==
    ASSUME NEW c
    PROVE  SumOver(c, {}) = 0
  <1>1. Adds(CHOOSE f : Adds(f, c, {}), c, {})
    <2>1. IsFiniteSet({})
      BY FS_EmptySet
    <2>2. QED
      BY <2>1, AddsExists
  <1>2. QED
    BY <1>1, SumAdds DEF Adds

\* The sum after one term has changed.
LEMMA SumChanged ==
    ASSUME NEW D, IsFiniteSet(D), NEW c, \A x \in D : c[x] \in Int, NEW k \in D,
           NEW d, d[k] \in Int, \A x \in D \ {k} : d[x] = c[x]
    PROVE  SumOver(d, D) = SumOver(c, D) + d[k] - c[k]
  <1>1. IsFiniteSet(D \ {k}) /\ (\A x \in D \ {k} : c[x] \in Int) /\ (\A x \in D : d[x] \in Int)
    BY FS_Subset
  <1>2. SumOver(c, D) = c[k] + SumOver(c, D \ {k}) /\ SumOver(d, D) = d[k] + SumOver(d, D \ {k})
    BY <1>1, SumWithout
  <1>3. SumOver(c, D \ {k}) = SumOver(d, D \ {k}) /\ SumOver(c, D \ {k}) \in Int
    BY <1>1, SumSame, SumInt
  <1>4. c[k] \in Int
    OBVIOUS
  <1>5. QED
    BY <1>2, <1>3, <1>4

-----------------------------------------------------------------------------
(* DistancesAddUp: a commit changes the distance of one trip by what it    *)
(* adds to the odometer, or by nothing.                                    *)
DistanceOf == [t \in DOMAIN trips |-> IF t = state.active THEN state.tripOdometer ELSE trips[t].distance]
DistanceInv == SingleInv /\ SumOver(DistanceOf, DOMAIN trips) <= state.totalOdometer

\* DistancesAddUp in terms of the sums above.
LEMMA DistancesAreTheSum == DistancesAddUp <=> SumOver(DistanceOf, DOMAIN trips) <= state.totalOdometer
  <1> DEFINE counted(t) == IF t = state.active THEN state.tripOdometer ELSE trips[t].distance
  <1>1. MapThenSumSet(counted, DOMAIN trips) = SumOver(DistanceOf, DOMAIN trips)
    <2>1. ASSUME NEW f
          PROVE  Adds(f, DistanceOf, DOMAIN trips) <=>
                   f = [S \in SUBSET DOMAIN trips |->
                          IF S = {} THEN 0 ELSE counted(CHOOSE x \in S : TRUE) + f[S \ {CHOOSE x \in S : TRUE}]]
      <3>1. \A S \in SUBSET DOMAIN trips : S # {} => DistanceOf[CHOOSE x \in S : TRUE] = counted(CHOOSE x \in S : TRUE)
        <4> SUFFICES ASSUME NEW S \in SUBSET DOMAIN trips, S # {}
                     PROVE  DistanceOf[CHOOSE x \in S : TRUE] = counted(CHOOSE x \in S : TRUE)
          OBVIOUS
        <4>1. (CHOOSE x \in S : TRUE) \in DOMAIN trips
          OBVIOUS
        <4>2. QED
          BY <4>1 DEF DistanceOf
      <3> HIDE DEF counted
      <3>2. QED
        BY <3>1 DEF Adds
    <2> DEFINE E(f) == f = [S \in SUBSET DOMAIN trips |->
                          IF S = {} THEN 0 ELSE counted(CHOOSE x \in S : TRUE) + f[S \ {CHOOSE x \in S : TRUE}]]
    <2>2. MapThenSumSet(counted, DOMAIN trips) = (CHOOSE f : E(f))[DOMAIN trips]
      BY DEF MapThenSumSet, MapThenFoldSet
    <2>3. \A f : Adds(f, DistanceOf, DOMAIN trips) <=> E(f)
      BY <2>1
    <2> HIDE DEF E, counted
    <2>4. (CHOOSE f : E(f)) = (CHOOSE f : Adds(f, DistanceOf, DOMAIN trips))
      BY <2>3
    <2>5. QED
      BY <2>2, <2>4, SumAdds
  <1>2. QED
    BY <1>1 DEF DistancesAddUp

\* A set of ids below a bound is finite.
LEMMA NumberedIsFinite ==
    ASSUME NEW n \in Int, NEW T \in SUBSET (1..n)
    PROVE  IsFiniteSet(T)
  <1>1. IsFiniteSet(1..n)
    BY FS_Interval
  <1>2. QED
    BY <1>1, FS_Subset

\* A commit adds to one trip what it adds to the odometer.
LEMMA DistanceCommit ==
    ASSUME OneSession, DistanceInv, NEW s \in Session, Commit(s), SingleInv'
    PROVE  DistanceInv'
  <1> USE DEF DistanceInv
  <1> DEFINE p == pos[s]
             D == DOMAIN trips
             sum == SumOver(DistanceOf, D)
  <1>0. TypeOK /\ OnlyActiveTripOpen /\ TypeOK'
    BY DEF SingleInv, TripsInv
  <1>1. /\ p \in Position /\ state'.totalOdometer = state.totalOdometer + p.moved
        /\ Dropped(p) \/ Kept(p) \/ Continued(p) \/ Opened(p) \/ Passed(p)
    BY CommitCases
  <1>11. IsFiniteSet(DOMAIN trips) /\ IsFiniteSet(DOMAIN trips')
    <2>1. /\ DOMAIN trips \in SUBSET (1..(nextTrip - 1)) /\ nextTrip - 1 \in Int
          /\ DOMAIN trips' \in SUBSET (1..(nextTrip' - 1)) /\ nextTrip' - 1 \in Int
      BY <1>0 DEF TypeOK
    <2>2. QED
      BY <2>1, NumberedIsFinite
  <1>2. /\ IsFiniteSet(D) /\ \A t \in D : DistanceOf[t] \in Nat /\ trips[t].distance \in Nat
        /\ p.moved \in Nat /\ state.totalOdometer \in Nat /\ state.tripOdometer \in Nat
        /\ nextTrip \notin D /\ NoTrip \notin D /\ nextTrip # NoTrip
        /\ state.active \in D \cup {NoTrip} /\ state.lastTrip \in D \cup {NoTrip}
        /\ \A t \in D : trips[t] \in TripRow
    BY <1>0, <1>1, <1>11 DEF TypeOK, StateRow, TripRow, DistanceOf, Position, NoTrip
  <1>3. sum \in Int /\ sum <= state.totalOdometer
    BY <1>2, SumInt
  <1>4. IsFiniteSet(DOMAIN trips') /\ \A t \in DOMAIN trips' : DistanceOf'[t] \in Int
    BY <1>0, <1>11 DEF TypeOK, StateRow, TripRow, DistanceOf
  <1> SUFFICES SumOver(DistanceOf', DOMAIN trips') <= sum + p.moved
    <2>1. SumOver(DistanceOf', DOMAIN trips') \in Int
      BY <1>4, SumInt
    <2>2. QED
      BY <1>1, <1>2, <1>3, <2>1
  <1>5. CASE Dropped(p)
    <2> DEFINE a == state.active
    <2>1. a \in D /\ DOMAIN trips' = D \ {a} /\ \A t \in D \ {a} : DistanceOf'[t] = DistanceOf[t]
      BY <1>2, <1>5 DEF Dropped, Ending, Untouched, DistanceOf
    <2>2. SumOver(DistanceOf', D \ {a}) = SumOver(DistanceOf, D \ {a})
      BY <2>1, SumSame
    <2>3. sum = DistanceOf[a] + SumOver(DistanceOf, D \ {a})
      BY <1>2, <2>1, SumWithout
    <2>4. SumOver(DistanceOf, D \ {a}) \in Int
      <3>1. IsFiniteSet(D \ {a}) /\ \A t \in D \ {a} : DistanceOf[t] \in Int
        BY <1>2, FS_Subset
      <3>2. QED
        BY <3>1, SumInt
    <2>5. DistanceOf[a] \in Nat
      BY <1>2, <2>1
    <2> HIDE DEF a, sum, D
    <2>6. QED
      BY <1>2, <2>1, <2>2, <2>3, <2>4, <2>5
  <1>6. CASE Kept(p)
    <2>1. DOMAIN trips' = D /\ \A t \in D : DistanceOf'[t] = DistanceOf[t]
      BY <1>2, <1>6 DEF Kept, Ending, Untouched, DistanceOf, EndedRow, TripRow
    <2>2. QED
      BY <1>2, <1>3, <2>1, SumSame
  <1>7. CASE Continued(p)
    <2> DEFINE k == state.lastTrip
    <2>1. k \in D /\ DOMAIN trips' = D /\ state.active = NoTrip
      BY <1>7 DEF Continued, Continuing, Starts
    <2>2. DistanceOf'[k] = DistanceOf[k] + p.moved /\ \A t \in D \ {k} : DistanceOf'[t] = DistanceOf[t]
      BY <1>2, <1>7, <2>1 DEF Continued, Continuing, Untouched, DistanceOf, TripRow
    <2>3. SumOver(DistanceOf', D) = sum + DistanceOf'[k] - DistanceOf[k]
      BY <1>2, <1>4, <2>1, <2>2, SumChanged
    <2> HIDE DEF k, sum, D
    <2>4. QED
      BY <1>2, <1>3, <2>1, <2>2, <2>3
  <1>8. CASE Opened(p)
    <2> DEFINE k == nextTrip
    <2>1. DOMAIN trips' = D \cup {k} /\ k \notin D /\ DOMAIN trips' \ {k} = D
      BY <1>2, <1>8 DEF Opened
    <2>2. DistanceOf'[k] = p.moved /\ \A t \in D : DistanceOf'[t] = DistanceOf[t]
      BY <1>2, <1>8, <2>1 DEF Opened, Starts, Untouched, DistanceOf
    <2>3. SumOver(DistanceOf', DOMAIN trips') = DistanceOf'[k] + SumOver(DistanceOf', D)
      BY <1>4, <2>1, SumWithout
    <2>4. SumOver(DistanceOf', D) = sum
      BY <2>2, SumSame
    <2> HIDE DEF k, sum, D
    <2>5. QED
      BY <1>2, <1>3, <2>2, <2>3, <2>4
  <1>9. CASE Passed(p)
    <2>1. DOMAIN trips' = D /\ state'.active = state.active
      BY <1>9 DEF Passed
    <2>2. CASE state.active = NoTrip
      <3>1. \A t \in D : DistanceOf'[t] = DistanceOf[t]
        BY <1>2, <1>9, <2>2 DEF Passed, Untouched, DistanceOf
      <3>2. QED
        BY <1>2, <1>3, <2>1, <3>1, SumSame
    <2>3. CASE state.active # NoTrip
      <3> DEFINE k == state.active
      <3>1. k \in D /\ DistanceOf'[k] = DistanceOf[k] + p.moved /\ \A t \in D \ {k} : DistanceOf'[t] = DistanceOf[t]
        BY <1>2, <1>9, <2>3 DEF Passed, Untouched, DistanceOf
      <3>2. SumOver(DistanceOf', D) = sum + DistanceOf'[k] - DistanceOf[k]
        BY <1>2, <1>4, <2>1, <3>1, SumChanged
      <3> HIDE DEF k, sum, D
      <3>3. QED
        BY <1>2, <1>3, <2>1, <3>1, <3>2
    <2>4. QED
      BY <2>2, <2>3
  <1>10. QED
    BY <1>1, <1>5, <1>6, <1>7, <1>8, <1>9

\* ... and no other step adds.
LEMMA DistanceStep ==
    ASSUME OneSession, DistanceInv, [Next]_vars
    PROVE  DistanceInv'
  <1>1. SingleInv'
    BY SingleStep DEF DistanceInv
  <1>2. CASE UNCHANGED <<state, trips>>
    BY <1>1, <1>2 DEF DistanceInv, DistanceOf
  <1>3. CASE \E s \in Session : Commit(s)
    BY <1>1, <1>3, DistanceCommit
  <1>4. QED
    BY <1>2, <1>3 DEF Next, Load, ReadTrip, Rollback, vars

\* The distances of the trips come out of the odometer once (core/database.py:1276), whatever is
\* merged, deleted or driven in between and in whatever order the positions come.
THEOREM OdometerCoversTrips ==
    ASSUME OneSession
    PROVE  Spec => []DistancesAddUp
  <1>1. Init => DistanceInv
    <2> SUFFICES ASSUME Init
                 PROVE  DistanceInv
      OBVIOUS
    <2>1. TripsInv
      BY InitiallyValid
    <2>2. SingleInv
      BY <2>1 DEF Init, SingleInv, ReadIsCurrent, OnlyActiveTripOpen
    <2>3. DOMAIN trips = {} /\ state.totalOdometer = 0
      BY DEF Init, NewState
    <2>4. SumOver(DistanceOf, {}) = 0
      BY SumNone
    <2>5. QED
      BY <2>2, <2>3, <2>4 DEF DistanceInv
  <1>2. DistanceInv /\ [Next]_vars => DistanceInv'
    BY DistanceStep
  <1>3. DistanceInv => DistancesAddUp
    BY DistancesAreTheSum DEF DistanceInv
  <1>4. QED
    BY <1>1, <1>2, <1>3, PTL DEF Spec

\* The columns keep their types and name existing trips (the foreign keys of models/), however many
\* sessions run at once.
THEOREM TripsTypeCorrect == Spec => []TypeOK
  <1>1. QED
    BY StoredTripsAreValid, PTL
=============================================================================
