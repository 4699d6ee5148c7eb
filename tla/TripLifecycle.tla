---------------------------- MODULE TripLifecycle ----------------------------
(***************************************************************************)
(* Trips of one device: DatabaseService.process_position and the           *)
(* _handle_trip_logic it calls.  Each position is processed in a database  *)
(* session of its own.  One TCP connection awaits each position before it  *)
(* reads the next; UDP datagrams each get a task, so several sessions run  *)
(* at once, each on the device_states row it loaded.                       *)
(*                                                                         *)
(* A session loads the row (Load), reads the trip it will close or merge   *)
(* into (ReadTrip) and commits (Commit).  The ORM writes the columns the   *)
(* session changed and no others.  Of a position only its device time, its *)
(* ignition and the distance it counts for are kept; speeds, addresses,    *)
(* eco scores and drivers are left out.                                    *)
(***************************************************************************)
EXTENDS Integers, FiniteSets, FiniteSetsExt, TLC

CONSTANTS
    Session,      \* the sessions that may run at once: one for a TCP device, more for UDP
    Ordered,      \* TRUE: device times never go back
    MaxTime,      \* bound: device times
    MaxTrips,     \* bound: trips created
    MaxDistance,  \* bound: total odometer
    Debounce,     \* after ignition off, ignition on is ignored for less than this (30 s)
    MergeGap,     \* trip_merge_gap_minutes, 0 for never
    MinDistance,  \* trip_min_distance_km
    MinDuration   \* trip_min_duration_seconds

Time == 1..MaxTime
NoTime == 0
TripId == 1..MaxTrips
NoTrip == 0

ASSUME TripLifecycleAssumption ==
    /\ MaxTime \in Nat \ {0} /\ MaxTrips \in Nat /\ MaxDistance \in Nat
    /\ Debounce \in Nat /\ MergeGap \in Nat
    /\ MinDistance \in Nat /\ MinDuration \in Nat
    /\ Ordered \in BOOLEAN

VARIABLES
    state,     \* the device_states row: the columns trips depend on
    trips,     \* the rows of trips, by id
    nextTrip,  \* the next id
    phase,     \* where each session is
    pos,       \* the position each session processes
    seen,      \* the device_states row each session loaded
    row,       \* the trip each session read
    latest     \* the last device time received

sessionVars == <<phase, pos, seen, row>>
vars == <<state, trips, nextTrip, sessionVars, latest>>

StateRow == [active : TripId \cup {NoTrip}, lastTrip : TripId \cup {NoTrip},
             lastOff : Time \cup {NoTime}, tripOdometer : Nat, totalOdometer : Nat]
TripRow  == [start : Time, end : Time \cup {NoTime}, distance : Nat]
Position == [time : Time, ignition : {"on", "off", "none"}, moved : 0..1]
Gone == [start |-> 0, end |-> NoTime, distance |-> 0]

NewState == [active |-> NoTrip, lastTrip |-> NoTrip, lastOff |-> NoTime,
             tripOdometer |-> 0, totalOdometer |-> 0]
NoPosition == [time |-> 1, ignition |-> "none", moved |-> 0]

\* What the foreign keys keep: the row names existing trips only.
TypeOK ==
    /\ state \in StateRow
    /\ {state.active, state.lastTrip} \subseteq DOMAIN trips \cup {NoTrip}
    /\ DOMAIN trips \subseteq 1..(nextTrip - 1)
    /\ \A t \in DOMAIN trips : trips[t] \in TripRow
    /\ nextTrip \in 1..(MaxTrips + 1)
    /\ phase \in [Session -> {"idle", "loaded", "read"}]
    /\ pos \in [Session -> Position]
    /\ seen \in [Session -> StateRow]
    /\ row \in [Session -> TripRow \cup {Gone}]
    /\ latest \in Time

Init ==
    /\ state = NewState
    /\ trips = << >>
    /\ nextTrip = 1
    /\ phase = [s \in Session |-> "idle"]
    /\ pos = [s \in Session |-> NoPosition]
    /\ seen = [s \in Session |-> NewState]
    /\ row = [s \in Session |-> Gone]
    /\ latest = 1

-----------------------------------------------------------------------------
(* _handle_trip_logic, on position p and the loaded row v *)

Gap(p, v) == p.time - v.lastOff

StartsAgain(p, v) == p.ignition = "on"  \* mutant: the active trip is not looked at
Starts(p, v) == p.ignition = "on" /\ v.active = NoTrip

DebouncedOpen(p, v) == v.lastOff # NoTime /\ Gap(p, v) \in 1..Debounce  \* mutant: gap <= 30
Debounced(p, v) == v.lastOff # NoTime /\ Gap(p, v) \in 1..(Debounce - 1)

WithinMergeGapAnyTime(p, v) == v.lastTrip # NoTrip  \* mutant: the gap is not looked at
WithinMergeGap(p, v) ==
    v.lastOff # NoTime /\ Gap(p, v) \in 1..MergeGap /\ v.lastTrip # NoTrip

Ends(p, v) == p.ignition = "off" /\ v.active # NoTrip

\* The trip session.get reads: the one to end, or the one to continue.
Wanted(p, v) ==
    IF Ends(p, v) THEN v.active
    ELSE IF Starts(p, v) /\ ~Debounced(p, v) /\ WithinMergeGap(p, v) THEN v.lastTrip
    ELSE NoTrip

Merges(p, v, r) == Starts(p, v) /\ ~Debounced(p, v) /\ WithinMergeGap(p, v) /\ r # Gone
Opens(p, v, r)  == Starts(p, v) /\ ~Debounced(p, v) /\ ~Merges(p, v, r)

\* A trip that ended is kept if it is long enough in distance and time.
TooShortByDistance(p, v, r) == v.tripOdometer < MinDistance  \* mutant: the time is not looked at
TooShortOrEqual(p, v, r) ==  \* mutant: <= for <
    v.tripOdometer < MinDistance \/ p.time - r.start <= MinDuration
TooShort(p, v, r) == v.tripOdometer < MinDistance \/ p.time - r.start < MinDuration

\* The row after the trip logic.
AfterTripLogicKeptOdometer(p, v, r) ==  \* mutant: a new trip goes on counting
    CASE Merges(p, v, r) -> [v EXCEPT !.active = v.lastTrip, !.tripOdometer = r.distance]
      [] Opens(p, v, r)  -> [v EXCEPT !.active = nextTrip]
      [] Ends(p, v)      -> [v EXCEPT !.active = NoTrip, !.lastTrip = v.active, !.lastOff = p.time]
      [] OTHER           -> v
AfterTripLogicForgets(p, v, r) ==  \* mutant: the end of a trip leaves it active
    CASE Merges(p, v, r) -> [v EXCEPT !.active = v.lastTrip, !.tripOdometer = r.distance]
      [] Opens(p, v, r)  -> [v EXCEPT !.active = nextTrip, !.tripOdometer = 0]
      [] Ends(p, v)      -> [v EXCEPT !.lastTrip = v.active, !.lastOff = p.time]
      [] OTHER           -> v
AfterTripLogic(p, v, r) ==
    CASE Merges(p, v, r) -> [v EXCEPT !.active = v.lastTrip, !.tripOdometer = r.distance]
      [] Opens(p, v, r)  -> [v EXCEPT !.active = nextTrip, !.tripOdometer = 0]
      [] Ends(p, v)      -> [v EXCEPT !.active = NoTrip, !.lastTrip = v.active, !.lastOff = p.time]
      [] OTHER           -> v

\* ... and after process_position has counted the distance.
AfterPosition(p, v, r) ==
    LET w == AfterTripLogic(p, v, r) IN
    [w EXCEPT !.totalOdometer = @ + p.moved,
              !.tripOdometer  = IF w.active = NoTrip THEN @ ELSE @ + p.moved]

\* The columns of old that a session which loaded seenRow and holds new writes.
Written(old, seenRow, new) ==
    [c \in DOMAIN old |-> IF new[c] = seenRow[c] THEN old[c] ELSE new[c]]

\* The row the session leaves of the trip it read.
EndedRow(p, v, r) == [r EXCEPT !.end = p.time, !.distance = v.tripOdometer]
TripRowAfterRestarted(p, v, r) ==  \* mutant: a merge starts the trip anew
    CASE r # Gone /\ Ends(p, v) -> EndedRow(p, v, r)
      [] Merges(p, v, r)        -> [r EXCEPT !.start = p.time, !.end = NoTime]
      [] OTHER                  -> r
TripRowAfter(p, v, r) ==
    CASE r # Gone /\ Ends(p, v) -> EndedRow(p, v, r)
      [] Merges(p, v, r)        -> [r EXCEPT !.end = NoTime]
      [] OTHER                  -> r

Deletes(p, v, r) == r # Gone /\ Ends(p, v) /\ TooShort(p, v, r)

-----------------------------------------------------------------------------
(* The session *)

\* A position of a known, enabled device in its protocol; what fails these
\* tests is dropped without a trace.
Load(s) ==
    /\ phase[s] = "idle"
    /\ \E p \in Position :
          /\ Ordered => p.time >= latest
          /\ state.totalOdometer + p.moved <= MaxDistance
          /\ pos' = [pos EXCEPT ![s] = p]
          /\ latest' = p.time
    /\ seen' = [seen EXCEPT ![s] = state]
    /\ phase' = [phase EXCEPT ![s] = "loaded"]
    /\ UNCHANGED <<state, trips, nextTrip, row>>

ReadTrip(s) ==
    /\ phase[s] = "loaded"
    /\ LET t == Wanted(pos[s], seen[s]) IN
       row' = [row EXCEPT ![s] = IF t \in DOMAIN trips THEN trips[t] ELSE Gone]
    /\ phase' = [phase EXCEPT ![s] = "read"]
    /\ UNCHANGED <<state, trips, nextTrip, pos, seen, latest>>

\* The trip the session updates is gone, or it would name a trip that is.
ConflictUnenforced(s) ==  \* mutant: foreign keys are not enforced
    LET t == Wanted(pos[s], seen[s]) IN
    /\ TripRowAfter(pos[s], seen[s], row[s]) # row[s] /\ ~Deletes(pos[s], seen[s], row[s])
    /\ t \notin DOMAIN trips
Conflict(s) ==
    LET p == pos[s]  v == seen[s]  r == row[s]
        t == Wanted(p, v)
        new == AfterPosition(p, v, r)
    IN \/ TripRowAfter(p, v, r) # r /\ ~Deletes(p, v, r) /\ t \notin DOMAIN trips
       \/ \E c \in {"active", "lastTrip"} :
             new[c] # v[c] /\ new[c] \notin DOMAIN trips \cup {NoTrip, nextTrip}

\* The commit.  A deleted trip is set to NULL in the row by its foreign keys.
Commit(s) ==
    LET p == pos[s]  v == seen[s]  r == row[s]
        t == Wanted(p, v)
        new == Written(state, v, AfterPosition(p, v, r))
        kept == DOMAIN trips \ (IF Deletes(p, v, r) THEN {t} ELSE {})
    IN
    /\ phase[s] = "read" /\ ~Conflict(s)
    /\ Opens(p, v, r) => nextTrip <= MaxTrips
    /\ state' = [c \in DOMAIN new |->
                   IF c \in {"active", "lastTrip"} /\ Deletes(p, v, r) /\ t \in DOMAIN trips /\ new[c] = t
                   THEN NoTrip ELSE new[c]]
    /\ nextTrip' = IF Opens(p, v, r) THEN nextTrip + 1 ELSE nextTrip
    /\ trips' = [u \in kept \cup (IF Opens(p, v, r) THEN {nextTrip} ELSE {}) |->
                   CASE u = nextTrip -> [start |-> p.time, end |-> NoTime, distance |-> 0]
                     [] u = t /\ u # nextTrip -> Written(trips[u], r, TripRowAfter(p, v, r))
                     [] OTHER -> trips[u]]
    /\ phase' = [phase EXCEPT ![s] = "idle"]
    /\ pos' = [pos EXCEPT ![s] = NoPosition]
    /\ seen' = [seen EXCEPT ![s] = NewState]
    /\ row' = [row EXCEPT ![s] = Gone]
    /\ UNCHANGED latest

\* The flush raises: everything is rolled back, the position is lost and
\* process_position_callback logs the error.
Rollback(s) ==
    /\ phase[s] = "read" /\ Conflict(s)
    /\ phase' = [phase EXCEPT ![s] = "idle"]
    /\ pos' = [pos EXCEPT ![s] = NoPosition]
    /\ seen' = [seen EXCEPT ![s] = NewState]
    /\ row' = [row EXCEPT ![s] = Gone]
    /\ UNCHANGED <<state, trips, nextTrip, latest>>

Next == \E s \in Session : Load(s) \/ ReadTrip(s) \/ Commit(s) \/ Rollback(s)

Spec == Init /\ [][Next]_vars

\* Sessions are alike.
Symmetry == Permutations(Session)

-----------------------------------------------------------------------------
(* One session at a time *)

\* A trip without an end is the active one and the active one has no end: the
\* reports and the map take any other for a vehicle still driving.
OnlyActiveTripOpen ==
    \A t \in DOMAIN trips : trips[t].end = NoTime <=> t = state.active

\* The distances of the trips come out of the odometer once: what is merged,
\* deleted or driven between trips is not counted into another trip.
DistancesAddUp ==
    LET counted(t) == IF t = state.active THEN state.tripOdometer ELSE trips[t].distance IN
    MapThenSumSet(counted, DOMAIN trips) <= state.totalOdometer

\* A trip that ended is in the reports only if it was long enough, also after
\* it was merged and ended again, and whichever sessions ended it.
StoredTripsValid ==
    \A t \in DOMAIN trips : trips[t].end # NoTime =>
        trips[t].distance >= MinDistance /\ trips[t].end - trips[t].start >= MinDuration
=============================================================================
