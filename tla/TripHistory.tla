----------------------------- MODULE TripHistory -----------------------------
(***************************************************************************)
(* TripLifecycle with a record of what was driven and deleted while device *)
(* times came in order, to say what holds of the trips then: no driving is *)
(* lost and trips follow one another.                                      *)
(***************************************************************************)
EXTENDS TripLifecycle

VARIABLES
    inOrder,   \* device times have not gone back
    driven,    \* times of the positions with ignition on that were not debounced
    discarded  \* the trips that were deleted

historyVars == <<vars, inOrder, driven, discarded>>

HistoryInit == Init /\ inOrder = TRUE /\ driven = {} /\ discarded = {}

\* The record follows the commits of process_position.
HistoryNext ==
    /\ Next
    /\ inOrder' = (inOrder /\ latest' >= latest)
    /\ LET done == {s \in Session : inOrder' /\ phase[s] = "read" /\ phase'[s] = "idle"}
           counted(s) == pos[s].ignition = "on" /\ (seen[s].active # NoTrip \/ state'.active # NoTrip)
           kept(record) == IF inOrder' THEN record ELSE {}
       IN
       /\ driven' = kept(driven) \cup {pos[s].time : s \in {s \in done : counted(s)}}
       /\ discarded' = kept(discarded) \cup
             {EndedRow(pos[s], seen[s], row[s]) : s \in {s \in done : Deletes(pos[s], seen[s], row[s])}}

HistorySpec == HistoryInit /\ [][HistoryNext]_historyVars

-----------------------------------------------------------------------------
(* One session at a time, while device times are in order *)

\* Trips follow one another: none starts before the last one has ended.
TripsDisjoint ==
    inOrder => \A t, u \in DOMAIN trips : t < u =>
        trips[t].end # NoTime /\ trips[t].end <= trips[u].start

\* Only the last trip is continued, with the start and distance it had, no
\* later than the merge gap after its end and no sooner than the debounce.
MergesContinueTheLast ==
    [][inOrder => \A t \in DOMAIN trips \cap DOMAIN trips' :
          (trips[t].end # NoTime /\ trips'[t].end = NoTime) =>
              /\ t = state.lastTrip /\ \A u \in DOMAIN trips : u <= t
              /\ trips'[t] = [trips[t] EXCEPT !.end = NoTime]
              /\ latest - trips[t].end \in Debounce..MergeGap]_historyVars

\* Every position with the ignition on that was not debounced lies within a
\* trip, stored or deleted as too short.
NothingDrivenIsLost ==
    \A x \in driven :
        \E r \in {trips[t] : t \in DOMAIN trips} \cup discarded :
            r.start <= x /\ (r.end = NoTime \/ x <= r.end)

\* A trip with enough distance whose positions already span the minimum
\* duration is not deleted.
LongTripsAreKept ==
    [][inOrder => \A t \in DOMAIN trips \ DOMAIN trips' :
          \/ state.tripOdometer < MinDistance
          \/ \A x \in driven : x - trips[t].start < MinDuration]_historyVars
=============================================================================
