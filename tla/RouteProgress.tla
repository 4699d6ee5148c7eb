--------------------------- MODULE RouteProgress ---------------------------
(***************************************************************************)
(* A route of a vehicle as its positions advance it: the rows of the route *)
(* and of its stops, how long the vehicle dwells at a stop, which is kept  *)
(* in memory, the transaction of one position, and the operators'          *)
(* requests, each of which reads the rows, awaits and writes what it       *)
(* changed.  A stop is its place in the sequence, a position the stops in  *)
(* whose radius it lies, and time the age of a dwell up to what is asked.  *)
(* The positions of the vehicle come over one connection, one at a time.   *)
(***************************************************************************)
EXTENDS Integers, FiniteSets

CONSTANTS
    NStops,         \* the stops are 1 to NStops
    Dwell,          \* dwell_seconds of each stop, in ticks
    Places,         \* the sets of stops a position may be at
    MaxRequests,    \* bound: requests of operators
    MaxRollbacks    \* bound: transactions of positions the database rolls back

Stops == 1..NStops

ASSUME RouteProgressAssumption ==
    /\ NStops \in Nat \ {0} /\ Dwell \in [Stops -> Nat] /\ Places \subseteq SUBSET Stops
    /\ {MaxRequests, MaxRollbacks} \subseteq Nat

VARIABLES
    route,      \* the row of the route and the status of each stop
    where,      \* the place of the vehicle
    dwell,      \* _route_dwell_state of the route: age and arrived_sent of each stop
    session,    \* the transaction of the position being processed
    request,    \* the operator's request under way
    toTrigger,  \* trigger tasks created for a completed route and not begun
    last,       \* the stop that the last position processed was at, 0 if at none
    requests, rollbacks     \* what the bounds have used

routeVars == <<route, where, dwell, session, request, toTrigger, last, requests, rollbacks>>

\* "started" and "in_progress" are active too; a draft has no vehicle.
RouteStatus == {"planned", "active", "paused", "completed", "cancelled", "deleted"}
StopStatus == {"pending", "arrived", "completed"}
Route == [status : RouteStatus, stops : [Stops -> StopStatus]]

NoDwell == [age |-> -1, arrivedSent |-> FALSE]
Entered == [age |-> 0, arrivedSent |-> FALSE]
NoneDwelling == [s \in Stops |-> NoDwell]

Idle == [phase |-> "idle"]
InSession == [phase : {"loaded", "arrived", "written"}, copy : Route, stop : 0..NStops, gone : BOOLEAN]
NoRequest == [kind |-> "none"]
Request == [kind : {"status"}, to : RouteStatus, copy : Route]
           \cup [kind : {"stop"}, stop : Stops, to : StopStatus, copy : Route]
           \cup [kind : {"stops"}]

RouteProgressTypeOK ==
    /\ route \in Route /\ where \in Places
    /\ dwell \in [Stops -> [age : Int, arrivedSent : BOOLEAN]]
    /\ session = Idle \/ session \in InSession
    /\ request = NoRequest \/ request \in Request
    /\ toTrigger \in Nat /\ last \in 0..NStops
    /\ requests \in 0..MaxRequests /\ rollbacks \in 0..MaxRollbacks

RouteProgressInit ==
    /\ route \in [status : {"planned", "active"}, stops : {[s \in Stops |-> "pending"]}]
    /\ where \in Places /\ dwell = NoneDwelling
    /\ session = Idle /\ request = NoRequest /\ toTrigger = 0 /\ last = 0
    /\ requests = 0 /\ rollbacks = 0

-----------------------------------------------------------------------------
\* The vehicle and the clock.

Move(p) ==
    /\ p # where /\ route.status # "deleted" /\ where' = p
    /\ UNCHANGED <<route, dwell, session, request, toTrigger, last, requests, rollbacks>>

Older(d, s) == IF d.age \in 0..(Dwell[s] - 1) THEN [d EXCEPT !.age = @ + 1] ELSE d
Tick ==
    /\ dwell' = [s \in Stops |-> Older(dwell[s], s)] /\ dwell' # dwell
    /\ UNCHANGED <<route, where, session, request, toTrigger, last, requests, rollbacks>>

-----------------------------------------------------------------------------
\* process_route_progress_for_position, one position after the other.

\* _point_at_position: the first open stop the position is at.
OpenAt(r, at) == {s \in at : r.stops[s] # "completed"}
PointAtPosition(r, at) ==
    IF OpenAt(r, at) = {} THEN 0 ELSE CHOOSE s \in OpenAt(r, at) : \A q \in OpenAt(r, at) : s <= q

\* A position is reported, the active routes of the vehicle are read and the
\* stop is chosen.  gone: the rows it read were deleted in the meantime.
LoadRoute ==
    /\ session = Idle /\ route.status = "active"
    /\ session' = [phase |-> "loaded", copy |-> route, stop |-> PointAtPosition(route, where), gone |-> FALSE]
    /\ UNCHANGED <<route, where, dwell, request, toTrigger, last, requests, rollbacks>>

\* _clear_dwell_state, keeping one stop or (0) none, and setdefault for that stop.
Begun(s) == IF dwell[s] = NoDwell THEN Entered ELSE dwell[s]
KeptNone(s) == [q \in Stops |-> IF q = s THEN Entered ELSE NoDwell]
Kept(s) == [q \in Stops |-> IF q = s THEN Begun(q) ELSE NoDwell]

PositionOutside ==
    /\ session # Idle /\ session.stop = 0
    /\ dwell' = Kept(0) /\ last' = 0 /\ session' = Idle
    /\ UNCHANGED <<route, where, request, toTrigger, requests, rollbacks>>

\* A pending stop is reached: the row is flushed, which locks it until the
\* commit; the flush of a row that is gone fails.
Reached(s) == session.copy.stops[s] = "pending" /\ ~Kept(s)[s].arrivedSent
Arrive(s) ==
    /\ session # Idle /\ session.phase = "loaded" /\ session.stop = s /\ Reached(s)
    /\ dwell' = [Kept(s) EXCEPT ![s].arrivedSent = TRUE] /\ last' = s
    /\ session' = IF session.gone THEN Idle
                  ELSE [session EXCEPT !.phase = "arrived", !.copy.stops[s] = "arrived"]
    /\ UNCHANGED <<route, where, request, toTrigger, requests, rollbacks>>

AtStop(s) ==
    /\ session # Idle /\ session.stop = s
    /\ session.phase = "arrived" \/ (session.phase = "loaded" /\ ~Reached(s))

\* The dwell is not over: nothing more to write.
StayAtStop(s) ==
    /\ AtStop(s) /\ dwell' = Kept(s) /\ dwell'[s].age < Dwell[s] /\ last' = s
    /\ session' = IF session.phase = "arrived" THEN [session EXCEPT !.phase = "written"] ELSE Idle
    /\ UNCHANGED <<route, where, request, toTrigger, requests, rollbacks>>

\* The dwell is over: the stop is completed, and the route with its final stop.
CompleteStop(s) ==
    /\ AtStop(s) /\ Kept(s)[s].age >= Dwell[s]
    /\ dwell' = [Kept(s) EXCEPT ![s] = NoDwell] /\ last' = s
    /\ session' = IF session.gone THEN Idle
                  ELSE [session EXCEPT !.phase = "written", !.copy.stops[s] = "completed",
                                       !.copy.status = IF s = NStops THEN "completed" ELSE @]
    /\ UNCHANGED <<route, where, request, toTrigger, requests, rollbacks>>

\* The commit writes what the position changed; only then are the reports of a
\* completed route triggered.
CommitProgress ==
    /\ session # Idle /\ session.phase = "written"
    /\ route' = [route EXCEPT !.stops[session.stop] = session.copy.stops[session.stop],
                              !.status = IF session.copy.status = "completed" THEN "completed" ELSE @]
    /\ toTrigger' = toTrigger + (IF session.copy.status = "completed" THEN 1 ELSE 0)
    /\ session' = Idle
    /\ UNCHANGED <<where, dwell, request, last, requests, rollbacks>>

\* The database fails: the rows stay, and so does what is kept in memory.
Rollback ==
    /\ session # Idle /\ session.phase # "loaded" /\ rollbacks < MaxRollbacks
    /\ rollbacks' = rollbacks + 1 /\ session' = Idle
    /\ UNCHANGED <<route, where, dwell, request, toTrigger, last, requests>>

-----------------------------------------------------------------------------
\* The operators' requests: the rows are read and checked, then awaits follow,
\* then what the request changed is written.

Ask(r) ==
    /\ request = NoRequest /\ requests < MaxRequests /\ route.status # "deleted"
    /\ requests' = requests + 1 /\ request' = r
    /\ UNCHANGED <<route, where, dwell, session, toTrigger, last, rollbacks>>

\* update_route with a status, update_stop_status, and update_route with stops,
\* which is refused while the route is started or paused.
AskStatus(to) == Ask([kind |-> "status", to |-> to, copy |-> route])
AskStop(s, to) == Ask([kind |-> "stop", stop |-> s, to |-> to, copy |-> route])
AskStops == route.status \notin {"active", "paused"} /\ Ask([kind |-> "stops"])

\* A write waits for the transaction that holds the rows.
RowsFree == session = Idle \/ session.phase = "loaded"

\* Only a column whose value differs from the one read is written; a finished
\* route that is taken up again has its stops reset.
Finished == {"completed", "cancelled"}
WriteStatus ==
    /\ request.kind = "status" /\ RowsFree /\ request' = NoRequest
    /\ LET reset == request.copy.status \in Finished /\ request.to \notin Finished
       IN route' = [status |-> IF request.to = request.copy.status THEN route.status ELSE request.to,
                    stops |-> [s \in Stops |-> IF reset /\ request.copy.stops[s] # "pending"
                                               THEN "pending" ELSE route.stops[s]]]
    /\ UNCHANGED <<where, dwell, session, toTrigger, last, requests, rollbacks>>

WriteStop ==
    /\ request.kind = "stop" /\ RowsFree /\ request' = NoRequest
    /\ route' = IF request.to = request.copy.stops[request.stop] THEN route
                ELSE [route EXCEPT !.stops[request.stop] = request.to]
    /\ UNCHANGED <<where, dwell, session, toTrigger, last, requests, rollbacks>>

\* The stops are deleted and inserted anew; the database may give the new rows
\* the old numbers, under which the dwell is kept.
WriteStops ==
    /\ request.kind = "stops" /\ RowsFree /\ request' = NoRequest
    /\ route' = [route EXCEPT !.stops = [s \in Stops |-> "pending"]]
    /\ \E reused \in BOOLEAN :
         /\ dwell' = IF reused THEN dwell ELSE NoneDwelling
         /\ session' = IF reused \/ session = Idle THEN session ELSE [session EXCEPT !.gone = TRUE]
    /\ UNCHANGED <<where, toTrigger, last, requests, rollbacks>>

\* delete_route has no await between its read and its write.
DeleteRoute ==
    /\ route.status # "deleted" /\ request = NoRequest /\ RowsFree /\ requests < MaxRequests
    /\ route' = [route EXCEPT !.status = "deleted"] /\ requests' = requests + 1
    /\ session' = IF session = Idle THEN Idle ELSE [session EXCEPT !.gone = TRUE]
    /\ UNCHANGED <<where, dwell, request, toTrigger, last, rollbacks>>

\* The server stops and starts: all it kept in memory is lost.
RestartRoutes ==
    /\ dwell' = NoneDwelling /\ session' = Idle /\ request' = NoRequest /\ toTrigger' = 0 /\ last' = 0
    /\ UNCHANGED <<route, where, requests, rollbacks>>

Process == \/ LoadRoute \/ PositionOutside \/ CommitProgress
           \/ \E s \in Stops : Arrive(s) \/ StayAtStop(s) \/ CompleteStop(s)
WriteRequest == WriteStatus \/ WriteStop \/ WriteStops
Operate == \/ \E to \in RouteStatus \ {"deleted"} : AskStatus(to)
           \/ \E s \in Stops, to \in StopStatus : AskStop(s, to)
           \/ AskStops \/ WriteRequest \/ DeleteRoute

RouteProgressNext == (\E p \in Places : Move(p)) \/ Tick \/ Process \/ Rollback \/ Operate

-----------------------------------------------------------------------------
\* The dwell kept in memory is one uninterrupted stay: whatever is kept of a
\* stop, the last position handled was at that stop (_clear_dwell_state).
DwellIsOneStay == \A s \in Stops : dwell[s] # NoDwell => last = s

\* A vehicle that stays at the final stop of an active route does not leave it
\* open for ever, whatever was rolled back, edited or restarted before, unless
\* an operator has closed that stop himself.
NeverStuck ==
    \A p \in Places : NStops \in p =>
        ~<>[](route.status = "active" /\ where = p /\ route.stops[NStops] # "completed")
=============================================================================
