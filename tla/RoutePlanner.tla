---------------------------- MODULE RoutePlanner ----------------------------
(***************************************************************************)
(* The route planner of the management page: the table of routes and their *)
(* buttons, the form with its stops, map and preview, and the update at    *)
(* the server, which tests that the route is not under way, computes the   *)
(* new geometry, and only then writes.  A stop is its place, and a list of *)
(* stops its own signature.  "active" stands for the locked statuses; the    *)
(* vehicle of a route is left out, and with it the draft, a planned route   *)
(* without one.                                                            *)
(***************************************************************************)
EXTENDS Integers, FiniteSets, Sequences, SequencesExt

CONSTANTS
    PlannedRoute, NoPlanned,    \* NoPlanned: no route, no geometry, no timer
    Place,
    MaxPlannedStops,            \* bound: stops of a route, each at a place of its own
    MaxPlannerCalls             \* bound: requests under way, previews apart

ASSUME RoutePlannerAssumption == NoPlanned \notin PlannedRoute /\ {MaxPlannedStops, MaxPlannerCalls} \subseteq Nat

VARIABLES
    plannedRoutes,  \* at the server: stops and status
    rpTable,        \* the status of the rows of the table
    rpOpen, rpEditing, rpStops, rpReadonly,
    rpDrawn,        \* the stops on the map, and those its line was computed for
    rpGeometry,     \* _rtpRouteGeometry: the stops it is of
    rpSignature,    \* _rtpRouteGeometrySignature
    rpWanted, rpTimer, rpPreviews,
    rpCalls         \* requests for a route, saves and deletes

routePlannerVars == <<plannedRoutes, rpTable, rpOpen, rpEditing, rpStops, rpReadonly, rpDrawn,
                      rpGeometry, rpSignature, rpWanted, rpTimer, rpPreviews, rpCalls>>
rpForm == <<rpEditing, rpStops, rpReadonly, rpDrawn, rpGeometry, rpSignature>>
rpPreviewing == <<rpWanted, rpTimer, rpPreviews>>

PlannedStops == {s \in UNION {[1..n -> Place] : n \in 0..MaxPlannedStops} : IsInjective(s)}
Status == {"planned", "active", "completed"}
Planned == [stops : {s \in PlannedStops : Len(s) >= 2}, status : Status]

RoutePlannerTypeOK ==
    /\ DOMAIN plannedRoutes \subseteq PlannedRoute /\ \A r \in DOMAIN plannedRoutes : plannedRoutes[r] \in Planned
    /\ DOMAIN rpTable \subseteq PlannedRoute /\ \A r \in DOMAIN rpTable : rpTable[r] \in Status
    /\ {rpOpen, rpReadonly} \subseteq BOOLEAN /\ rpEditing \in PlannedRoute \cup {NoPlanned}
    /\ rpStops \in PlannedStops /\ rpPreviews \subseteq PlannedStops /\ Cardinality(rpCalls) <= MaxPlannerCalls

RoutePlannerInit ==
    /\ plannedRoutes \in {[r \in S |-> p] : S \in SUBSET PlannedRoute,
                             p \in {q \in Planned : q.status = "planned"}}
    /\ rpTable = [r \in DOMAIN plannedRoutes |-> plannedRoutes[r].status]
    /\ rpOpen = FALSE /\ rpEditing = NoPlanned /\ rpStops = <<>> /\ rpReadonly = FALSE
    /\ rpDrawn = [stops |-> <<>>, line |-> <<>>] /\ rpGeometry = NoPlanned /\ rpSignature = <<>>
    /\ rpWanted = <<>> /\ rpTimer = NoPlanned /\ rpPreviews = {} /\ rpCalls = {}

-----------------------------------------------------------------------------
(* The map and the preview. *)
PlannedLine(stops, geometry, signature) ==
    IF Len(stops) < 2 THEN <<>> ELSE IF geometry # NoPlanned /\ signature = stops THEN geometry ELSE stops
\* rtpRefreshRouteMap
PlannerMap(stops, geometry, signature) ==
    /\ rpStops' = stops /\ rpGeometry' = geometry /\ rpSignature' = signature
    /\ rpDrawn' = [stops |-> stops, line |-> PlannedLine(stops, geometry, signature)]
\* rtpScheduleRoutePreview
PlannerPreview(stops) ==
    /\ UNCHANGED rpPreviews
    /\ IF Len(stops) < 2 THEN UNCHANGED <<rpWanted, rpTimer>> ELSE rpWanted' = stops /\ rpTimer' = stops

PlannerPreviewAsked ==
    /\ rpTimer # NoPlanned /\ rpTimer' = NoPlanned /\ rpPreviews' = rpPreviews \cup {rpTimer}
    /\ Cardinality(rpPreviews') <= MaxPlannerCalls
    /\ UNCHANGED <<plannedRoutes, rpTable, rpOpen, rpForm, rpWanted, rpCalls>>
\* One that fails, or is no longer wanted, leaves the straight line.
PlannerPreviewArrives(stops) ==
    /\ rpPreviews' = rpPreviews \ {stops}
    /\ \/ UNCHANGED rpForm
       \/ /\ rpWanted = stops /\ PlannerMap(rpStops, stops, stops)
          /\ UNCHANGED <<rpEditing, rpReadonly>>
    /\ UNCHANGED <<plannedRoutes, rpTable, rpOpen, rpWanted, rpTimer, rpCalls>>

-----------------------------------------------------------------------------
(* The form. *)
\* rtpClearRouteForm refreshes a map without stops.
PlannerCleared ==
    /\ rpEditing' = NoPlanned /\ rpReadonly' = FALSE
    /\ PlannerMap(<<>>, NoPlanned, <<>>)

PlannerCall(kind, route) ==
    [kind |-> kind, route |-> route, stops |-> rpStops, status |-> "none", seen |-> "unchecked"]
PlannerAsks(call) == rpCalls' = rpCalls \cup {call} /\ Cardinality(rpCalls') <= MaxPlannerCalls

\* rtpOpenRouteModal once the vehicles are there: the window shows the form it had until
\* the route arrives.
OpenPlannedRoute(route) ==
    /\ rpOpen' = TRUE
    /\ IF route = NoPlanned THEN PlannerCleared /\ UNCHANGED rpCalls
       ELSE PlannerAsks([PlannerCall("get", route) EXCEPT !.stops = <<>>]) /\ UNCHANGED rpForm
    /\ UNCHANGED <<plannedRoutes, rpTable, rpPreviewing>>

\* Every stop added asks for a preview, also of a route that can only be viewed.
RouteArrives(call) ==
    LET route == plannedRoutes[call.route] IN
    /\ call.kind = "get" /\ call.route \in DOMAIN plannedRoutes /\ rpCalls' = rpCalls \ {call}
    /\ rpEditing' = call.route /\ rpReadonly' = (route.status = "active")
    /\ \E geometry \in {NoPlanned, route.stops} : PlannerMap(route.stops, geometry, route.stops)
    /\ PlannerPreview(route.stops)
    /\ UNCHANGED <<plannedRoutes, rpTable, rpOpen>>

StopsEdited(stops) ==
    /\ rpOpen /\ ~rpReadonly /\ stops # rpStops /\ stops \in PlannedStops
    /\ PlannerMap(stops, rpGeometry, rpSignature) /\ PlannerPreview(stops)
    /\ UNCHANGED <<plannedRoutes, rpTable, rpOpen, rpEditing, rpReadonly, rpCalls>>
AddStop == \E p \in Place : Len(rpStops) < MaxPlannedStops /\ StopsEdited(Append(rpStops, p))
DragStop == \E i \in DOMAIN rpStops, p \in Place : StopsEdited([rpStops EXCEPT ![i] = p])
RemoveStop == \E i \in DOMAIN rpStops : StopsEdited(RemoveAt(rpStops, i))
MoveStop ==
    \E i \in 1..(Len(rpStops) - 1) : StopsEdited([rpStops EXCEPT ![i] = rpStops[i + 1], ![i + 1] = rpStops[i]])
NewRoute ==
    /\ rpOpen /\ ~rpReadonly /\ PlannerCleared
    /\ UNCHANGED <<plannedRoutes, rpTable, rpOpen, rpPreviewing, rpCalls>>
ClosePlanner ==
    /\ rpOpen /\ rpOpen' = FALSE
    /\ UNCHANGED <<plannedRoutes, rpTable, rpForm, rpPreviewing, rpCalls>>

\* rtpSaveRoute: a route that the table has as planned, and a new one, is saved as planned.
SavePlannedRoute ==
    LET listed == IF rpEditing \in DOMAIN rpTable THEN rpTable[rpEditing] ELSE "planned"
    IN /\ rpOpen /\ ~rpReadonly /\ Len(rpStops) >= 2
       /\ PlannerAsks([PlannerCall("save", rpEditing) EXCEPT
                   !.status = IF listed = "planned" THEN "planned" ELSE "none"])
       /\ UNCHANGED <<plannedRoutes, rpTable, rpOpen, rpForm, rpPreviewing>>
DeletePlannedRoute ==
    /\ rpOpen /\ rpEditing # NoPlanned
    /\ PlannerAsks([PlannerCall("delete", rpEditing) EXCEPT !.stops = <<>>])
    /\ UNCHANGED <<plannedRoutes, rpTable, rpOpen, rpForm, rpPreviewing>>

-----------------------------------------------------------------------------
(* The server, and its answers. *)
\* update_route loads the route and tests its status; the status it saw stays with it.
UpdateChecked(call) ==
    /\ call.kind = "save" /\ call.seen = "unchecked" /\ call.route \in DOMAIN plannedRoutes
    /\ plannedRoutes[call.route].status # "active"
    /\ rpCalls' = (rpCalls \ {call}) \cup {[call EXCEPT !.seen = plannedRoutes[call.route].status]}
    /\ UNCHANGED <<plannedRoutes, rpTable, rpOpen, rpForm, rpPreviewing>>

\* Success clears and closes whatever the form has by now.
PlannerDone(call) == rpCalls' = rpCalls \ {call} /\ rpOpen' = FALSE /\ PlannerCleared
\* A status that did not change is not written, so one that came meanwhile stays.
RouteUpdated(call) ==
    LET route == plannedRoutes[call.route] IN
    /\ call.kind = "save" /\ call.seen # "unchecked" /\ call.route \in DOMAIN plannedRoutes
    /\ plannedRoutes' = [plannedRoutes EXCEPT ![call.route] =
          [stops |-> call.stops,
           status |-> IF call.status \in {"none", call.seen} THEN route.status ELSE call.status]]
    /\ PlannerDone(call) /\ UNCHANGED <<rpTable, rpPreviewing>>
RouteCreated(call) ==
    /\ call.kind = "save" /\ call.route = NoPlanned
    /\ \E r \in PlannedRoute \ DOMAIN plannedRoutes :
          plannedRoutes' = [q \in DOMAIN plannedRoutes \cup {r} |->
             IF q = r THEN [stops |-> call.stops, status |-> call.status] ELSE plannedRoutes[q]]
    /\ PlannerDone(call) /\ UNCHANGED <<rpTable, rpPreviewing>>
RouteDeleted(call) ==
    /\ call.kind = "delete" /\ call.route \in DOMAIN plannedRoutes
    /\ plannedRoutes' = [q \in DOMAIN plannedRoutes \ {call.route} |-> plannedRoutes[q]]
    /\ PlannerDone(call) /\ UNCHANGED <<rpTable, rpPreviewing>>
\* Refused, failed, or the route is gone: the form stays.
PlannerCallFails(call) ==
    /\ rpCalls' = rpCalls \ {call}
    /\ UNCHANGED <<plannedRoutes, rpTable, rpOpen, rpForm, rpPreviewing>>

\* rtpLoadRoutes, after each change and when the section is opened.
RoutesListed ==
    /\ rpTable' = [r \in DOMAIN plannedRoutes |-> plannedRoutes[r].status] /\ rpTable' # rpTable
    /\ UNCHANGED <<plannedRoutes, rpOpen, rpForm, rpPreviewing, rpCalls>>
\* The buttons of a row, as its status in the table offers them.
Offered(status) ==
    CASE status = "planned" -> "active" [] status = "active" -> "completed" [] OTHER -> "planned"
SetPlannedStatus(r) ==
    /\ r \in DOMAIN plannedRoutes /\ plannedRoutes' = [plannedRoutes EXCEPT ![r].status = Offered(rpTable[r])]
    /\ UNCHANGED <<rpTable, rpOpen, rpForm, rpPreviewing, rpCalls>>

RoutePlannerNext ==
    \/ \E r \in DOMAIN rpTable \cup {NoPlanned} : OpenPlannedRoute(r)
    \/ AddStop \/ DragStop \/ RemoveStop \/ MoveStop \/ NewRoute \/ ClosePlanner
    \/ SavePlannedRoute \/ DeletePlannedRoute \/ RoutesListed \/ PlannerPreviewAsked
    \/ \E stops \in rpPreviews : PlannerPreviewArrives(stops)
    \/ \E call \in rpCalls :
          RouteArrives(call) \/ UpdateChecked(call) \/ RouteUpdated(call) \/ RouteCreated(call)
          \/ RouteDeleted(call) \/ PlannerCallFails(call)
    \/ \E r \in DOMAIN rpTable : SetPlannedStatus(r)

-----------------------------------------------------------------------------
\* The map shows the stops of the form, and no line that was computed for other stops,
\* however late the preview or the route comes; a form that may only be viewed is of a route.
RoutePlannerSound ==
    /\ rpDrawn.stops = rpStops
    /\ rpDrawn.line = IF Len(rpStops) < 2 THEN <<>> ELSE rpStops
    /\ rpReadonly => rpEditing # NoPlanned
=============================================================================
