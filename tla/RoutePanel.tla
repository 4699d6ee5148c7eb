----------------------------- MODULE RoutePanel -----------------------------
(***************************************************************************)
(* The planned routes of the dashboard: the list the tab holds, the route  *)
(* selected for the selected vehicle, the panel with its pager, and the    *)
(* layer on the map, which gives way to the history of a vehicle.  Answers *)
(* of the server, messages of other tabs and of the socket and the user's  *)
(* clicks come in any order.  Other users and the server itself change the *)
(* routes at any time, so an answer may hold any routes.                   *)
(***************************************************************************)
EXTENDS Integers, FiniteSets, Sequences, SequencesExt, Functions

CONSTANTS
    MaxRoute,   \* routes are 1..MaxRoute
    RouteStates,\* bound: the vehicles and statuses the server's routes take
    RoutedVehicle, NoneSelected,
    NoRoute,    \* null: nothing selected, no panel, no layer
    MaxRouteCalls \* bound: requests of the tab under way

ASSUME RoutePanelAssumption ==
    /\ MaxRoute \in Nat /\ MaxRouteCalls \in Nat /\ NoneSelected \notin RoutedVehicle
    /\ RouteStates \subseteq [device : RoutedVehicle \cup {NoneSelected},
                               status : {"active", "paused", "planned", "completed"}]
    /\ NoRoute \notin [id : 1..MaxRoute, is : RouteStates]
    /\ NoRoute \notin [id : 1..MaxRoute, of : 1..MaxRoute]

VARIABLES
    routeList,      \* dashboardRoutes
    chosenVehicle,  \* selectedDevice
    chosenRoute,    \* selectedDashboardRoute
    routeIndex,     \* selectedDashboardRouteIndex
    routePanel,     \* the panel: the route it shows and the length of its pager
    routeLayer,     \* the route the layer on the map draws
    suppressed,     \* dashboardRouteLayerSuppressed
    stopsUpdating,  \* dashboardRouteUpdatingStops, by route
    routeCalls      \* requests under way

routePanelVars == <<routeList, chosenVehicle, chosenRoute, routeIndex, routePanel,
                    routeLayer, suppressed, stopsUpdating, routeCalls>>
routeView == <<chosenRoute, routeIndex, routePanel, routeLayer>>

RouteId == 1..MaxRoute
RouteStatus == <<"active", "paused", "planned", "completed">>
RouteOnMap == [id : RouteId, is : RouteStates]

RoutePanelTypeOK ==
    /\ DOMAIN routeList \subseteq RouteId /\ Range(routeList) \subseteq RouteStates
    /\ chosenVehicle \in RoutedVehicle \cup {NoneSelected}
    /\ chosenRoute = NoRoute \/ chosenRoute \in RouteOnMap
    /\ routeLayer = NoRoute \/ routeLayer \in RouteOnMap
    /\ routePanel = NoRoute \/ routePanel \in [id : RouteId, of : 1..MaxRoute]
    /\ routeIndex \in 0..MaxRoute /\ suppressed \in BOOLEAN
    /\ stopsUpdating \subseteq RouteId /\ Cardinality(routeCalls) <= MaxRouteCalls

RoutePanelInit ==
    /\ routeList = <<>> /\ chosenVehicle = NoneSelected /\ chosenRoute = NoRoute
    /\ routeIndex = 0 /\ routePanel = NoRoute /\ routeLayer = NoRoute
    /\ suppressed = FALSE /\ stopsUpdating = {} /\ routeCalls = {}

\* dashboardRoutesForDevice: the open routes of a vehicle by rank.  Routes of one
\* rank stand in the order of their identities for that of their last change.
Rank(s) == CHOOSE i \in DOMAIN RouteStatus : RouteStatus[i] = s.status
Before(L, a, b) == Rank(L[a]) < Rank(L[b]) \/ (Rank(L[a]) = Rank(L[b]) /\ a < b)
OpenRoutes(L, v) ==
    {r \in DOMAIN L : v # NoneSelected /\ L[r].device = v /\ L[r].status # "completed"}
RoutesForDevice(L, v) ==
    CHOOSE rs \in [1..Cardinality(OpenRoutes(L, v)) -> OpenRoutes(L, v)] :
        \A i, j \in DOMAIN rs : i < j => Before(L, rs[i], rs[j])
OnMap(L, r) == [id |-> r, is |-> L[r]]
AtMost(i, n) == IF i < n THEN i ELSE n
\* was: what the tab knew of the route when it asked.
RouteCall(kind, r, was) ==
    [kind |-> kind, route |-> r, was |-> was]
RoutesLoad(kind) == RouteCall(kind, 0, NoRoute)
RoutesAsked(calls) ==
    routeCalls' = calls /\ Cardinality(calls) <= MaxRouteCalls

\* renderDashboardRouteLayer, hidden while a history is on the map.
LayerDrawn(m) == routeLayer' = IF suppressed THEN NoRoute ELSE m

\* renderSelectedRoutePanel and renderDashboardRouteLayer of the i-th of rs.
NothingSelected ==
    chosenRoute' = NoRoute /\ routePanel' = NoRoute /\ routeLayer' = NoRoute
Rendered(L, rs, i) ==
    /\ routeIndex' = i
    /\ chosenRoute' = OnMap(L, rs[i + 1]) /\ LayerDrawn(OnMap(L, rs[i + 1]))
    /\ routePanel' = [id |-> rs[i + 1], of |-> Len(rs)]

\* selectedDashboardRouteForDevice: the selected route if the vehicle still has it,
\* otherwise the one at its place, and the panel and the layer of it.
SelectedForDevice(L, v) ==
    LET rs == RoutesForDevice(L, v)
        mine == {i \in DOMAIN rs : chosenRoute # NoRoute /\ rs[i] = chosenRoute.id}
    IN IF rs = <<>> THEN routeIndex' = 0 /\ NothingSelected
       ELSE Rendered(L, rs, IF mine # {} THEN (CHOOSE i \in mine : TRUE) - 1
                            ELSE AtMost(routeIndex, Len(rs) - 1))

\* renderDashboardRouteMutation: a changed route enters the list.
Mutated(r, s) ==
    LET L == [q \in DOMAIN routeList \cup {r} |-> IF q = r THEN s ELSE routeList[q]] IN
    /\ routeList' = L
    /\ IF s.device # NoneSelected /\ s.device = chosenVehicle
       THEN SelectedForDevice(L, chosenVehicle)
       ELSE UNCHANGED routeView

-----------------------------------------------------------------------------
\* A change of the server reaches the tab by the socket or by another tab.
RouteMessage(r, s) ==
    /\ Mutated(r, s)
    /\ UNCHANGED <<chosenVehicle, suppressed, stopsUpdating, routeCalls>>

-----------------------------------------------------------------------------
\* The user.

\* onDashboardDeviceSelectedForRoutes, from a click on a vehicle.
SelectVehicle(v) ==
    /\ chosenVehicle' = v /\ routeIndex' = 0
    /\ RoutesAsked(routeCalls \cup {RoutesLoad("refresh")})
    /\ UNCHANGED <<routeList, chosenRoute, routePanel, routeLayer, suppressed, stopsUpdating>>

\* refreshSelectedDashboardRoute, for a position of the selected vehicle.
PositionRefreshesRoute ==
    /\ chosenVehicle # NoneSelected /\ ~suppressed
    /\ RoutesAsked(routeCalls \cup {RoutesLoad("refresh")})
    /\ UNCHANGED <<routeList, chosenVehicle, routeView, suppressed, stopsUpdating>>

\* openDashboardRoutesModal.
OpenRoutesModal ==
    /\ RoutesAsked(routeCalls \cup {RoutesLoad("list")})
    /\ UNCHANGED <<routeList, chosenVehicle, routeView, suppressed, stopsUpdating>>

SelectRouteOffset(offset) ==
    /\ chosenVehicle # NoneSelected
    /\ LET rs == RoutesForDevice(routeList, chosenVehicle) IN
       IF rs = <<>> THEN routeIndex' = 0 /\ NothingSelected
       ELSE Rendered(routeList, rs, (routeIndex + offset + Len(rs)) % Len(rs))
    /\ UNCHANGED <<routeList, chosenVehicle, suppressed, stopsUpdating, routeCalls>>

CloseRoutePanel ==
    /\ routeIndex' = 0 /\ NothingSelected
    /\ UNCHANGED <<routeList, chosenVehicle, suppressed, stopsUpdating, routeCalls>>

\* showDashboardRouteOnMap: of an assigned route its vehicle is selected first.
ShowRouteOnMap(r) ==
    /\ r \in DOMAIN routeList
    /\ chosenRoute' = OnMap(routeList, r)
    /\ IF routeList[r].device # NoneSelected
       THEN /\ chosenVehicle' = routeList[r].device /\ routeIndex' = 0
            /\ RoutesAsked(routeCalls \cup {RouteCall("show", r, OnMap(routeList, r))})
            /\ UNCHANGED routeLayer
       ELSE /\ LayerDrawn(OnMap(routeList, r)) /\ UNCHANGED <<chosenVehicle, routeIndex, routeCalls>>
    /\ UNCHANGED <<routeList, routePanel, suppressed, stopsUpdating>>

\* The buttons of the list and of the panel.
StatusesOffered(s) ==
    CASE s.status = "planned" -> {"active"} [] s.status = "active" -> {"paused", "completed"}
      [] s.status = "paused" -> {"active", "completed"} [] OTHER -> {"planned"}
SetRouteStatus(r, status) ==
    /\ r \in DOMAIN routeList /\ status \in StatusesOffered(routeList[r])
    /\ RoutesAsked(routeCalls \cup {RouteCall(status, r, NoRoute)})
    /\ UNCHANGED <<routeList, chosenVehicle, routeView, suppressed, stopsUpdating>>

\* completeDashboardRouteStop, of the last stop.  While its update is under way a
\* second click sends no update and goes on to complete the route.
CompleteStop ==
    /\ routePanel # NoRoute /\ chosenRoute # NoRoute
    /\ chosenRoute.is.status = "active"
    /\ LET r == chosenRoute.id IN
       IF r \in stopsUpdating
       THEN RoutesAsked(routeCalls \cup {RouteCall("completed", r, NoRoute)}) /\ UNCHANGED stopsUpdating
       ELSE /\ stopsUpdating' = stopsUpdating \cup {r}
            /\ RoutesAsked(routeCalls \cup {RouteCall("stop", r, NoRoute)})
    /\ UNCHANGED <<routeList, chosenVehicle, routeView, suppressed>>

\* A history covers the map, and leaves it.
HideForHistory ==
    /\ suppressed' = TRUE /\ routeLayer' = NoRoute
    /\ UNCHANGED <<routeList, chosenVehicle, chosenRoute, routeIndex, routePanel, stopsUpdating, routeCalls>>

RestoreAfterHistory ==
    /\ suppressed /\ suppressed' = FALSE
    /\ IF chosenRoute # NoRoute
       THEN routeLayer' = chosenRoute /\ UNCHANGED <<chosenRoute, routeIndex, routePanel>>
       ELSE IF chosenVehicle = NoneSelected THEN NothingSelected /\ UNCHANGED routeIndex
       ELSE LET rs == RoutesForDevice(routeList, chosenVehicle) IN
            IF rs = <<>> THEN routeIndex' = 0 /\ NothingSelected
            ELSE LET i == AtMost(routeIndex, Len(rs) - 1) IN
                 /\ routeIndex' = i /\ chosenRoute' = OnMap(routeList, rs[i + 1])
                 /\ routeLayer' = chosenRoute' /\ routePanel' = [id |-> rs[i + 1], of |-> Len(rs)]
    /\ UNCHANGED <<routeList, chosenVehicle, stopsUpdating, routeCalls>>

\* removeDashboardRoute, when the server has deleted the route.
RouteRemoved(r) ==
    /\ r \in DOMAIN routeList
    /\ routeList' = Restrict(routeList, DOMAIN routeList \ {r})
    /\ IF chosenRoute # NoRoute /\ chosenRoute.id = r
       THEN NothingSelected /\ UNCHANGED routeIndex ELSE UNCHANGED routeView
    /\ UNCHANGED <<chosenVehicle, suppressed, stopsUpdating, routeCalls>>

-----------------------------------------------------------------------------
\* The answers.

\* loadDashboardRoutes: a failure empties the list.  After it the selection is
\* rendered, and after that a route the user wants to see.
RoutesLoaded(c, L) ==
    /\ c.kind \in {"refresh", "list"}
    /\ routeList' = L
    /\ IF c.kind = "refresh" THEN SelectedForDevice(L, chosenVehicle) ELSE UNCHANGED routeView
    /\ routeCalls' = routeCalls \ {c} /\ UNCHANGED stopsUpdating

RouteShown(c, L) ==
    /\ c.kind = "show"
    /\ routeList' = L
    /\ LET rs == RoutesForDevice(L, c.was.is.device)
           mine == RoutesForDevice(L, chosenVehicle)
           here == {i \in DOMAIN rs : rs[i] = c.route}
       IN /\ routeIndex' = IF here # {} THEN (CHOOSE i \in here : TRUE) - 1
                           ELSE IF mine = <<>> THEN 0 ELSE AtMost(routeIndex, Len(mine) - 1)
          /\ routePanel' = [id |-> c.route, of |-> IF rs = <<>> THEN 1 ELSE Len(rs)]
    /\ chosenRoute' = c.was /\ LayerDrawn(c.was)
    /\ routeCalls' = routeCalls \ {c} /\ UNCHANGED stopsUpdating

\* setDashboardRouteStatus: the route as the PUT left it; a refused one changes nothing.
StatusArrives(c, s) ==
    /\ c.kind = s.status
    /\ Mutated(c.route, s)
    /\ routeCalls' = routeCalls \ {c} /\ UNCHANGED stopsUpdating

\* updateDashboardRouteStop: the stop is completed and the routes are loaded again.
StopArrives(c) ==
    /\ c.kind = "stop"
    /\ routeCalls' = (routeCalls \ {c}) \cup {RouteCall("afterStop", c.route, NoRoute)}
    /\ UNCHANGED <<routeList, routeView, stopsUpdating>>

\* The load has come, and completeDashboardRouteStop completes the route.
AfterStop(c, L) ==
    /\ c.kind = "afterStop"
    /\ routeList' = L /\ SelectedForDevice(L, chosenVehicle)
    /\ stopsUpdating' = stopsUpdating \ {c.route}
    /\ routeCalls' = (routeCalls \ {c}) \cup {RouteCall("completed", c.route, NoRoute)}

RouteCallRefused(c) ==
    /\ c.kind \in ToSet(RouteStatus) \cup {"stop"}
    /\ stopsUpdating' = IF c.kind = "stop" THEN stopsUpdating \ {c.route} ELSE stopsUpdating
    /\ routeCalls' = routeCalls \ {c} /\ UNCHANGED <<routeList, routeView>>

RouteAnswerArrives(c) ==
    /\ \/ \E S \in SUBSET RouteId : \E L \in [S -> RouteStates] :
              RoutesLoaded(c, L) \/ RouteShown(c, L) \/ AfterStop(c, L)
       \/ \E s \in RouteStates : StatusArrives(c, s)
       \/ StopArrives(c) \/ RouteCallRefused(c)
    /\ UNCHANGED <<chosenVehicle, suppressed>>

RoutePanelNext ==
    \/ \E c \in routeCalls : RouteAnswerArrives(c)
    \/ \E r \in RouteId, s \in RouteStates : RouteMessage(r, s)
    \/ \E r \in RouteId : ShowRouteOnMap(r) \/ RouteRemoved(r)
    \/ \E v \in RoutedVehicle : SelectVehicle(v)
    \/ PositionRefreshesRoute \/ OpenRoutesModal \/ CloseRoutePanel \/ CompleteStop
    \/ \E offset \in {-1, 1} : SelectRouteOffset(offset)
    \/ \E r \in RouteId, status \in ToSet(RouteStatus) : SetRouteStatus(r, status)
    \/ HideForHistory \/ RestoreAfterHistory

-----------------------------------------------------------------------------
(* hideDashboardRouteLayerForHistory: whatever answer or message comes while *)
(* a history is on the map, no route is drawn over it.                      *)
HistoryHidesRoutes == suppressed => routeLayer = NoRoute

(* The panel, the selection and the map speak of one route, except between *)
(* the two halves of showing a route on the map.                           *)
Showing == \E c \in routeCalls : c.kind = "show"
OneRouteShown ==
    ~Showing /\ routePanel # NoRoute =>
        /\ chosenRoute # NoRoute
        /\ routeLayer \in {NoRoute, chosenRoute}

(* selectedDashboardRouteForDevice keeps the pager within the routes of the *)
(* vehicle, as routes are completed, moved or deleted under it.  Not so when*)
(* the user has gone on to another vehicle before a route asked for is      *)
(* shown: its panel then cuts the number it displays.                       *)
PagerInRange ==
    routePanel # NoRoute /\ chosenRoute # NoRoute /\ chosenRoute.is.device = chosenVehicle =>
        routeIndex < routePanel.of
=============================================================================
