---------------------------- MODULE RouteEditor ----------------------------
(***************************************************************************)
(* The editor of a planned route on the dashboard: the rows of its stops,  *)
(* the map that draws them with the geometry of a preview, the timer and   *)
(* the requests of the preview, and saving and deleting.  A stop is its    *)
(* place: the signature of a list of stops is the list of their places.    *)
(***************************************************************************)
EXTENDS Integers, FiniteSets, Sequences, SequencesExt

CONSTANTS
    EditedRoutes,   \* the routes of the list
    StopPlaces,     \* places of stops
    NoneOpen,       \* null: no route, no geometry, no timer
    MaxStops,       \* bound: stops of a route
    MaxPreviews     \* bound: previews under way

ASSUME RouteEditorAssumption ==
    NoneOpen \notin EditedRoutes /\ {MaxStops, MaxPreviews} \subseteq Nat

StopLists == UNION {[1..n -> StopPlaces] : n \in 0..MaxStops}

VARIABLES
    stored,         \* the listed routes: stops, and whether only to be viewed
    editorOpen, editorRoute,    \* dashboardRouteEditorId, NoneOpen for a new route
    editorRows,     \* the stops of the rows
    editorReadonly, \* dashboardRouteEditorReadonlyState
    editorMap,      \* the editor has its Leaflet map
    editorDrawn,    \* what the map shows: stops and the geometry of the line
    editorGeometry, \* dashboardRouteEditorGeometry: for what stops, and its signature
    previewWanted,  \* dashboardRouteEditorPreviewSignature
    previewTimer, previewCalls,
    fitDue,         \* the refresh 100 ms after the map is created
    editorCalls     \* saves and deletes under way

routeEditorVars ==
    <<stored, editorOpen, editorRoute, editorRows, editorReadonly, editorMap, editorDrawn,
      editorGeometry, previewWanted, previewTimer, previewCalls, fitDue, editorCalls>>
previewVars == <<previewWanted, previewTimer>>

RouteEditorTypeOK ==
    /\ DOMAIN stored \subseteq EditedRoutes
    /\ {editorOpen, editorReadonly, editorMap, fitDue} \subseteq BOOLEAN
    /\ editorRoute \in EditedRoutes \cup {NoneOpen} /\ editorRows \in StopLists
    /\ editorDrawn.stops \in StopLists /\ Cardinality(previewCalls) <= MaxPreviews
    /\ \A c \in editorCalls : c.kind \in {"save", "delete"}

\* A route with fewer than two stops is never saved.
RouteEditorInit ==
    /\ stored \in [EditedRoutes -> [stops : {s \in StopLists : Len(s) >= 2}, viewOnly : BOOLEAN]]
    /\ editorOpen = FALSE /\ editorRoute = NoneOpen /\ editorRows = <<>> /\ editorReadonly = FALSE
    /\ editorMap = FALSE /\ editorDrawn = [stops |-> <<>>, line |-> <<>>]
    /\ editorGeometry = NoneOpen /\ previewWanted = <<>> /\ previewTimer = NoneOpen
    /\ previewCalls = {} /\ fitDue = FALSE /\ editorCalls = {}

\* The line follows the geometry when its signature is that of the rows.
LineOfAny(rows, geometry) == IF geometry # NoneOpen THEN geometry.of ELSE rows
LineOf(rows, geometry) ==
    IF geometry # NoneOpen /\ geometry.signature = rows THEN geometry.of ELSE rows

\* scheduleDashboardRouteEditorPreview, which replaces the timer.
Scheduled(rows, readonly) ==
    IF readonly \/ Len(rows) < 2 THEN UNCHANGED previewVars
    ELSE previewTimer' = rows /\ previewWanted' = rows

\* refreshDashboardRouteEditorMap.
MapRefreshed(rows, geometry, readonly) ==
    /\ editorDrawn' = [stops |-> rows, line |-> LineOf(rows, geometry)]
    /\ Scheduled(rows, readonly)

\* openDashboardRouteEditor.  Every stop that is added refreshes the map, still with
\* the geometry and the mode of the last editor.  The map is created once: creating
\* it again raises an error, and the refresh that would follow is left out.
OpenRouteEditor(r) ==
    LET rows == IF r = NoneOpen THEN <<>> ELSE stored[r].stops IN
    /\ r \in DOMAIN stored \cup {NoneOpen}
    /\ editorOpen' = TRUE /\ editorRoute' = r /\ editorRows' = rows
    /\ editorReadonly' = (r # NoneOpen /\ stored[r].viewOnly)
    /\ editorGeometry' \in IF r = NoneOpen THEN {NoneOpen}
                           ELSE {NoneOpen, [of |-> rows, signature |-> rows]}
    /\ IF editorMap /\ rows # <<>> THEN MapRefreshed(rows, editorGeometry, editorReadonly)
       ELSE UNCHANGED <<editorDrawn, previewVars>>
    /\ editorMap' = TRUE /\ fitDue' = (fitDue \/ ~editorMap)
    /\ UNCHANGED <<stored, previewCalls, editorCalls>>

FitRefresh ==
    /\ fitDue /\ fitDue' = FALSE
    /\ MapRefreshed(editorRows, editorGeometry, editorReadonly)
    /\ UNCHANGED <<stored, editorOpen, editorRoute, editorRows, editorReadonly, editorMap,
                   editorGeometry, previewCalls, editorCalls>>

CloseRouteEditor ==
    /\ editorOpen' = FALSE
    /\ UNCHANGED <<stored, editorRoute, editorRows, editorReadonly, editorMap, editorDrawn,
                   editorGeometry, previewVars, previewCalls, fitDue, editorCalls>>

\* A click on the map adds a stop; rows are dragged and removed, markers are moved.
RowsEdited(rows) ==
    /\ editorOpen /\ ~editorReadonly /\ rows # editorRows /\ editorRows' = rows
    /\ MapRefreshed(rows, editorGeometry, editorReadonly)
    /\ UNCHANGED <<stored, editorOpen, editorRoute, editorReadonly, editorMap, editorGeometry,
                   previewCalls, fitDue, editorCalls>>
AddRouteStop == \E p \in StopPlaces : Len(editorRows) < MaxStops /\ RowsEdited(Append(editorRows, p))
MoveRouteStop == \E i \in DOMAIN editorRows, p \in StopPlaces : RowsEdited([editorRows EXCEPT ![i] = p])
RemoveRouteStop == \E i \in DOMAIN editorRows : RowsEdited(RemoveAt(editorRows, i))
DragRouteStop ==
    \E i, j \in DOMAIN editorRows :
        RowsEdited(InsertAt(RemoveAt(editorRows, i), j, editorRows[i]))

\* The status of a route changes elsewhere; an open editor keeps its mode.
RouteLocked(r) ==
    /\ r \in DOMAIN stored /\ stored' = [stored EXCEPT ![r].viewOnly = ~@]
    /\ UNCHANGED <<editorOpen, editorRoute, editorRows, editorReadonly, editorMap, editorDrawn,
                   editorGeometry, previewVars, previewCalls, fitDue, editorCalls>>

\* The timer asks for a preview of the stops it was set with.
PreviewAsked ==
    /\ previewTimer # NoneOpen /\ previewTimer' = NoneOpen
    /\ previewCalls' = previewCalls \cup {previewTimer} /\ Cardinality(previewCalls') <= MaxPreviews
    /\ UNCHANGED <<stored, editorOpen, editorRoute, editorRows, editorReadonly, editorMap,
                   editorDrawn, editorGeometry, previewWanted, fitDue, editorCalls>>

\* A preview that is no longer wanted, or that fails, is dropped.
PreviewArrives(rows) ==
    /\ rows \in previewCalls /\ previewCalls' = previewCalls \ {rows}
    /\ \/ UNCHANGED <<editorGeometry, editorDrawn>>
       \/ /\ previewWanted = rows
          /\ editorGeometry' = [of |-> rows, signature |-> rows]
          /\ editorDrawn' = [stops |-> editorRows, line |-> LineOf(editorRows, editorGeometry')]
    /\ UNCHANGED <<stored, editorOpen, editorRoute, editorRows, editorReadonly, editorMap,
                   previewVars, fitDue, editorCalls>>

\* saveDashboardRouteEditor and deleteDashboardRouteFromEditor.
SaveRoute ==
    /\ editorOpen /\ ~editorReadonly /\ Len(editorRows) >= 2 /\ editorCalls = {}
    /\ editorCalls' = {[kind |-> "save", route |-> editorRoute, stops |-> editorRows]}
    /\ UNCHANGED <<stored, editorOpen, editorRoute, editorRows, editorReadonly, editorMap,
                   editorDrawn, editorGeometry, previewVars, previewCalls, fitDue>>
DeleteRoute ==
    /\ editorOpen /\ ~editorReadonly /\ editorRoute # NoneOpen /\ editorCalls = {}
    /\ editorCalls' = {[kind |-> "delete", route |-> editorRoute, stops |-> <<>>]}
    /\ UNCHANGED <<stored, editorOpen, editorRoute, editorRows, editorReadonly, editorMap,
                   editorDrawn, editorGeometry, previewVars, previewCalls, fitDue>>

SaveAnswered(c) ==
    /\ c.kind = "save"
    /\ \E r \in IF c.route # NoneOpen THEN {c.route} ELSE EditedRoutes \ DOMAIN stored :
           stored' = [q \in DOMAIN stored \cup {r} |->
                         IF q = r THEN [stops |-> c.stops, viewOnly |-> FALSE] ELSE stored[q]]
\* The answer removes the route the editor has now.
DeleteAnswered(c) ==
    /\ c.kind = "delete"
    /\ stored' = [q \in DOMAIN stored \ {editorRoute} |-> stored[q]]
\* Success closes the editor, whatever it shows by now; a failure leaves it.
EditorAnswer(c) ==
    /\ editorCalls' = editorCalls \ {c}
    /\ \/ (SaveAnswered(c) \/ DeleteAnswered(c)) /\ editorOpen' = FALSE
       \/ UNCHANGED <<stored, editorOpen>>
    /\ UNCHANGED <<editorRoute, editorRows, editorReadonly, editorMap, editorDrawn,
                   editorGeometry, previewVars, previewCalls, fitDue>>

RouteEditorNext ==
    \/ \E r \in EditedRoutes \cup {NoneOpen} : ~editorOpen /\ OpenRouteEditor(r)
    \/ \E r \in EditedRoutes : RouteLocked(r)
    \/ FitRefresh
    \/ editorOpen /\ CloseRouteEditor
    \/ AddRouteStop \/ MoveRouteStop \/ RemoveRouteStop \/ DragRouteStop
    \/ PreviewAsked
    \/ \E rows \in previewCalls : PreviewArrives(rows)
    \/ SaveRoute \/ DeleteRoute
    \/ \E c \in editorCalls : EditorAnswer(c)

-----------------------------------------------------------------------------
(* refreshDashboardRouteEditorMap: a geometry computed for other stops is   *)
(* never drawn through the stops on the map, however late its preview comes. *)
PreviewFitsStops == editorDrawn.line = editorDrawn.stops

(* An active, paused or completed route is only viewed: no edit, preview or *)
(* answer changes the stops its editor shows.                               *)
ViewOnlyKeepsStops ==
    [][editorOpen /\ editorReadonly /\ editorOpen' => editorRows' = editorRows]_routeEditorVars
=============================================================================
