---------------------------- MODULE MCDashboard ----------------------------
(***************************************************************************)
(* What the dashboard draws on and beside its map: vehicles, alerts, the   *)
(* playback of a history with its events and scorecards, the history of a  *)
(* sensor, the own position, routes and geofences.  page tells which of    *)
(* them the user works with; the others keep their initial state.  They    *)
(* share no variable, so the state space is the sum of theirs and not the  *)
(* product.                                                                *)
(***************************************************************************)
EXTENDS LiveMap, AlertPanel, HistoryPlayback, DrivingEvents, SensorHistory, UserLocation,
        RoutePanel, RouteEditor, GeofenceEditor

CONSTANTS p1, p2   \* two places of stops

VARIABLE page

\* Two trips of several readings with a point outside any trip between them, and a trip of one
\* point before a gap.
At(trip, sensed) == [trip |-> trip, sensed |-> sensed]
MCTracks == { << At(0, FALSE), At(3, TRUE), At(3, FALSE), At(2, TRUE), At(2, TRUE) >>,
              << At(3, TRUE), At(0, FALSE), At(3, TRUE), At(3, FALSE) >> }

MCRouteStates == [device : RoutedVehicle, status : {"active", "completed"}]

\* A stored route visits one place twice or two places, which is all up to their names.
\* What is stored before a part other than the one that edits it is used.
StoredRoutes == CHOOSE s \in [EditedRoutes -> [stops : {s \in StopLists : Len(s) >= 2}, viewOnly : BOOLEAN]] : TRUE
StoredShape == CHOOSE s \in Shape : TRUE

DashboardVars == <<page, mapVars, alertPanelVars, playbackVars, driven, tripEcoVars,
                    sensorHistoryVars, userLocationVars, routePanelVars, routeEditorVars,
                    gfEditorVars>>

DashboardInit ==
    /\ page \in {"map", "alerts", "history", "events", "scorecard", "sensors", "location",
                 "routes", "editor", "geofences"}
    /\ MapInit /\ AlertPanelInit /\ HistoryPlaybackInit /\ EcoEventsInit /\ TripEcoInit
    /\ SensorHistoryInit /\ UserLocationInit /\ RoutePanelInit /\ RouteEditorInit
    /\ GeofenceEditorInit
    /\ page # "location" => ~mustAsk
    /\ IF page = "editor" THEN \A r \in EditedRoutes : stored[r].stops \in {<<p1, p1>>, <<p1, p2>>}
                          ELSE stored = StoredRoutes
    /\ page # "geofences" => gfStored = [g \in Geofence |-> StoredShape]

\* The parts that are not in use keep their state, in groups.
pastVars == <<playbackVars, driven, tripEcoVars, sensorHistoryVars>>
drawingVars == <<userLocationVars, routePanelVars, routeEditorVars, gfEditorVars>>

MapPage ==
    /\ page = "map" /\ MapNext
    /\ UNCHANGED <<page, alertPanelVars, pastVars, drawingVars>>
AlertsPage ==
    /\ page = "alerts" /\ AlertPanelNext
    /\ UNCHANGED <<page, mapVars, pastVars, drawingVars>>
HistoryPage ==
    /\ page = "history" /\ HistoryPlaybackNext
    /\ UNCHANGED <<page, mapVars, alertPanelVars, driven, tripEcoVars, sensorHistoryVars, drawingVars>>
EventsPage ==
    /\ page = "events" /\ EcoEventsNext
    /\ UNCHANGED <<page, mapVars, alertPanelVars, playbackVars, tripEcoVars, sensorHistoryVars,
                   drawingVars>>
ScorecardPage ==
    /\ page = "scorecard" /\ TripEcoNext
    /\ UNCHANGED <<page, mapVars, alertPanelVars, playbackVars, driven, sensorHistoryVars, drawingVars>>
SensorsPage ==
    /\ page = "sensors" /\ SensorHistoryNext
    /\ UNCHANGED <<page, mapVars, alertPanelVars, playbackVars, driven, tripEcoVars, drawingVars>>
LocationPage ==
    /\ page = "location" /\ UserLocationNext
    /\ UNCHANGED <<page, mapVars, alertPanelVars, pastVars, routePanelVars, routeEditorVars,
                   gfEditorVars>>
RoutesPage ==
    /\ page = "routes" /\ RoutePanelNext
    /\ UNCHANGED <<page, mapVars, alertPanelVars, pastVars, userLocationVars, routeEditorVars,
                   gfEditorVars>>
EditorPage ==
    /\ page = "editor" /\ RouteEditorNext
    /\ UNCHANGED <<page, mapVars, alertPanelVars, pastVars, userLocationVars, routePanelVars,
                   gfEditorVars>>
GeofencesPage ==
    /\ page = "geofences" /\ GeofenceEditorNext
    /\ UNCHANGED <<page, mapVars, alertPanelVars, pastVars, userLocationVars, routePanelVars,
                   routeEditorVars>>

DashboardNext ==
    \/ MapPage
    \/ AlertsPage
    \/ HistoryPage
    \/ EventsPage
    \/ ScorecardPage
    \/ SensorsPage
    \/ LocationPage
    \/ RoutesPage
    \/ EditorPage
    \/ GeofencesPage

DashboardSpec == DashboardInit /\ [][DashboardNext]_DashboardVars

-----------------------------------------------------------------------------
\* Every variable of the part in use keeps its type.
DashboardTypeOK ==
    CASE page = "map" -> MapTypeOK
      [] page = "alerts" -> AlertPanelTypeOK
      [] page = "history" -> HistoryPlaybackTypeOK
      [] page = "scorecard" -> TripEcoTypeOK
      [] page = "sensors" -> SensorHistoryTypeOK
      [] page = "location" -> UserLocationTypeOK
      [] page = "routes" -> RoutePanelTypeOK
      [] page = "editor" -> RouteEditorTypeOK
      [] page = "geofences" -> GeofenceEditorTypeOK
      [] OTHER -> TRUE

\* The live map (dashboard-map.js): drawn for listed vehicles only, however late an answer
\* is, the controls of the history stand for a history, and trails repeat nothing.
MapSound == page = "map" => NoGhostMarkers /\ ControlsMeanHistory /\ TrailsAreTrails

\* The alerts (dashboard-alerts.js, config.js): list, badge, toasts and paged history agree
\* whatever arrives, is dismissed elsewhere or is loaded late.
AlertPanelSound ==
    page = "alerts" => /\ ListShowsLoaded /\ BellCountsTheList /\ ClearAllReaches
                       /\ OneToast /\ HistoryContinues

\* A history (dashboard-history.js, dashboard-sensor-history.js): one unbroken track over all
\* batches, the newest reading at the cursor, nothing left on the map after leaving, events
\* neither lost nor doubled, scorecard and table of what their title says.
PlaybackSound ==
    CASE page = "history" -> TrackIsUnbroken /\ LatestReading /\ NothingAfterExit
      [] page = "events" -> EcoEventsSound
      [] page = "scorecard" -> TripEcoSound
      [] page = "sensors" -> SensorHistorySound
      [] OTHER -> TRUE

\* What is drawn and edited on the map (dashboard-map.js, dashboard-routes.js,
\* dashboard-geofences.js): the own position only while it is watched, routes hidden in the
\* history, a line that fits the stops, and a window that has the shape it is to save.
DrawingSound ==
    CASE page = "location" -> OffDrawsNothing /\ OneWatch
      [] page = "routes" -> HistoryHidesRoutes /\ OneRouteShown /\ PagerInRange
      [] page = "editor" -> PreviewFitsStops
      [] page = "geofences" -> GeofenceEditorSound
      [] OTHER -> TRUE

\* Steps that must not happen (dashboard-history.js, dashboard-routes.js): a load that is not the
\* newest enters the history, leaving it shows an older position than the newest, a trip changes
\* its colour, the playback leaves its data, the stops of a route that can only be viewed change.
DashboardSteps ==
    /\ OnlyTheLatestLoadEnters /\ LeavingShowsTheNewest /\ ColoursStay /\ OnlyOldClipsLeaveTheData
    /\ ViewOnlyKeepsStops
=============================================================================
