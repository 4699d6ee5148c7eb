------------------------------ MODULE LiveMap ------------------------------
(***************************************************************************)
(* The map of the dashboard in the browser: the list of vehicles, what is  *)
(* drawn for each of them, the WebSocket with its fallback and catch-up,   *)
(* the search box, and the loads that enter history mode and leave it.     *)
(* JavaScript runs to completion between two awaits; each action is one    *)
(* such piece.  A position is the number of the fix it came with.          *)
(***************************************************************************)
EXTENDS Integers, Sequences, FiniteSets, SequencesExt

CONSTANTS
    Vehicle,    \* devices of the user
    NoVehicle,
    MaxFix,     \* bound: fixes the server receives for a vehicle
    Accurate,   \* the fixes that come with an accuracy radius
    MaxPoints,  \* the preference map_breadcrumb_points
    MaxLoads,   \* bound: history loads of a session
    MaxEvents,  \* bound: history loads and the fixes of a vehicle together
    MaxGets     \* bound: requests for positions at once

ASSUME LiveMapAssumption ==
    /\ NoVehicle \notin Vehicle
    /\ {MaxFix, MaxPoints, MaxLoads, MaxEvents, MaxGets} \subseteq Nat
    /\ Accurate \subseteq 1..MaxFix

VARIABLES
    serverFix,  \* last fix of each vehicle at the server, 0 before the first
    enabled,    \* vehicles the server lists
    socket,     \* the WebSocket is open
    connected,  \* _globalWsHasConnected
    devices,    \* the list: known vehicle to [fix, accurate]
    view,       \* what Leaflet holds for each vehicle
    clusterOn,  \* clusterGroup is on the map
    grouped,    \* the zoom level groups the markers
    points,     \* breadcrumb preference, 0 when disabled
    gets,       \* answers on their way: [list, state]
    history,    \* historyDeviceId
    controls,   \* the history footer is shown
    loads,      \* loadHistory calls that await
    started,    \* loads so far
    live        \* the load whose requestId is current, 0 if there is none

mapVars == <<serverFix, enabled, socket, connected, devices, view, clusterOn, grouped,
             points, gets, history, controls, loads, started, live>>

Listed == DOMAIN devices
Layer == {"none", "off", "on"}
Fix == 0..MaxFix
Known == [fix : Fix, accurate : BOOLEAN]
Partial(S, T) == UNION {[D -> T] : D \in SUBSET S}

\* What is drawn for one vehicle.  `goal` is the position in markerState, `frame` the
\* target of the animation under way, 0 if there is none.
View == [marker : BOOLEAN, goal : Fix, frame : Fix, clustered : BOOLEAN,
         circle : Layer, trail : BoundedSeq(1..MaxFix, MaxPoints), layer : Layer]
Blank == [marker |-> FALSE, goal |-> 0, frame |-> 0, clustered |-> FALSE,
          circle |-> "none", trail |-> <<>>, layer |-> "none"]

Load == [id : 1..MaxLoads, vehicle : Vehicle, previous : Vehicle \cup {NoVehicle},
         stage : {"settings", "positions", "trips"}]
ListAnswer == [kind : {"list"}, rows : Partial(Vehicle, Fix)]
StateAnswer == [kind : {"state"}, vehicle : Vehicle, fix : Fix]

\* Every variable has its type: an answer, a drawing or a load the handlers below can have.
MapTypeOK ==
    /\ serverFix \in [Vehicle -> Fix]
    /\ enabled \subseteq Vehicle
    /\ {socket, connected, clusterOn, grouped, controls} \subseteq BOOLEAN
    /\ Listed \subseteq Vehicle /\ \A d \in Listed : devices[d] \in Known
    /\ view \in [Vehicle -> View]
    /\ points \in {0, MaxPoints}
    /\ gets \subseteq (ListAnswer \cup StateAnswer)
    /\ history \in Vehicle \cup {NoVehicle}
    /\ loads \subseteq Load
    /\ started \in 0..MaxLoads /\ live \in 0..started

HasAccuracy(fix) == fix \in Accurate

-----------------------------------------------------------------------------
\* Drawing.  mode is historyDeviceId, max the breadcrumb preference.

Visible(v, mode) == mode = NoVehicle /\ ~grouped /\ v.clustered

\* updateAllBreadcrumbsVisibility for one vehicle.
Tidied(v, mode, max) ==
    [v EXCEPT !.layer =
        IF @ = "none" THEN @
        ELSE IF max > 0 /\ v.marker /\ Len(v.trail) >= 2 /\ Visible(v, mode) THEN "on" ELSE "off"]

\* _updateLiveBreadcrumbTrail: a point is added unless the vehicle stands still.
Trailed(v, fix, mode) ==
    IF mode # NoVehicle \/ (points > 0 /\ v.trail # <<>> /\ Last(v.trail) = fix) THEN v
    ELSE IF points = 0 THEN [v EXCEPT !.trail = <<>>, !.layer = "none"]
    ELSE LET longer == Append(v.trail, fix)
             kept == IF Len(longer) > points THEN Tail(longer) ELSE longer
         IN [v EXCEPT !.trail = kept,
                      !.layer = IF Len(kept) < 2 THEN @
                                ELSE IF Visible(v, mode) THEN "on" ELSE "off"]

Circled(v, accurate) ==
    [v EXCEPT !.circle = IF ~accurate THEN "none" ELSE IF @ = "none" THEN "on" ELSE @]

\* The marker is created at its fix, or starts to move there from markerState.
Moved(v, fix) ==
    IF ~v.marker
    THEN [v EXCEPT !.marker = TRUE, !.goal = fix, !.frame = 0, !.clustered = TRUE]
    ELSE [v EXCEPT !.frame = fix]

\* updateDeviceMarker.
Drawn(v, known, mode) ==
    IF known.fix = 0 THEN v
    ELSE Trailed(Circled(Moved(v, known.fix), known.accurate), known.fix, mode)

\* The marker of a vehicle that is no longer listed; its circle and trail stay.
Unlisted(v) == [v EXCEPT !.marker = FALSE, !.clustered = FALSE]

\* The map as the live view has it: _restoreLiveTracking, if no history is open.
Restored(v, d) ==
    [Tidied(v, NoVehicle, points) EXCEPT
        !.circle = IF d \in Listed /\ @ = "off" THEN "on" ELSE @]

-----------------------------------------------------------------------------
MapInit ==
    /\ serverFix = [d \in Vehicle |-> 0]
    /\ enabled = Vehicle
    /\ socket = FALSE /\ connected = FALSE
    /\ devices = <<>>
    /\ view = [d \in Vehicle |-> Blank]
    /\ clusterOn = TRUE /\ grouped = FALSE /\ points = MaxPoints
    /\ gets = {[kind |-> "list", rows |-> [d \in Vehicle |-> 0]]}
    /\ history = NoVehicle /\ controls = FALSE
    /\ loads = {} /\ started = 0 /\ live = 0

serverVars == <<serverFix, enabled>>
historyVars == <<history, controls, loads, started, live>>

ListSnapshot == [kind |-> "list", rows |-> [d \in enabled |-> serverFix[d]]]
StateSnapshot(d) == [kind |-> "state", vehicle |-> d, fix |-> serverFix[d]]

\* A position reaches the server, and the page if its socket is open: in history mode
\* only the list takes it, and one of a vehicle that is not listed asks for its state.
PositionUpdate(d) ==
    /\ d \in enabled /\ serverFix[d] < MaxFix /\ started + serverFix[d] < MaxEvents
    /\ serverFix' = [serverFix EXCEPT ![d] = @ + 1]
    /\ LET fix == serverFix'[d]
           merged == [fix |-> fix, accurate |-> HasAccuracy(fix) \/ (d \in Listed /\ devices[d].accurate)]
       IN IF ~socket THEN UNCHANGED <<devices, view, gets>>
          ELSE IF d \in Listed
          THEN /\ devices' = [devices EXCEPT ![d] = merged]
               /\ view' = IF history = NoVehicle THEN [view EXCEPT ![d] = Drawn(@, merged, history)] ELSE view
               /\ UNCHANGED gets
          ELSE /\ Cardinality(gets) < MaxGets
               /\ gets' = gets \cup {[kind |-> "state", vehicle |-> d, fix |-> fix]}
               /\ UNCHANGED <<devices, view>>
    /\ UNCHANGED <<enabled, socket, connected, clusterOn, grouped, points, historyVars>>

\* An administrator disables a vehicle or enables it again.
SetEnabled(d) ==
    /\ enabled' = IF d \in enabled THEN enabled \ {d} ELSE enabled \cup {d}
    /\ UNCHANGED <<serverFix, socket, connected, devices, view, clusterOn, grouped, points, gets, historyVars>>

\* onopen: a socket that comes back asks for the whole list again.
Connect ==
    /\ ~socket /\ Cardinality(gets) < MaxGets
    /\ socket' = TRUE /\ connected' = TRUE
    /\ gets' = IF connected THEN gets \cup {ListSnapshot} ELSE gets
    /\ UNCHANGED <<serverVars, devices, view, clusterOn, grouped, points, historyVars>>

Disconnect ==
    /\ socket /\ socket' = FALSE
    /\ UNCHANGED <<serverVars, connected, devices, view, clusterOn, grouped, points, gets, historyVars>>

\* The timer of startPeriodicUpdate: without a socket the states are polled.
Poll ==
    /\ ~socket /\ Listed # {} /\ Cardinality(gets) < MaxGets
    /\ gets' = gets \cup {StateSnapshot(d) : d \in Listed}
    /\ UNCHANGED <<serverVars, socket, connected, devices, view, clusterOn, grouped, points, historyVars>>

\* A page that becomes visible, or was told that devices changed, reloads the list.
RefreshList ==
    /\ Cardinality(gets) < MaxGets
    /\ gets' = gets \cup {ListSnapshot}
    /\ UNCHANGED <<serverVars, socket, connected, devices, view, clusterOn, grouped, points, historyVars>>

\* loadDevices: the list is replaced, markers of others go, every vehicle is drawn.
ReceiveList(a) ==
    /\ a \in gets /\ a.kind = "list" /\ gets' = gets \ {a}
    /\ devices' = [d \in DOMAIN a.rows |-> [fix |-> a.rows[d], accurate |-> HasAccuracy(a.rows[d])]]
    /\ view' = [d \in Vehicle |->
                 IF d \in DOMAIN a.rows THEN Drawn(view[d], devices'[d], history) ELSE Unlisted(view[d])]
    /\ UNCHANGED <<serverVars, socket, connected, clusterOn, grouped, points, historyVars>>

ReceiveStateOfAny(a) ==
    /\ a \in gets /\ a.kind = "state" /\ gets' = gets \ {a}
    /\ LET known == [fix |-> a.fix, accurate |-> HasAccuracy(a.fix)]
       IN /\ devices' = IF a.vehicle \in Listed THEN [devices EXCEPT ![a.vehicle] = known] ELSE devices
          /\ view' = [view EXCEPT ![a.vehicle] = Drawn(@, known, history)]
    /\ UNCHANGED <<serverVars, socket, connected, clusterOn, grouped, points, historyVars>>

\* loadDeviceState: the vehicle is looked up again, it may have left the list.
ReceiveState(a) ==
    /\ a \in gets /\ a.kind = "state" /\ gets' = gets \ {a}
    /\ IF a.vehicle \in Listed
       THEN LET known == [fix |-> a.fix, accurate |-> HasAccuracy(a.fix)]
            IN /\ devices' = [devices EXCEPT ![a.vehicle] = known]
               /\ view' = [view EXCEPT ![a.vehicle] = Drawn(@, known, history)]
       ELSE UNCHANGED <<devices, view>>
    /\ UNCHANGED <<serverVars, socket, connected, clusterOn, grouped, points, historyVars>>

ReceiveFails(a) ==
    /\ a \in gets /\ gets' = gets \ {a}
    /\ UNCHANGED <<serverVars, socket, connected, devices, view, clusterOn, grouped, points, historyVars>>

\* requestAnimationFrame: a step on the way, the last one, or none if the marker is hidden.
AnimationFrame(d) ==
    LET v == view[d] IN
    /\ v.frame # 0
    /\ \/ view' = [view EXCEPT ![d].goal = v.frame, ![d].frame = 0]
       \/ /\ v.marker /\ v.clustered /\ clusterOn
          /\ view' = [view EXCEPT ![d].goal = v.frame]
    /\ UNCHANGED <<serverVars, socket, connected, devices, clusterOn, grouped, points, gets, historyVars>>

\* filterDevices: what the search leaves out disappears from the map as well.
Search(shown) ==
    /\ ~controls
    /\ view' = [d \in Vehicle |->
         IF d \notin Listed \/ ~view[d].marker THEN view[d]
         ELSE IF d \in shown
         THEN [view[d] EXCEPT !.clustered = TRUE,
                              !.circle = IF @ = "none" THEN @ ELSE "on",
                              !.layer = IF @ = "off" /\ history = NoVehicle /\ ~grouped THEN "on" ELSE @]
         ELSE [view[d] EXCEPT !.clustered = FALSE,
                              !.circle = IF @ = "none" THEN @ ELSE "off",
                              !.layer = IF @ = "none" THEN @ ELSE "off"]]
    /\ UNCHANGED <<serverVars, socket, connected, devices, clusterOn, grouped, points, gets, historyVars>>

\* zoomend and moveend, and a change of the breadcrumb preference, tidy the trails.
Zoom ==
    /\ grouped' = ~grouped
    /\ view' = [d \in Vehicle |->
         LET v == view[d] IN
         [v EXCEPT !.layer = IF @ = "none" THEN @
             ELSE IF points > 0 /\ v.marker /\ Len(v.trail) >= 2 /\ history = NoVehicle /\ grouped /\ v.clustered
             THEN "on" ELSE "off"]]
    /\ UNCHANGED <<serverVars, socket, connected, devices, clusterOn, points, gets, historyVars>>

SetBreadcrumbs ==
    /\ points' = IF points = 0 THEN MaxPoints ELSE 0
    /\ view' = [d \in Vehicle |-> Tidied(view[d], history, points')]
    /\ UNCHANGED <<serverVars, socket, connected, devices, clusterOn, grouped, gets, historyVars>>

-----------------------------------------------------------------------------
\* History mode.

\* loadHistory up to its first await: the load before it is aborted, animations are
\* cancelled and everything live is taken off the map.
LoadHistory(d) ==
    /\ started < MaxLoads /\ started + serverFix[d] < MaxEvents /\ d \in Listed
    /\ started' = started + 1 /\ live' = started + 1
    /\ loads' = loads \cup {[id |-> started + 1, vehicle |-> d, previous |-> history, stage |-> "settings"]}
    /\ clusterOn' = FALSE
    /\ view' = [e \in Vehicle |-> [view[e] EXCEPT
                  !.frame = 0,
                  !.circle = IF e \in Listed /\ @ = "on" THEN "off" ELSE @,
                  !.layer = IF @ = "on" THEN "off" ELSE @]]
    /\ UNCHANGED <<serverVars, socket, connected, devices, grouped, points, gets, history, controls>>

Superseded(l) == l.id # live

\* _restoreLiveTracking with historyDeviceId = mode.
RestoreLive(mode) ==
    IF mode # NoVehicle THEN UNCHANGED <<clusterOn, view, controls>>
    ELSE /\ clusterOn' = TRUE /\ controls' = FALSE
         /\ view' = [d \in Vehicle |-> Restored(view[d], d)]

\* An aborted fetch throws, and whoever was superseded restores the live map.
LoadAborted(l) ==
    /\ l \in loads /\ l.stage \in {"settings", "positions"} /\ Superseded(l)
    /\ loads' = loads \ {l}
    /\ RestoreLive(history)
    /\ UNCHANGED <<serverVars, socket, connected, devices, grouped, points, gets, history, started, live>>

SettingsArrive(l) ==
    /\ l \in loads /\ l.stage = "settings" /\ ~Superseded(l)
    /\ loads' = (loads \ {l}) \cup {[l EXCEPT !.stage = "positions"]}
    /\ UNCHANGED <<serverVars, socket, connected, devices, view, clusterOn, grouped, points, gets,
                   history, controls, started, live>>

PositionsArriveLate(l) ==
    /\ l \in loads /\ l.stage = "positions"
    /\ loads' = (loads \ {l}) \cup {[l EXCEPT !.stage = "trips"]}
    /\ history' = l.vehicle
    /\ UNCHANGED <<serverVars, socket, connected, devices, view, clusterOn, grouped, points, gets,
                   controls, started, live>>
\* The positions arrive: history mode is entered before the trips are asked for.
PositionsArrive(l) ==
    /\ l \in loads /\ l.stage = "positions" /\ ~Superseded(l)
    /\ loads' = (loads \ {l}) \cup {[l EXCEPT !.stage = "trips"]}
    /\ history' = l.vehicle
    /\ UNCHANGED <<serverVars, socket, connected, devices, view, clusterOn, grouped, points, gets,
                   controls, started, live>>

\* No position in the range: the live map is restored even inside a session.
NoPositions(l) ==
    /\ l \in loads /\ l.stage = "positions" /\ ~Superseded(l)
    /\ loads' = loads \ {l} /\ history' = l.previous
    /\ clusterOn' = TRUE
    /\ view' = [d \in Vehicle |-> [Tidied(view[d], l.previous, points) EXCEPT
                  !.circle = IF d \in Listed /\ @ = "off" THEN "on" ELSE @]]
    /\ UNCHANGED <<serverVars, socket, connected, devices, grouped, points, gets, controls, started, live>>

LoadFails(l) ==
    /\ l \in loads /\ l.stage = "positions" /\ ~Superseded(l)
    /\ loads' = loads \ {l} /\ history' = l.previous
    /\ RestoreLive(l.previous)
    /\ UNCHANGED <<serverVars, socket, connected, devices, grouped, points, gets, started, live>>

\* The trips are there, or failed, or their request was aborted, which is swallowed:
\* only the current load draws the track and shows the controls.
TripsArrive(l) ==
    /\ l \in loads /\ l.stage = "trips"
    /\ loads' = loads \ {l}
    /\ controls' = IF Superseded(l) THEN controls ELSE TRUE
    /\ UNCHANGED <<serverVars, socket, connected, devices, view, clusterOn, grouped, points, gets,
                   history, started, live>>

\* stopHistoryLoading, and closing the dialog while it loads.
StopLoading ==
    /\ \E l \in loads : l.id = live
    /\ live' = 0
    /\ RestoreLive(history)
    /\ UNCHANGED <<serverVars, socket, connected, devices, grouped, points, gets, history, loads, started>>

\* exitHistoryMode: every vehicle is drawn again where the list has it.
ExitHistory ==
    /\ controls
    /\ live' = 0 /\ history' = NoVehicle /\ controls' = FALSE /\ clusterOn' = TRUE
    /\ view' = [d \in Vehicle |->
         IF d \notin Listed THEN Tidied(view[d], NoVehicle, points)
         ELSE LET back == [view[d] EXCEPT !.clustered = view[d].marker,
                                          !.circle = IF @ = "none" THEN @ ELSE "on"]
              IN Tidied(Drawn(back, devices[d], NoVehicle), NoVehicle, points)]
    /\ UNCHANGED <<serverVars, socket, connected, devices, grouped, points, gets, loads, started>>

MapNext ==
    \/ \E d \in Vehicle : PositionUpdate(d) \/ SetEnabled(d) \/ AnimationFrame(d) \/ LoadHistory(d)
    \/ Connect \/ Disconnect \/ Poll \/ RefreshList
    \/ \E a \in gets : ReceiveList(a) \/ ReceiveState(a) \/ ReceiveFails(a)
    \/ \E shown \in SUBSET Vehicle : Search(shown)
    \/ Zoom \/ SetBreadcrumbs
    \/ \E l \in loads :
         \/ LoadAborted(l) \/ SettingsArrive(l) \/ PositionsArrive(l)
         \/ NoPositions(l) \/ LoadFails(l) \/ TripsArrive(l)
    \/ StopLoading \/ ExitHistory

MapSpec == MapInit /\ [][MapNext]_mapVars

-----------------------------------------------------------------------------
\* A marker stands for a vehicle of the list: neither a late answer nor a message brings
\* back one that loadDevices took away.
NoGhostMarkers == \A d \in Vehicle : view[d].marker => d \in Listed

\* The controls of the playback are on screen only inside a history session, so that
\* what they show and what they close exists.
ControlsMeanHistory == controls => history # NoVehicle

\* History mode is entered by the load that was started last, and never by one that was
\* stopped, closed or replaced while its requests were under way.
OnlyTheLatestLoadEnters ==
    [][history' \notin {history, NoVehicle} =>
         \E l \in loads : l.id = live /\ l.vehicle = history']_mapVars

\* Who leaves history mode sees each vehicle at, or on its way to, the last position the
\* page knows, although the messages of the session drew nothing.
LeavingShowsTheNewest ==
    [][history # NoVehicle /\ history' = NoVehicle =>
         \A d \in DOMAIN devices' : devices'[d].fix # 0 =>
             /\ view'[d].marker
             /\ devices'[d].fix = IF view'[d].frame # 0 THEN view'[d].frame ELSE view'[d].goal]_mapVars

\* A breadcrumb trail is never longer than the preference allows, and never repeats a
\* point although messages, polls and list answers all feed it.
TrailsAreTrails ==
    \A d \in Vehicle : LET t == view[d].trail IN
        /\ Len(t) <= MaxPoints
        /\ \A i \in 1..(Len(t) - 1) : t[i] # t[i + 1]
=============================================================================
