--------------------------- MODULE DrivingEvents ---------------------------
(***************************************************************************)
(* The driving events of a history: how the dashboard finds them in the    *)
(* points, and the scorecard and the pins that show them.  The two share   *)
(* no state.                                                               *)
(***************************************************************************)
EXTENDS Integers, Sequences, FiniteSets, SequencesExt

-----------------------------------------------------------------------------
(* The events the dashboard finds in the points when the server has none: a fold over the  *)
(* points that keeps, for each kind of offence, the time of its last event, and how long   *)
(* the driving has gone on.  Speeds are km/h, courses degrees, times whole seconds.        *)
CONSTANTS
    Steps,                      \* seconds from a point to the next
    Speeds, Courses,
    SpeedLimit,
    FatigueWarning, FatigueSevere,  \* seconds of driving
    StartTime,                  \* time of the first point
    MaxDriven                   \* bound: points

ASSUME EcoEventsAssumption ==
    /\ Steps \subseteq Nat /\ Speeds \subseteq Nat /\ Courses \subseteq 0..359 /\ SpeedLimit \in Nat
    /\ FatigueWarning \in Nat /\ FatigueSevere > FatigueWarning /\ MaxDriven \in Nat
    /\ StartTime \in Nat /\ StartTime > 20

VARIABLE driven     \* the points, in the order of their time

Offence == {"accel", "brake", "corner", "speeding"}
\* The kind a device's own sensor reports of the point, green_driving_type and its like.
Flag == {"accel", "brake", "corner", "none"}

\* Seconds in which one event stands for the offences of its kind after it.
Quiet(kind) == IF kind = "speeding" THEN 20 ELSE 5

-----------------------------------------------------------------------------
(* The offences of a point. *)
\* The remainder of JavaScript has the sign of the dividend.
Remainder(a, b) == IF a >= 0 THEN a % b ELSE -((-a) % b)
Absolute(a) == IF a >= 0 THEN a ELSE -a
CourseChange(from, to) == Absolute(Remainder(to - from + 180, 360) - 180)

\* dt: the time from the point before, 3 s where that is not known or not between 0.5 and 20 s.
Dt(points, i) ==
    LET dt == IF i = 1 THEN 0 ELSE points[i].time - points[i - 1].time
    IN IF dt \in 1..20 THEN dt ELSE 3

\* 2.8 and -3.2 m/s^2 are 10.08 and -11.52 km/h per second; a turn rate rounded to a tenth
\* is 32 or more from 31.95 on.
Offences(points, i) ==
    LET dt == Dt(points, i)
        gained == IF i = 1 THEN 0 ELSE points[i].speed - points[i - 1].speed
        turned == IF i = 1 \/ points[i].speed < 35 THEN 0 ELSE CourseChange(points[i - 1].course, points[i].course)
    IN {k \in Offence :
          \/ k = points[i].flag
          \/ k = "accel" /\ 100 * gained >= 1008 * dt
          \/ k = "brake" /\ 100 * gained <= -1152 * dt
          \/ k = "corner" /\ turned >= 30 /\ 20 * turned >= 639 * dt
          \/ k = "speeding" /\ points[i].speed > SpeedLimit + 3}

-----------------------------------------------------------------------------
(* _extractEcoEventsFromHistory. *)
\* The offences of kinds that have no event yet in their quiet time.
Due(last, time, kinds) == {k \in kinds : time - last[k] > Quiet(k)}
LastEvents(last, time, kinds) == [k \in Offence |-> IF k \in Due(last, time, kinds) THEN time ELSE last[k]]

\* The driving time only grows: dt is never the 900 s that would end it.
Tired(secs, warned) ==
    IF secs >= FatigueSevere /\ "severe" \notin warned THEN {"severe"}
    ELSE IF secs >= FatigueWarning /\ warned = {} THEN {"warning"} ELSE {}

NothingSeen == [last |-> [k \in Offence |-> 0], secs |-> 0, warned |-> {}, events |-> {}]
Extracted(acc, points, i) ==
    LET kinds == Offences(points, i)
        secs == acc.secs + Dt(points, i)
        tired == Tired(secs, acc.warned)
        found == Due(acc.last, points[i].time, kinds) \cup tired
    IN [last |-> LastEvents(acc.last, points[i].time, kinds), secs |-> secs,
        warned |-> acc.warned \cup tired, events |-> acc.events \cup {[at |-> i, kind |-> k] : k \in found}]
EventsOf(points) ==
    LET seen[i \in 0..Len(points)] == IF i = 0 THEN NothingSeen ELSE Extracted(seen[i - 1], points, i)
    IN IF Len(points) < 2 THEN {} ELSE seen[Len(points)].events

-----------------------------------------------------------------------------
EcoEventsInit == driven = <<>>
DriveOn ==
    /\ Len(driven) < MaxDriven
    /\ \E step \in Steps, speed \in Speeds, course \in Courses, flag \in Flag :
          LET time == IF driven = <<>> THEN StartTime ELSE Last(driven).time + step
          IN driven' = Append(driven, [time |-> time, speed |-> speed, course |-> course, flag |-> flag])
EcoEventsNext == DriveOn

-----------------------------------------------------------------------------
\* No offence is lost and none is reported twice: of one kind the events are further apart
\* than its quiet time, each offence has an event of its kind at most that long before, the
\* events of the points before stay when a point follows, and a warning of fatigue is never
\* given after or with the severe one.
EcoEventsSound ==
    LET events == EventsOf(driven)
        AtMost(k, i, j) == driven[j].time - driven[i].time <= Quiet(k)
    IN /\ \A e, f \in events : e.kind = f.kind /\ e.at < f.at => e.kind \in Offence /\ ~AtMost(e.kind, e.at, f.at)
       /\ Len(driven) >= 2 =>
             \A i \in DOMAIN driven : \A k \in Offences(driven, i) :
                 \E e \in events : e.kind = k /\ e.at <= i /\ AtMost(k, e.at, i)
       /\ Len(driven) >= 3 => EventsOf(Front(driven)) \subseteq events
       /\ \A e, f \in events : e.kind = "warning" /\ f.kind = "severe" => e.at < f.at

-----------------------------------------------------------------------------
(* The scorecard of a trip over the history, and the pins of driving events on the map,    *)
(* which three parties draw: the answer with the events of the session, the scorecard for  *)
(* its trip, and its end for all of them.  Events are told apart by their trip only.       *)
CONSTANTS
    EcoTrip,
    NoTrip,     \* null: no filter, and the trip of an event outside any
    Never       \* undefined: nothing drawn yet

ASSUME TripEcoAssumption == NoTrip \notin EcoTrip /\ Never \notin EcoTrip \cup {NoTrip}

VARIABLES
    ecoSession,     \* a history is open, and has points
    ecoLate,        \* the request for the events of the session is under way
    ecoHistory,     \* historyEcoEvents, by trip
    ecoPins,        \* the events of markers.history_eco, by trip; none when there is no layer
    ecoPinned,      \* the layer is on the map
    ecoShown,       \* historyShowEcoEvents
    ecoLast,        \* _lastRenderedEcoFilterTripId
    ecoOpen, ecoTitle, ecoBody, ecoFilter,  \* the scorecard: its trip, "loading" or "data", its chip
    ecoData,        \* _currentTripEcoData: its trip and whether it has events
    ecoCalls,       \* requests whose abort controller was not used
    ecoRedraw       \* an animation frame that draws the pins again

tripEcoVars == <<ecoSession, ecoLate, ecoHistory, ecoPins, ecoPinned, ecoShown, ecoLast,
                 ecoOpen, ecoTitle, ecoBody, ecoFilter, ecoData, ecoCalls, ecoRedraw>>
ecoCard == <<ecoOpen, ecoTitle, ecoBody, ecoFilter, ecoData, ecoCalls>>
ecoMap == <<ecoHistory, ecoPins, ecoPinned, ecoLast>>
OfTrips == EcoTrip \cup {NoTrip}

TripEcoTypeOK ==
    /\ {ecoSession, ecoLate, ecoPinned, ecoShown, ecoOpen, ecoRedraw} \subseteq BOOLEAN
    /\ {ecoHistory, ecoPins} \subseteq SUBSET OfTrips /\ ecoLast \in OfTrips \cup {Never}
    /\ ecoTitle \in OfTrips /\ ecoBody \in {"blank", "loading", "data"} /\ ecoFilter \in {"all", "kind"}
    /\ ecoData \in [trip : OfTrips, found : BOOLEAN] /\ ecoCalls \subseteq EcoTrip

TripEcoInit ==
    /\ ecoSession = FALSE /\ ecoLate = FALSE /\ ecoHistory = {} /\ ecoPins = {} /\ ecoPinned = FALSE
    /\ ecoShown = FALSE /\ ecoLast = Never /\ ecoOpen = FALSE /\ ecoTitle = NoTrip /\ ecoBody = "blank"
    /\ ecoFilter = "all" /\ ecoData = [trip |-> NoTrip, found |-> FALSE] /\ ecoCalls = {} /\ ecoRedraw = FALSE

-----------------------------------------------------------------------------
\* _renderHistoryEcoEvents: pins drawn for the same trip stay as they are; without events
\* those of the points on screen are looked for.
PinsDrawn(filter, history, data) ==
    IF ecoLast = filter /\ ecoPins # {} THEN ecoHistory' = history /\ UNCHANGED <<ecoPins, ecoPinned, ecoLast>>
    ELSE \E extracted \in IF ecoSession THEN SUBSET OfTrips ELSE {{}} :
           LET known == IF filter # NoTrip /\ data.trip = filter /\ data.found THEN {filter} ELSE history
               source == IF known = {} THEN extracted ELSE known
           IN /\ ecoHistory' = (IF known = {} THEN extracted ELSE history)
              /\ ecoPins' = (IF filter = NoTrip THEN source ELSE source \cap {filter, NoTrip})
              /\ ecoPinned' = (ecoShown /\ ecoPins' # {}) /\ ecoLast' = filter

EnterHistory ==
    /\ ~ecoSession /\ ecoSession' = TRUE /\ ecoLate' = TRUE
    /\ UNCHANGED <<ecoMap, ecoShown, ecoCard, ecoRedraw>>
\* The answer for the events of the session, which nothing aborts.
SessionEvents(found) ==
    /\ ecoLate /\ ecoLate' = FALSE /\ PinsDrawn(NoTrip, found, ecoData)
    /\ UNCHANGED <<ecoSession, ecoShown, ecoCard, ecoRedraw>>
ToggleEcoEvents ==
    /\ ecoSession /\ ecoHistory # {}
    /\ ecoShown' = ~ecoShown /\ ecoPinned' = (ecoShown' /\ ecoPins # {})
    /\ UNCHANGED <<ecoSession, ecoLate, ecoHistory, ecoPins, ecoLast, ecoCard, ecoRedraw>>

-----------------------------------------------------------------------------
(* The scorecard. *)
\* Opening, closing and jumping abort the request under way.
GivenUp == {}

OpenTripEco(trip) ==
    /\ ecoSession
    /\ ecoOpen' = TRUE /\ ecoTitle' = trip /\ ecoBody' = "loading" /\ ecoFilter' = "all"
    /\ ecoCalls' = GivenUp \cup {trip}
    /\ PinsDrawn(trip, ecoHistory, ecoData)
    /\ UNCHANGED <<ecoSession, ecoLate, ecoShown, ecoData, ecoRedraw>>

ScoreShown(trip, found) ==
    /\ ecoCalls' = ecoCalls \ {trip} /\ ecoData' = [trip |-> trip, found |-> found] /\ ecoBody' = "data"
    /\ UNCHANGED <<ecoSession, ecoLate, ecoShown, ecoOpen, ecoTitle, ecoFilter, ecoRedraw>>
\* Events of the answer replace those the history has of the trip.
ScoreArrives(trip, found) ==
    /\ ScoreShown(trip, found)
    /\ PinsDrawn(trip, IF found THEN ecoHistory \cup {trip} ELSE ecoHistory, ecoData')
\* _buildTripEcoFallback: the events the history has of the trip, or those in its points.
ScoreFails(trip) ==
    \E found \in IF trip \in ecoHistory THEN {TRUE} ELSE BOOLEAN :
        ScoreShown(trip, found) /\ PinsDrawn(trip, ecoHistory, ecoData')

ScoreClosed == ecoOpen' = FALSE /\ ecoCalls' = GivenUp
CloseTripEco ==
    /\ ecoOpen /\ ScoreClosed /\ ecoRedraw' = TRUE
    /\ UNCHANGED <<ecoSession, ecoLate, ecoMap, ecoShown, ecoTitle, ecoBody, ecoFilter, ecoData>>
RedrawAllPins ==
    /\ ecoRedraw /\ ecoRedraw' = FALSE /\ PinsDrawn(NoTrip, ecoHistory, ecoData)
    /\ UNCHANGED <<ecoSession, ecoLate, ecoShown, ecoCard>>
SetTripEcoFilter ==
    /\ ecoOpen /\ ecoBody = "data" /\ ecoFilter' \in {"all", "kind"}
    /\ UNCHANGED <<ecoSession, ecoLate, ecoMap, ecoShown, ecoOpen, ecoTitle, ecoBody, ecoData, ecoCalls, ecoRedraw>>
\* A row's button: the pins stay those of the trip.
JumpToTripEcoEvent ==
    /\ ecoOpen /\ ecoBody = "data" /\ ecoData.found
    /\ ScoreClosed /\ ecoShown' = TRUE /\ ecoPinned' = (ecoPins # {})
    /\ UNCHANGED <<ecoSession, ecoLate, ecoHistory, ecoPins, ecoLast, ecoTitle, ecoBody, ecoFilter, ecoData, ecoRedraw>>

\* exitHistoryMode, from the bar or with the browser's back.
LeaveHistory ==
    /\ ecoSession /\ ecoSession' = FALSE
    /\ ecoHistory' = {} /\ ecoPins' = {} /\ ecoPinned' = FALSE /\ ecoShown' = FALSE
    /\ ScoreClosed /\ ecoRedraw' = TRUE
    /\ UNCHANGED <<ecoLate, ecoLast, ecoTitle, ecoBody, ecoFilter, ecoData>>

TripEcoNext ==
    \/ EnterHistory \/ ToggleEcoEvents \/ CloseTripEco \/ RedrawAllPins
    \/ SetTripEcoFilter \/ JumpToTripEcoEvent \/ LeaveHistory
    \/ \E found \in SUBSET OfTrips : SessionEvents(found)
    \/ \E trip \in EcoTrip : OpenTripEco(trip)
    \/ \E trip \in ecoCalls : ScoreFails(trip) \/ \E found \in BOOLEAN : ScoreArrives(trip, found)

-----------------------------------------------------------------------------
\* The scorecard shows the trip in its title, whatever was opened and closed while it was
\* computed; the pins are on the map exactly when they are to be shown, so none are after
\* the history was left, although its events may come later.
TripEcoSound ==
    /\ ecoOpen /\ ecoBody = "data" => ecoData.trip = ecoTitle
    /\ ecoOpen /\ ecoBody = "loading" => ecoTitle \in ecoCalls
    /\ ecoPinned <=> ecoShown /\ ecoPins # {}
    /\ ~ecoSession => ~ecoPinned
=============================================================================
