---------------------------- MODULE UserLocation ----------------------------
(***************************************************************************)
(* The user's own position on the dashboard's map: the button that follows *)
(* it, the watch of the browser, the compass, and the dot, the accuracy    *)
(* circle and the cone of the heading they draw.  The answer to the        *)
(* question for the compass and its events come whenever they come.        *)
(***************************************************************************)
EXTENDS Integers

CONSTANTS MaxAsked, \* bound: permission questions without an answer
          Places    \* where the user may be: 1..Places, 0 for nothing drawn

ASSUME UserLocationAssumption == MaxAsked \in Nat /\ Places \in Nat \ {0}

VARIABLES
    mustAsk,        \* the platform asks the user before it gives the compass
    locating,       \* _locating
    watches,        \* watches of the browser that still call back
    asked,          \* permission questions the user has not answered
    compassOn,      \* a listener of the orientation events is there
    compassKnown,   \* _compassAvailable
    dotAt, circleAt, coneAt

userLocationVars ==
    <<mustAsk, locating, watches, asked, compassOn, compassKnown, dotAt, circleAt, coneAt>>

UserLocationTypeOK ==
    /\ {mustAsk, locating, compassOn, compassKnown} \subseteq BOOLEAN
    /\ watches \in Nat /\ asked \in 0..MaxAsked
    /\ {dotAt, circleAt, coneAt} \subseteq 0..Places

UserLocationInit ==
    /\ mustAsk \in BOOLEAN /\ locating = FALSE /\ watches = 0 /\ asked = 0
    /\ compassOn = FALSE /\ compassKnown = FALSE
    /\ dotAt = 0 /\ circleAt = 0 /\ coneAt = 0

StartUserLocation ==
    /\ ~locating /\ locating' = TRUE /\ watches' = watches + 1
    /\ IF mustAsk
       THEN asked < MaxAsked /\ asked' = asked + 1 /\ UNCHANGED compassOn
       ELSE compassOn' = TRUE /\ UNCHANGED asked
    /\ UNCHANGED <<mustAsk, compassKnown, dotAt, circleAt, coneAt>>

\* Stopped by the button or by an error of the watch.
StopUserLocation ==
    /\ locating' = FALSE /\ watches' = 0
    /\ compassOn' = FALSE /\ compassKnown' = FALSE
    /\ dotAt' = 0 /\ circleAt' = 0 /\ coneAt' = 0 /\ UNCHANGED <<mustAsk, asked>>

\* The answer installs the listener even when the following has stopped.
PermissionAnswered ==
    /\ asked > 0 /\ asked' = asked - 1
    /\ \E granted \in BOOLEAN : compassOn' = (compassOn \/ granted)
    /\ UNCHANGED <<mustAsk, locating, watches, compassKnown, dotAt, circleAt, coneAt>>

\* A fix moves the cone only while no compass has been heard.
LocationSuccess(place) ==
    /\ watches > 0
    /\ dotAt' = place /\ circleAt' = place
    /\ coneAt' \in IF compassKnown THEN {coneAt} ELSE {coneAt, place}
    /\ UNCHANGED <<mustAsk, locating, watches, asked, compassOn, compassKnown>>

\* The cone stands where the dot is; an event without a dot draws nothing.
Turned == coneAt' = IF dotAt = 0 THEN coneAt ELSE dotAt
Compass ==
    /\ compassOn /\ compassKnown' = TRUE /\ Turned
    /\ UNCHANGED <<mustAsk, locating, watches, asked, compassOn, dotAt, circleAt>>

UserLocationNext ==
    \/ StartUserLocation
    \/ locating /\ StopUserLocation
    \/ PermissionAnswered
    \/ \E place \in 1..Places : LocationSuccess(place)
    \/ Compass

-----------------------------------------------------------------------------
(* _stopUserLocation clears the map: nothing of the user is drawn and no   *)
(* watch calls back once the button is off, although permission answers    *)
(* and compass events still come.                                          *)
OffDrawsNothing == ~locating => dotAt = 0 /\ circleAt = 0 /\ coneAt = 0 /\ watches = 0

(* A started following has one watch, whatever was stopped and restarted   *)
(* before, and the cone is drawn only with a dot.                          *)
OneWatch == (locating => watches = 1) /\ (coneAt # 0 => dotAt # 0)
=============================================================================
