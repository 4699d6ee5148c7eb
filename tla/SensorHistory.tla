--------------------------- MODULE SensorHistory ---------------------------
(***************************************************************************)
(* The window that lists the readings of one sensor: the load that is      *)
(* aborted by the next one, the filter on changes with its pages, and the  *)
(* jump from a reading into the history of its vehicle.  A reading is its  *)
(* change from the one before it in time: a changed value, the same number *)
(* again, or nothing known; the newest comes first.  Each sensor here is   *)
(* of a vehicle of its own.                                                *)
(***************************************************************************)
EXTENDS Integers, Sequences, FiniteSets

CONSTANTS
    Sensor, NoSensor,
    SpanOfTime,                 \* the ranges of time to choose from
    MaxReadings,                \* the limit of one answer
    ReadingsPage,               \* state.pageSize
    MaxSensorLoads              \* bound: requests on their way

ASSUME SensorHistoryAssumption ==
    /\ NoSensor \notin Sensor /\ SpanOfTime # {} /\ MaxReadings \in Nat /\ ReadingsPage \in Nat \ {0} /\ MaxSensorLoads \in Nat

Reading == {"changed", "same", "none"}
Readings == UNION {[1..n -> Reading] : n \in 0..MaxReadings}
NoReadings == [of |-> NoSensor, readings |-> <<>>]

VARIABLES
    shTitle,        \* deviceId and sensorKey
    shSpan,         \* rangeHours
    shOnlyChanges, shPage,
    shData,         \* data, with the sensor it is of
    shOpen,         \* the window is on the page
    shTable,        \* "blank", "loading", "failed", or "rows" drawn from shData
    shLoads,        \* requests whose abort controller was not used
    shHistory,      \* whose history is loaded on the map, for the span of which readings
    shJump          \* the load a jump waits for: sensor and span; NoSensor when none

sensorHistoryVars == <<shTitle, shSpan, shOnlyChanges, shPage, shData, shOpen, shTable, shLoads, shHistory, shJump>>
shOnMap == <<shHistory, shJump>>
shView == <<shTitle, shSpan, shOnlyChanges, shPage, shData, shOpen, shTable, shLoads>>
NoSpan == [of |-> NoSensor, span |-> "none"]
Spans == [of : Sensor, span : SpanOfTime] \cup {NoSpan}

SensorHistoryTypeOK ==
    /\ shTitle \in Sensor \cup {NoSensor} /\ shSpan \in SpanOfTime /\ shOnlyChanges \in BOOLEAN /\ shPage \in Nat
    /\ shData.readings \in Readings /\ shOpen \in BOOLEAN /\ shTable \in {"blank", "loading", "failed", "rows"}
    /\ shLoads \subseteq Spans /\ Cardinality(shLoads) <= MaxSensorLoads /\ shHistory \in Spans /\ shJump \in Spans

SensorHistoryInit ==
    /\ shTitle = NoSensor /\ shSpan = CHOOSE s \in SpanOfTime : TRUE
    /\ shOnlyChanges = TRUE /\ shPage = 1 /\ shData = NoReadings /\ shOpen = FALSE /\ shTable = "blank"
    /\ shLoads = {} /\ shHistory = NoSpan /\ shJump = NoSpan

-----------------------------------------------------------------------------
(* The rows of the table. *)
\* _renderTable keeps a last reading of which nothing is known as the baseline.
RowsOf(readings, changes) ==
    IF ~changes THEN Len(readings)
    ELSE Cardinality({i \in DOMAIN readings :
            readings[i] = "changed" \/ (readings[i] = "none" /\ i = Len(readings))})
\* changeSensorHistPage counts the last reading in any case.
RowsGuessed(readings, changes) ==
    IF ~changes THEN Len(readings)
    ELSE Cardinality({i \in DOMAIN readings : readings[i] = "changed" \/ i = Len(readings)})
ReadingPages(rows) == (rows + ReadingsPage - 1) \div ReadingsPage
PageWithin(page, rows) ==
    IF rows = 0 THEN page ELSE IF page > ReadingPages(rows) THEN ReadingPages(rows) ELSE IF page < 1 THEN 1 ELSE page
\* Drawing without data leaves the table as it is.
TableDrawn(data, changes, page) ==
    IF data = NoReadings THEN shPage' = page /\ UNCHANGED shTable
    ELSE shPage' = PageWithin(page, RowsOf(data.readings, changes)) /\ shTable' = "rows"

-----------------------------------------------------------------------------
(* Loading. *)
\* loadSensorHistory aborts the load before it.
Aborted == {}
LoadReadings(sensor, span) ==
    /\ shLoads' = Aborted \cup {[of |-> sensor, span |-> span]} /\ Cardinality(shLoads') <= MaxSensorLoads
    /\ shSpan' = span /\ shTable' = "loading"
OpenSensorHistory(sensor) ==
    /\ ~shOpen /\ shOpen' = TRUE /\ shTitle' = sensor /\ shOnlyChanges' = TRUE /\ shPage' = 1 /\ shData' = NoReadings
    /\ LoadReadings(sensor, CHOOSE s \in SpanOfTime : TRUE)
    /\ UNCHANGED shOnMap
SelectRange(span) ==
    /\ shOpen /\ LoadReadings(shTitle, span)
    /\ UNCHANGED <<shTitle, shOnlyChanges, shPage, shData, shOpen, shOnMap>>
ReadingsArrive(load, readings) ==
    /\ shLoads' = shLoads \ {load} /\ shData' = [of |-> load.of, readings |-> readings]
    /\ TableDrawn(shData', shOnlyChanges, 1)
    /\ UNCHANGED <<shTitle, shSpan, shOnlyChanges, shOpen, shOnMap>>
\* The data of an earlier load stays.
ReadingsFail(load) ==
    /\ shLoads' = shLoads \ {load} /\ shTable' = "failed"
    /\ UNCHANGED <<shTitle, shSpan, shOnlyChanges, shPage, shData, shOpen, shOnMap>>
CloseSensorHistory ==
    /\ shOpen /\ shOpen' = FALSE /\ shLoads' = Aborted
    /\ UNCHANGED <<shTitle, shSpan, shOnlyChanges, shPage, shData, shTable, shOnMap>>

ToggleOnlyChanges ==
    /\ shOpen /\ shOnlyChanges' = ~shOnlyChanges /\ TableDrawn(shData, shOnlyChanges', 1)
    /\ UNCHANGED <<shTitle, shSpan, shData, shOpen, shLoads, shOnMap>>
ChangePage(dir) ==
    /\ shOpen /\ shData # NoReadings
    /\ shPage + dir \in 1..ReadingPages(RowsGuessed(shData.readings, shOnlyChanges))
    /\ TableDrawn(shData, shOnlyChanges, shPage + dir)
    /\ UNCHANGED <<shTitle, shSpan, shOnlyChanges, shData, shOpen, shLoads, shOnMap>>

-----------------------------------------------------------------------------
(* goToHistoryAtReading: a reading in the history already loaded is only sought, otherwise *)
(* the span asked for last is loaded first.                                                 *)
GoToReading ==
    LET here == [of |-> shTitle, span |-> shSpan] IN
    /\ shOpen /\ shTable = "rows" /\ RowsOf(shData.readings, shOnlyChanges) > 0
    /\ shOpen' = FALSE /\ shLoads' = Aborted
    /\ shJump' \in IF shHistory.of # shTitle THEN {here} ELSE IF shHistory = here THEN {shJump} ELSE {here, shJump}
    /\ UNCHANGED <<shTitle, shSpan, shOnlyChanges, shPage, shData, shTable, shHistory>>
JumpArrives ==
    /\ shJump # NoSpan /\ shHistory' = shJump /\ shJump' = NoSpan
    /\ UNCHANGED shView
\* Another history is loaded or left meanwhile: the load of the jump tells that it failed.
OtherHistory(history) ==
    /\ shHistory' = history /\ shJump' = NoSpan
    /\ UNCHANGED shView

SensorHistoryNext ==
    \/ \E sensor \in Sensor : OpenSensorHistory(sensor)
    \/ \E span \in SpanOfTime : SelectRange(span)
    \/ \E load \in shLoads : ReadingsFail(load) \/ \E readings \in Readings : ReadingsArrive(load, readings)
    \/ CloseSensorHistory \/ ToggleOnlyChanges \/ GoToReading \/ JumpArrives
    \/ \E dir \in {-1, 1} : ChangePage(dir)
    \/ \E history \in Spans : OtherHistory(history)

-----------------------------------------------------------------------------
\* The readings are those of the sensor in the title, the page drawn has rows if there are any,
\* and a table that says it is loading has a load under way: an aborted one leaves nothing behind.
SensorHistorySound ==
    /\ shData # NoReadings => shData.of = shTitle
    /\ shData # NoReadings /\ shTable = "rows" =>
          LET rows == RowsOf(shData.readings, shOnlyChanges) IN rows > 0 => shPage \in 1..ReadingPages(rows)
    /\ shOpen /\ shTable = "loading" => shLoads # {}
=============================================================================
