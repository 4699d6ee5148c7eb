---------------------------- MODULE ScheduleTab ----------------------------
(***************************************************************************)
(* The schedules of the report page: the form that creates or edits one,   *)
(* and the list with the stored runs of one expanded row.  The two share   *)
(* no state.                                                               *)
(***************************************************************************)
EXTENDS Integers, FiniteSets

-----------------------------------------------------------------------------
(* The form.  The fields of its trigger are drawn after the zones they offer have been     *)
(* loaded; what the user opens, selects and saves meanwhile goes on.                       *)
CONSTANTS
    ScheduleId,
    Trigger,         \* keys of the alert triggers
    NamedAsType,     \* those whose key is also the type of their alert
    NeedsZones,      \* those with a field for a zone
    TimeTrigger, NewSchedule, NoFields,
    MaxParams        \* bound: parameter sets of a trigger, 0 for its defaults

ASSUME ScheduleFormAssumption ==
    /\ NamedAsType \subseteq Trigger /\ NeedsZones \subseteq Trigger
    /\ TimeTrigger \notin Trigger /\ NewSchedule \notin ScheduleId /\ MaxParams \in Nat

ScheduleRow == [trigger : Trigger \cup {TimeTrigger}, params : 0..MaxParams]

VARIABLES
    formRows,          \* _schedules
    formOpen, editing, \* the modal and _editingScheduleId
    formTrigger,       \* the trigger selected in the form
    lastTrigger,       \* _lastScheduleTrigger
    triggerParams,     \* _sfTriggerOptions.params, 0 if there are none
    fields,            \* the trigger fields drawn: [of, params]
    fieldCalls,        \* _renderScheduleTriggerOptions that await the zones
    zonesLoaded,       \* _scheduleGeofenceOptions
    openedWith,        \* the row the form was opened with until its fields are touched
    saving             \* PUT, POST and DELETE requests under way

scheduleFormVars == <<formRows, formOpen, editing, formTrigger, lastTrigger, triggerParams, fields,
                      fieldCalls, zonesLoaded, openedWith, saving>>

ScheduleFormTypeOK ==
    /\ formRows \in [ScheduleId -> ScheduleRow \cup {NoFields}]
    /\ editing \in ScheduleId \cup {NewSchedule} /\ formTrigger \in Trigger \cup {TimeTrigger}
    /\ triggerParams \in 0..MaxParams /\ {formOpen, zonesLoaded} \subseteq BOOLEAN
    /\ \A c \in fieldCalls : c.of \in Trigger /\ {c.live, c.opens} \subseteq BOOLEAN

ScheduleFormInit ==
    /\ formRows = [s \in ScheduleId |-> NoFields]
    /\ formOpen = FALSE /\ editing = NewSchedule /\ formTrigger = TimeTrigger /\ lastTrigger = TimeTrigger
    /\ triggerParams = 0 /\ fields = NoFields /\ fieldCalls = {} /\ zonesLoaded = FALSE
    /\ openedWith = NoFields /\ saving = {}

\* An answer of the list: anyone may have edited, added or deleted schedules.
FormRowsLoaded(s, row) ==
    /\ row # formRows[s] /\ formRows' = [formRows EXCEPT ![s] = row]
    /\ UNCHANGED <<formOpen, editing, formTrigger, lastTrigger, triggerParams, fields, fieldCalls,
                   zonesLoaded, openedWith, saving>>

Outdated == {[c EXCEPT !.live = FALSE] : c \in fieldCalls}
Waits(trigger) == trigger \in NeedsZones /\ ~zonesLoaded
\* _renderScheduleTriggerOptions: the fields are cleared, and drawn once the zones are there.
\* opens: the form is shown after it.
FieldsAsked(trigger, params, opens) ==
    /\ triggerParams' = params
    /\ fields' = IF trigger = TimeTrigger \/ Waits(trigger) THEN NoFields
                 ELSE [of |-> trigger, params |-> params]
    /\ fieldCalls' = Outdated \cup
         (IF Waits(trigger) THEN {[of |-> trigger, live |-> TRUE, opens |-> opens]} ELSE {})

\* onSchedTriggerChange: options of another trigger are dropped.  What was the last one is
\* the type of the alert after a schedule was opened, and a key afterwards.
TriggerShown(trigger, last, params, opens) ==
    /\ formTrigger' = trigger /\ lastTrigger' = trigger
    /\ FieldsAsked(trigger, IF last # trigger \/ trigger = TimeTrigger THEN 0 ELSE params, opens)

\* The type of a trigger's alert; those not named as their type have another name.
AlertTypeOf(trigger) == IF trigger \in NamedAsType \cup {TimeTrigger} THEN trigger ELSE NoFields

\* openScheduleModal: the form is shown when its fields have been drawn.
OpenScheduleModal(s) ==
    LET row == IF s = NewSchedule THEN [trigger |-> TimeTrigger, params |-> 0] ELSE formRows[s]
    IN /\ editing' = s /\ openedWith' = row
       /\ TriggerShown(row.trigger, AlertTypeOf(row.trigger), row.params, TRUE)
       /\ formOpen' = ~Waits(row.trigger)
       /\ UNCHANGED <<formRows, zonesLoaded, saving>>

\* The zones have come, and stay.  A drawing that was overtaken, or whose trigger is no longer
\* selected, is dropped, but the opening it belongs to goes on.
FieldsArrive(c) ==
    /\ fieldCalls' = fieldCalls \ {c} /\ zonesLoaded' = TRUE /\ formOpen' = (formOpen \/ c.opens)
    /\ fields' = IF c.live /\ formTrigger = c.of THEN [of |-> c.of, params |-> triggerParams] ELSE fields
    /\ UNCHANGED <<formRows, editing, formTrigger, lastTrigger, triggerParams, openedWith, saving>>

SelectTrigger(trigger) ==
    /\ formOpen /\ trigger # formTrigger /\ openedWith' = NoFields
    /\ TriggerShown(trigger, lastTrigger, triggerParams, FALSE)
    /\ UNCHANGED <<formRows, formOpen, editing, zonesLoaded, saving>>
EditFields(params) ==
    /\ formOpen /\ fields # NoFields /\ params # fields.params
    /\ fields' = [fields EXCEPT !.params = params] /\ openedWith' = NoFields
    /\ UNCHANGED <<formRows, formOpen, editing, formTrigger, lastTrigger, triggerParams, fieldCalls,
                   zonesLoaded, saving>>
CloseScheduleModal ==
    /\ formOpen /\ formOpen' = FALSE
    /\ UNCHANGED <<formRows, editing, formTrigger, lastTrigger, triggerParams, fields, fieldCalls,
                   zonesLoaded, openedWith, saving>>

\* saveSchedule: the fields on screen are the parameters, none if they are not drawn yet.
FormRow == [trigger |-> formTrigger, params |-> IF fields = NoFields THEN 0 ELSE fields.params]
SaveSchedule ==
    /\ formOpen /\ saving = {}
    /\ saving' = {[kind |-> "save", id |-> editing, row |-> FormRow]}
    /\ UNCHANGED <<formRows, formOpen, editing, formTrigger, lastTrigger, triggerParams, fields, fieldCalls,
                   zonesLoaded, openedWith>>
DeleteEdited ==
    /\ formOpen /\ editing # NewSchedule /\ saving = {}
    /\ saving' = {[kind |-> "delete", id |-> editing, row |-> FormRow]}
    /\ formOpen' = FALSE
    /\ UNCHANGED <<formRows, editing, formTrigger, lastTrigger, triggerParams, fields, fieldCalls,
                   zonesLoaded, openedWith>>

\* Success closes the form, whatever it edits by now; a failed save leaves it.
Answered(c) ==
    /\ saving' = saving \ {c}
    /\ formOpen' \in IF c.kind = "save" THEN {FALSE, formOpen} ELSE {formOpen}
    /\ formRows' \in IF c.kind = "delete" THEN {formRows, [formRows EXCEPT ![c.id] = NoFields]} ELSE {formRows}
    /\ UNCHANGED <<editing, formTrigger, lastTrigger, triggerParams, fields, fieldCalls, zonesLoaded, openedWith>>

ScheduleFormNext ==
    \/ \E s \in ScheduleId, row \in ScheduleRow \cup {NoFields} : FormRowsLoaded(s, row)
    \/ \E s \in {q \in ScheduleId : formRows[q] # NoFields} \cup {NewSchedule} :
           ~formOpen /\ OpenScheduleModal(s)
    \/ \E c \in fieldCalls : FieldsArrive(c)
    \/ \E trigger \in Trigger \cup {TimeTrigger} : SelectTrigger(trigger)
    \/ \E params \in 0..MaxParams : EditFields(params)
    \/ CloseScheduleModal \/ SaveSchedule \/ DeleteEdited
    \/ \E c \in saving : Answered(c)

-----------------------------------------------------------------------------
\* _renderScheduleTriggerOptions: the fields on screen are those of the selected trigger,
\* although the zones for another selection, or another schedule, may come later.
FieldsOfTheTrigger == fields # NoFields => fields.of = formTrigger

\* A form whose fields nobody touched shows the parameters its schedule is stored with, if
\* the key of the trigger is the type of its alert: of every other trigger the options are
\* dropped on opening, and the form shows the defaults.
EditShowsStored ==
    openedWith # NoFields /\ fields # NoFields /\ openedWith.trigger \in NamedAsType =>
        fields = [of |-> openedWith.trigger, params |-> openedWith.params]

ScheduleFormSound == FieldsOfTheTrigger /\ EditShowsStored

-----------------------------------------------------------------------------
(* The list is drawn anew for every search, sort, answer and deletion, and the runs of the *)
(* expanded row are asked for each time.                                                   *)
CONSTANTS
    Schedule,
    NoSchedule,
    MaxListCalls   \* bound: answers of the list on their way

ASSUME ScheduleListAssumption == NoSchedule \notin Schedule /\ MaxListCalls \in Nat

VARIABLES
    schedulesStored,   \* the server's rows
    schedules,         \* _schedules
    listCalls,         \* answers of the list, as the server read it
    deletions,         \* deletions under way
    drawnRows,         \* the rows on screen: schedule to the state of its runs
    runsAsked,         \* requests for runs that write into a row on screen
    expandedSchedule   \* _expandedScheduleId

scheduleListVars == <<schedulesStored, schedules, listCalls, deletions, drawnRows, runsAsked, expandedSchedule>>
drawnVars == <<drawnRows, runsAsked>>

ScheduleListTypeOK ==
    /\ schedulesStored \subseteq Schedule /\ schedules \subseteq Schedule
    /\ listCalls \subseteq SUBSET Schedule /\ deletions \subseteq Schedule
    /\ DOMAIN drawnRows \subseteq Schedule /\ runsAsked \subseteq DOMAIN drawnRows
    /\ \A s \in DOMAIN drawnRows : drawnRows[s] \in {"loading", "loaded"}
    /\ expandedSchedule \in Schedule \cup {NoSchedule}

ScheduleListInit ==
    /\ schedulesStored = {} /\ schedules = {} /\ listCalls = {} /\ deletions = {}
    /\ drawnRows = <<>> /\ runsAsked = {} /\ expandedSchedule = NoSchedule

\* _renderScheduleList: requests for the rows before write into nothing.
RowsDrawnUnlooked(S) == drawnRows' = [s \in S |-> "loading"] /\ runsAsked' = {expandedSchedule'}
RowsDrawn(S) == drawnRows' = [s \in S |-> "loading"] /\ runsAsked' = S \cap {expandedSchedule'}

\* Schedules are created and deleted by this page, and by others.
ScheduleStored ==
    /\ schedulesStored' \in SUBSET Schedule /\ schedulesStored' # schedulesStored
    /\ UNCHANGED <<schedules, listCalls, deletions, drawnVars, expandedSchedule>>

\* The tab is shown or a schedule was saved; a failed answer is dropped.
LoadSchedules ==
    /\ listCalls' = listCalls \cup {schedulesStored} /\ Cardinality(listCalls') <= MaxListCalls
    /\ UNCHANGED <<schedulesStored, schedules, deletions, drawnVars, expandedSchedule>>
SchedulesArrive(list) ==
    /\ listCalls' = listCalls \ {list} /\ UNCHANGED expandedSchedule
    /\ \/ schedules' = list /\ RowsDrawn(list)
       \/ UNCHANGED <<schedules, drawnVars>>
    /\ UNCHANGED <<schedulesStored, deletions>>

\* A search, and every sort, draws the rows that match.
FilterSchedules(S) ==
    /\ S \subseteq schedules /\ UNCHANGED expandedSchedule /\ RowsDrawn(S)
    /\ UNCHANGED <<schedulesStored, schedules, listCalls, deletions>>

ToggleRunHistory(s) ==
    /\ IF expandedSchedule = s
       THEN expandedSchedule' = NoSchedule /\ UNCHANGED drawnVars
       ELSE /\ expandedSchedule' = s
            /\ drawnRows' = [drawnRows EXCEPT ![s] = "loading"] /\ runsAsked' = runsAsked \cup {s}
    /\ UNCHANGED <<schedulesStored, schedules, listCalls, deletions>>
\* The runs, or a line that says they could not be loaded.
RunsArrive(s) ==
    /\ drawnRows' = [drawnRows EXCEPT ![s] = "loaded"] /\ runsAsked' = runsAsked \ {s}
    /\ UNCHANGED <<schedulesStored, schedules, listCalls, deletions, expandedSchedule>>

DeleteSchedule(s) ==
    /\ deletions' = deletions \cup {s}
    /\ UNCHANGED <<schedulesStored, schedules, listCalls, drawnVars, expandedSchedule>>
ScheduleDeleted(s) ==
    /\ deletions' = deletions \ {s}
    /\ \/ /\ schedulesStored' = schedulesStored \ {s} /\ schedules' = schedules \ {s}
          /\ expandedSchedule' = IF expandedSchedule = s THEN NoSchedule ELSE expandedSchedule
          /\ \E S \in SUBSET schedules' : RowsDrawn(S)
       \/ UNCHANGED <<schedulesStored, schedules, drawnVars, expandedSchedule>>
    /\ UNCHANGED listCalls

ScheduleListNext ==
    \/ ScheduleStored \/ LoadSchedules
    \/ \E list \in listCalls : SchedulesArrive(list)
    \/ \E S \in SUBSET schedules : FilterSchedules(S)
    \/ \E s \in DOMAIN drawnRows : ToggleRunHistory(s)
    \/ \E s \in runsAsked : RunsArrive(s)
    \/ \E s \in schedules : DeleteSchedule(s)
    \/ \E s \in deletions : ScheduleDeleted(s)

-----------------------------------------------------------------------------
\* An expanded row never says "Loading" without a request that will fill it, whatever was
\* collapsed, filtered, sorted, deleted or loaded again in between; and a row on screen is
\* of a schedule the page knows.
ExpandedRowLoads ==
    /\ DOMAIN drawnRows \subseteq schedules
    /\ expandedSchedule \in DOMAIN drawnRows =>
           drawnRows[expandedSchedule] = "loaded" \/ expandedSchedule \in runsAsked
=============================================================================
