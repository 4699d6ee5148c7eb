----------------------------- MODULE AlertState -----------------------------
(***************************************************************************)
(* The device_states row of one device as driver auto-assignment, the      *)
(* alert engine and the operators share it.                                *)
(*                                                                         *)
(* The alert_states column is one JSON document: it holds the latch of     *)
(* every alert and the keys that tell which driver the rules assigned.     *)
(* Each writer reads it, works on its copy and writes the whole column:    *)
(*   - the position transaction (process_position, auto_assign.evaluate),  *)
(*   - process_position_alerts, on a copy read after that transaction,     *)
(*   - periodic_alert_task, on a copy read before its round over all       *)
(*     devices.                                                            *)
(* Operators write current_driver_id only (assign_driver).                 *)
(*                                                                         *)
(* Of a position there is kept whether it lies in the zone, its ignition,  *)
(* whether the vehicle is moving, the drivers whose rule it matches, and   *)
(* what its time decides: whether the 30 s debounce still holds back a new *)
(* trip and whether the grace period of a continuous driver still runs.    *)
(* The no-driver row alerts at once (duration_seconds = 0).  Drivers are   *)
(* not deleted and keep a rule; its mode and clear event may be edited.    *)
(***************************************************************************)
EXTENDS Integers, FiniteSets

CONSTANTS
    Handler,     \* tasks that process positions: one for a TCP device, more for UDP
    Driver,      \* the drivers with a rule for this device
    NoDriver,    \* current_driver_id is null
    Settings,    \* the [mode, clear] a driver's rule may have
    Rows,        \* the alert rows configured: among "geofence", "no_driver", "offline"
    Scheduled,   \* the rows with a schedule: they may be inactive at any evaluation
    ZoneEvents,  \* what the zone alerts on: "enter", "exit"
    Inputs,      \* the positions the device may send
    AutoClear,   \* auto_clear_driver of the device
    Faults       \* TRUE: database errors and crashes happen

ZoneLatch == {"enter", "exit"}
Latch == ZoneLatch \cup {"no_driver", "offline"}
Event == {"ignition_off", "trip_end"}
Mode == {"one_time", "continuous"}
Clear == Event \cup {"never", "rule_stops"}
Position == [inside : BOOLEAN, ignition : {"on", "off", "none"}, moving : BOOLEAN,
             matches : SUBSET Driver, debounced : BOOLEAN, graced : BOOLEAN]
Assignment == [auto : Driver \cup {NoDriver}, mode : Mode \cup {"none"}, clear : Clear \cup {"none"}]

ASSUME AlertStateAssumption ==
    /\ NoDriver \notin Driver
    /\ Settings \subseteq [mode : Mode, clear : Clear \ {"rule_stops"}] /\ Settings # {}
    /\ Rows \subseteq {"geofence", "no_driver", "offline"} /\ Scheduled \subseteq Rows
    /\ ZoneEvents \subseteq ZoneLatch
    /\ Inputs \subseteq Position
    /\ AutoClear \in BOOLEAN /\ Faults \in BOOLEAN

NoAssignment == [auto |-> NoDriver, mode |-> "none", clear |-> "none"]
Row == [driver : Driver \cup {NoDriver}, assignment : Assignment, latched : SUBSET Latch, trip : BOOLEAN]
NewRow == [driver |-> NoDriver, assignment |-> NoAssignment, latched |-> {}, trip |-> FALSE]

VARIABLES
    row,       \* the device_states row; alert_states is assignment and latched together
    heard,     \* last_update: "never", "recent" or "old", older than the offline timeout
    settings,  \* mode and clear event of each driver's rule
    phase,     \* where each handler is
    pos,       \* the position it processes
    copy,      \* the row as it read it, and then as it changed it
    alerts,    \* the alerts it found and has not dispatched
    round,     \* where periodic_alert_task is
    sweep,     \* the row and last_update it read
    swept      \* a round has started since the last position was done with

handlerVars == <<phase, pos, copy, alerts>>
sweepVars == <<round, sweep, swept>>
vars == <<row, heard, settings, handlerVars, sweepVars>>

NoPosition == [inside |-> FALSE, ignition |-> "none", moving |-> FALSE,
               matches |-> {}, debounced |-> FALSE, graced |-> FALSE]
Heard == {"never", "recent", "old"}

TypeOK ==
    /\ row \in Row /\ heard \in Heard
    /\ settings \in [Driver -> Settings]
    /\ phase \in [Handler -> {"idle", "loaded", "committed", "evaluated", "saved"}]
    /\ pos \in [Handler -> Position]
    /\ copy \in [Handler -> Row]
    /\ alerts \in [Handler -> SUBSET Latch]
    /\ round \in {"idle", "read", "saved"}
    /\ sweep \in [row : Row, heard : Heard]
    /\ swept \in BOOLEAN

NoSweep == [row |-> NewRow, heard |-> "never"]

Init ==
    /\ row = NewRow /\ heard = "never"
    /\ settings \in [Driver -> Settings]
    /\ phase = [h \in Handler |-> "idle"]
    /\ pos = [h \in Handler |-> NoPosition]
    /\ copy = [h \in Handler |-> NewRow]
    /\ alerts = [h \in Handler |-> {}]
    /\ round = "idle" /\ sweep = NoSweep /\ swept = FALSE

-----------------------------------------------------------------------------
(* auto_assign.py, on a position p and a row v *)

Cleared(v) == [v EXCEPT !.driver = NoDriver, !.assignment = NoAssignment]
IsAuto(v) == v.driver # NoDriver /\ v.driver = v.assignment.auto
OnEvent(e, v) == IF IsAuto(v) /\ v.assignment.clear = e THEN Cleared(v) ELSE v

\* What a driver's rule leaves in the column: the settings as they are now.
AssignedUnrecorded(d, v) ==  \* mutant: a one-time driver is not recorded
    [v EXCEPT !.driver = d,
              !.assignment = IF settings[d].mode = "one_time" THEN NoAssignment
                             ELSE [auto |-> d, mode |-> settings[d].mode, clear |-> "rule_stops"]]
AssignedMode(d, v) ==  \* mutant: the mode in place of the clear event
    [v EXCEPT !.driver = d,
              !.assignment = [auto |-> d, mode |-> settings[d].mode, clear |-> settings[d].mode]]
Assigned(d, v) ==
    [v EXCEPT !.driver = d,
              !.assignment = [auto |-> d, mode |-> settings[d].mode,
                              clear |-> IF settings[d].mode = "continuous" THEN "rule_stops"
                                        ELSE settings[d].clear]]

\* A rule that matches stamps its time in the column, which is then written
\* even if nothing else in it changes.
Stamps(p, v) ==
    \/ v.driver = NoDriver /\ p.matches # {}
    \/ IsAuto(v) /\ v.assignment.mode = "continuous" /\ v.driver \in p.matches

\* evaluate: the rows it may leave.  The query gives the drivers no order.
Evaluated(p, v) ==
    IF v.driver = NoDriver
    THEN IF p.matches = {} THEN {v} ELSE {Assigned(d, v) : d \in p.matches}
    ELSE IF IsAuto(v) /\ v.assignment.mode = "continuous" /\ v.driver \notin p.matches /\ ~p.graced
    THEN {Cleared(v)} ELSE {v}

\* The part of _handle_trip_logic that bears on the driver.
AfterTripLogic(p, v) ==
    CASE p.ignition = "on" -> [v EXCEPT !.trip = v.trip \/ ~p.debounced]
      [] p.ignition = "off" /\ v.trip ->
            LET w == OnEvent("trip_end", [OnEvent("ignition_off", v) EXCEPT !.trip = FALSE])
            IN IF AutoClear THEN [w EXCEPT !.driver = NoDriver] ELSE w
      [] OTHER -> v

-----------------------------------------------------------------------------
(* The alert rows, on a position p and a row v; on is the set of active rows *)

Violations(p) == {IF p.inside THEN "enter" ELSE "exit"} \cap ZoneEvents

\* GeofenceAlert.check_many and NoDriverAlert.check: the latches they set ...
Holding(p, v, on) ==
    (IF "geofence" \in on THEN Violations(p) ELSE {}) \cup
    (IF "no_driver" \in on /\ p.ignition # "off" /\ p.moving /\ v.driver = NoDriver
     THEN {"no_driver"} ELSE {})

\* ... and the ones they reset.
EndedWhenSlow(p, v, on) ==  \* mutant: a slow vehicle resets the no-driver latch
    (IF "geofence" \in on THEN ZoneLatch \ Violations(p) ELSE {}) \cup
    (IF "no_driver" \in on /\ (p.ignition = "off" \/ ~p.moving \/ v.driver # NoDriver)
     THEN {"no_driver"} ELSE {})
Ended(p, v, on) ==
    (IF "geofence" \in on THEN ZoneLatch \ Violations(p) ELSE {}) \cup
    (IF "no_driver" \in on /\ (p.ignition = "off" \/ (p.moving /\ v.driver # NoDriver))
     THEN {"no_driver"} ELSE {})

Latched(p, v, on) == (v.latched \cup Holding(p, v, on)) \ Ended(p, v, on)
Fired(p, v, on) == Holding(p, v, on) \ v.latched

-----------------------------------------------------------------------------
(* process_position_callback, one handler *)

Forget(h) ==
    /\ phase' = [phase EXCEPT ![h] = "idle"]
    /\ pos' = [pos EXCEPT ![h] = NoPosition]
    /\ copy' = [copy EXCEPT ![h] = NewRow]
    /\ alerts' = [alerts EXCEPT ![h] = {}]

\* process_position opens its session and loads the row.
Load(h) ==
    /\ phase[h] = "idle"
    /\ \E p \in Inputs : pos' = [pos EXCEPT ![h] = p]
    /\ copy' = [copy EXCEPT ![h] = row]
    /\ phase' = [phase EXCEPT ![h] = "loaded"]
    /\ swept' = FALSE
    /\ UNCHANGED <<row, heard, settings, alerts, round, sweep>>

\* It commits: trip logic, then evaluate; only changed columns are written.
Commit(h) ==
    /\ phase[h] = "loaded"
    /\ LET v == copy[h]  t == AfterTripLogic(pos[h], v) IN
       \E w \in Evaluated(pos[h], t) :
          LET states == w.assignment # v.assignment \/ Stamps(pos[h], t) IN
          row' = [driver |-> IF w.driver = v.driver THEN row.driver ELSE w.driver,
                  trip |-> IF w.trip = v.trip THEN row.trip ELSE w.trip,
                  assignment |-> IF states THEN w.assignment ELSE row.assignment,
                  latched |-> IF states THEN w.latched ELSE row.latched]
    /\ heard' = "recent"
    /\ phase' = [phase EXCEPT ![h] = "committed"]
    /\ UNCHANGED <<settings, pos, copy, alerts, sweepVars>>

\* get_device_by_imei reads the row again; the rows active now are evaluated
\* on that copy.
Evaluate(h, on) ==
    /\ phase[h] = "committed"
    /\ copy' = [copy EXCEPT ![h] = [row EXCEPT !.latched = Latched(pos[h], row, on)]]
    /\ alerts' = [alerts EXCEPT ![h] = Fired(pos[h], row, on)]
    /\ phase' = [phase EXCEPT ![h] = "evaluated"]
    /\ UNCHANGED <<row, heard, settings, pos, sweepVars>>

SaveUnlatched(h) ==  \* mutant: the latches of alerts about to be dispatched are not saved
    /\ phase[h] = "evaluated"
    /\ row' = [row EXCEPT !.assignment = copy[h].assignment, !.latched = copy[h].latched \ alerts[h]]
    /\ phase' = [phase EXCEPT ![h] = "saved"]
    /\ UNCHANGED <<heard, settings, pos, copy, alerts, sweepVars>>
\* update_device_alert_state writes the whole column.
Save(h) ==
    /\ phase[h] = "evaluated"
    /\ row' = [row EXCEPT !.assignment = copy[h].assignment, !.latched = copy[h].latched]
    /\ phase' = [phase EXCEPT ![h] = "saved"]
    /\ UNCHANGED <<heard, settings, pos, copy, alerts, sweepVars>>

\* The alerts get their alert_history rows.
Dispatch(h) ==
    /\ phase[h] = "saved"
    /\ Forget(h)
    /\ UNCHANGED <<row, heard, settings, sweepVars>>

\* An exception: the rest of the work on this position is dropped.
Fail(h) ==
    /\ Faults /\ phase[h] # "idle"
    /\ Forget(h)
    /\ UNCHANGED <<row, heard, settings, sweepVars>>

-----------------------------------------------------------------------------
(* periodic_alert_task, OfflineAlert.check_device *)

\* get_all_active_devices_with_state reads every device at the start of a round.
SweepRead ==
    /\ round = "idle" /\ "offline" \in Rows
    /\ round' = "read"
    /\ sweep' = [row |-> row, heard |-> heard]
    /\ swept' = \A h \in Handler : phase[h] = "idle"
    /\ UNCHANGED <<row, heard, settings, handlerVars>>

SweepFiresAgain == sweep.heard = "old"  \* mutant: the latch is not looked at
SweepFires == sweep.heard = "old" /\ "offline" \notin sweep.row.latched
SweepLatchedForGood ==  \* mutant: the latch is not reset when the device is back
    IF sweep.heard = "old" THEN sweep.row.latched \cup {"offline"} ELSE sweep.row.latched
SweepLatched ==
    CASE sweep.heard = "recent" -> sweep.row.latched \ {"offline"}
      [] sweep.heard = "old"    -> sweep.row.latched \cup {"offline"}
      [] OTHER                  -> sweep.row.latched

\* The turn of this device: the check on the copy and the write of the column.
SweepSave ==
    /\ round = "read"
    /\ row' = [row EXCEPT !.assignment = sweep.row.assignment, !.latched = SweepLatched]
    /\ IF SweepFires
       THEN round' = "saved" /\ UNCHANGED sweep
       ELSE round' = "idle" /\ sweep' = NoSweep
    /\ UNCHANGED <<heard, settings, handlerVars, swept>>

SweepEnds == round' = "idle" /\ sweep' = NoSweep

SweepDispatch ==
    /\ round = "saved" /\ SweepEnds
    /\ UNCHANGED <<row, heard, settings, handlerVars, swept>>

\* The row is out of its schedule, or an exception ends the turn.
SweepSkip ==
    /\ \/ round = "read" /\ "offline" \in Scheduled
       \/ round # "idle" /\ Faults
    /\ SweepEnds
    /\ UNCHANGED <<row, heard, settings, handlerVars, swept>>

-----------------------------------------------------------------------------
(* Operators, time and crashes *)

\* assign_driver, with a driver or none.
AssignDriver(d) ==
    /\ row' = [row EXCEPT !.driver = d]
    /\ UNCHANGED <<heard, settings, handlerVars, sweepVars>>

\* The form of a driver: mode and clear event of the rule.
EditDriver(d) ==
    /\ \E s \in Settings \ {settings[d]} : settings' = [settings EXCEPT ![d] = s]
    /\ UNCHANGED <<row, heard, handlerVars, sweepVars>>

\* The offline timeout, an hour at least, passes without a position: what was
\* in progress is over and the task, which runs every minute, has had a round.
Silence ==
    /\ heard = "recent"
    /\ \A h \in Handler : phase[h] = "idle"
    /\ round = "idle" /\ ("offline" \in Rows => swept)
    /\ heard' = "old"
    /\ UNCHANGED <<row, settings, handlerVars, sweepVars>>

\* The process stops; only the row survives.
Crash ==
    /\ Faults
    /\ phase' = [h \in Handler |-> "idle"]
    /\ pos' = [h \in Handler |-> NoPosition]
    /\ copy' = [h \in Handler |-> NewRow]
    /\ alerts' = [h \in Handler |-> {}]
    /\ SweepEnds
    /\ UNCHANGED <<row, heard, settings, swept>>

EvaluateActive(h) == \E off \in SUBSET Scheduled : Evaluate(h, Rows \ off)
Work(h) == Commit(h) \/ EvaluateActive(h) \/ Save(h) \/ Dispatch(h)
Sweep == SweepRead \/ SweepSave \/ SweepDispatch

Next ==
    \/ \E h \in Handler : Load(h) \/ Work(h) \/ Fail(h)
    \/ Sweep \/ SweepSkip
    \/ \E d \in Driver \cup {NoDriver} : AssignDriver(d)
    \/ \E d \in Driver : EditDriver(d)
    \/ Silence
    \/ Crash

Spec == Init /\ [][Next]_vars
=============================================================================
