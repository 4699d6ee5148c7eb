---------------------------- MODULE AlertHistory ----------------------------
(***************************************************************************)
(* AlertState with a record of the alerts raised in the present episode of *)
(* each condition and of who assigned the driver.                          *)
(***************************************************************************)
EXTENDS AlertState

VARIABLES
    condition,  \* what the positions evaluated (and the silence) say of each alert
    raised,     \* alerts dispatched since the condition began, 2 for more than one
    lost,       \* work was dropped by a fault, or a row was out of its schedule
    origin      \* who assigned the driver: "nobody", "operator" or "rule"

alertRecord == <<condition, raised>>
historyVars == <<vars, alertRecord, lost, origin>>

HistoryInit ==
    /\ Init
    /\ condition = [k \in Latch |-> FALSE] /\ raised = [k \in Latch |-> 0]
    /\ lost = FALSE /\ origin = "nobody"

Count(S) == [k \in Latch |-> IF k \in S /\ raised[k] < 2 THEN raised[k] + 1 ELSE raised[k]]

\* The conditions after position p, with the driver v has.
Condition(p, v) ==
    [condition EXCEPT !["enter"] = p.inside /\ "enter" \in ZoneEvents,
                      !["exit"] = ~p.inside /\ "exit" \in ZoneEvents,
                      !["no_driver"] = p.ignition # "off" /\ IF p.moving THEN v.driver = NoDriver ELSE @]

RecordCommit(h) ==
    /\ Commit(h)
    /\ origin' = IF row'.driver = row.driver THEN origin
                 ELSE IF row'.driver = NoDriver THEN "nobody" ELSE "rule"
    /\ condition' = [condition EXCEPT !["offline"] = FALSE]
    /\ raised' = [raised EXCEPT !["offline"] = 0]
    /\ UNCHANGED lost

RecordEvaluate(h, on) ==
    /\ Evaluate(h, on)
    /\ condition' = Condition(pos[h], row)
    /\ raised' = [k \in Latch |-> IF condition'[k] THEN raised[k] ELSE 0]
    /\ lost' = (lost \/ on # Rows)
    /\ UNCHANGED origin

RecordDispatch(h) ==
    /\ Dispatch(h)
    /\ raised' = Count(alerts[h])
    /\ UNCHANGED <<condition, lost, origin>>

RecordSweepDispatch ==
    /\ SweepDispatch
    /\ raised' = Count({"offline"})
    /\ UNCHANGED <<condition, lost, origin>>

RecordSilence ==
    /\ Silence
    /\ condition' = [condition EXCEPT !["offline"] = "offline" \in Rows]
    /\ raised' = [raised EXCEPT !["offline"] = 0]
    /\ UNCHANGED <<lost, origin>>

RecordAssignDriver(d) ==
    /\ AssignDriver(d)
    /\ origin' = IF d = NoDriver THEN "nobody" ELSE "operator"
    /\ UNCHANGED <<alertRecord, lost>>

RecordLoss ==
    /\ SweepSkip \/ Crash \/ (\E h \in Handler : Fail(h))
    /\ lost' = TRUE
    /\ UNCHANGED <<alertRecord, origin>>

Unrecorded ==
    /\ \/ \E h \in Handler : Load(h) \/ Save(h)
       \/ SweepRead \/ SweepSave
       \/ \E d \in Driver : EditDriver(d)
    /\ UNCHANGED <<alertRecord, lost, origin>>

HistoryNext ==
    \/ \E h \in Handler :
          \/ RecordCommit(h) \/ RecordDispatch(h)
          \/ \E off \in SUBSET Scheduled : RecordEvaluate(h, Rows \ off)
    \/ RecordSweepDispatch \/ RecordSilence
    \/ \E d \in Driver \cup {NoDriver} : RecordAssignDriver(d)
    \/ RecordLoss
    \/ Unrecorded

HistorySpec == HistoryInit /\ [][HistoryNext]_historyVars

\* The server finishes what it started and runs its task; devices and
\* operators owe nothing.
Fairness ==
    /\ \A h \in Handler : WF_vars(Work(h))
    /\ WF_vars(Sweep)

FairHistorySpec == HistorySpec /\ Fairness

-----------------------------------------------------------------------------
Enter == INSTANCE AlertEpisode WITH condition <- condition["enter"], raised <- raised["enter"]
Exit == INSTANCE AlertEpisode WITH condition <- condition["exit"], raised <- raised["exit"]
WithoutDriver ==
    INSTANCE AlertEpisode WITH condition <- condition["no_driver"], raised <- raised["no_driver"]

\* For a device whose positions come one at a time, with no offline row, each
\* episode of being inside or outside the zone, or moving without a driver,
\* raises its alert once; after a fault or a pause of the row, at most once.
ZoneEpisodes == Enter!Spec /\ Exit!Spec
NoDriverEpisodes == WithoutDriver!Spec

\* No alert twice in an episode.
OncePerEpisode == \A k \in Latch : raised[k] <= 1

\* A silence is reported once, whatever else is written meanwhile.
OfflineOncePerSilence == raised["offline"] <= 1

\* Each silence of the device is reported, unless it ends first or a fault or
\* a pause of the row intervenes.
SilenceIsReported ==
    (heard = "old") ~> (heard # "old" \/ raised["offline"] >= 1 \/ lost)

-----------------------------------------------------------------------------
\* A driver the rules assigned is recognized as theirs; otherwise they would
\* take it for a manual assignment and never release it.
OwnAssignmentRecognized ==
    origin = "rule" => row.driver = row.assignment.auto
=============================================================================
