--------------------------- MODULE MCAlertHistory ---------------------------
EXTENDS AlertHistory, TLC

OnceUntilIgnitionOff == [mode |-> "one_time", clear |-> "ignition_off"]
Continuous == [mode |-> "continuous", clear |-> "never"]
OnceOrContinuous == {OnceUntilIgnitionOff, Continuous}
OnlyContinuous == {Continuous}
OnlyOnce == {OnceUntilIgnitionOff}

\* Positions that only differ in what the zone and the driver alert look at,
\* and those that only differ in what the assignment looks at.
AlertInputs ==
    {p \in Position : ~p.debounced /\ ~p.graced /\ p.matches = {}}
AssignmentInputs ==
    {p \in Position : ~p.inside /\ p.moving /\ p.ignition # "none"}
AllKindsOfInputs == AlertInputs \cup AssignmentInputs
ZoneInputs ==
    {p \in AlertInputs : p.ignition = "on" /\ p.moving}
SharedInputs ==
    {p \in Position : ~p.debounced /\ ~p.graced /\ p.moving /\ p.ignition = "on"}
=============================================================================
