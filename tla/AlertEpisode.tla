---------------------------- MODULE AlertEpisode ----------------------------
(***************************************************************************)
(* What one alert promises: while a condition lasts the alert is raised at *)
(* most once, and the condition does not end before it was raised, unless  *)
(* work on a position was lost or left out.                                *)
(***************************************************************************)
EXTENDS Naturals

VARIABLES
    condition,  \* the condition holds
    raised,     \* alerts raised since it began
    lost        \* some position has not been evaluated in full

vars == <<condition, raised, lost>>

Init == condition = FALSE /\ raised = 0 /\ lost = FALSE

Begin == ~condition /\ condition' = TRUE /\ UNCHANGED raised
Raise == condition /\ raised = 0 /\ raised' = 1 /\ UNCHANGED condition
End   == condition /\ (raised = 1 \/ lost) /\ condition' = FALSE /\ raised' = 0
Lose  == UNCHANGED <<condition, raised>>

\* Losses come with any step and are not undone.
Next ==
    /\ Begin \/ Raise \/ End \/ Lose
    /\ lost => lost'

Spec == Init /\ [][Next]_vars
=============================================================================
