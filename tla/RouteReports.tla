--------------------------- MODULE RouteReports ----------------------------
(***************************************************************************)
(* A vehicle's route and the reports that its completion triggers, in one  *)
(* server process that may stop and start.                                 *)
(***************************************************************************)
EXTENDS RouteProgress, ReportScheduler

CONSTANT MaxRestarts    \* bound: restarts of the server

ASSUME RouteReportsAssumption == MaxRestarts \in Nat

VARIABLES
    completions,    \* how often a completion of the route was stored
    restarts        \* what the bound has used

serverVars == <<routeVars, scheduleVars, completions, restarts>>

ServerTypeOK ==
    /\ RouteProgressTypeOK /\ SchedulesTypeOK
    /\ completions \in Nat /\ restarts \in 0..MaxRestarts

ServerInit == RouteProgressInit /\ SchedulesInit /\ completions = 0 /\ restarts = 0

RouteStep ==
    /\ RouteProgressNext /\ UNCHANGED <<scheduleVars, restarts>>
    /\ completions' = completions + (toTrigger' - toTrigger)

ScheduleStep == SchedulesNext /\ UNCHANGED <<routeVars, completions, restarts>>

\* A task created for a completed route begins.
TakeTrigger(t) ==
    /\ toTrigger > 0 /\ toTrigger' = toTrigger - 1 /\ Trigger(t)
    /\ UNCHANGED <<route, where, dwell, session, request, last, requests, rollbacks, completions, restarts>>

Restart ==
    /\ restarts < MaxRestarts /\ restarts' = restarts + 1
    /\ RestartRoutes /\ RestartSchedules /\ UNCHANGED completions

ServerNext == RouteStep \/ ScheduleStep \/ (\E t \in Tasks : TakeTrigger(t)) \/ Restart

\* Positions keep arriving, time passes and what has begun goes on; nobody
\* needs to move, to edit or to fail.
ServerFairness ==
    /\ WF_routeVars(Process) /\ WF_routeVars(Tick) /\ WF_routeVars(WriteRequest)
    /\ WF_scheduleVars(FindDue)
    /\ \A r \in Runners : WF_scheduleVars(Advance(r) \/ FailRun(r))
    /\ WF_serverVars(\E t \in Tasks : TakeTrigger(t))

ServerSpec == ServerInit /\ [][ServerNext]_serverVars /\ ServerFairness

-----------------------------------------------------------------------------
\* A completion of the route has each schedule run at most once.
NoReportTwice == \A s \in Schedules : stored[s] <= completions

\* As long as the server neither stops nor fails a run, every completion has
\* every schedule that waits for it run.
EachCompletionReported ==
    \A s \in Schedules :
        [](Matches(s) /\ failures = 0 /\ restarts = 0 /\ \A q \in Schedules : schedule[q].exists)
            => []<>(stored[s] = completions)
=============================================================================
