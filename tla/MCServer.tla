------------------------------ MODULE MCServer ------------------------------
(***************************************************************************)
(* The parts of the server that do not meet, one to a behaviour: the route *)
(* of a vehicle with the report schedules, the listeners, and the polling  *)
(* of an integration.  Of the route, with two stops, the first with a      *)
(* dwell of one tick, and two schedules there are three instances: a       *)
(* vehicle on its route with all the requests of operators and no          *)
(* schedule; a vehicle at the final stop, schedules of every kind and no   *)
(* more requests; and a route that was completed and deleted while its     *)
(* task has yet to begin, with the requests of the schedules' owners.      *)
(***************************************************************************)
EXTENDS RouteReports, ProtocolServers, IntegrationEngine, TLC

VARIABLE part

MCDwell == (1 :> 1 @@ 2 :> 0)
MCPlaces == {{}, {2}, {1, 2}}

MCVars == <<part, serverVars, protocolServersVars, integrationEngineVars>>

NoSchedules == [s \in Schedules |-> [exists |-> FALSE, active |-> FALSE, trigger |-> "time", next |-> NoNext]]
WithoutSchedules ==
    /\ schedule = NoSchedules /\ kept = [s \in Schedules |-> 0]
    /\ todo = [r \in Runners |-> <<>>] /\ run = [r \in Runners |-> NoRun]
    /\ stored = [s \in Schedules |-> 0] /\ raced = [s \in Schedules |-> 0]
    /\ edits = 0 /\ failures = 0

OnTheRoad == RouteProgressInit /\ WithoutSchedules /\ completions = 0 /\ restarts = 0

AtTheEnd ==
    /\ SchedulesInit /\ edits = MaxEdits /\ requests = MaxRequests /\ completions = 0 /\ toTrigger = 0
    /\ route = [status |-> "active", stops |-> [s \in Stops |-> IF s = NStops THEN "pending" ELSE "completed"]]
    /\ where = {NStops} /\ dwell = NoneDwelling /\ session = Idle /\ request = NoRequest
    /\ last = 0 /\ rollbacks = 0 /\ restarts = 0

RouteGone ==
    /\ requests = MaxRequests
    /\ route = [status |-> "deleted", stops |-> [s \in Stops |-> "completed"]]
    /\ where = {} /\ dwell = NoneDwelling /\ session = Idle /\ request = NoRequest
    /\ last = 0 /\ rollbacks = 0 /\ restarts = 0
AfterTheEnd == RouteGone /\ SchedulesInit /\ edits = 0 /\ completions = 1 /\ toTrigger = 1

MCInit ==
    /\ part \in {"road", "reports", "listeners", "polling"}
    /\ CASE part = "road" -> OnTheRoad
         [] part = "reports" -> AtTheEnd \/ AfterTheEnd
         [] OTHER -> RouteGone /\ WithoutSchedules /\ completions = 0 /\ toTrigger = 0
    /\ ProtocolServersInit /\ IntegrationEngineInit
    /\ part # "listeners" => required = {} /\ sync[1] = Changed
    /\ part # "polling" => ~account.active

RoutePart == part \in {"road", "reports"} /\ ServerNext /\ UNCHANGED <<part, protocolServersVars, integrationEngineVars>>
ListenersPart == part = "listeners" /\ ProtocolServersNext /\ UNCHANGED <<part, serverVars, integrationEngineVars>>
PollingPart == part = "polling" /\ IntegrationEngineNext /\ UNCHANGED <<part, serverVars, protocolServersVars>>
MCNext == RoutePart \/ ListenersPart \/ PollingPart

\* The fairness of each part, in the behaviours that are about it.
InRoute(A) == part \in {"road", "reports"} /\ A
InReports(A) == part = "reports" /\ A
InListeners(A) == part = "listeners" /\ A
MCFairness ==
    /\ WF_routeVars(InRoute(Process)) /\ WF_routeVars(InRoute(Tick)) /\ WF_routeVars(InRoute(WriteRequest))
    /\ WF_scheduleVars(InReports(FindDue))
    /\ \A r \in Runners : WF_scheduleVars(InReports(Advance(r) \/ FailRun(r)))
    /\ WF_serverVars(InReports(\E t \in Tasks : TakeTrigger(t)))
    /\ WF_protocolServersVars(InListeners(\E s \in Syncs : SyncStep(s)))
    /\ WF_protocolServersVars(InListeners(\E l \in Listener : LogTaskResult(l)))

MCSpec == MCInit /\ [][MCNext]_MCVars /\ MCFairness

\* In every state: dwells are single stays, a schedule by time loses its next
\* run only to two races, runs are owned, and no completion is reported twice;
\* once no request is under way the listeners are those that the active
\* devices require; no wake-up of the polling is lost, what was evicted stays
\* so and no position is missed or stored twice, but for the races named.
ServerSound ==
    /\ ServerTypeOK /\ DwellIsOneStay /\ OneRaceIsHarmless /\ RunsAreOwned /\ NoReportTwice
    /\ ProtocolServersTypeOK /\ OnlyRequiredRun /\ NoListenerForgotten
    /\ IntegrationEngineTypeOK /\ IntegrationEngineSound

\* A schedule that is due is run in the end, and so is every schedule that
\* waits for the completion of the route (core/schedule_runner.py); the
\* requests that start and stop listeners end (core/gateway.py).
WorkIsDone ==
    /\ DueIsRun /\ EachCompletionReported
    /\ part = "listeners" => RequestsGetThrough
=============================================================================
