---------------------------- MODULE MCManagement ----------------------------
(***************************************************************************)
(* The windows and pages beside the map, one to a behaviour as in          *)
(* MCDashboard: voice messages, the logbook, the caches of the service     *)
(* worker, reports and their schedules, the runtime logs, the windows of a *)
(* device and the wizard that adds one, the settings of the system, the    *)
(* tickets and the planner of routes.                                      *)
(***************************************************************************)
EXTENDS VoiceMessages, Logbook, ServiceWorker, ReportView, ScheduleTab,
        RuntimeLogs, CommandPane, AlertRows, DeviceWindow, DeviceWizard,
        SystemSettings, Tickets, RoutePlanner, TLC

CONSTANTS
    e1, e2,                       \* two entries of the logbook, each of another vehicle
    u1, u2, k1, k2,               \* two users, each of another company
    c1, c2, m1,                   \* two fleets of the wizard and a SIM card
    sw, engine, first, second, icon   \* settings: a switch, the engine, a field of each engine, the icon

VARIABLE page

MCEntryOf == e1 :> "d1" @@ e2 :> "d2"

MCReports == {[id |-> 1, rows |-> 0], [id |-> 3, rows |-> 10]}

MCProfile == << [uid |-> 1, channels |-> Channel, notify |-> Recipient] >>

MCCompanyOf == u1 :> k1 @@ u2 :> k2

\* The only SIM card belongs to the second fleet, and there is no driver yet.
MCSimFleet == m1 :> c2
MCDriverFleet == <<>>

MCSwitchOf == engine :> sw @@ first :> sw @@ second :> sw
MCEngineOf == first :> 0 @@ second :> 1

ManagementVars == <<page, voiceMessagesVars, logbookVars, fuelVars, tileCacheVars,
                     serviceWorkerVars, reportViewVars, scheduleFormVars,
                     scheduleListVars, runtimeLogsVars, commandPaneVars, alertRowsVars,
                     deviceWindowVars, deviceWizardVars, systemSettingsVars, ticketsVars,
                     routePlannerVars>>

ManagementInit ==
    /\ page \in {"voice", "logbook", "fuel", "tiles", "worker", "report", "schedule",
                 "schedules", "logs", "commands", "rows", "device", "wizard", "settings",
                 "tickets", "planner"}
    /\ VoiceMessagesInit /\ LogbookInit /\ FuelInit /\ TileCacheInit
    /\ ServiceWorkerInit /\ ReportViewInit /\ ScheduleFormInit /\ ScheduleListInit
    /\ RuntimeLogsInit /\ CommandPaneInit /\ AlertRowsInit /\ DeviceWindowInit
    /\ DeviceWizardInit /\ SystemSettingsInit /\ TicketsInit /\ RoutePlannerInit
    /\ page # "report" => ~smallScreen
    /\ page # "commands" => \A d \in PaneDevice : userStored[d] = {}
    /\ page # "rows" => storedRows = <<>>
    /\ page # "device" => DOMAIN fleet = {}
    /\ page # "tickets" => tkStored = {}
    /\ page # "planner" => DOMAIN plannedRoutes = {}

\* The parts that are not in use keep their state, in groups.
recordVars == <<voiceMessagesVars, logbookVars, fuelVars, tileCacheVars, serviceWorkerVars>>
reportVars == <<reportViewVars, scheduleFormVars, scheduleListVars, runtimeLogsVars>>
windowVars == <<commandPaneVars, alertRowsVars, deviceWindowVars, deviceWizardVars,
                systemSettingsVars, ticketsVars, routePlannerVars>>

VoicePage ==
    /\ page = "voice" /\ VoiceMessagesNext
    /\ UNCHANGED <<page, logbookVars, fuelVars, tileCacheVars, serviceWorkerVars, reportVars,
                   windowVars>>
LogbookPage ==
    /\ page = "logbook" /\ LogbookNext
    /\ UNCHANGED <<page, voiceMessagesVars, fuelVars, tileCacheVars, serviceWorkerVars, reportVars,
                   windowVars>>
FuelPage ==
    /\ page = "fuel" /\ FuelNext
    /\ UNCHANGED <<page, voiceMessagesVars, logbookVars, tileCacheVars, serviceWorkerVars, reportVars,
                   windowVars>>
TilesPage ==
    /\ page = "tiles" /\ TileCacheNext
    /\ UNCHANGED <<page, voiceMessagesVars, logbookVars, fuelVars, serviceWorkerVars, reportVars,
                   windowVars>>
WorkerPage ==
    /\ page = "worker" /\ ServiceWorkerNext
    /\ UNCHANGED <<page, voiceMessagesVars, logbookVars, fuelVars, tileCacheVars, reportVars,
                   windowVars>>
ReportPage ==
    /\ page = "report" /\ ReportViewNext
    /\ UNCHANGED <<page, recordVars, scheduleFormVars, scheduleListVars, runtimeLogsVars, windowVars>>
SchedulePage ==
    /\ page = "schedule" /\ ScheduleFormNext
    /\ UNCHANGED <<page, recordVars, reportViewVars, scheduleListVars, runtimeLogsVars, windowVars>>
SchedulesPage ==
    /\ page = "schedules" /\ ScheduleListNext
    /\ UNCHANGED <<page, recordVars, reportViewVars, scheduleFormVars, runtimeLogsVars, windowVars>>
LogsPage ==
    /\ page = "logs" /\ RuntimeLogsNext
    /\ UNCHANGED <<page, recordVars, reportViewVars, scheduleFormVars, scheduleListVars, windowVars>>
CommandsPage ==
    /\ page = "commands" /\ CommandPaneNext
    /\ UNCHANGED <<page, recordVars, reportVars, alertRowsVars, deviceWindowVars, deviceWizardVars,
                   systemSettingsVars, ticketsVars, routePlannerVars>>
RowsPage ==
    /\ page = "rows" /\ AlertRowsNext
    /\ UNCHANGED <<page, recordVars, reportVars, commandPaneVars, deviceWindowVars, deviceWizardVars,
                   systemSettingsVars, ticketsVars, routePlannerVars>>
DevicePage ==
    /\ page = "device" /\ DeviceWindowNext
    /\ UNCHANGED <<page, recordVars, reportVars, commandPaneVars, alertRowsVars, deviceWizardVars,
                   systemSettingsVars, ticketsVars, routePlannerVars>>
WizardPage ==
    /\ page = "wizard" /\ DeviceWizardNext
    /\ UNCHANGED <<page, recordVars, reportVars, commandPaneVars, alertRowsVars, deviceWindowVars,
                   systemSettingsVars, ticketsVars, routePlannerVars>>
SettingsPage ==
    /\ page = "settings" /\ SystemSettingsNext
    /\ UNCHANGED <<page, recordVars, reportVars, commandPaneVars, alertRowsVars, deviceWindowVars,
                   deviceWizardVars, ticketsVars, routePlannerVars>>
TicketsPage ==
    /\ page = "tickets" /\ TicketsNext
    /\ UNCHANGED <<page, recordVars, reportVars, commandPaneVars, alertRowsVars, deviceWindowVars,
                   deviceWizardVars, systemSettingsVars, routePlannerVars>>
PlannerPage ==
    /\ page = "planner" /\ RoutePlannerNext
    /\ UNCHANGED <<page, recordVars, reportVars, commandPaneVars, alertRowsVars, deviceWindowVars,
                   deviceWizardVars, systemSettingsVars, ticketsVars>>

ManagementNext ==
    \/ VoicePage
    \/ LogbookPage
    \/ FuelPage
    \/ TilesPage
    \/ WorkerPage
    \/ ReportPage
    \/ SchedulePage
    \/ SchedulesPage
    \/ LogsPage
    \/ CommandsPage
    \/ RowsPage
    \/ DevicePage
    \/ WizardPage
    \/ SettingsPage
    \/ TicketsPage
    \/ PlannerPage

ManagementSpec == ManagementInit /\ [][ManagementNext]_ManagementVars

-----------------------------------------------------------------------------
\* Every variable of the part in use keeps its type.
ManagementTypeOK ==
    CASE page = "voice" -> VoiceMessagesTypeOK
      [] page = "logbook" -> LogbookTypeOK
      [] page = "fuel" -> FuelTypeOK
      [] page = "tiles" -> TileCacheTypeOK
      [] page = "worker" -> ServiceWorkerTypeOK
      [] page = "report" -> ReportViewTypeOK
      [] page = "schedule" -> ScheduleFormTypeOK
      [] page = "schedules" -> ScheduleListTypeOK
      [] page = "logs" -> RuntimeLogsTypeOK
      [] page = "commands" -> CommandPaneTypeOK
      [] page = "rows" -> AlertRowsTypeOK
      [] page = "device" -> DeviceWindowTypeOK
      [] page = "wizard" -> DeviceWizardTypeOK
      [] page = "settings" -> SystemSettingsTypeOK
      [] page = "tickets" -> TicketsTypeOK
      [] page = "planner" -> RoutePlannerTypeOK

\* What several sources feed (voice-ptt.js, dashboard-logbook.js, sw.js): a badge that counts the
\* rows, distances counted once, caches that are bounded once a trim is through and never older
\* than the version in force.
RecordsSound ==
    CASE page = "voice" -> BadgeAgreesWithRows
      [] page = "fuel" -> DistancesCountOnce
      [] page = "tiles" -> TilesBounded
      [] page = "worker" -> ServiceWorkerSound
      [] OTHER -> TRUE

\* The report page (reports.js): the table shows the rows of one render of the current page,
\* a form has the fields of its trigger, an expanded row loads, the log tab listens and its
\* groups count every row, whatever is asked for before an answer is there.
ReportsSound ==
    CASE page = "report" -> ReportViewSound
      [] page = "schedule" -> ScheduleFormSound
      [] page = "schedules" -> ExpandedRowLoads
      [] page = "logs" -> RuntimeLogsSound
      [] OTHER -> TRUE

\* The windows and forms (device-management.js, device-commands.js, device-wizard.js,
\* user-settings.js, management-advanced.js): a save sends what was chosen, every row has its own
\* uid, a command goes out as shown, the wizard offers and sums up what it will store, fields are
\* in force and have a button when edited, files go with their ticket, a line fits the stops.
WindowsSound ==
    CASE page = "device" -> DeviceWindowSound
      [] page = "rows" -> UidsUnique
      [] page = "commands" -> CommandPaneSound
      [] page = "wizard" -> DeviceWizardSound
      [] page = "settings" -> SystemSettingsSound
      [] page = "tickets" -> TicketsSound
      [] page = "planner" -> RoutePlannerSound
      [] OTHER -> TRUE

\* Steps that must not happen (device-management.js, dashboard-logbook.js): the editor of an alert
\* row drops channels or recipients the user was not shown, an entry changes through another
\* vehicle.
ManagementSteps == HiddenKept /\ EntriesKeptApart
=============================================================================
