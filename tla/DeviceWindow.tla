---------------------------- MODULE DeviceWindow ----------------------------
(***************************************************************************)
(* The general tab of the device window as an administrator uses it: the   *)
(* company select, the users assigned to the device, and a save with the   *)
(* assignments it sends after the device.  Lists and answers arrive late   *)
(* and are applied to whatever the window then shows.  The other fields    *)
(* and the question about unsaved changes, to which the user may answer    *)
(* either, are left out.                                                   *)
(***************************************************************************)
EXTENDS Integers, FiniteSets

CONSTANTS
    FleetDevice, NewDevice, NoWindow,    \* devices, the window of a device to be added, no window
    Assignee, Company, NoCompany,        \* regular users and their companies
    CompanyOf,                           \* the company of each user
    MaxWindowCalls                       \* bound: lists of assigned users on their way

ASSUME DeviceWindowAssumption ==
    /\ NewDevice \notin FleetDevice /\ NoWindow \notin FleetDevice \cup {NewDevice}
    /\ Assignee # {} /\ CompanyOf \in [Assignee -> Company] /\ NoCompany \notin Company /\ MaxWindowCalls \in Nat

VARIABLES
    assigned, fleet,           \* the server: users of each device; company of each device it knows
    allUsers, allCompanies,    \* what this page has loaded of both lists
    windowDevice, companyShown,\* editingDeviceId; the value of the company select
    selection, initial,        \* deviceAssignedUserIds, initialDeviceAssignedUserIds
    boxes,                     \* the users whose boxes are drawn, {} when the group is hidden
    assignedAsked,             \* requests for the assigned users and their answers
    savingDevice,                    \* the save under way
    ticked, parted             \* history: users chosen in this window; unticked or found ineligible

deviceWindowVars == <<assigned, fleet, allUsers, allCompanies, windowDevice, companyShown, selection,
                      initial, boxes, assignedAsked, savingDevice, ticked, parted>>
serverSide == <<assigned, fleet>>
lists == <<allUsers, allCompanies>>
usersVars == <<selection, initial, boxes, ticked, parted>>

NoSave == [stage |-> "none"]
UsersAsked(device, users) == [device |-> device, users |-> users]
NotAnswered == {"unread"}

DeviceWindowTypeOK ==
    /\ assigned \in [FleetDevice -> SUBSET Assignee] /\ allUsers \subseteq Assignee
    /\ DOMAIN fleet \subseteq FleetDevice /\ \A d \in DOMAIN fleet : fleet[d] \in Company \cup {NoCompany}
    /\ allCompanies \subseteq Company /\ companyShown \in Company \cup {NoCompany}
    /\ windowDevice \in FleetDevice \cup {NewDevice, NoWindow}
    /\ selection \cup initial \cup boxes \cup ticked \cup parted \subseteq Assignee
    /\ savingDevice.stage \in {"none", "device", "users"}

DeviceWindowInit ==
    /\ assigned = [d \in FleetDevice |-> {u \in Assignee : CompanyOf[u] = CompanyOf[CHOOSE v \in Assignee : TRUE]}]
    /\ \E known \in SUBSET FleetDevice : fleet = [d \in known |-> CompanyOf[CHOOSE u \in Assignee : TRUE]]
    /\ allUsers = {} /\ allCompanies = {} /\ windowDevice = NoWindow /\ companyShown = NoCompany
    /\ selection = {} /\ initial = {} /\ boxes = {}
    /\ assignedAsked = {} /\ savingDevice = NoSave /\ ticked = {} /\ parted = {}

-----------------------------------------------------------------------------
Eligible(users, company) == {u \in users : CompanyOf[u] = company}
\* renderDeviceUsersMultiSelect: without anybody to offer the group is hidden and the
\* selection stays; otherwise who is not eligible leaves the selection.
UsersDrawn(users, company, chosen) ==
    LET offered == Eligible(users, company) IN
    /\ boxes' = offered
    /\ selection' = IF offered = {} THEN chosen ELSE chosen \cap offered
Parting == parted' = parted \cup (selection \ selection')

\* populateDeviceCompanySelect selects a company only when the list has it.
SelectedCompany(d) == IF fleet[d] \in allCompanies THEN fleet[d] ELSE NoCompany

OpenDevice(d) ==
    /\ d \in DOMAIN fleet /\ windowDevice' = d /\ companyShown' = SelectedCompany(d)
    /\ UsersDrawn(allUsers, SelectedCompany(d), {}) /\ initial' = {} /\ ticked' = {} /\ parted' = {}
    /\ assignedAsked' = IF fleet[d] = NoCompany THEN assignedAsked ELSE assignedAsked \cup {UsersAsked(d, NotAnswered)}
    /\ Cardinality(assignedAsked') <= MaxWindowCalls
    /\ UNCHANGED <<serverSide, lists, savingDevice>>
OpenToAdd ==
    /\ windowDevice' = NewDevice /\ companyShown' = NoCompany
    /\ UsersDrawn(allUsers, NoCompany, {}) /\ initial' = {} /\ ticked' = {} /\ parted' = {}
    /\ UNCHANGED <<serverSide, lists, assignedAsked, savingDevice>>
OpenDeviceWindow == windowDevice = NoWindow /\ (OpenToAdd \/ \E d \in FleetDevice : OpenDevice(d))

\* loadDeviceAssignedUsers: the server reads, and the answer is applied to the window of now.
AssignedRead(a) ==
    /\ a.users = NotAnswered /\ assignedAsked' = (assignedAsked \ {a}) \cup {UsersAsked(a.device, assigned[a.device])}
    /\ UNCHANGED <<serverSide, lists, windowDevice, companyShown, usersVars, savingDevice>>
AnswerReplacesSelection(a, users) == initial' = initial /\ UsersDrawn(allUsers, companyShown, users)
AnswerTaken(a, users) == initial' = users /\ UsersDrawn(allUsers, companyShown, users)
AssignedArrive(a) ==
    /\ a.users # NotAnswered /\ assignedAsked' = assignedAsked \ {a}
    /\ \E users \in {a.users, {}} : AnswerTaken(a, users) /\ parted' = parted \cup ((selection \cup users) \ selection')
    /\ UNCHANGED <<serverSide, lists, windowDevice, companyShown, savingDevice, ticked>>

\* loadAllUsers, also after an update of the users; loadAllCompanies, which fills the select
\* anew with nothing selected and leaves the users as they are.
UsersArrive(users) ==
    /\ allUsers' = users /\ UsersDrawn(users, companyShown, selection) /\ Parting
    /\ UNCHANGED <<serverSide, allCompanies, windowDevice, companyShown, initial, ticked,
                   assignedAsked, savingDevice>>
CompaniesArrive ==
    /\ allCompanies' = Company /\ companyShown' = NoCompany
    /\ UNCHANGED <<serverSide, allUsers, windowDevice, usersVars, assignedAsked, savingDevice>>

\* onDeviceCompanyChange.
SelectCompany(c) ==
    /\ windowDevice # NoWindow /\ c \in allCompanies \cup {NoCompany} /\ companyShown' = c
    /\ UsersDrawn(allUsers, c, selection) /\ Parting
    /\ UNCHANGED <<serverSide, lists, windowDevice, initial, ticked, assignedAsked, savingDevice>>

\* toggleDeviceUserSelection, selectAllDeviceUsers and clearAllDeviceUsers.
Choose(users) ==
    /\ windowDevice # NoWindow /\ boxes # {} /\ users # selection
    /\ selection' = users /\ ticked' = ticked \cup (users \ selection) /\ Parting
    /\ UNCHANGED <<serverSide, lists, windowDevice, companyShown, initial, boxes,
                   assignedAsked, savingDevice>>
ChooseUsers ==
    \/ \E u \in boxes : Choose(IF u \in selection THEN selection \ {u} ELSE selection \cup {u})
    \/ Choose(selection \cup Eligible(allUsers, companyShown))
    \/ Choose({})

\* closeDeviceModal.
Closed == windowDevice' = NoWindow
CloseDeviceWindow ==
    /\ windowDevice # NoWindow /\ Closed
    /\ UNCHANGED <<serverSide, lists, companyShown, usersVars, assignedAsked, savingDevice>>

-----------------------------------------------------------------------------
\* handleSubmit: the button is disabled until the save has ended, but the window may be
\* closed and another opened, and editingDeviceId is read again after each answer.
SubmitDevice ==
    /\ windowDevice # NoWindow /\ savingDevice = NoSave
    /\ savingDevice' = [stage |-> "device", device |-> windowDevice, company |-> companyShown]
    /\ UNCHANGED <<serverSide, lists, windowDevice, companyShown, usersVars, assignedAsked>>
SubmitRefused ==
    /\ savingDevice.stage = "device" /\ savingDevice' = NoSave
    /\ UNCHANGED <<serverSide, lists, windowDevice, companyShown, usersVars, assignedAsked>>

\* syncDeviceUserAssignments.
Posts == [add |-> selection \ initial, remove |-> initial \ selection]
DeviceSaved ==
    /\ savingDevice.stage = "device"
    /\ \E d \in FleetDevice :
          /\ IF savingDevice.device = NewDevice THEN d \notin DOMAIN fleet ELSE d = savingDevice.device
          /\ fleet' = [x \in DOMAIN fleet \cup {d} |-> IF x = d THEN savingDevice.company ELSE fleet[x]]
          /\ LET target == IF windowDevice \in FleetDevice THEN windowDevice ELSE d IN
             savingDevice' = IF savingDevice.company = NoCompany
                       THEN [stage |-> "users", device |-> target, add |-> {}, remove |-> {}]
                       ELSE [stage |-> "users", device |-> target, add |-> Posts.add, remove |-> Posts.remove]
    /\ UNCHANGED <<assigned, lists, windowDevice, companyShown, usersVars, assignedAsked>>
\* One of the requests, in any order; a failed one is not told.
UserPosted(u) ==
    /\ savingDevice.stage = "users" /\ u \in savingDevice.add \cup savingDevice.remove
    /\ savingDevice' = [savingDevice EXCEPT !.add = @ \ {u}, !.remove = @ \ {u}]
    /\ \/ UNCHANGED assigned
       \/ assigned' = [assigned EXCEPT ![savingDevice.device] = IF u \in savingDevice.add THEN @ \cup {u} ELSE @ \ {u}]
    /\ UNCHANGED <<fleet, lists, windowDevice, companyShown, usersVars, assignedAsked>>
DeviceSaveEnds ==
    /\ savingDevice.stage = "users" /\ savingDevice.add \cup savingDevice.remove = {} /\ savingDevice' = NoSave /\ Closed
    /\ UNCHANGED <<serverSide, lists, companyShown, usersVars, assignedAsked>>

DeviceWindowNext ==
    \/ OpenDeviceWindow \/ CloseDeviceWindow \/ ChooseUsers
    \/ \E a \in assignedAsked : AssignedRead(a) \/ AssignedArrive(a)
    \/ \E users \in {{}, Assignee} : UsersArrive(users)
    \/ CompaniesArrive
    \/ \E c \in Company \cup {NoCompany} : SelectCompany(c)
    \/ SubmitDevice \/ SubmitRefused \/ DeviceSaved \/ DeviceSaveEnds
    \/ \E u \in Assignee : UserPosted(u)

-----------------------------------------------------------------------------
\* What a save would send is what was done in this window: nobody is added who was not ticked,
\* nobody removed who was neither unticked nor ineligible, whatever lists arrive meanwhile.
SyncIsWhatWasChosen == selection \ initial \subseteq ticked /\ initial \ selection \subseteq parted

\* While the group is offered for a company, only that company's users are selected.
OnlyEligibleTicked ==
    companyShown # NoCompany /\ boxes # {} => boxes = Eligible(allUsers, companyShown) /\ selection \subseteq boxes

DeviceWindowSound == SyncIsWhatWasChosen /\ OnlyEligibleTicked
=============================================================================
