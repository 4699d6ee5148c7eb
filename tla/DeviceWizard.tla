---------------------------- MODULE DeviceWizard ----------------------------
(***************************************************************************)
(* The setup wizard of an administrator: the steps and what they choose,   *)
(* lists that arrive while the wizard is used, the summary, and the        *)
(* submission, which creates the company, the SIM card, the driver and the *)
(* device one after the other and reads the choices as it goes.  Typed     *)
(* texts, integrations and the accounts of SIM providers are left out.     *)
(***************************************************************************)
EXTENDS Integers, Sequences, FiniteSets

CONSTANTS
    Fleet, Sim, Driver,      \* the companies, SIM cards and drivers there are
    SimFleet, DriverFleet,   \* the company of each
    NoChoice, NewOne,        \* nothing is chosen; what the wizard creates
    MaxWizardOpenings, MaxCreated  \* bounds: loads under way, devices created

ASSUME DeviceWizardAssumption ==
    /\ SimFleet \in [Sim -> Fleet] /\ DriverFleet \in [Driver -> Fleet]
    /\ MaxWizardOpenings \in Nat /\ MaxCreated \in Nat

Steps == <<"company", "device", "sim", "driver", "users", "summary">>
Part == {"company", "sim", "driver"}

VARIABLES
    freeSims, created,   \* the server: SIM cards without a device, devices of this wizard
    cachedSims, listed,  \* cachedSims; the companies and the drivers have arrived
    offered,             \* the options of the selects of SIM cards and drivers
    step,                \* currentStepIndex
    mode, choice,        \* wizardData: the mode of each part and what is chosen in it
    done,                \* wizardData.createdDevice is set
    wizardLoads,         \* loads of the lists under way
    summary,             \* the summary shown
    nextDisabled,        \* the Continue button
    submission           \* the submission under way

wizardServer == <<freeSims, created>>
wizardLists == <<cachedSims, listed, offered>>
wizardData == <<mode, choice, done>>
wizardView == <<step, summary, nextDisabled>>
deviceWizardVars == <<wizardServer, wizardLists, wizardData, wizardView, wizardLoads, submission>>

NoSummary == <<>>
NoSubmission == [stage |-> "none"]

DeviceWizardTypeOK ==
    /\ freeSims \subseteq Sim /\ cachedSims \subseteq Sim /\ step \in 1..Len(Steps)
    /\ mode \in [Part -> {"existing", "new", "none"}]
    /\ choice.company \in Fleet \cup {NoChoice} /\ choice.sim \in Sim \cup {NoChoice}
    /\ choice.driver \in Driver \cup {NoChoice} /\ wizardLoads \in 0..MaxWizardOpenings

DeviceWizardInit ==
    /\ freeSims = Sim /\ created = {} /\ cachedSims = {} /\ listed = FALSE /\ offered = [sim |-> {}, driver |-> {}]
    /\ step = 1 /\ mode = [p \in Part |-> "existing"] /\ choice = [p \in Part |-> NoChoice]
    /\ done = FALSE /\ wizardLoads = 0 /\ summary = NoSummary /\ nextDisabled = FALSE /\ submission = NoSubmission

-----------------------------------------------------------------------------
(* Lists. *)
\* _getSelectedCompanyId.
Scope(m, c) == IF m.company = "existing" THEN c.company ELSE NoChoice
Drivers(known) == IF known THEN Driver ELSE {}
WizardOptions(m, c, known) ==
    LET scope == Scope(m, c) IN
    [sim    |-> {s \in cachedSims : scope \in {NoChoice, SimFleet[s]}},
     driver |-> {d \in Drivers(known) : scope \in {NoChoice, DriverFleet[d]}}]
FirstOf(options) == IF options = {} THEN {NoChoice} ELSE options
\* _refreshDynamicEntityDropdowns selects the first of each list.
Refreshed(m, c, known) ==
    /\ mode' = m /\ offered' = WizardOptions(m, c, known)
    /\ \E s \in FirstOf(WizardOptions(m, c, known).sim), d \in FirstOf(WizardOptions(m, c, known).driver) :
          choice' = [c EXCEPT !.sim = s, !.driver = d]

\* _renderSummaryReview.
Label(p) == CASE mode[p] = "existing" -> choice[p] [] mode[p] = "new" -> NewOne [] OTHER -> NoChoice
SummaryNow == [p \in Part |-> Label(p)]
\* _showCurrentStep draws the summary unless the device was created.
ShownSlide(s) == step' = s /\ summary' = IF Steps[s] = "summary" THEN (IF done' THEN summary ELSE SummaryNow') ELSE NoSummary

\* openDeviceWizard, first or after the wizard was closed, which only hides it.
OpenDeviceWizard ==
    /\ wizardLoads < MaxWizardOpenings /\ wizardLoads' = wizardLoads + 1
    /\ step' = 1 /\ done' = FALSE /\ summary' = NoSummary
    /\ Refreshed([p \in Part |-> "existing"], [p \in Part |-> NoChoice], listed)
    /\ UNCHANGED <<wizardServer, cachedSims, listed, nextDisabled, submission>>
\* One of _loadWizardDependencies' answers; a list that fails stays or is empty.
ListsArrive ==
    /\ wizardLoads > 0
    /\ \/ cachedSims' \in {freeSims, {}} /\ UNCHANGED listed
       \/ listed' = TRUE /\ UNCHANGED cachedSims
    /\ UNCHANGED <<wizardServer, offered, wizardData, wizardView, wizardLoads, submission>>
\* All have: the company select is filled anew, and the step is drawn again.
LoadEnds ==
    /\ wizardLoads > 0 /\ wizardLoads' = wizardLoads - 1
    /\ \E c \in IF listed THEN Fleet ELSE {choice.company} : Refreshed(mode, [choice EXCEPT !.company = c], listed)
    /\ UNCHANGED done /\ ShownSlide(step)
    /\ UNCHANGED <<wizardServer, cachedSims, listed, nextDisabled, submission>>

-----------------------------------------------------------------------------
(* Steps. *)
At(s) == Steps[step] = s

\* _selectCompanyMode, _onCompanySelectionChanged, _selectSimMode, _selectDriverMode.
SelectCompanyMode(m) ==
    /\ At("company") /\ Refreshed([mode EXCEPT !.company = m], choice, listed)
    /\ UNCHANGED <<wizardServer, cachedSims, listed, done, wizardView, wizardLoads, submission>>
CompanyChanged(c) ==
    /\ At("company") /\ listed /\ Refreshed(mode, [choice EXCEPT !.company = c], listed)
    /\ UNCHANGED <<wizardServer, cachedSims, listed, done, wizardView, wizardLoads, submission>>
SelectMode(p, m) ==
    /\ p \in {"sim", "driver"} /\ At(p) /\ m # mode[p] /\ mode' = [mode EXCEPT ![p] = m]
    /\ UNCHANGED <<wizardServer, wizardLists, choice, done, wizardView, wizardLoads, submission>>

\* wizardNext: what the step validates and takes over.  A mode "none" takes nothing over.
Taken ==
    \/ /\ At("company")
       /\ mode.company = "existing" => listed
       /\ \E c \in IF mode.company = "existing" THEN Fleet ELSE {choice.company} :
             Refreshed(mode, [choice EXCEPT !.company = c], listed)
    \/ \E p \in {"sim", "driver"} :
          /\ At(p) /\ UNCHANGED <<mode, offered>>
          /\ \E x \in IF mode[p] = "existing" THEN FirstOf(offered[p]) ELSE {choice[p]} :
                choice' = [choice EXCEPT ![p] = x]
    \/ (At("device") \/ At("users")) /\ UNCHANGED <<mode, choice, offered>>
WizardNext ==
    /\ ~nextDisabled /\ Taken /\ UNCHANGED done /\ ShownSlide(step + 1)
    /\ UNCHANGED <<wizardServer, cachedSims, listed, nextDisabled, wizardLoads, submission>>
\* wizardPrev, whose button a submission disables, and _jumpToStep, which it does not.
GoBack(s) ==
    /\ s < step /\ ((s = step - 1 /\ ~nextDisabled) \/ ~done)
    /\ UNCHANGED wizardData /\ ShownSlide(s)
    /\ UNCHANGED <<wizardServer, wizardLists, nextDisabled, wizardLoads, submission>>

-----------------------------------------------------------------------------
(* wizardSubmit. *)
Submitting(stage) == submission.stage = stage
Submitted(next) == submission' = next /\ UNCHANGED <<wizardServer, wizardLists, wizardData, wizardView, wizardLoads>>
\* The requests one after the other, each from the choices of its moment: only what is to be
\* created is asked for.  The mode "none" of a company is no company; that of a SIM card or a
\* driver is not looked at.
AskDevice(company, simMode, sim, driver) ==
    [stage |-> "device", company |-> company, simMode |-> simMode, sim |-> sim, driver |-> driver]
AskDriver(company, simMode, sim) ==
    IF mode.driver = "new" THEN [stage |-> "driver", company |-> company, simMode |-> simMode, sim |-> sim]
    ELSE AskDevice(company, simMode, sim, choice.driver)
AskSim(company) ==
    IF mode.sim = "new" THEN [stage |-> "sim", company |-> company] ELSE AskDriver(company, mode.sim, choice.sim)
AskCompany == IF mode.company = "new" THEN [stage |-> "company"] ELSE AskSim(Label("company"))

WizardSubmit ==
    /\ At("summary") /\ ~done /\ ~nextDisabled /\ nextDisabled' = TRUE /\ submission' = AskCompany
    /\ UNCHANGED <<wizardServer, wizardLists, wizardData, step, summary, wizardLoads>>
CompanyCreated == Submitting("company") /\ Submitted(AskSim(NewOne))
SimCreated == Submitting("sim") /\ Submitted(AskDriver(submission.company, "new", NewOne))
DriverCreated ==
    Submitting("driver") /\ Submitted(AskDevice(submission.company, submission.simMode, submission.sim, NewOne))
\* The device is created; wizardData.createdDevice is that of the wizard of now.
DeviceCreated ==
    /\ Submitting("device") /\ Cardinality(created) < MaxCreated
    /\ created' = created \cup {[company |-> submission.company, simMode |-> submission.simMode,
                                 sim |-> submission.sim, driver |-> submission.driver]}
    /\ freeSims' = freeSims \ {submission.sim} /\ done' = TRUE /\ submission' = [stage |-> "assign"]
    /\ UNCHANGED <<wizardLists, mode, choice, wizardView, wizardLoads>>
\* The driver and the users are assigned, whatever becomes of it.
SubmissionEnds == Submitting("assign") /\ Submitted(NoSubmission)
\* One of the requests that create fails: the buttons come back.
SubmissionFails ==
    /\ submission.stage \in {"company", "sim", "driver", "device"}
    /\ submission' = NoSubmission /\ nextDisabled' = FALSE
    /\ UNCHANGED <<wizardServer, wizardLists, wizardData, step, summary, wizardLoads>>

DeviceWizardNext ==
    \/ OpenDeviceWizard \/ ListsArrive \/ LoadEnds \/ WizardNext
    \/ \E m \in {"existing", "new", "none"} : SelectCompanyMode(m) \/ \E p \in Part : SelectMode(p, m)
    \/ \E c \in Fleet : CompanyChanged(c)
    \/ \E s \in 1..Len(Steps) : GoBack(s)
    \/ WizardSubmit \/ CompanyCreated \/ SimCreated \/ DriverCreated \/ DeviceCreated
    \/ SubmissionEnds \/ SubmissionFails

DeviceWizardSpec == DeviceWizardInit /\ [][DeviceWizardNext]_deviceWizardVars

-----------------------------------------------------------------------------
\* While the summary is shown it says what a submission would take, also when the lists
\* arrive after it was reached.
SummaryIsTrue == At("summary") /\ ~done => summary = SummaryNow

\* A SIM card and a driver chosen for a company of the list are that company's.
ChosenOfFleet ==
    mode.company = "existing" /\ choice.company # NoChoice =>
        /\ choice.sim # NoChoice => SimFleet[choice.sim] = choice.company
        /\ choice.driver # NoChoice => DriverFleet[choice.driver] = choice.company

DeviceWizardSound == SummaryIsTrue /\ ChosenOfFleet
=============================================================================
