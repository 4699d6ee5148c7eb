--------------------------- MODULE SystemSettings ---------------------------
(***************************************************************************)
(* The administrator's form of the system settings: what is loaded, which  *)
(* fields the filter draws and the switches and engines display, what the  *)
(* save bubble tells, and saves, reloads and uploads that change the form  *)
(* while it is edited.  The value 0 is blank, off, or the first choice.    *)
(***************************************************************************)
EXTENDS Integers, FiniteSets, Functions

CONSTANTS
    Setting, Value,
    Secret, ReadOnly,   \* settings whose value is never shown, and those that cannot be changed
    SwitchOf,           \* SYSTEM_MASTER_TOGGLES: the switch a setting depends on
    Engine, EngineOf,   \* the choice of an engine, and the value of it a setting belongs to
    Icon, Keys,         \* the driver icon, which is uploaded, and the generated key pair
    MaxSysEdits, MaxSysLoads    \* bounds: changes here or by others, and lists on their way

ASSUME SystemSettingsAssumption ==
    /\ Secret \subseteq Setting /\ ReadOnly \subseteq Setting /\ {Engine, Icon, Keys} \subseteq Setting
    /\ DOMAIN SwitchOf \subseteq Setting /\ Range(SwitchOf) \subseteq Setting \ Secret
    /\ DOMAIN EngineOf \subseteq DOMAIN SwitchOf /\ Range(EngineOf) \subseteq Value
    /\ \A k \in DOMAIN EngineOf : SwitchOf[k] = SwitchOf[Engine]
    /\ Engine \notin Range(SwitchOf) /\ Icon \notin {Engine} \cup Range(SwitchOf)
    /\ 0 \in Value /\ Value \subseteq Nat /\ MaxSysEdits \in Nat /\ MaxSysLoads \in Nat

VARIABLES
    sysStored,      \* the server's settings
    sysCategories,  \* systemSettingsCategories, a secret is blank in it
    sysFilter,      \* the settings the search words match
    sysFields,      \* the inputs drawn, with what they hold
    sysDisplayed,   \* the settings among them that are not hidden
    sysBubble,      \* the bubble with the save button is shown
    sysSaving,      \* what the save under way sends; "ready" when the button is enabled
    sysLoads,       \* lists on their way, "save" for the one a save waits for
    sysTesting,     \* a test mail or a test call is under way
    sysEdits        \* changes so far

systemSettingsVars == <<sysStored, sysCategories, sysFilter, sysFields, sysDisplayed, sysBubble, sysSaving,
                        sysLoads, sysTesting, sysEdits>>
sysForm == <<sysCategories, sysFilter, sysFields, sysDisplayed, sysBubble, sysTesting>>

SystemSettingsTypeOK ==
    /\ sysStored \in [Setting -> Value] /\ DOMAIN sysCategories \subseteq Setting /\ sysFilter \subseteq Setting
    /\ sysDisplayed \subseteq DOMAIN sysFields /\ DOMAIN sysFields \subseteq Setting /\ Range(sysFields) \subseteq Value
    /\ sysBubble \in BOOLEAN /\ sysTesting \in BOOLEAN /\ Cardinality(sysLoads) <= MaxSysLoads

SystemSettingsInit ==
    /\ sysStored = [k \in Setting |-> 0] /\ sysCategories = <<>> /\ sysFilter = Setting /\ sysFields = <<>>
    /\ sysDisplayed = {} /\ sysBubble = FALSE /\ sysSaving = [stage |-> "ready"] /\ sysLoads = {}
    /\ sysTesting = FALSE /\ sysEdits = 0

-----------------------------------------------------------------------------
(* What is displayed, and what counts as edited. *)
On(values, k) == k \in DOMAIN values /\ values[k] # 0
\* updateVoipTtsFieldsVisibility and updateLlmProviderFieldsVisibility read the inputs: one
\* that is not drawn counts as off, or as the first engine.
ChosenEngine(fields) == IF Engine \in DOMAIN fields THEN fields[Engine] ELSE 0
EngineShown(fields, shown) ==
    {k \in shown : k \notin DOMAIN EngineOf}
    \cup {k \in DOMAIN EngineOf \cap DOMAIN fields : On(fields, SwitchOf[k]) /\ EngineOf[k] = ChosenEngine(fields)}
\* checkSystemSettingsDirty and the payload of a save.
Edited(cats, fields, shown) == {k \in shown \ ReadOnly : fields[k] # cats[k]}

\* renderSystemSettings: the fields are drawn anew from what was loaded.
Rendered(cats, filter) ==
    LET fields == Restrict(cats, DOMAIN cats \cap filter)
        inForce == {k \in DOMAIN fields : k \in DOMAIN SwitchOf => On(cats, SwitchOf[k])} IN
    /\ sysCategories' = cats /\ sysFilter' = filter /\ sysFields' = fields
    /\ sysDisplayed' = EngineShown(fields, inForce) /\ sysBubble' = FALSE /\ sysTesting' = FALSE
\* toggleSystemDependencies
Toggled(k, on, fields) ==
    LET deps == {d \in DOMAIN SwitchOf \cap DOMAIN fields : SwitchOf[d] = k}
        shown == IF on THEN sysDisplayed \cup deps ELSE sysDisplayed \ deps IN
    IF SwitchOf[Engine] = k THEN EngineShown(fields, shown) ELSE shown
Shown(k, fields) ==
    IF k \in Range(SwitchOf) THEN Toggled(k, fields[k] # 0, fields)
    ELSE IF k = Engine THEN EngineShown(fields, sysDisplayed) ELSE sysDisplayed

\* The list the server sends now.
Listing(stored) == [k \in Setting |-> IF k \in Secret THEN 0 ELSE stored[k]]
LoadFor(who, stored) == sysLoads' = sysLoads \cup {[for |-> who, items |-> Listing(stored)]}
                        /\ Cardinality(sysLoads') <= MaxSysLoads

-----------------------------------------------------------------------------
(* Loading, filtering and editing. *)
LoadSystemSettings ==
    /\ LoadFor("open", sysStored)
    /\ UNCHANGED <<sysStored, sysForm, sysSaving, sysEdits>>
\* loadSystemSettings never throws: a save that waits for it ends either way.
SaveEnds(load) == IF load.for = "save" THEN sysSaving' = [stage |-> "ready"] ELSE UNCHANGED sysSaving
SystemSettingsArrive(load) ==
    /\ sysLoads' = sysLoads \ {load} /\ Rendered(load.items, sysFilter) /\ SaveEnds(load)
    /\ UNCHANGED <<sysStored, sysEdits>>
\* The message takes the place of the form; after a save the bubble is computed again.
SystemSettingsFail(load) ==
    /\ sysLoads' = sysLoads \ {load} /\ sysFields' = <<>> /\ sysDisplayed' = {} /\ SaveEnds(load)
    /\ sysBubble' = (sysBubble /\ load.for # "save") /\ sysTesting' = FALSE
    /\ UNCHANGED <<sysStored, sysCategories, sysFilter, sysEdits>>
FilterSystemSettings(filter) ==
    /\ Rendered(sysCategories, filter)
    /\ UNCHANGED <<sysStored, sysSaving, sysLoads, sysEdits>>
EditSetting(k, v) ==
    /\ k \in sysDisplayed \ ReadOnly /\ v # sysFields[k] /\ sysEdits < MaxSysEdits /\ sysEdits' = sysEdits + 1
    /\ sysFields' = [sysFields EXCEPT ![k] = v] /\ sysDisplayed' = Shown(k, sysFields')
    /\ sysBubble' = (Edited(sysCategories, sysFields', sysDisplayed') # {})
    /\ UNCHANGED <<sysStored, sysCategories, sysFilter, sysSaving, sysLoads, sysTesting>>
\* Another administrator's save.
OthersSave(k, v) ==
    /\ v # sysStored[k] /\ sysEdits < MaxSysEdits /\ sysEdits' = sysEdits + 1
    /\ sysStored' = [sysStored EXCEPT ![k] = v]
    /\ UNCHANGED <<sysForm, sysSaving, sysLoads>>

-----------------------------------------------------------------------------
(* Saving, tests, the icon and the keys. *)
SaveSystemSettings ==
    LET changed == Edited(sysCategories, sysFields, sysDisplayed) IN
    /\ sysBubble /\ sysSaving.stage = "ready"
    /\ sysBubble' = (changed # {})
    /\ sysSaving' = IF changed = {} THEN sysSaving ELSE [stage |-> "sent", sends |-> Restrict(sysFields, changed)]
    /\ UNCHANGED <<sysStored, sysCategories, sysFilter, sysFields, sysDisplayed, sysLoads, sysTesting, sysEdits>>
\* update_system_settings: only what was sent changes, a blank secret is left as it is.
Merged(sends) ==
    LET taken == {k \in DOMAIN sends \ ReadOnly : k \in Secret => sends[k] # 0} IN
    [k \in Setting |-> IF k \in taken THEN sends[k] ELSE sysStored[k]]
SettingsSaved ==
    /\ sysSaving.stage = "sent" /\ sysStored' = Merged(sysSaving.sends)
    /\ sysSaving' = [stage |-> "reload"] /\ LoadFor("save", sysStored')
    /\ UNCHANGED <<sysForm, sysEdits>>
SettingsRefused ==
    /\ sysSaving.stage = "sent" /\ sysSaving' = [stage |-> "ready"]
    /\ UNCHANGED <<sysStored, sysForm, sysLoads, sysEdits>>

\* testSmtpSettings and testVoipSettings try what the form holds and store nothing; the button
\* comes with its switch, and a new form has it enabled again.
TestSettings ==
    /\ \E s \in Range(SwitchOf) : On(sysFields, s)
    /\ ~sysTesting /\ sysTesting' = TRUE
    /\ UNCHANGED <<sysStored, sysCategories, sysFilter, sysFields, sysDisplayed, sysBubble, sysSaving, sysLoads, sysEdits>>
TestAnswered ==
    /\ sysTesting /\ sysTesting' = FALSE
    /\ UNCHANGED <<sysStored, sysCategories, sysFilter, sysFields, sysDisplayed, sysBubble, sysSaving, sysLoads, sysEdits>>
GenerateVapidKeys(v) ==
    /\ sysEdits < MaxSysEdits /\ sysEdits' = sysEdits + 1
    /\ sysStored' = [sysStored EXCEPT ![Keys] = v] /\ LoadFor("open", sysStored')
    /\ UNCHANGED <<sysForm, sysSaving>>
\* The answer of uploadSysDefaultDriverIcon and resetSysDefaultDriverIcon is put into the input
\* and nowhere else.
IconStored(v) ==
    /\ sysEdits < MaxSysEdits /\ sysEdits' = sysEdits + 1 /\ Icon \in DOMAIN sysFields
    /\ sysStored' = [sysStored EXCEPT ![Icon] = v] /\ sysFields' = [sysFields EXCEPT ![Icon] = v]
    /\ UNCHANGED <<sysCategories, sysFilter, sysDisplayed, sysBubble, sysSaving, sysLoads, sysTesting>>

SystemSettingsNext ==
    \/ LoadSystemSettings \/ SaveSystemSettings \/ SettingsSaved \/ SettingsRefused \/ TestSettings \/ TestAnswered
    \/ \E load \in sysLoads : SystemSettingsArrive(load) \/ SystemSettingsFail(load)
    \/ \E filter \in {Setting, {Engine} \cup DOMAIN EngineOf, {Icon}} : FilterSystemSettings(filter)
    \/ \E k \in Setting, v \in Value : EditSetting(k, v) \/ OthersSave(k, v)
    \/ \E v \in Value : GenerateVapidKeys(v) \/ IconStored(v)

-----------------------------------------------------------------------------
\* No field is displayed whose switch is off, in the form or as loaded when the filter hides
\* the switch, nor one of an engine other than the chosen one: none of these is ever sent.
FieldsInForce ==
    \A k \in sysDisplayed \cap DOMAIN SwitchOf :
       /\ On(IF SwitchOf[k] \in DOMAIN sysFields THEN sysFields ELSE sysCategories, SwitchOf[k])
       /\ k \in DOMAIN EngineOf => EngineOf[k] = ChosenEngine(sysFields)

\* The save button is in reach whenever there is something to save, after any editing,
\* filtering and reloading; but for the icon, whose upload changes the field unseen.
BubbleTellsOfEdits ==
    Edited(sysCategories, sysFields, sysDisplayed) \ {Icon} # {} => sysBubble

SystemSettingsSound == FieldsInForce /\ BubbleTellsOfEdits
=============================================================================
