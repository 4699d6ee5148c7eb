---------------------------- MODULE CommandPane ----------------------------
(***************************************************************************)
(* The commands tab of the device window (src/web/js/device-commands.js):  *)
(* a selection among the commands of the device, a field for the payload,  *)
(* and the history, which is refreshed while it is shown.  Answers carry   *)
(* no token, so one of an earlier device may come late.                    *)
(***************************************************************************)
EXTENDS Integers, FiniteSets

CONSTANTS
    PaneDevice, NoPane,
    UserCommand,   \* commands the user stored; one stands for its payload too
    Typed, NoText, \* what the field holds otherwise
    MaxSupport,    \* bound: answers with the commands on their way
    MaxPaneCalls   \* bound: other requests on their way, and timers

ASSUME CommandPaneAssumption ==
    /\ NoPane \notin PaneDevice
    /\ {Typed, NoText, "standard", "custom", "loading"} \cap UserCommand = {}
    /\ MaxSupport \in Nat /\ MaxPaneCalls \in Nat

Texts == UserCommand \cup {Typed, NoText, "standard"}

VARIABLES
    userStored,      \* the server's user commands of each device
    paneDevice,      \* currentCommandDeviceId, as editingDeviceId
    modalTab,        \* the tab of the device window
    commandTab,      \* its commands tab: send or history
    refreshing,      \* commandHistoryInterval is set
    userCommands,
    selectedCommand, \* the select's value; "loading" is the empty value
    commandField, fieldReadOnly,
    protocolUnsaved, \* the form names another protocol than the stored one
    supportCalls,    \* the answers of command-support, with what follows them
    paneCalls,       \* other requests, as records
    sendDisabled,    \* the send button
    historyTimers    \* timers that will show the history

commandPaneVars == <<userStored, paneDevice, modalTab, commandTab, refreshing, userCommands, selectedCommand,
                     commandField, fieldReadOnly, protocolUnsaved, supportCalls, paneCalls, sendDisabled,
                     historyTimers>>
paneView == <<paneDevice, modalTab, commandTab, refreshing>>
selectionVars == <<selectedCommand, commandField, fieldReadOnly>>

CommandPaneTypeOK ==
    /\ userStored \in [PaneDevice -> SUBSET UserCommand]
    /\ paneDevice \in PaneDevice \cup {NoPane}
    /\ modalTab \in {"closed", "general", "commands"} /\ commandTab \in {"send", "history"}
    /\ refreshing \in BOOLEAN /\ userCommands \subseteq UserCommand
    /\ selectedCommand \in UserCommand \cup {"loading", "custom", "standard"}
    /\ commandField \in Texts /\ {fieldReadOnly, protocolUnsaved, sendDisabled} \subseteq BOOLEAN
    /\ supportCalls \subseteq [known : SUBSET UserCommand, then : UserCommand \cup {"nothing", "custom"}]
    /\ \A c \in paneCalls : c.kind \in {"send", "save", "forget"}
    /\ historyTimers \in 0..MaxPaneCalls

CommandPaneInit ==
    /\ userStored \in [PaneDevice -> SUBSET UserCommand]
    /\ paneDevice = NoPane /\ modalTab = "closed" /\ commandTab = "send" /\ refreshing = FALSE
    /\ userCommands = {} /\ selectedCommand = "custom" /\ commandField = NoText
    /\ fieldReadOnly = FALSE /\ protocolUnsaved = FALSE /\ sendDisabled = FALSE
    /\ supportCalls = {} /\ paneCalls = {} /\ historyTimers = 0

-----------------------------------------------------------------------------
(* The requests. *)
Asked(call) ==
    /\ paneCalls' = paneCalls \cup {call}
    /\ Cardinality(paneCalls') <= MaxPaneCalls

\* loadAvailableCommands: an unsaved protocol is asked for instead of the device.
CommandsAsked(d, then) ==
    /\ supportCalls' = supportCalls
           \cup {[known |-> IF protocolUnsaved' THEN {} ELSE userStored[d], then |-> then]}
    /\ Cardinality(supportCalls') <= MaxSupport
    /\ selectedCommand' = "loading" /\ UNCHANGED <<commandField, fieldReadOnly>>

\* onCommandSelect, after field was written by an earlier selection of the same step.
CommandSelected(option, known, field) ==
    /\ selectedCommand' = option
    /\ fieldReadOnly' = (option \in UserCommand)
    /\ commandField' = IF option \notin UserCommand THEN field
                       ELSE IF option \in known THEN option ELSE NoText

-----------------------------------------------------------------------------
(* The window and its tabs. *)
\* switchModalTab: the commands tab begins with sending, every other one ends the refresh.
ModalTab(d, tab) ==
    /\ modalTab' = tab /\ refreshing' = FALSE
    /\ IF tab = "commands"
       THEN commandTab' = "send" /\ CommandsAsked(d, "nothing")
       ELSE UNCHANGED <<commandTab, supportCalls, selectionVars>>

OpenDeviceModal(d, tab) ==
    /\ modalTab = "closed" /\ paneDevice' = d /\ protocolUnsaved' = FALSE
    /\ ModalTab(d, tab)
    /\ UNCHANGED <<userStored, userCommands, paneCalls, sendDisabled, historyTimers>>
SwitchModalTab(tab) ==
    /\ modalTab # "closed" /\ UNCHANGED <<protocolUnsaved, paneDevice>> /\ ModalTab(paneDevice, tab)
    /\ UNCHANGED <<userStored, userCommands, paneCalls, sendDisabled, historyTimers>>
\* The user may keep a form with unsaved changes.
CloseDeviceModal ==
    /\ modalTab # "closed" /\ modalTab' = "closed" /\ refreshing' = FALSE
    /\ UNCHANGED <<userStored, paneDevice, commandTab, userCommands, selectionVars, protocolUnsaved, supportCalls,
                   paneCalls, sendDisabled, historyTimers>>
ChooseProtocol ==
    /\ modalTab = "general" /\ protocolUnsaved' = ~protocolUnsaved
    /\ UNCHANGED <<userStored, paneView, userCommands, selectionVars, supportCalls, paneCalls, sendDisabled,
                   historyTimers>>

\* switchCommandTab; the rows of the history are left out.
CommandTab(tab) ==
    /\ commandTab' = tab /\ refreshing' = (tab = "history") /\ UNCHANGED <<paneDevice, modalTab, paneCalls>>
SwitchCommandTab(tab) ==
    /\ modalTab = "commands" /\ CommandTab(tab)
    /\ UNCHANGED <<userStored, userCommands, selectionVars, protocolUnsaved, supportCalls, sendDisabled, historyTimers>>
\* Half a second after a command was queued, wherever the user is by then.
HistoryTimerFires ==
    /\ historyTimers > 0 /\ historyTimers' = historyTimers - 1 /\ CommandTab("history")
    /\ UNCHANGED <<userStored, userCommands, selectionVars, protocolUnsaved, supportCalls, sendDisabled>>

-----------------------------------------------------------------------------
(* The selection. *)
Options == userCommands \cup {"custom", "standard"}
SelectCommand(option) ==
    /\ modalTab = "commands" /\ selectedCommand # "loading" /\ CommandSelected(option, userCommands, commandField)
    /\ UNCHANGED <<userStored, paneView, userCommands, protocolUnsaved, supportCalls, paneCalls, sendDisabled,
                   historyTimers>>
TypeCommand ==
    /\ modalTab = "commands" /\ ~fieldReadOnly /\ selectedCommand # "standard" /\ commandField' = Typed
    /\ UNCHANGED <<userStored, paneView, userCommands, selectedCommand, fieldReadOnly, protocolUnsaved,
                   supportCalls, paneCalls, sendDisabled, historyTimers>>

\* The options are drawn and the first one is selected: a stored command, then a standard
\* one, then the custom command.  A save then selects the command it added, a deletion the
\* custom command, and what is not among the options selects nothing.
CommandsDrawn(c) ==
    LET mayBegin(o) == IF c.known # {} THEN o \in c.known ELSE o \in {"standard", "custom"}
        offered == c.known \cup {"custom"}
    IN /\ userCommands' = c.known
       /\ \E o \in UserCommand \cup {"standard", "custom"} :
             /\ mayBegin(o)
             /\ LET field == IF o \in UserCommand THEN o ELSE commandField
                IN CASE c.then = "nothing" -> CommandSelected(o, c.known, commandField)
                     [] c.then # "nothing" ->
                            CommandSelected(IF c.then \in offered THEN c.then ELSE "loading", c.known, field)
CommandsFail(c) ==
    /\ UNCHANGED userCommands
    /\ IF c.then = "nothing" THEN UNCHANGED selectionVars
       ELSE CommandSelected("loading", userCommands, commandField)
CommandsArrive(c) ==
    /\ supportCalls' = supportCalls \ {c}
    /\ CommandsDrawn(c) \/ CommandsFail(c)
    /\ UNCHANGED <<userStored, paneView, protocolUnsaved, paneCalls, sendDisabled, historyTimers>>

\* The payload of the selection; what matches no option counts as custom.
Payload ==
    IF selectedCommand = "standard" THEN "standard"
    ELSE IF selectedCommand \in userCommands THEN selectedCommand ELSE commandField


-----------------------------------------------------------------------------
(* Sending, and the changes of the stored commands and of the history. *)
\* By the button, and by the form's own submit, which the button does not disable.
SendCommand ==
    /\ modalTab = "commands" /\ ~protocolUnsaved /\ Payload # NoText
    /\ Asked([kind |-> "send"]) /\ sendDisabled' = TRUE
    /\ UNCHANGED <<userStored, paneView, userCommands, selectionVars, protocolUnsaved, supportCalls, historyTimers>>
Sent(ok) ==
    /\ sendDisabled' = FALSE
    /\ IF ok THEN historyTimers' = historyTimers + 1 /\ CommandSelected("custom", userCommands, NoText)
       ELSE UNCHANGED <<selectionVars, historyTimers>>
SendAnswered(c) ==
    /\ c.kind = "send" /\ paneCalls' = paneCalls \ {c}
    /\ (historyTimers < MaxPaneCalls /\ Sent(TRUE)) \/ Sent(FALSE)
    /\ UNCHANGED <<userStored, paneView, userCommands, protocolUnsaved, supportCalls>>

SaveCustomCommand(u) ==
    /\ modalTab = "commands" /\ commandField # NoText /\ Asked([kind |-> "save", device |-> paneDevice, command |-> u])
    /\ UNCHANGED <<userStored, paneView, userCommands, selectionVars, protocolUnsaved, supportCalls, sendDisabled,
                   historyTimers>>
DeleteSelectedUserCommand ==
    /\ modalTab = "commands" /\ selectedCommand \in UserCommand
    /\ Asked([kind |-> "forget", device |-> paneDevice, command |-> selectedCommand])
    /\ UNCHANGED <<userStored, paneView, userCommands, selectionVars, protocolUnsaved, supportCalls, sendDisabled,
                   historyTimers>>
\* Both load the commands again, of the device the window shows by then.
StoredAnswered(c) ==
    /\ c.kind \in {"save", "forget"} /\ paneCalls' = paneCalls \ {c} /\ UNCHANGED protocolUnsaved
    /\ \/ UNCHANGED <<userStored, supportCalls, selectionVars>>
       \/ /\ userStored' = [userStored EXCEPT ![c.device] = IF c.kind = "save" THEN @ \cup {c.command} ELSE @ \ {c.command}]
          /\ supportCalls' = supportCalls
                 \cup {[known |-> IF protocolUnsaved THEN {} ELSE userStored'[paneDevice],
                        then |-> IF c.kind = "save" THEN c.command ELSE "custom"]}
          /\ Cardinality(supportCalls') <= MaxSupport
          /\ selectedCommand' = "loading" /\ UNCHANGED <<commandField, fieldReadOnly>>
    /\ UNCHANGED <<paneView, userCommands, sendDisabled, historyTimers>>


CommandPaneNext ==
    \/ \E d \in PaneDevice, tab \in {"general", "commands"} : OpenDeviceModal(d, tab)
    \/ \E tab \in {"general", "commands"} : SwitchModalTab(tab)
    \/ CloseDeviceModal \/ ChooseProtocol
    \/ \E tab \in {"send", "history"} : SwitchCommandTab(tab)
    \/ HistoryTimerFires
    \/ \E o \in Options : SelectCommand(o)
    \/ TypeCommand \/ SendCommand
    \/ \E u \in UserCommand : SaveCustomCommand(u)
    \/ DeleteSelectedUserCommand
    \/ \E c \in supportCalls : CommandsArrive(c)
    \/ \E c \in paneCalls :
          SendAnswered(c) \/ StoredAnswered(c)

-----------------------------------------------------------------------------
\* A stored command that is selected is one the page knows, and the read-only field shows
\* the very payload a send would carry, whichever device's answer drew the options last and
\* whatever save, deletion or send was answered in between.
PayloadIsShown ==
    selectedCommand \in UserCommand =>
        selectedCommand \in userCommands /\ fieldReadOnly /\ commandField = Payload

\* A history in view is refreshed, and no refresh is left behind by a pane that sends.
HistoryRefreshes ==
    /\ (modalTab = "commands" /\ commandTab = "history") => refreshing
    /\ refreshing => commandTab = "history"

\* The send button never stays disabled without a send that will enable it again.
SendComesBack == sendDisabled => \E c \in paneCalls : c.kind = "send"

CommandPaneSound == PayloadIsShown /\ HistoryRefreshes /\ SendComesBack
=============================================================================
