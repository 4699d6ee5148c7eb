-------------------------- MODULE ManagementProofs --------------------------
(***************************************************************************)
(* The windows and forms beside the map, for any vehicles, users, rows,    *)
(* settings, tickets and stops, and the pages of MCManagement together:    *)
(* the parts of RecordProofs and those of this module each have an         *)
(* inductive invariant of their own, and keep theirs side by side.         *)
(***************************************************************************)
EXTENDS MCManagement, RecordProofs

-----------------------------------------------------------------------------
(* The commands of a device. *)
SupportCall == [known : SUBSET UserCommand, then : UserCommand \cup {"nothing", "custom"}]

\* A request is of a command of the user, in a window that has had a device.
PaneCallsOK ==
    /\ \A c \in paneCalls : c.kind \in {"save", "forget"} => c.command \in UserCommand
    /\ modalTab # "closed" \/ paneCalls # {} => paneDevice \in PaneDevice
SelectionOK ==
    /\ selectedCommand \in UserCommand \cup {"loading", "custom", "standard"} /\ commandField \in Texts
    /\ fieldReadOnly \in BOOLEAN
    /\ selectedCommand \in UserCommand =>
          selectedCommand \in userCommands /\ fieldReadOnly /\ commandField = selectedCommand
CommandPaneInv ==
    /\ CommandPaneTypeOK /\ PaneCallsOK /\ SelectionOK
    /\ HistoryRefreshes /\ SendComesBack

\* The pane starts with its invariant.
LEMMA CommandPaneInvInit == CommandPaneInit => CommandPaneInv
<1> SUFFICES ASSUME CommandPaneInit PROVE CommandPaneInv
  OBVIOUS
<1>1. fieldReadOnly \in BOOLEAN /\ protocolUnsaved \in BOOLEAN /\ sendDisabled \in BOOLEAN /\ refreshing \in BOOLEAN
  BY Zenon DEF CommandPaneInit
<1>2. CommandPaneTypeOK
  BY <1>1, CommandPaneAssumption DEF CommandPaneInit, CommandPaneTypeOK, Texts
<1>3. PaneCallsOK /\ SelectionOK /\ HistoryRefreshes /\ SendComesBack
  BY <1>1, CommandPaneAssumption DEF CommandPaneInit, PaneCallsOK, SelectionOK, HistoryRefreshes, SendComesBack, Texts
<1> QED
  BY <1>2, <1>3 DEF CommandPaneInv

\* The invariant has what is asked of the pane.
LEMMA CommandPaneInvGives == ASSUME CommandPaneInv PROVE CommandPaneTypeOK /\ CommandPaneSound
BY CommandPaneAssumption DEF CommandPaneInv, SelectionOK, CommandPaneSound, PayloadIsShown, Payload

\* What is selected is known, or none of the user's, and then the field shows it.
LEMMA SelectedWell ==
    ASSUME NEW option \in UserCommand \cup {"loading", "custom", "standard"}, NEW known, NEW field \in Texts,
           option \in UserCommand => option \in known, userCommands' = known,
           CommandSelected(option, known, field)
    PROVE  SelectionOK'
<1>1. fieldReadOnly' \in BOOLEAN
  <2>1. fieldReadOnly' = (option \in UserCommand)
    BY DEF CommandSelected
  <2>2. (option \in UserCommand) \in BOOLEAN
    OBVIOUS
  <2> QED
    BY <2>1, <2>2, Zenon
<1> QED
  BY <1>1 DEF CommandSelected, SelectionOK, Texts

\* The commands of a device are asked for.
LEMMA AskedWell ==
    ASSUME CommandPaneInv, NEW d \in PaneDevice, NEW then \in UserCommand \cup {"nothing", "custom"},
           CommandsAsked(d, then)
    PROVE  /\ supportCalls' \subseteq SupportCall
           /\ selectedCommand' = "loading" /\ UNCHANGED <<commandField, fieldReadOnly>>
<1>1. userStored[d] \subseteq UserCommand
  BY DEF CommandPaneInv, CommandPaneTypeOK
<1> QED
  BY <1>1 DEF CommandPaneInv, CommandPaneTypeOK, SupportCall, CommandsAsked

\* Every step of the pane keeps its invariant.
LEMMA CommandPaneStep ==
    ASSUME CommandPaneInv, CommandPaneNext PROVE CommandPaneInv'
<1> USE CommandPaneAssumption DEF CommandPaneInv, CommandPaneTypeOK
<1>1. ASSUME NEW d \in PaneDevice, NEW tab \in {"general", "commands"}, ModalTab(d, tab), paneDevice' = d,
             protocolUnsaved' \in BOOLEAN,
             UNCHANGED <<userStored, userCommands, paneCalls, sendDisabled, historyTimers>>
      PROVE  CommandPaneInv'
  <2>1. CASE tab = "commands"
    <3>1. /\ supportCalls' \subseteq SupportCall
          /\ selectedCommand' = "loading" /\ UNCHANGED <<commandField, fieldReadOnly>>
      BY <1>1, <2>1, AskedWell DEF ModalTab
    <3>2. refreshing' = FALSE /\ commandTab' = "send" /\ modalTab' = "commands"
      BY <1>1, <2>1 DEF ModalTab
    <3>3. CommandPaneTypeOK'
      BY <1>1, <3>1, <3>2 DEF SupportCall
    <3> QED
      BY <1>1, <3>1, <3>2, <3>3 DEF PaneCallsOK, SelectionOK, HistoryRefreshes, SendComesBack
  <2>2. CASE tab # "commands"
    <3>1. refreshing' = FALSE /\ modalTab' = "general" /\ UNCHANGED <<commandTab, supportCalls, selectionVars>>
      BY <1>1, <2>2 DEF ModalTab
    <3>2. CommandPaneTypeOK'
      BY <1>1, <3>1 DEF selectionVars
    <3> QED
      BY <1>1, <3>1, <3>2 DEF PaneCallsOK, SelectionOK, HistoryRefreshes, SendComesBack, selectionVars
  <2> QED
    BY <2>1, <2>2
<1>2. ASSUME NEW d \in PaneDevice, NEW tab \in {"general", "commands"}, OpenDeviceModal(d, tab) PROVE CommandPaneInv'
  BY <1>1, <1>2 DEF OpenDeviceModal
<1>3. ASSUME NEW tab \in {"general", "commands"}, SwitchModalTab(tab) PROVE CommandPaneInv'
  <2>1. paneDevice \in PaneDevice
    BY <1>3 DEF SwitchModalTab, PaneCallsOK
  <2> QED
    BY <1>1, <1>3, <2>1 DEF SwitchModalTab
<1>4. CASE CloseDeviceModal
  BY <1>4 DEF CloseDeviceModal, selectionVars, PaneCallsOK, SelectionOK, HistoryRefreshes, SendComesBack
<1>5. CASE ChooseProtocol
  <2>1. protocolUnsaved' \in BOOLEAN
    BY <1>5, Zenon DEF ChooseProtocol
  <2> QED
    BY <1>5, <2>1 DEF ChooseProtocol, paneView, selectionVars, PaneCallsOK, SelectionOK, HistoryRefreshes, SendComesBack
<1>6. ASSUME NEW tab \in {"send", "history"}, CommandTab(tab), historyTimers' \in 0..MaxPaneCalls,
             UNCHANGED <<userStored, userCommands, selectionVars, protocolUnsaved, supportCalls, sendDisabled>>
      PROVE  CommandPaneInv'
  <2>1. refreshing' = (tab = "history") /\ commandTab' = tab /\ UNCHANGED <<paneDevice, modalTab, paneCalls>>
    BY <1>6 DEF CommandTab
  <2>2. refreshing' \in BOOLEAN
    BY <2>1, Zenon
  <2>3. CommandPaneTypeOK'
    BY <1>6, <2>1, <2>2 DEF selectionVars
  <2> QED
    BY <1>6, <2>1, <2>3 DEF selectionVars, PaneCallsOK, SelectionOK, HistoryRefreshes, SendComesBack
<1>7. ASSUME NEW tab \in {"send", "history"}, SwitchCommandTab(tab) PROVE CommandPaneInv'
  BY <1>6, <1>7 DEF SwitchCommandTab
<1>8. CASE HistoryTimerFires
  BY <1>6, <1>8 DEF HistoryTimerFires
<1>9. ASSUME NEW o \in Options, SelectCommand(o) PROVE CommandPaneInv'
  <2>1. SelectionOK'
    <3>1. o \in UserCommand => o \in userCommands
      BY DEF Options
    <3>2. o \in UserCommand \cup {"loading", "custom", "standard"} /\ commandField \in Texts
      BY DEF Options
    <3> QED
      BY <1>9, <3>1, <3>2, SelectedWell DEF SelectCommand
  <2> QED
    BY <1>9, <2>1 DEF SelectCommand, paneView, SelectionOK, PaneCallsOK, HistoryRefreshes, SendComesBack
<1>10. CASE TypeCommand
  BY <1>10 DEF TypeCommand, paneView, Texts, PaneCallsOK, SelectionOK, HistoryRefreshes, SendComesBack
<1>11. CASE SendCommand
  <2>1. sendDisabled' = TRUE /\ [kind |-> "send"] \in paneCalls' /\ \A c \in paneCalls' : c \in paneCalls \/ c = [kind |-> "send"]
    BY <1>11 DEF SendCommand, Asked
  <2>2. sendDisabled' \in BOOLEAN
    BY <2>1, Zenon
  <2>3. CommandPaneTypeOK'
    BY <1>11, <2>1, <2>2 DEF SendCommand, paneView, selectionVars
  <2> QED
    BY <1>11, <2>1, <2>3 DEF SendCommand, paneView, selectionVars, PaneCallsOK, SelectionOK, HistoryRefreshes, SendComesBack
<1>12. ASSUME NEW u \in UserCommand, SaveCustomCommand(u) PROVE CommandPaneInv'
  BY <1>12 DEF SaveCustomCommand, Asked, paneView, selectionVars, PaneCallsOK, SelectionOK, HistoryRefreshes, SendComesBack
<1>13. CASE DeleteSelectedUserCommand
  BY <1>13 DEF DeleteSelectedUserCommand, Asked, paneView, selectionVars, PaneCallsOK, SelectionOK, HistoryRefreshes,
               SendComesBack
<1>14. ASSUME NEW c \in supportCalls, CommandsArrive(c) PROVE CommandPaneInv'
  <2>1. c \in SupportCall
    BY DEF SupportCall
  <2>2. SelectionOK' /\ userCommands' \subseteq UserCommand
    <3>1. CASE CommandsDrawn(c)
      <4> DEFINE mayBegin(o) == IF c.known # {} THEN o \in c.known ELSE o \in {"standard", "custom"}
                 offers == c.known \cup {"custom"}
                 chosen == IF c.then \in offers THEN c.then ELSE "loading"
      <4>1. PICK o \in UserCommand \cup {"standard", "custom"} :
               /\ mayBegin(o)
               /\ IF c.then = "nothing" THEN CommandSelected(o, c.known, commandField)
                  ELSE CommandSelected(chosen, c.known, IF o \in UserCommand THEN o ELSE commandField)
        BY <3>1 DEF CommandsDrawn
      <4>2. userCommands' = c.known /\ c.known \subseteq UserCommand
        BY <2>1, <3>1 DEF CommandsDrawn, SupportCall
      <4>3. o \in UserCommand => o \in c.known
        BY <4>1
      <4>4. chosen \in UserCommand \cup {"loading", "custom", "standard"} /\ (chosen \in UserCommand => chosen \in c.known)
        BY <4>2
      <4>5. commandField \in Texts /\ (IF o \in UserCommand THEN o ELSE commandField) \in Texts
        BY DEF Texts
      <4> HIDE DEF mayBegin, offers, chosen
      <4> QED
        BY <4>1, <4>2, <4>3, <4>4, <4>5, SelectedWell
    <3>2. CASE CommandsFail(c)
      <4>1. CASE c.then = "nothing"
        BY <3>2, <4>1 DEF CommandsFail, selectionVars, SelectionOK
      <4>2. CASE c.then # "nothing"
        BY <3>2, <4>2, SelectedWell DEF CommandsFail
      <4> QED
        BY <4>1, <4>2, <3>2 DEF CommandsFail
    <3> QED
      BY <1>14, <3>1, <3>2 DEF CommandsArrive
  <2> QED
    BY <1>14, <2>2 DEF CommandsArrive, paneView, SelectionOK, PaneCallsOK, HistoryRefreshes, SendComesBack
<1>15. ASSUME NEW c \in paneCalls, SendAnswered(c) PROVE CommandPaneInv'
  <2>1. sendDisabled' = FALSE
    BY <1>15 DEF SendAnswered, Sent
  <2>2. SelectionOK' /\ historyTimers' \in 0..MaxPaneCalls
    <3>1. CASE historyTimers < MaxPaneCalls /\ Sent(TRUE)
      <4>1. "custom" \notin UserCommand /\ NoText \in Texts
        BY DEF Texts
      <4>2. userCommands' = userCommands
        BY <1>15 DEF SendAnswered
      <4> QED
        BY <3>1, <4>1, <4>2, SelectedWell DEF Sent
    <3>2. CASE Sent(FALSE)
      BY <1>15, <3>2 DEF SendAnswered, Sent, selectionVars, SelectionOK
    <3> QED
      BY <1>15, <3>1, <3>2 DEF SendAnswered
  <2>3. sendDisabled' \in BOOLEAN
    BY <2>1, Zenon
  <2>4. CommandPaneTypeOK'
    BY <1>15, <2>2, <2>3 DEF SendAnswered, paneView, SelectionOK
  <2> QED
    BY <1>15, <2>1, <2>2, <2>4 DEF SendAnswered, paneView, PaneCallsOK, HistoryRefreshes, SendComesBack
<1>16. ASSUME NEW c \in paneCalls, StoredAnswered(c) PROVE CommandPaneInv'
  <2>1. CASE UNCHANGED <<userStored, supportCalls, selectionVars>>
    BY <1>16, <2>1 DEF StoredAnswered, selectionVars, paneView, PaneCallsOK, SelectionOK, HistoryRefreshes, SendComesBack
  <2>2. CASE ~UNCHANGED <<userStored, supportCalls, selectionVars>>
    <3> DEFINE change(S) == IF c.kind = "save" THEN S \cup {c.command} ELSE S \ {c.command}
    <3>1. /\ userStored' = [userStored EXCEPT ![c.device] = change(@)]
          /\ supportCalls' = supportCalls
                 \cup {[known |-> IF protocolUnsaved THEN {} ELSE userStored'[paneDevice],
                        then |-> IF c.kind = "save" THEN c.command ELSE "custom"]}
          /\ selectedCommand' = "loading" /\ UNCHANGED <<commandField, fieldReadOnly>>
      BY <1>16, <2>2 DEF StoredAnswered
    <3>2. c.command \in UserCommand /\ paneDevice \in PaneDevice
      BY <1>16 DEF StoredAnswered, PaneCallsOK
    <3>3. userStored' \in [PaneDevice -> SUBSET UserCommand]
      <4>1. \A S \in SUBSET UserCommand : change(S) \in SUBSET UserCommand
        BY <3>2
      <4> HIDE DEF change
      <4> QED
        BY <3>1, <4>1
    <3>4. supportCalls' \subseteq SupportCall
      <4>1. userStored'[paneDevice] \in SUBSET UserCommand
        BY <3>2, <3>3
      <4> QED
        BY <3>1, <3>2, <4>1 DEF SupportCall
    <3> HIDE DEF change
    <3>5. CommandPaneTypeOK'
      BY <1>16, <3>1, <3>3, <3>4 DEF StoredAnswered, paneView, SupportCall
    <3> QED
      BY <1>16, <3>1, <3>5 DEF StoredAnswered, paneView, PaneCallsOK, SelectionOK, HistoryRefreshes, SendComesBack
  <2> QED
    BY <2>1, <2>2
<1> QED
  BY <1>2, <1>3, <1>4, <1>5, <1>7, <1>8, <1>9, <1>10, <1>11, <1>12, <1>13, <1>14, <1>15, <1>16 DEF CommandPaneNext

\* A step of another part leaves it.
LEMMA CommandPaneStutter == ASSUME CommandPaneInv, UNCHANGED commandPaneVars PROVE CommandPaneInv'
BY DEF CommandPaneInv, CommandPaneTypeOK, PaneCallsOK, SelectionOK, HistoryRefreshes, SendComesBack, commandPaneVars

-----------------------------------------------------------------------------
(* The rows of an alert configuration. *)
Editors == [row : 1..MaxUids, ticked : SUBSET Channel, hidden : SUBSET Channel, boxes : {ShownUsers},
            users : SUBSET ShownUsers, kept : SUBSET Recipient]
UidsCounted == \A i \in 1..Len(alertRows) : alertRows[i].uid <= uidCounter
\* What the editor keeps aside is what the row it shows hides.
EditorFits ==
    editor # NoEditor =>
        /\ editor \in Editors /\ editor.row <= uidCounter
        /\ \A i \in 1..Len(alertRows) :
              alertRows[i].uid = editor.row =>
                 editor.hidden = alertRows[i].channels \ ShownChannels /\ editor.kept = HiddenUsers(alertRows[i])

AlertRowsInv == AlertRowsTypeOK /\ UidsUnique /\ UidsCounted /\ EditorFits

\* There is no row at first, and no editor.
LEMMA AlertRowsInvInit == AlertRowsInit => AlertRowsInv
<1> SUFFICES ASSUME AlertRowsInit PROVE AlertRowsInv
  OBVIOUS
<1> USE AlertRowsAssumption
<1>1. <<>> \in Seq(AlertRow) /\ Len(<<>>) = 0
  BY EmptySeq
<1>2. storedRows \in Seq(AlertRow) /\ alertRows \in Seq(AlertRow) /\ Len(alertRows) = 0
  BY <1>1 DEF AlertRowsInit
<1>3. AlertRowsTypeOK
  <2>1. uidCounter \in 0..MaxUids /\ editingUid \in 0..MaxUids /\ Len(alertRows) <= MaxRows
    BY <1>2 DEF AlertRowsInit
  <2>2. pendingProfile \in BOOLEAN /\ rowsOpen \in BOOLEAN
    BY DEF AlertRowsInit
  <2>3. editorOpening = {} /\ editor = NoEditor
    BY DEF AlertRowsInit
  <2> QED
    BY <1>2, <2>1, <2>2, <2>3 DEF AlertRowsTypeOK
<1>4. UidsUnique /\ UidsCounted
  BY <1>2 DEF UidsUnique, UidsCounted
<1>5. EditorFits
  BY DEF AlertRowsInit, EditorFits
<1> QED
  BY <1>3, <1>4, <1>5 DEF AlertRowsInv

\* Rows of a configuration that are numbered anew.
LEMMA FreshIs ==
    ASSUME NEW rows \in Seq(AlertRow), NEW from \in Nat, from + Len(rows) <= MaxUids
    PROVE  /\ Fresh(rows, from) \in Seq(AlertRow) /\ Len(Fresh(rows, from)) = Len(rows)
           /\ \A i \in 1..Len(rows) : Fresh(rows, from)[i].uid = from + i
<1> DEFINE n == Len(rows)
           e(i) == [rows[i] EXCEPT !.uid = from + i]
           u == Fresh(rows, from)
<1>1. n \in Nat /\ MaxUids \in Nat /\ from + n <= MaxUids /\ \A i \in 1..n : rows[i] \in AlertRow
  BY AlertRowsAssumption, LenProperties, ElementOfSeq
<1>2. u = [i \in 1..n |-> e(i)]
  BY DEF Fresh
<1> HIDE DEF n
<1>3. \A i \in 1..n : e(i) \in AlertRow /\ e(i).uid = from + i
  <2> SUFFICES ASSUME NEW i \in 1..n PROVE e(i) \in AlertRow /\ e(i).uid = from + i
    OBVIOUS
  <2>1. from + i \in 1..MaxUids
    BY <1>1
  <2>2. rows[i] \in AlertRow
    BY <1>1
  <2> QED
    BY <2>1, <2>2 DEF AlertRow
<1> HIDE DEF e, u
<1>4. u \in [1..n -> AlertRow] /\ \A i \in 1..n : u[i].uid = from + i
  BY <1>2, <1>3
<1>5. u \in Seq(AlertRow) /\ Len(u) = n
  BY <1>1, <1>4, SeqDef, LenProperties
<1> QED
  BY <1>4, <1>5 DEF u, n

\* What is left of rows without one of them: rows of theirs, no two the same.
LEMMA WithoutIs ==
    ASSUME NEW rows \in Seq(AlertRow), NEW uid,
           \A i, j \in 1..Len(rows) : rows[i].uid = rows[j].uid => i = j
    PROVE  /\ Without(rows, uid) \in Seq(AlertRow) /\ Len(Without(rows, uid)) <= Len(rows)
           /\ \A i \in 1..Len(Without(rows, uid)) : \E j \in 1..Len(rows) : Without(rows, uid)[i] = rows[j]
           /\ \A i, j \in 1..Len(Without(rows, uid)) :
                 Without(rows, uid)[i].uid = Without(rows, uid)[j].uid => i = j
<1> DEFINE n == Len(rows)
           T == Seq(AlertRow)
           Left(some, r) == IF r.uid = uid THEN some ELSE Append(some, r)
           left == [x \in T \X (1..n) |-> Left(x[1], rows[x[2]])]
           Rec(f) == f = [i \in 0..n |-> IF i = 0 THEN <<>>
                             ELSE IF rows[i].uid = uid THEN f[i - 1] ELSE Append(f[i - 1], rows[i])]
           f == CHOOSE g : Rec(g)
<1>1. Without(rows, uid) = f[n]
  BY DEF Without
<1>2. n \in Nat /\ (\A i \in 1..n : rows[i] \in AlertRow) /\ \A i, j \in 1..n : rows[i].uid = rows[j].uid => i = j
  BY LenProperties, ElementOfSeq
<1> HIDE DEF n
<1>3. \A some \in T, r \in AlertRow : Left(some, r) \in T
  BY AppendProperties
<1> HIDE DEF Left
<1>4. left \in Stepping(n, T)
  <2>1. ASSUME NEW x \in T \X (1..n) PROVE Left(x[1], rows[x[2]]) \in T
    BY <1>2, <1>3
  <2> HIDE DEF T
  <2> QED
    BY <2>1 DEF Stepping
<1>5. PICK g : Folding(g, n, T, <<>>, left)
  <2>1. <<>> \in T
    BY EmptySeq
  <2> HIDE DEF left, T
  <2> QED
    BY <1>2, <1>4, <2>1, FoldExists
<1>6. ASSUME NEW i \in 1..n PROVE g[i] = Left(g[i - 1], rows[i])
  <2>1. i - 1 \in 0..n
    BY <1>2
  <2> HIDE DEF T
  <2>2. g[i - 1] \in T
    BY <1>5, <2>1 DEF Folding
  <2>3. <<g[i - 1], i>> \in T \X (1..n)
    BY <2>2
  <2>4. left[<<g[i - 1], i>>] = Left(g[i - 1], rows[i])
    BY <2>3
  <2> HIDE DEF left
  <2> QED
    BY <1>5, <2>4 DEF Folding
<1>7. Rec(g)
  <2> HIDE DEF T, left
  <2>1. \A i \in 0..n : g[i] = IF i = 0 THEN <<>>
                             ELSE IF rows[i].uid = uid THEN g[i - 1] ELSE Append(g[i - 1], rows[i])
    <3> SUFFICES ASSUME NEW i \in 0..n
                 PROVE  g[i] = IF i = 0 THEN <<>>
                               ELSE IF rows[i].uid = uid THEN g[i - 1] ELSE Append(g[i - 1], rows[i])
      OBVIOUS
    <3>1. CASE i = 0
      BY <1>5, <3>1 DEF Folding
    <3>2. CASE i # 0
      <4>1. i \in 1..n
        BY <1>2, <3>2
      <4>2. g[i] = Left(g[i - 1], rows[i])
        BY <1>6, <4>1
      <4> QED
        BY <3>2, <4>2 DEF Left
    <3> QED
      BY <3>1, <3>2
  <2>2. g \in [0..n -> T]
    BY <1>5 DEF Folding
  <2> QED
    BY <2>1, <2>2
<1>8. Rec(f)
  <2> HIDE DEF Rec
  <2> QED
    BY <1>7
<1> HIDE DEF f
<1>9. f[0] = <<>> /\ \A i \in 1..n : f[i] = Left(f[i - 1], rows[i])
  <2> DEFINE e(i) == IF i = 0 THEN <<>> ELSE IF rows[i].uid = uid THEN f[i - 1] ELSE Append(f[i - 1], rows[i])
  <2>1. f = [i \in 0..n |-> e(i)]
    BY <1>8
  <2>2. 0 \in 0..n /\ \A i \in 1..n : i \in 0..n /\ i # 0
    BY <1>2
  <2> HIDE DEF e
  <2>3. \A i \in 0..n : f[i] = e(i)
    BY <2>1
  <2> QED
    BY <2>2, <2>3 DEF e, Left
<1> DEFINE Well(a, i) ==
              /\ a \in T /\ Len(a) <= i
              /\ \A p \in 1..Len(a) : \E q \in 1..i : a[p] = rows[q]
              /\ \A p, q \in 1..Len(a) : a[p].uid = a[q].uid => p = q
           W == {i \in 0..n : Well(f[i], i)}
<1>10. 0 \in W
  <2>1. <<>> \in T /\ Len(<<>>) = 0
    BY EmptySeq
  <2> HIDE DEF T
  <2>2. Well(f[0], 0)
    BY <1>9, <2>1
  <2> HIDE DEF Well
  <2> QED
    BY <1>2, <2>2
<1>11. ASSUME NEW i \in 1..n, i - 1 \in W PROVE i \in W
  <2> DEFINE a == f[i - 1]
             r == rows[i]
             b == Append(a, r)
             m == Len(a)
  <2>1. f[i] = Left(a, r) /\ r \in AlertRow /\ i \in 0..n /\ i \in 1..i
    BY <1>2, <1>9
  <2>2. Well(a, i - 1)
    BY <1>11
  <2>3. \A q \in 1..(i - 1) : q \in 1..i /\ q \in 1..n /\ q # i
    BY <1>2
  <2>4. \A q \in 1..(i - 1) : rows[q].uid # r.uid
    BY <1>2, <2>3
  <2> HIDE DEF a
  <2>5. m \in Nat /\ m <= i - 1
    BY <2>2, LenProperties
  <2>6. b \in T /\ Len(b) = m + 1 /\ b[m + 1] = r /\ \A p \in 1..m : b[p] = a[p]
    BY <2>1, <2>2, AppendProperties
  <2> HIDE DEF r, b, m, T
  <2>7. \A p \in 1..(m + 1) : p \in 1..m \/ p = m + 1
    BY <2>5
  <2>8. Well(a, i)
    BY <2>2, <2>3, <2>5 DEF m
  <2>9. Well(b, i)
    <3>1. Len(b) <= i
      BY <2>5, <2>6
    <3>2. \A p \in 1..(m + 1) : \E q \in 1..i : b[p] = rows[q]
      <4>1. \A p \in 1..m : \E q \in 1..i : b[p] = rows[q]
        BY <2>2, <2>3, <2>6 DEF m
      <4>2. b[m + 1] = rows[i]
        BY <2>6 DEF r
      <4> QED
        BY <2>1, <2>7, <4>1, <4>2
    <3>3. \A p \in 1..m : b[p].uid # r.uid
      BY <2>2, <2>4, <2>6 DEF m
    <3>4. \A p, q \in 1..m : b[p].uid = b[q].uid => p = q
      BY <2>2, <2>6 DEF m
    <3>5. \A p, q \in 1..(m + 1) : b[p].uid = b[q].uid => p = q
      BY <2>6, <2>7, <3>3, <3>4
    <3> QED
      BY <2>6, <3>1, <3>2, <3>5
  <2> HIDE DEF Well
  <2>10. Well(f[i], i)
    BY <2>1, <2>8, <2>9 DEF Left, b
  <2> QED
    BY <2>1, <2>10
<1>12. Well(f[n], n)
  <2> HIDE DEF W
  <2>1. 0..n \subseteq W
    BY <1>2, <1>10, <1>11, CountUp
  <2>2. n \in W
    BY <1>2, <2>1
  <2> HIDE DEF Well
  <2> QED
    BY <2>2 DEF W
<1> QED
  BY <1>1, <1>12 DEF n

\* Rows that were there or have a new uid leave the editor of its row.
LEMMA RowsFit ==
    ASSUME AlertRowsInv, uidCounter' \in Nat, uidCounter' >= uidCounter, editor' = editor,
           alertRows' \in Seq(AlertRow),
           \A i \in 1..Len(alertRows') :
               alertRows'[i].uid > uidCounter \/ \E j \in 1..Len(alertRows) : alertRows'[i] = alertRows[j]
    PROVE  EditorFits'
<1> USE DEF EditorFits
<1> SUFFICES ASSUME editor # NoEditor PROVE EditorFits'
  OBVIOUS
<1>1. editor \in Editors /\ editor.row <= uidCounter /\ editor.row \in Nat /\ uidCounter \in Nat
  BY AlertRowsAssumption DEF AlertRowsInv, AlertRowsTypeOK, Editors
<1>2. ASSUME NEW i \in 1..Len(alertRows'), alertRows'[i].uid = editor.row
      PROVE  editor.hidden = alertRows'[i].channels \ ShownChannels /\ editor.kept = HiddenUsers(alertRows'[i])
  <2>1. PICK j \in 1..Len(alertRows) : alertRows'[i] = alertRows[j]
    BY <1>1, <1>2
  <2> QED
    BY <1>2, <2>1 DEF AlertRowsInv
<1> QED
  BY <1>1, <1>2

\* The row of a uid is where it is.
LEMMA RowOfIs ==
    ASSUME NEW uid \in Uids(alertRows)
    PROVE  RowOf(uid) \in 1..Len(alertRows) /\ alertRows[RowOf(uid)].uid = uid
BY DEF Uids, RowOf

\* A row that is saved keeps its uid, and loses nothing that was not shown.
LEMMA SavedRowIs ==
    ASSUME AlertRowsInv, editor # NoEditor, NEW r \in AlertRow
    PROVE  SavedRow(r) \in AlertRow /\ SavedRow(r).uid = r.uid
<1>1. editor \in Editors
  BY DEF AlertRowsInv, EditorFits
<1>2. editor.ticked \cup editor.hidden \in SUBSET Channel
  BY <1>1 DEF Editors
<1>3. SavedUsers(r) \in {Everybody} \cup SUBSET Recipient
  <2>1. editor.users \cup editor.kept \in SUBSET Recipient
    BY <1>1, AlertRowsAssumption DEF Editors
  <2>2. r.notify \in {Everybody} \cup SUBSET Recipient
    BY DEF AlertRow
  <2> QED
    BY <2>1, <2>2 DEF SavedUsers
<1> QED
  BY <1>2, <1>3 DEF SavedRow, AlertRow

\* Every step of the rows keeps the invariant.
LEMMA AlertRowsStep == ASSUME AlertRowsInv, AlertRowsNext PROVE AlertRowsInv'
<1> USE AlertRowsAssumption DEF AlertRowsInv, AlertRowsTypeOK
<1>0. <<>> \in Seq(AlertRow) /\ Len(<<>>) = 0 /\ Len(alertRows) \in Nat /\ \A i \in 1..Len(alertRows) : alertRows[i] \in AlertRow
  BY EmptySeq, LenProperties, ElementOfSeq
\* Rows before which some of the old ones may stand.
<1>1. ASSUME NEW old \in {alertRows, <<>>}, NEW rows \in Seq(AlertRow), RowsAre(old \o Fresh(rows, uidCounter), uidCounter + Len(rows)),
             editor' = editor
      PROVE  /\ alertRows' \in Seq(AlertRow) /\ Len(alertRows') <= MaxRows /\ uidCounter' \in 0..MaxUids
             /\ UidsUnique' /\ UidsCounted' /\ EditorFits'
  <2> DEFINE m == Len(old)
             k == Len(rows)
             c == uidCounter
             u == Fresh(rows, c)
             w == old \o u
  <2>1. /\ alertRows' = w /\ uidCounter' = c + k /\ Len(w) <= MaxRows /\ c + k <= MaxUids
        /\ k \in Nat /\ c \in Nat /\ old \in Seq(AlertRow) /\ m \in Nat
    <3>1. old \in Seq(AlertRow)
      BY <1>0
    <3>2. m \in Nat /\ k \in Nat
      BY <3>1, LenProperties
    <3>3. alertRows' = w /\ uidCounter' = c + k /\ Len(w) <= MaxRows /\ c + k <= MaxUids
      BY <1>1 DEF RowsAre
    <3> QED
      BY <3>1, <3>2, <3>3
  <2>2. u \in Seq(AlertRow) /\ Len(u) = k /\ \A i \in 1..k : u[i].uid = c + i
    BY <2>1, FreshIs
  <2> HIDE DEF u
  <2>3. w \in Seq(AlertRow) /\ Len(w) = m + k /\ \A i \in 1..(m + k) : w[i] = IF i <= m THEN old[i] ELSE u[i - m]
    <3>1. /\ w \in Seq(AlertRow) /\ Len(w) = Len(old) + Len(u)
          /\ \A i \in 1..(Len(old) + Len(u)) : w[i] = IF i <= Len(old) THEN old[i] ELSE u[i - Len(old)]
      <4>1. \A a, b \in Seq(AlertRow) :
               /\ a \o b \in Seq(AlertRow) /\ Len(a \o b) = Len(a) + Len(b)
               /\ \A i \in 1..(Len(a) + Len(b)) : (a \o b)[i] = IF i <= Len(a) THEN a[i] ELSE b[i - Len(a)]
        BY ConcatProperties
      <4>2. old \in Seq(AlertRow) /\ u \in Seq(AlertRow)
        BY <2>1, <2>2
      <4> HIDE DEF AlertRowsInv, AlertRowsTypeOK
      <4> QED
        BY <4>1, <4>2
    <3> QED
      BY <2>2, <3>1
  <2>4. \A i \in 1..m : old[i] = alertRows[i] /\ i \in 1..Len(alertRows)
    BY <1>0, <1>1
  <2> HIDE DEF m, k, c, w
  <2>5. \A i \in 1..(m + k) : i \in 1..m \/ (~(i <= m) /\ i - m \in 1..k /\ i \in Int)
    BY <2>1
  <2>6. \A i \in 1..m : w[i] = alertRows[i] /\ alertRows[i].uid <= c /\ alertRows[i].uid \in Nat
    <3>1. \A i \in 1..m : i \in 1..(m + k) /\ i <= m
      BY <2>1
    <3>2. \A i \in 1..m : w[i] = alertRows[i]
      BY <2>3, <2>4, <3>1
    <3>3. \A i \in 1..m : alertRows[i].uid <= c
      BY <2>4 DEF UidsCounted, c
    <3> QED
      BY <1>0, <2>4, <3>2, <3>3 DEF AlertRow
  <2>7. \A i \in 1..(m + k) : i \notin 1..m => w[i].uid = c + (i - m) /\ c + (i - m) > c /\ c + (i - m) <= c + k
    <3> SUFFICES ASSUME NEW i \in 1..(m + k), i \notin 1..m
                 PROVE  w[i].uid = c + (i - m) /\ c + (i - m) > c /\ c + (i - m) <= c + k
      OBVIOUS
    <3>1. ~(i <= m) /\ i - m \in 1..k
      BY <2>5
    <3>2. w[i] = u[i - m]
      BY <2>3, <3>1
    <3>3. u[i - m].uid = c + (i - m)
      BY <2>2, <3>1
    <3> QED
      BY <2>1, <3>1, <3>2, <3>3
  <2>8. alertRows' \in Seq(AlertRow) /\ Len(alertRows') = m + k /\ Len(alertRows') <= MaxRows
    BY <2>1, <2>3
  <2>9. uidCounter' \in 0..MaxUids /\ uidCounter' >= uidCounter
    BY <2>1 DEF c
  <2>10. ASSUME NEW i \in 1..(m + k), NEW j \in 1..(m + k), w[i].uid = w[j].uid PROVE i = j
    <3>1. CASE i \in 1..m /\ j \in 1..m
      BY <2>4, <2>6, <2>10, <3>1 DEF UidsUnique
    <3>2. CASE i \in 1..m /\ j \notin 1..m
      <4>1. w[i].uid <= c /\ w[i].uid \in Nat /\ w[j].uid > c
        BY <2>6, <2>7, <3>2
      <4> QED
        BY <2>1, <2>10, <4>1
    <3>3. CASE i \notin 1..m /\ j \in 1..m
      <4>1. w[j].uid <= c /\ w[j].uid \in Nat /\ w[i].uid > c
        BY <2>6, <2>7, <3>3
      <4> QED
        BY <2>1, <2>10, <4>1
    <3>4. CASE i \notin 1..m /\ j \notin 1..m
      <4>1. c + (i - m) = c + (j - m)
        BY <2>7, <2>10, <3>4
      <4>2. i \in Int /\ j \in Int /\ m \in Int /\ c \in Int
        BY <2>1
      <4> QED
        BY <4>1, <4>2
    <3> QED
      BY <3>1, <3>2, <3>3, <3>4
  <2>11. UidsUnique'
    BY <2>1, <2>8, <2>10 DEF UidsUnique
  <2>12. UidsCounted'
    <3>1. ASSUME NEW i \in 1..(m + k) PROVE w[i].uid <= c + k
      <4>1. CASE i \in 1..m
        <5>1. w[i].uid <= c /\ w[i].uid \in Nat
          BY <2>6, <4>1
        <5> QED
          BY <2>1, <5>1
      <4>2. CASE i \notin 1..m
        BY <2>7, <4>2
      <4> QED
        BY <4>1, <4>2
    <3> QED
      BY <2>1, <2>8, <3>1 DEF UidsCounted
  <2>13. \A i \in 1..Len(alertRows') :
            alertRows'[i].uid > uidCounter \/ \E j \in 1..Len(alertRows) : alertRows'[i] = alertRows[j]
    <3>1. \A i \in 1..(m + k) : w[i].uid > c \/ \E j \in 1..Len(alertRows) : w[i] = alertRows[j]
      BY <2>4, <2>6, <2>7
    <3> QED
      BY <2>1, <2>8, <3>1 DEF c
  <2>14. EditorFits'
    BY <1>1, <2>8, <2>9, <2>13, RowsFit
  <2> QED
    BY <2>8, <2>9, <2>11, <2>12, <2>14
<1>2. CASE OpenRows
  <2>1. RowsAre(Fresh(storedRows, uidCounter), uidCounter + Len(storedRows)) /\ editor' = editor
    BY <1>2 DEF OpenRows, editorVars
  <2>2. <<>> \o Fresh(storedRows, uidCounter) = Fresh(storedRows, uidCounter)
    <3>1. uidCounter \in Nat /\ uidCounter + Len(storedRows) <= MaxUids
      BY <2>1 DEF RowsAre
    <3>2. Fresh(storedRows, uidCounter) \in Seq(AlertRow)
      BY <3>1, FreshIs
    <3> QED
      BY <3>2, ConcatEmptySeq
  <2>3. RowsAre(<<>> \o Fresh(storedRows, uidCounter), uidCounter + Len(storedRows))
    BY <2>1, <2>2
  <2>4. /\ alertRows' \in Seq(AlertRow) /\ Len(alertRows') <= MaxRows /\ uidCounter' \in 0..MaxUids
        /\ UidsUnique' /\ UidsCounted' /\ EditorFits'
    BY <1>1, <2>1, <2>3
  <2> QED
    BY <1>2, <2>4 DEF OpenRows, editorVars
<1>3. CASE CloseRows
  BY <1>3 DEF CloseRows, rowVars, editorVars, UidsUnique, UidsCounted, EditorFits
<1>4. CASE AddAlert
  <2>1. PICK me \in ShownUsers :
           RowsAre(Append(alertRows, [uid |-> uidCounter + 1, channels |-> {}, notify |-> {me}]), uidCounter + 1)
    BY <1>4 DEF AddAlert
  <2> DEFINE r == [uid |-> uidCounter + 1, channels |-> {}, notify |-> {me}]
             n == Len(alertRows)
             w == Append(alertRows, r)
  <2>2. alertRows' = w /\ uidCounter' = uidCounter + 1 /\ Len(w) <= MaxRows /\ uidCounter + 1 <= MaxUids
    BY <2>1 DEF RowsAre
  <2>3. r \in AlertRow /\ r.uid = uidCounter + 1
    BY <2>2 DEF AlertRow
  <2> HIDE DEF r
  <2>4. w \in Seq(AlertRow) /\ Len(w) = n + 1 /\ w[n + 1] = r /\ \A i \in 1..n : w[i] = alertRows[i]
    BY <2>3, AppendProperties
  <2> HIDE DEF w, n
  <2>5. n \in Nat /\ (\A i \in 1..(n + 1) : i \in 1..n \/ i = n + 1) /\ \A i \in 1..n : i \in 1..Len(alertRows)
    BY <1>0 DEF n
  <2>6. \A i \in 1..n : alertRows[i].uid <= uidCounter /\ alertRows[i].uid \in Nat
    BY <1>0, <2>5 DEF UidsCounted, AlertRow
  <2>7. uidCounter' \in 0..MaxUids /\ uidCounter' >= uidCounter /\ uidCounter \in Nat
    BY <2>2
  <2>8. UidsUnique'
    <3>1. \A i, j \in 1..n : w[i].uid = w[j].uid => i = j
      BY <2>4, <2>5 DEF UidsUnique
    <3>2. \A i \in 1..n : w[i].uid # w[n + 1].uid
      <4> SUFFICES ASSUME NEW i \in 1..n PROVE w[i].uid # w[n + 1].uid
        OBVIOUS
      <4>1. w[i].uid = alertRows[i].uid /\ w[n + 1].uid = uidCounter + 1
        BY <2>3, <2>4
      <4>2. alertRows[i].uid \in Nat /\ alertRows[i].uid <= uidCounter /\ uidCounter \in Nat
        BY <2>6, <2>7
      <4> QED
        BY <4>1, <4>2
    <3>3. \A i, j \in 1..(n + 1) : w[i].uid = w[j].uid => i = j
      BY <2>5, <3>1, <3>2
    <3> QED
      BY <2>2, <2>4, <3>3 DEF UidsUnique
  <2>9. UidsCounted'
    <3>1. \A i \in 1..(n + 1) : w[i].uid <= uidCounter + 1
      <4> SUFFICES ASSUME NEW i \in 1..(n + 1) PROVE w[i].uid <= uidCounter + 1
        OBVIOUS
      <4>1. CASE i \in 1..n
        BY <2>4, <2>6, <2>7, <4>1
      <4>2. CASE i = n + 1
        BY <2>3, <2>4, <2>7, <4>2
      <4> QED
        BY <2>5, <4>1, <4>2
    <3> QED
      BY <2>2, <2>4, <3>1 DEF UidsCounted
  <2>10. \A i \in 1..Len(alertRows') :
            alertRows'[i].uid > uidCounter \/ \E j \in 1..Len(alertRows) : alertRows'[i] = alertRows[j]
    <3>1. \A i \in 1..(n + 1) : w[i].uid > uidCounter \/ \E j \in 1..Len(alertRows) : w[i] = alertRows[j]
      BY <2>3, <2>4, <2>5, <2>7
    <3> QED
      BY <2>2, <2>4, <3>1
  <2>11. UNCHANGED <<storedRows, rowsOpen, pendingProfile, editingUid, editorOpening, editor>>
    BY <1>4 DEF AddAlert, editorVars
  <2>12. EditorFits'
    <3>1. alertRows' \in Seq(AlertRow) /\ editor' = editor /\ uidCounter' \in Nat
      BY <2>2, <2>4, <2>7, <2>11
    <3> QED
      BY <2>7, <2>10, <3>1, RowsFit
  <2> QED
    BY <2>2, <2>4, <2>7, <2>8, <2>9, <2>11, <2>12
<1>5. ASSUME NEW uid \in Uids(alertRows), RemoveAlertRow(uid) PROVE AlertRowsInv'
  <2>1. alertRows' = Without(alertRows, uid) /\ uidCounter' = uidCounter
    BY <1>5 DEF RemoveAlertRow, RowsAre
  <2>2. UNCHANGED <<storedRows, rowsOpen, pendingProfile, editingUid, editorOpening, editor>>
    BY <1>5 DEF RemoveAlertRow, editorVars
  <2>3. /\ alertRows' \in Seq(AlertRow) /\ Len(alertRows') <= Len(alertRows)
        /\ \A i \in 1..Len(alertRows') : \E j \in 1..Len(alertRows) : alertRows'[i] = alertRows[j]
        /\ \A i, j \in 1..Len(alertRows') : alertRows'[i].uid = alertRows'[j].uid => i = j
    <3> DEFINE w == Without(alertRows, uid)
    <3>1. \A i, j \in 1..Len(alertRows) : alertRows[i].uid = alertRows[j].uid => i = j
      BY DEF UidsUnique
    <3>2. /\ w \in Seq(AlertRow) /\ Len(w) <= Len(alertRows)
          /\ \A i \in 1..Len(w) : \E j \in 1..Len(alertRows) : w[i] = alertRows[j]
          /\ \A i, j \in 1..Len(w) : w[i].uid = w[j].uid => i = j
      BY <3>1, WithoutIs
    <3> HIDE DEF w
    <3>3. alertRows' = w
      BY <2>1 DEF w
    <3> QED
      BY <3>2, <3>3
  <2>4. UidsUnique' /\ UidsCounted'
    BY <2>1, <2>3 DEF UidsUnique, UidsCounted
  <2>5. EditorFits'
    <3>1. uidCounter' \in Nat /\ uidCounter' >= uidCounter
      BY <2>1
    <3> QED
      BY <2>2, <2>3, <3>1, RowsFit
  <2>6. Len(alertRows') \in Nat /\ Len(alertRows') <= MaxRows
    BY <1>0, <2>3, LenProperties
  <2> QED
    BY <2>1, <2>2, <2>3, <2>4, <2>5, <2>6
<1>6. ASSUME NEW kind, Applied(Profile, kind), UNCHANGED <<storedRows, editingUid, editorOpening, editor>>,
             pendingProfile' \in BOOLEAN, rowsOpen' \in BOOLEAN
      PROVE  AlertRowsInv'
  <2> DEFINE old == IF kind = "append" THEN alertRows ELSE <<>>
  <2>1. old \in {alertRows, <<>>} /\ RowsAre(old \o Fresh(Profile, uidCounter), uidCounter + Len(Profile))
    BY <1>6 DEF Applied
  <2> HIDE DEF old
  <2>2. /\ alertRows' \in Seq(AlertRow) /\ Len(alertRows') <= MaxRows /\ uidCounter' \in 0..MaxUids
        /\ UidsUnique' /\ UidsCounted' /\ EditorFits'
    BY <1>1, <1>6, <2>1
  <2> QED
    BY <1>6, <2>2
<1>7. ASSUME UNCHANGED <<storedRows, rowsOpen, alertRows, uidCounter, editingUid, editorOpening, editor>>, pendingProfile' \in BOOLEAN
      PROVE  AlertRowsInv'
  BY <1>7 DEF UidsUnique, UidsCounted, EditorFits
<1>8. CASE CopyAlertsFromDevice
  <2>1. UNCHANGED <<storedRows, rowsOpen, editingUid, editorOpening, editor>>
    BY <1>8 DEF CopyAlertsFromDevice, editorVars
  <2>2. \/ Applied(Profile, "replace") /\ pendingProfile' = pendingProfile
        \/ pendingProfile' = TRUE /\ UNCHANGED <<alertRows, uidCounter>>
    BY <1>8 DEF CopyAlertsFromDevice, OfferedTypes, rowVars
  <2>3. rowsOpen' \in BOOLEAN /\ pendingProfile' \in BOOLEAN
    BY <2>1, <2>2
  <2> QED
    BY <1>6, <1>7, <2>1, <2>2, <2>3
<1>9. ASSUME NEW kind, ApplyPendingAlertProfile(kind) PROVE AlertRowsInv'
  <2>1. UNCHANGED <<storedRows, rowsOpen, editingUid, editorOpening, editor>> /\ pendingProfile' = FALSE /\ Applied(Profile, kind)
    BY <1>9 DEF ApplyPendingAlertProfile, editorVars
  <2>2. rowsOpen' \in BOOLEAN /\ pendingProfile' \in BOOLEAN
    BY <2>1
  <2> QED
    BY <1>6, <2>1, <2>2
<1>10. CASE CloseAlertProfileMergeChoice
  <2>1. UNCHANGED <<storedRows, rowsOpen, alertRows, uidCounter, editingUid, editorOpening, editor>> /\ pendingProfile' \in BOOLEAN
    BY <1>10 DEF CloseAlertProfileMergeChoice, editorVars, rowVars
  <2> QED
    BY <1>7, <2>1
<1>11. CASE SaveRows
  BY <1>11 DEF SaveRows, rowVars, editorVars, UidsUnique, UidsCounted, EditorFits
<1>12. CASE ReloadPage
  <2>1. alertRows' = <<>> /\ Len(alertRows') = 0 /\ alertRows' \in Seq(AlertRow)
    BY <1>0, <1>12 DEF ReloadPage
  <2>2. /\ rowsOpen' = FALSE /\ uidCounter' = 0 /\ pendingProfile' = FALSE /\ editingUid' = 0
        /\ editorOpening' = {} /\ editor' = NoEditor /\ storedRows' = storedRows
    BY <1>12 DEF ReloadPage
  <2>3. AlertRowsTypeOK'
    <3>1. uidCounter' \in 0..MaxUids /\ editingUid' \in 0..MaxUids /\ Len(alertRows') <= MaxRows
      BY <2>1, <2>2
    <3>2. pendingProfile' \in BOOLEAN /\ rowsOpen' \in BOOLEAN
      BY <2>2
    <3>3. storedRows' \in Seq(AlertRow)
      BY <2>2
    <3> QED
      BY <2>1, <2>2, <3>1, <3>2, <3>3
  <2>4. UidsUnique' /\ UidsCounted'
    BY <2>1 DEF UidsUnique, UidsCounted
  <2>5. EditorFits'
    BY <2>2 DEF EditorFits
  <2> QED
    BY <2>3, <2>4, <2>5
<1>13. ASSUME NEW uid \in Uids(alertRows), OpenAlertEditor(uid) PROVE AlertRowsInv'
  <2>1. uid \in 1..MaxUids
    BY <1>0 DEF Uids, AlertRow
  <2>2. UNCHANGED <<storedRows, rowsOpen, alertRows, uidCounter, pendingProfile, editingUid, editor>>
        /\ editorOpening' = editorOpening \cup {[uid |-> uid, wait |-> "settings"]}
    BY <1>13 DEF OpenAlertEditor, rowVars
  <2>3. UidsUnique' /\ UidsCounted' /\ EditorFits'
    BY <2>2 DEF UidsUnique, UidsCounted, EditorFits
  <2>4. AlertRowsTypeOK'
    BY <2>1, <2>2
  <2> QED
    BY <2>3, <2>4
<1>14. ASSUME NEW o \in editorOpening, SettingsKnown(o) PROVE AlertRowsInv'
  <2>1. UNCHANGED <<storedRows, rowsOpen, alertRows, uidCounter, pendingProfile, editor>>
    BY <1>14 DEF SettingsKnown, rowVars
  <2>2. editingUid' \in 0..MaxUids /\ editorOpening' \subseteq [uid : 1..MaxUids, wait : {"settings", "options"}]
    <3>1. o.uid \in 1..MaxUids /\ [o EXCEPT !.wait = "options"] \in [uid : 1..MaxUids, wait : {"settings", "options"}]
      BY <1>0
    <3>2. \/ editingUid' = o.uid /\ editorOpening' = (editorOpening \ {o}) \cup {[o EXCEPT !.wait = "options"]}
          \/ editingUid' = editingUid /\ editorOpening' = editorOpening \ {o}
      BY <1>14 DEF SettingsKnown
    <3>3. CASE editingUid' = o.uid /\ editorOpening' = (editorOpening \ {o}) \cup {[o EXCEPT !.wait = "options"]}
      BY <1>0, <3>1, <3>3
    <3>4. CASE editingUid' = editingUid /\ editorOpening' = editorOpening \ {o}
      BY <1>0, <3>4
    <3> QED
      BY <3>2, <3>3, <3>4
  <2> QED
    BY <2>1, <2>2 DEF UidsUnique, UidsCounted, EditorFits
<1>15. ASSUME NEW o \in editorOpening, EditorDrawn(o) PROVE AlertRowsInv'
  <2>1. UNCHANGED <<storedRows, rowsOpen, alertRows, uidCounter, pendingProfile, editingUid>> /\ editorOpening' = editorOpening \ {o}
    BY <1>15 DEF EditorDrawn, rowVars
  <2>2. UidsUnique' /\ UidsCounted'
    BY <2>1 DEF UidsUnique, UidsCounted
  <2>3. CASE o.uid \in Uids(alertRows)
    <3> DEFINE r == alertRows[RowOf(o.uid)]
               e == [row |-> o.uid, ticked |-> r.channels \cap ShownChannels, hidden |-> r.channels \ ShownChannels,
                     boxes |-> ShownUsers, users |-> IF r.notify = Everybody THEN ShownUsers ELSE r.notify \cap ShownUsers,
                     kept |-> HiddenUsers(r)]
    <3>1. editor' = e
      BY <1>15, <2>3 DEF EditorDrawn
    <3>2. RowOf(o.uid) \in 1..Len(alertRows) /\ r.uid = o.uid /\ r \in AlertRow
      BY <1>0, <2>3, RowOfIs
    <3>3. \A i \in 1..Len(alertRows) : alertRows[i].uid = o.uid => alertRows[i] = r
      BY <3>2 DEF UidsUnique
    <3>4. o.uid <= uidCounter /\ o.uid \in 1..MaxUids
      BY <3>2 DEF UidsCounted
    <3> HIDE DEF r
    <3>5. r.channels \in SUBSET Channel /\ (r.notify = Everybody \/ r.notify \in SUBSET Recipient)
      BY <3>2 DEF AlertRow
    <3>6. HiddenUsers(r) \in SUBSET Recipient
      BY <3>5 DEF HiddenUsers
    <3>7. e \in Editors
      BY <3>4, <3>5, <3>6 DEF Editors
    <3>8. e.row = o.uid /\ e.hidden = r.channels \ ShownChannels /\ e.kept = HiddenUsers(r)
      OBVIOUS
    <3> HIDE DEF e
    <3>9. EditorFits'
      BY <2>1, <3>1, <3>3, <3>4, <3>7, <3>8 DEF EditorFits
    <3>10. editor'.ticked \cup editor'.hidden \subseteq Channel /\ editor'.users \subseteq editor'.boxes
      BY <3>1, <3>7 DEF Editors
    <3> QED
      BY <2>1, <2>2, <3>9, <3>10
  <2>4. CASE o.uid \notin Uids(alertRows)
    BY <1>15, <2>1, <2>2, <2>4 DEF EditorDrawn, EditorFits
  <2> QED
    BY <2>3, <2>4
<1>16. CASE EditAlert
  <2>1. UNCHANGED <<storedRows, rowsOpen, alertRows, uidCounter, pendingProfile, editingUid, editorOpening>> /\ editor # NoEditor
    BY <1>16 DEF EditAlert, rowVars
  <2>2. editor \in Editors
    BY <2>1 DEF EditorFits
  <2>3. editor' \in Editors /\ editor'.row = editor.row /\ editor'.hidden = editor.hidden /\ editor'.kept = editor.kept
    <3>1. CASE \E c \in ShownChannels : editor' = [editor EXCEPT !.ticked = SymDiff(@, {c})]
      <4>1. PICK c \in ShownChannels : editor' = [editor EXCEPT !.ticked = SymDiff(@, {c})]
        BY <3>1
      <4>2. SymDiff(editor.ticked, {c}) \in SUBSET Channel
        BY <2>2 DEF SymDiff, Editors
      <4> QED
        BY <2>2, <4>1, <4>2 DEF Editors
    <3>2. CASE \E u \in editor.boxes : editor' = [editor EXCEPT !.users = SymDiff(@, {u})]
      <4>1. PICK u \in editor.boxes : editor' = [editor EXCEPT !.users = SymDiff(@, {u})]
        BY <3>2
      <4>2. SymDiff(editor.users, {u}) \in SUBSET ShownUsers
        BY <2>2 DEF SymDiff, Editors
      <4> QED
        BY <2>2, <4>1, <4>2 DEF Editors
    <3> QED
      BY <1>16, <3>1, <3>2 DEF EditAlert
  <2>4. EditorFits'
    BY <2>1, <2>3 DEF EditorFits
  <2>5. editor'.ticked \cup editor'.hidden \subseteq Channel /\ editor'.users \subseteq editor'.boxes
    BY <2>3 DEF Editors
  <2> QED
    BY <2>1, <2>4, <2>5 DEF UidsUnique, UidsCounted
<1>17. CASE CloseAlertEditor
  BY <1>17 DEF CloseAlertEditor, rowVars, UidsUnique, UidsCounted, EditorFits
<1>18. CASE SaveAlertFromEditor
  <2> DEFINE p == RowOf(editingUid)
             r == SavedRow(alertRows[p])
             n == Len(alertRows)
  <2>1. /\ alertRows' = [alertRows EXCEPT ![p] = r] /\ editor' = NoEditor /\ editingUid' = 0
        /\ UNCHANGED <<storedRows, rowsOpen, uidCounter, pendingProfile, editorOpening>>
        /\ editor # NoEditor /\ editingUid \in Uids(alertRows)
    BY <1>18 DEF SaveAlertFromEditor
  <2>2. p \in 1..n /\ r \in AlertRow /\ r.uid = alertRows[p].uid
    BY <1>0, <2>1, RowOfIs, SavedRowIs
  <2>3. n \in Nat /\ alertRows \in [1..n -> AlertRow]
    BY LenProperties
  <2> HIDE DEF p, r, n
  <2>4. alertRows' \in [1..n -> AlertRow] /\ \A i \in 1..n : alertRows'[i].uid = alertRows[i].uid
    BY <2>1, <2>2, <2>3
  <2>5. alertRows' \in Seq(AlertRow) /\ Len(alertRows') = n
    <3>1. [1..n -> AlertRow] \subseteq Seq(AlertRow)
      BY <2>3, SeqDef
    <3>2. alertRows' \in Seq(AlertRow) /\ DOMAIN alertRows' = 1..n
      BY <2>4, <3>1
    <3> QED
      BY <2>3, <3>2, LenProperties
  <2>6. UidsUnique' /\ UidsCounted'
    BY <2>1, <2>4, <2>5 DEF UidsUnique, UidsCounted, n
  <2>7. EditorFits'
    BY <2>1 DEF EditorFits
  <2>8. Len(alertRows') <= MaxRows
    BY <2>5 DEF n
  <2> QED
    BY <2>1, <2>5, <2>6, <2>7, <2>8
<1> QED
  BY <1>2, <1>3, <1>4, <1>5, <1>8, <1>9, <1>10, <1>11, <1>12, <1>13, <1>14, <1>15, <1>16, <1>17, <1>18 DEF AlertRowsNext

\* A step of another part leaves them.
LEMMA AlertRowsStutter == ASSUME AlertRowsInv, UNCHANGED alertRowsVars PROVE AlertRowsInv'
BY DEF AlertRowsInv, AlertRowsTypeOK, UidsUnique, UidsCounted, EditorFits, alertRowsVars

\* A save of the editor's own row keeps what the user was not shown.
LEMMA HiddenIsKept == AlertRowsInv => HiddenKeptStep
<1> SUFFICES ASSUME AlertRowsInv, NEW i \in 1..Len(alertRows), SaveAlertFromEditor, editor.row = editingUid,
                    alertRows[i].uid = editingUid
             PROVE  /\ alertRows[i].channels \ ShownChannels \subseteq alertRows'[i].channels
                    /\ alertRows'[i].notify # Everybody => HiddenUsers(alertRows[i]) \subseteq alertRows'[i].notify
  BY DEF HiddenKeptStep
<1> DEFINE p == RowOf(editingUid)
           r == alertRows[i]
<1>1. alertRows' = [alertRows EXCEPT ![p] = SavedRow(alertRows[p])] /\ editor # NoEditor /\ editingUid \in Uids(alertRows)
  BY DEF SaveAlertFromEditor
<1>2. p \in 1..Len(alertRows) /\ alertRows[p].uid = editingUid
  BY <1>1, RowOfIs
<1>3. p = i
  BY <1>2 DEF AlertRowsInv, UidsUnique
<1>4. r \in AlertRow /\ alertRows \in [1..Len(alertRows) -> AlertRow]
  BY LenProperties, ElementOfSeq DEF AlertRowsInv, AlertRowsTypeOK
<1>5. alertRows'[i] = SavedRow(r)
  BY <1>1, <1>2, <1>3, <1>4
<1>6. editor.hidden = r.channels \ ShownChannels /\ editor.kept = HiddenUsers(r)
  BY <1>1 DEF AlertRowsInv, EditorFits
<1> HIDE DEF r, p
<1>7. SavedRow(r).channels = editor.ticked \cup editor.hidden /\ SavedRow(r).notify = SavedUsers(r)
  BY <1>4 DEF SavedRow, AlertRow
<1>8. r.channels \ ShownChannels \subseteq SavedRow(r).channels
  BY <1>6, <1>7
<1>9. SavedUsers(r) # Everybody => HiddenUsers(r) \subseteq SavedUsers(r)
  <2>1. HiddenUsers(r) = IF r.notify = Everybody THEN {} ELSE r.notify \ (ShownUsers \cup Outsiders)
    BY DEF HiddenUsers
  <2> DEFINE h == HiddenUsers(r)
  <2> HIDE DEF h
  <2>2. (editor.kept = h /\ h \subseteq r.notify) \/ r.notify = Everybody
    BY <1>6, <2>1 DEF h
  <2>3. r.notify = Everybody => h = {}
    BY <2>1 DEF h
  <2> QED
    BY <1>6, <2>1, <2>2, <2>3 DEF SavedUsers, h
<1> QED
  BY <1>5, <1>7, <1>8, <1>9 DEF r

-----------------------------------------------------------------------------
(* The window of a device. *)
DeviceSaves ==
    {NoSave}
    \cup [stage : {"device"}, device : FleetDevice \cup {NewDevice}, company : Company \cup {NoCompany}]
    \cup [stage : {"users"}, device : FleetDevice, add : SUBSET Assignee, remove : SUBSET Assignee]
UsersCallsOK ==
    \A a \in assignedAsked : a.device \in FleetDevice /\ (a.users = NotAnswered \/ a.users \subseteq Assignee)
DeviceWindowInv ==
    /\ DeviceWindowTypeOK /\ UsersCallsOK /\ savingDevice \in DeviceSaves
    /\ SyncIsWhatWasChosen /\ OnlyEligibleTicked

\* The window starts closed, with its invariant.
LEMMA DeviceWindowInvInit == DeviceWindowInit => DeviceWindowInv
<1> SUFFICES ASSUME DeviceWindowInit PROVE DeviceWindowInv
  OBVIOUS
<1>1. \A u \in Assignee : CompanyOf[u] \in Company
  BY DeviceWindowAssumption
<1>2. CompanyOf[CHOOSE u \in Assignee : TRUE] \in Company
  BY <1>1, DeviceWindowAssumption
<1>3. DOMAIN fleet \subseteq FleetDevice /\ \A d \in DOMAIN fleet : fleet[d] \in Company \cup {NoCompany}
  BY <1>2 DEF DeviceWindowInit
<1>4. DeviceWindowTypeOK
  BY <1>3, DeviceWindowAssumption DEF DeviceWindowInit, DeviceWindowTypeOK, NoSave
<1> QED
  BY <1>4 DEF DeviceWindowInit, DeviceWindowInv, UsersCallsOK, DeviceSaves, SyncIsWhatWasChosen, OnlyEligibleTicked

\* Who is drawn is eligible, and with somebody to offer only who is drawn stays selected.
LEMMA UsersDrawnWell ==
    ASSUME NEW users \in SUBSET Assignee, NEW company, NEW chosen \in SUBSET Assignee,
           allUsers' = users, companyShown' = company, UsersDrawn(users, company, chosen)
    PROVE  boxes' \subseteq Assignee /\ selection' \subseteq chosen /\ OnlyEligibleTicked'
BY DEF UsersDrawn, Eligible, OnlyEligibleTicked

\* Every step of the window keeps its invariant.
LEMMA DeviceWindowStep ==
    ASSUME DeviceWindowInv, DeviceWindowNext PROVE DeviceWindowInv'
<1> USE DeviceWindowAssumption DEF DeviceWindowInv, DeviceWindowTypeOK
<1>1. CASE OpenDeviceWindow
  <2>1. CASE OpenToAdd
    <3>1. boxes' \subseteq Assignee /\ selection' \subseteq {} /\ OnlyEligibleTicked'
      BY <2>1, UsersDrawnWell DEF OpenToAdd, lists
    <3> QED
      BY <2>1, <3>1 DEF OpenToAdd, serverSide, lists, UsersCallsOK, SyncIsWhatWasChosen
  <2>2. ASSUME NEW d \in FleetDevice, OpenDevice(d) PROVE DeviceWindowInv'
    <3>1. boxes' \subseteq Assignee /\ selection' \subseteq {} /\ OnlyEligibleTicked'
      BY <2>2, UsersDrawnWell DEF OpenDevice, lists
    <3>2. companyShown' \in Company \cup {NoCompany}
      BY <2>2 DEF OpenDevice, SelectedCompany
    <3>3. UsersCallsOK'
      BY <2>2 DEF OpenDevice, UsersCallsOK, UsersAsked
    <3> QED
      BY <2>2, <3>1, <3>2, <3>3 DEF OpenDevice, serverSide, lists, SyncIsWhatWasChosen
  <2> QED
    BY <1>1, <2>1, <2>2 DEF OpenDeviceWindow
<1>2. CASE CloseDeviceWindow
  BY <1>2 DEF CloseDeviceWindow, Closed, serverSide, lists, usersVars, UsersCallsOK, SyncIsWhatWasChosen, OnlyEligibleTicked
<1>3. ASSUME NEW users \in SUBSET Assignee, Choose(users),
             companyShown # NoCompany /\ boxes # {} => users \subseteq boxes
      PROVE  DeviceWindowInv'
  BY <1>3 DEF Choose, Parting, serverSide, lists, UsersCallsOK, SyncIsWhatWasChosen, OnlyEligibleTicked
<1>4. CASE ChooseUsers
  <2>1. ASSUME NEW u \in boxes, Choose(IF u \in selection THEN selection \ {u} ELSE selection \cup {u})
        PROVE  DeviceWindowInv'
    <3> DEFINE users == IF u \in selection THEN selection \ {u} ELSE selection \cup {u}
    <3>1. users \in SUBSET Assignee /\ (companyShown # NoCompany /\ boxes # {} => users \subseteq boxes)
      BY DEF OnlyEligibleTicked
    <3> HIDE DEF users
    <3> QED
      BY <1>3, <2>1, <3>1 DEF users
  <2>2. CASE Choose(selection \cup Eligible(allUsers, companyShown))
    <3> DEFINE users == selection \cup Eligible(allUsers, companyShown)
    <3>1. users \in SUBSET Assignee /\ (companyShown # NoCompany /\ boxes # {} => users \subseteq boxes)
      BY DEF OnlyEligibleTicked, Eligible
    <3> HIDE DEF users
    <3> QED
      BY <1>3, <2>2, <3>1 DEF users
  <2>3. CASE Choose({})
    BY <1>3, <2>3
  <2> QED
    BY <1>4, <2>1, <2>2, <2>3 DEF ChooseUsers
<1>5. ASSUME NEW a \in assignedAsked, AssignedRead(a) PROVE DeviceWindowInv'
  <2>1. UsersCallsOK'
    BY <1>5 DEF AssignedRead, UsersCallsOK, UsersAsked
  <2> QED
    BY <1>5, <2>1 DEF AssignedRead, serverSide, lists, usersVars, SyncIsWhatWasChosen, OnlyEligibleTicked
<1>6. ASSUME NEW a \in assignedAsked, AssignedArrive(a) PROVE DeviceWindowInv'
  <2>1. PICK users \in {a.users, {}} :
           AnswerTaken(a, users) /\ parted' = parted \cup ((selection \cup users) \ selection')
    BY <1>6 DEF AssignedArrive
  <2>2. users \in SUBSET Assignee
    BY <1>6, <2>1 DEF AssignedArrive, UsersCallsOK
  <2>3. boxes' \subseteq Assignee /\ selection' \subseteq users /\ OnlyEligibleTicked'
    BY <1>6, <2>1, <2>2, UsersDrawnWell DEF AnswerTaken, AssignedArrive, lists
  <2> QED
    BY <1>6, <2>1, <2>2, <2>3 DEF AnswerTaken, AssignedArrive, serverSide, lists, UsersCallsOK, SyncIsWhatWasChosen
<1>7. ASSUME NEW users \in {{}, Assignee}, UsersArrive(users) PROVE DeviceWindowInv'
  <2>1. boxes' \subseteq Assignee /\ selection' \subseteq selection /\ OnlyEligibleTicked'
    BY <1>7, UsersDrawnWell DEF UsersArrive
  <2> QED
    BY <1>7, <2>1 DEF UsersArrive, Parting, serverSide, UsersCallsOK, SyncIsWhatWasChosen
<1>8. CASE CompaniesArrive
  BY <1>8 DEF CompaniesArrive, serverSide, usersVars, UsersCallsOK, SyncIsWhatWasChosen, OnlyEligibleTicked
<1>9. ASSUME NEW c \in Company \cup {NoCompany}, SelectCompany(c) PROVE DeviceWindowInv'
  <2>1. boxes' \subseteq Assignee /\ selection' \subseteq selection /\ OnlyEligibleTicked'
    BY <1>9, UsersDrawnWell DEF SelectCompany, lists
  <2> QED
    BY <1>9, <2>1 DEF SelectCompany, Parting, serverSide, lists, UsersCallsOK, SyncIsWhatWasChosen
<1>10. CASE SubmitDevice
  BY <1>10 DEF SubmitDevice, serverSide, lists, usersVars, DeviceSaves, UsersCallsOK, SyncIsWhatWasChosen, OnlyEligibleTicked
<1>11. CASE SubmitRefused \/ DeviceSaveEnds
  BY <1>11 DEF SubmitRefused, DeviceSaveEnds, Closed, NoSave, serverSide, lists, usersVars, DeviceSaves, UsersCallsOK,
               SyncIsWhatWasChosen, OnlyEligibleTicked
<1>12. CASE DeviceSaved
  <2>1. PICK d \in FleetDevice :
           /\ fleet' = [x \in DOMAIN fleet \cup {d} |-> IF x = d THEN savingDevice.company ELSE fleet[x]]
           /\ LET target == IF windowDevice \in FleetDevice THEN windowDevice ELSE d IN
              savingDevice' = IF savingDevice.company = NoCompany
                        THEN [stage |-> "users", device |-> target, add |-> {}, remove |-> {}]
                        ELSE [stage |-> "users", device |-> target, add |-> Posts.add, remove |-> Posts.remove]
    BY <1>12 DEF DeviceSaved
  <2>2. savingDevice.company \in Company \cup {NoCompany}
    BY <1>12 DEF DeviceSaved, DeviceSaves, NoSave
  <2>3. savingDevice' \in DeviceSaves /\ savingDevice'.stage \in {"none", "device", "users"}
    BY <2>1 DEF DeviceSaves, Posts
  <2>4. DOMAIN fleet' \subseteq FleetDevice /\ \A x \in DOMAIN fleet' : fleet'[x] \in Company \cup {NoCompany}
    BY <2>1, <2>2
  <2> QED
    BY <1>12, <2>3, <2>4 DEF DeviceSaved, lists, usersVars, UsersCallsOK, SyncIsWhatWasChosen, OnlyEligibleTicked
<1>13. ASSUME NEW u \in Assignee, UserPosted(u) PROVE DeviceWindowInv'
  <2>1. savingDevice \in [stage : {"users"}, device : FleetDevice, add : SUBSET Assignee, remove : SUBSET Assignee]
    BY <1>13 DEF UserPosted, DeviceSaves, NoSave
  <2>2. savingDevice' \in DeviceSaves /\ savingDevice'.stage \in {"none", "device", "users"}
    BY <1>13, <2>1 DEF UserPosted, DeviceSaves
  <2>3. assigned' \in [FleetDevice -> SUBSET Assignee]
    BY <1>13, <2>1 DEF UserPosted
  <2> QED
    BY <1>13, <2>2, <2>3 DEF UserPosted, lists, usersVars, UsersCallsOK, SyncIsWhatWasChosen, OnlyEligibleTicked
<1> QED
  BY <1>1, <1>2, <1>4, <1>5, <1>6, <1>7, <1>8, <1>9, <1>10, <1>11, <1>12, <1>13 DEF DeviceWindowNext

\* A step of another part leaves it.
LEMMA DeviceWindowStutter == ASSUME DeviceWindowInv, UNCHANGED deviceWindowVars PROVE DeviceWindowInv'
BY DEF DeviceWindowInv, DeviceWindowTypeOK, UsersCallsOK, SyncIsWhatWasChosen, OnlyEligibleTicked, deviceWindowVars

-----------------------------------------------------------------------------
(* The setup wizard. *)
PartChoices == [Part -> Fleet \cup Sim \cup Driver \cup {NoChoice}]
Modes == [Part -> {"existing", "new", "none"}]
\* What the lists offer for a company of the list is that company's.
OfferedOfFleet ==
    mode.company = "existing" /\ choice.company # NoChoice =>
        /\ \A s \in offered.sim : SimFleet[s] = choice.company
        /\ \A d \in offered.driver : DriverFleet[d] = choice.company

DeviceWizardInv ==
    /\ DeviceWizardTypeOK /\ choice \in PartChoices /\ offered \in [sim : SUBSET Sim, driver : SUBSET Driver]
    /\ OfferedOfFleet /\ SummaryIsTrue /\ ChosenOfFleet

\* The last of the six steps is the summary.
LEMMA StepsAre == /\ Len(Steps) = 6 /\ Steps[6] = "summary" /\ Steps[1] = "company"
                  /\ \A i \in 1..5 : Steps[i] # "summary"
<1>1. \A i \in 1..5 : i = 1 \/ i = 2 \/ i = 3 \/ i = 4 \/ i = 5
  OBVIOUS
<1> QED
  BY <1>1 DEF Steps

\* The wizard is at its first step at first, with nothing chosen.
LEMMA DeviceWizardInvInit == DeviceWizardInit => DeviceWizardInv
<1> SUFFICES ASSUME DeviceWizardInit PROVE DeviceWizardInv
  OBVIOUS
<1> USE DeviceWizardAssumption DEF DeviceWizardInit
<1>1. mode \in Modes /\ choice \in PartChoices /\ choice.company = NoChoice /\ choice.sim = NoChoice /\ choice.driver = NoChoice
  BY DEF Modes, PartChoices, Part
<1>2. step = 1 /\ Len(Steps) = 6 /\ Steps[step] # "summary"
  BY StepsAre
<1>3. SummaryIsTrue
  BY <1>2 DEF SummaryIsTrue, At
<1>4. offered \in [sim : SUBSET Sim, driver : SUBSET Driver]
  OBVIOUS
<1> QED
  BY <1>1, <1>2, <1>3, <1>4 DEF DeviceWizardInv, DeviceWizardTypeOK, OfferedOfFleet, ChosenOfFleet, Modes

\* The first of each list, once refreshed, is of the company chosen.
LEMMA RefreshedIs ==
    ASSUME DeviceWizardInv, NEW m \in Modes, NEW c \in PartChoices, c.company \in Fleet \cup {NoChoice}, NEW known,
           Refreshed(m, c, known)
    PROVE  /\ mode' \in Modes /\ choice' \in PartChoices /\ choice'.company \in Fleet \cup {NoChoice}
           /\ choice'.sim \in Sim \cup {NoChoice} /\ choice'.driver \in Driver \cup {NoChoice}
           /\ offered' \in [sim : SUBSET Sim, driver : SUBSET Driver]
           /\ OfferedOfFleet' /\ ChosenOfFleet'
<1> USE DeviceWizardAssumption
<1> DEFINE o == WizardOptions(m, c, known)
<1>1. /\ o = [sim |-> o.sim, driver |-> o.driver] /\ o.sim \in SUBSET Sim /\ o.driver \in SUBSET Driver
      /\ \A s \in o.sim : Scope(m, c) \in {NoChoice, SimFleet[s]}
      /\ \A d \in o.driver : Scope(m, c) \in {NoChoice, DriverFleet[d]}
  <2>1. cachedSims \subseteq Sim /\ Drivers(known) \subseteq Driver
    BY DEF DeviceWizardInv, DeviceWizardTypeOK, Drivers
  <2> QED
    BY <2>1 DEF WizardOptions
<1>2. PICK s \in FirstOf(o.sim), d \in FirstOf(o.driver) : choice' = [c EXCEPT !.sim = s, !.driver = d]
  BY DEF Refreshed
<1>3. mode' = m /\ offered' = o
  BY DEF Refreshed
<1> HIDE DEF o
<1>4. (s = NoChoice \/ s \in o.sim) /\ (d = NoChoice \/ d \in o.driver)
  BY DEF FirstOf
<1>5. choice' \in PartChoices /\ choice'.company = c.company /\ choice'.sim = s /\ choice'.driver = d
  BY <1>1, <1>2, <1>4 DEF PartChoices, Part
<1>6. m.company = "existing" => Scope(m, c) = c.company
  BY DEF Scope
<1>7. OfferedOfFleet'
  BY <1>1, <1>3, <1>5, <1>6 DEF OfferedOfFleet
<1>8. ChosenOfFleet'
  BY <1>1, <1>3, <1>4, <1>5, <1>6 DEF ChosenOfFleet
<1> QED
  BY <1>1, <1>3, <1>4, <1>5, <1>7, <1>8

\* A slide that is drawn shows the summary there is.
LEMMA SlideShows ==
    ASSUME NEW s, ShownSlide(s) PROVE SummaryIsTrue'
BY DEF ShownSlide, SummaryIsTrue, At

\* Every step of the wizard keeps the invariant.
LEMMA DeviceWizardStep == ASSUME DeviceWizardInv, DeviceWizardNext PROVE DeviceWizardInv'
<1> USE DeviceWizardAssumption DEF DeviceWizardInv, DeviceWizardTypeOK
<1>0. /\ mode \in Modes /\ Len(Steps) = 6
      /\ \A c \in Fleet \cup {NoChoice} : [choice EXCEPT !.company = c] \in PartChoices /\ [choice EXCEPT !.company = c].company = c
  BY StepsAre DEF Modes, PartChoices, Part
<1>1. ASSUME mode' \in Modes /\ choice' \in PartChoices /\ choice'.company \in Fleet \cup {NoChoice},
             choice'.sim \in Sim \cup {NoChoice} /\ choice'.driver \in Driver \cup {NoChoice},
             offered' \in [sim : SUBSET Sim, driver : SUBSET Driver], OfferedOfFleet', ChosenOfFleet', SummaryIsTrue',
             freeSims' \subseteq Sim, cachedSims' \subseteq Sim, step' \in 1..6, wizardLoads' \in 0..MaxWizardOpenings
      PROVE  DeviceWizardInv'
  BY <1>0, <1>1 DEF Modes
\* What leaves the choices and the step where they are.
<1>2. ASSUME UNCHANGED <<mode, choice, offered, step, wizardLoads>>, SummaryIsTrue', freeSims' \subseteq Sim, cachedSims' \subseteq Sim
      PROVE  DeviceWizardInv'
  <2>1. OfferedOfFleet' /\ ChosenOfFleet'
    BY <1>2 DEF OfferedOfFleet, ChosenOfFleet
  <2> QED
    BY <1>0, <1>1, <1>2, <2>1
<1>3. ASSUME UNCHANGED <<mode, choice, step, summary>>, done' = done \/ done' = TRUE PROVE SummaryIsTrue'
  BY <1>3 DEF SummaryIsTrue, At, SummaryNow, Label
<1>4. CASE OpenDeviceWizard
  <2>1. /\ wizardLoads' = wizardLoads + 1 /\ wizardLoads < MaxWizardOpenings /\ step' = 1
        /\ Refreshed([p \in Part |-> "existing"], [p \in Part |-> NoChoice], listed)
        /\ freeSims' = freeSims /\ cachedSims' = cachedSims
    BY <1>4 DEF OpenDeviceWizard, wizardServer
  <2> DEFINE m == [p \in Part |-> "existing"]
             c == [p \in Part |-> NoChoice]
  <2>2. m \in Modes /\ c \in PartChoices /\ c.company = NoChoice
    BY DEF Modes, PartChoices, Part
  <2> HIDE DEF m, c
  <2>3. Refreshed(m, c, listed)
    BY <2>1 DEF m, c
  <2>4. SummaryIsTrue'
    BY <2>1, StepsAre DEF SummaryIsTrue, At
  <2> QED
    BY <1>1, <2>1, <2>2, <2>3, <2>4, RefreshedIs
<1>5. CASE ListsArrive
  <2>1. UNCHANGED <<freeSims, mode, choice, done, offered, step, summary, wizardLoads>> /\ cachedSims' \subseteq Sim
    BY <1>5 DEF ListsArrive, wizardServer, wizardData, wizardView
  <2> QED
    BY <1>2, <1>3, <2>1
<1>6. CASE LoadEnds
  <2>1. PICK c \in IF listed THEN Fleet ELSE {choice.company} : Refreshed(mode, [choice EXCEPT !.company = c], listed)
    BY <1>6 DEF LoadEnds
  <2>2. /\ wizardLoads' = wizardLoads - 1 /\ wizardLoads > 0 /\ ShownSlide(step)
        /\ freeSims' = freeSims /\ cachedSims' = cachedSims
    BY <1>6 DEF LoadEnds, wizardServer
  <2>3. step' = step /\ SummaryIsTrue'
    BY <2>2, SlideShows DEF ShownSlide
  <2> DEFINE d == [choice EXCEPT !.company = c]
  <2>4. d \in PartChoices /\ d.company \in Fleet \cup {NoChoice}
    BY <1>0
  <2> HIDE DEF d
  <2>5. Refreshed(mode, d, listed)
    BY <2>1 DEF d
  <2> QED
    BY <1>0, <1>1, <2>2, <2>3, <2>4, <2>5, RefreshedIs
<1>7. ASSUME NEW m \in {"existing", "new", "none"}, SelectCompanyMode(m) PROVE DeviceWizardInv'
  <2> DEFINE d == [mode EXCEPT !.company = m]
  <2>1. At("company") /\ Refreshed(d, choice, listed) /\ UNCHANGED <<freeSims, cachedSims, done, step, summary, wizardLoads>>
    BY <1>7 DEF SelectCompanyMode, wizardServer, wizardView
  <2>2. d \in Modes
    BY <1>0 DEF Modes, Part
  <2> HIDE DEF d
  <2>3. SummaryIsTrue'
    BY <2>1 DEF SummaryIsTrue, At
  <2> QED
    BY <1>0, <1>1, <2>1, <2>2, <2>3, RefreshedIs
<1>8. ASSUME NEW c \in Fleet, CompanyChanged(c) PROVE DeviceWizardInv'
  <2> DEFINE d == [choice EXCEPT !.company = c]
  <2>1. At("company") /\ Refreshed(mode, d, listed) /\ UNCHANGED <<freeSims, cachedSims, done, step, summary, wizardLoads>>
    BY <1>8 DEF CompanyChanged, wizardServer, wizardView
  <2>2. d \in PartChoices /\ d.company \in Fleet
    BY <1>0
  <2> HIDE DEF d
  <2>3. SummaryIsTrue'
    BY <2>1 DEF SummaryIsTrue, At
  <2> QED
    BY <1>0, <1>1, <2>1, <2>2, <2>3, RefreshedIs
<1>9. ASSUME NEW p \in Part, NEW m \in {"existing", "new", "none"}, SelectMode(p, m) PROVE DeviceWizardInv'
  <2>1. /\ p \in {"sim", "driver"} /\ At(p) /\ mode' = [mode EXCEPT ![p] = m]
        /\ UNCHANGED <<freeSims, cachedSims, offered, choice, done, step, summary, wizardLoads>>
    BY <1>9 DEF SelectMode, wizardServer, wizardLists, wizardView
  <2>2. mode' \in Modes /\ mode'.company = mode.company
    BY <1>0, <2>1 DEF Modes, Part
  <2>3. SummaryIsTrue'
    BY <2>1 DEF SummaryIsTrue, At
  <2>4. OfferedOfFleet' /\ ChosenOfFleet'
    BY <2>1, <2>2 DEF OfferedOfFleet, ChosenOfFleet
  <2> QED
    BY <1>0, <1>1, <2>1, <2>2, <2>3, <2>4
<1>10. CASE WizardNext
  <2>1. Taken /\ ShownSlide(step + 1) /\ UNCHANGED <<freeSims, cachedSims, wizardLoads>>
    BY <1>10 DEF WizardNext, wizardServer
  <2>2. SummaryIsTrue' /\ step' = step + 1
    BY <2>1, SlideShows DEF ShownSlide
  <2>3. Steps[step] # "summary"
    BY <2>1 DEF Taken, At
  <2>4. step' \in 1..6
    <3>1. step # 6
      BY <2>3, StepsAre
    <3> QED
      BY <1>0, <2>2, <3>1
  <2>5. CASE \E c \in Fleet \cup {NoChoice} : Refreshed(mode, [choice EXCEPT !.company = c], listed)
    <3>1. PICK c \in Fleet \cup {NoChoice} : Refreshed(mode, [choice EXCEPT !.company = c], listed)
      BY <2>5
    <3> DEFINE d == [choice EXCEPT !.company = c]
    <3>2. d \in PartChoices /\ d.company \in Fleet \cup {NoChoice}
      BY <1>0
    <3> HIDE DEF d
    <3>3. Refreshed(mode, d, listed)
      BY <3>1 DEF d
    <3> QED
      BY <1>0, <1>1, <2>1, <2>2, <2>4, <3>2, <3>3, RefreshedIs
  <2>6. ASSUME NEW p \in {"sim", "driver"}, UNCHANGED <<mode, offered>>,
               NEW x \in IF mode[p] = "existing" THEN FirstOf(offered[p]) ELSE {choice[p]}, choice' = [choice EXCEPT ![p] = x]
        PROVE  DeviceWizardInv'
    <3>1. x = choice[p] \/ x = NoChoice \/ x \in offered[p]
      BY DEF FirstOf
    <3>2. choice'.company = choice.company /\ choice' \in PartChoices
          /\ (p = "sim" => choice'.sim = x /\ choice'.driver = choice.driver)
          /\ (p = "driver" => choice'.driver = x /\ choice'.sim = choice.sim)
      BY <2>6, <3>1 DEF PartChoices, Part
    <3>3. choice'.sim \in Sim \cup {NoChoice} /\ choice'.driver \in Driver \cup {NoChoice}
      BY <3>1, <3>2
    <3>4. OfferedOfFleet'
      BY <2>6, <3>2 DEF OfferedOfFleet
    <3>5. ChosenOfFleet'
      BY <2>6, <3>1, <3>2 DEF ChosenOfFleet, OfferedOfFleet
    <3> QED
      BY <1>0, <1>1, <2>1, <2>2, <2>4, <2>6, <3>2, <3>3, <3>4, <3>5
  <2>7. CASE UNCHANGED <<mode, choice, offered>>
    <3>1. OfferedOfFleet' /\ ChosenOfFleet'
      BY <2>7 DEF OfferedOfFleet, ChosenOfFleet
    <3> QED
      BY <1>0, <1>1, <2>1, <2>2, <2>4, <2>7, <3>1
  <2> QED
    BY <2>1, <2>5, <2>6, <2>7 DEF Taken
<1>11. ASSUME NEW s \in 1..Len(Steps), GoBack(s) PROVE DeviceWizardInv'
  <2>1. ShownSlide(s) /\ UNCHANGED <<freeSims, cachedSims, mode, choice, offered, wizardLoads>>
    BY <1>11 DEF GoBack, wizardServer, wizardLists, wizardData
  <2>2. SummaryIsTrue' /\ step' = s
    BY <2>1, SlideShows DEF ShownSlide
  <2>3. OfferedOfFleet' /\ ChosenOfFleet'
    BY <2>1 DEF OfferedOfFleet, ChosenOfFleet
  <2> QED
    BY <1>0, <1>1, <2>1, <2>2, <2>3
<1>12. CASE WizardSubmit \/ SubmissionFails
  <2>1. UNCHANGED <<freeSims, cachedSims, mode, choice, done, offered, step, summary, wizardLoads>>
    BY <1>12 DEF WizardSubmit, SubmissionFails, wizardServer, wizardLists, wizardData
  <2> QED
    BY <1>2, <1>3, <2>1
<1>13. CASE CompanyCreated \/ SimCreated \/ DriverCreated \/ SubmissionEnds
  <2>1. UNCHANGED <<freeSims, cachedSims, mode, choice, done, offered, step, summary, wizardLoads>>
    BY <1>13 DEF CompanyCreated, SimCreated, DriverCreated, SubmissionEnds, Submitted, wizardServer, wizardLists, wizardData, wizardView
  <2> QED
    BY <1>2, <1>3, <2>1
<1>14. CASE DeviceCreated
  <2>1. UNCHANGED <<cachedSims, mode, choice, offered, step, summary, wizardLoads>> /\ done' = TRUE /\ freeSims' \subseteq freeSims
    BY <1>14 DEF DeviceCreated, wizardLists, wizardView
  <2> QED
    BY <1>2, <1>3, <2>1
<1> QED
  BY <1>4, <1>5, <1>6, <1>7, <1>8, <1>9, <1>10, <1>11, <1>12, <1>13, <1>14 DEF DeviceWizardNext

\* A step of another part leaves it.
LEMMA DeviceWizardStutter == ASSUME DeviceWizardInv, UNCHANGED deviceWizardVars PROVE DeviceWizardInv'
<1> USE DEF DeviceWizardInv
<1>1. UNCHANGED <<freeSims, cachedSims, mode, choice, done, offered, step, summary, wizardLoads>>
  BY DEF deviceWizardVars, wizardServer, wizardLists, wizardData, wizardView
<1>2. SummaryIsTrue'
  BY <1>1 DEF SummaryIsTrue, At, SummaryNow, Label
<1>3. OfferedOfFleet' /\ ChosenOfFleet'
  BY <1>1 DEF OfferedOfFleet, ChosenOfFleet
<1>4. DeviceWizardTypeOK'
  BY <1>1 DEF DeviceWizardTypeOK
<1> QED
  BY <1>1, <1>2, <1>3, <1>4

-----------------------------------------------------------------------------
(* The settings of the system. *)
SettingValues == UNION {[ks -> Value] : ks \in SUBSET Setting}
SettingLoads == [for : {"open", "save"}, items : [Setting -> Value]]
SettingSaves == [stage : {"ready", "reload"}] \cup [stage : {"sent"}, sends : SettingValues]
\* The switches of the fields shown are on, and the fields are of the chosen engine.
InForce(form, cats, shown) ==
    \A k \in shown \cap DOMAIN SwitchOf :
       /\ On(IF SwitchOf[k] \in DOMAIN form THEN form ELSE cats, SwitchOf[k])
       /\ k \in DOMAIN EngineOf => EngineOf[k] = ChosenEngine(form)

SystemSettingsInv ==
    /\ SystemSettingsTypeOK /\ sysCategories \in SettingValues /\ sysFields \in SettingValues
    /\ DOMAIN sysFields \subseteq DOMAIN sysCategories
    /\ sysLoads \subseteq SettingLoads /\ IsFiniteSet(sysLoads) /\ sysSaving \in SettingSaves
    /\ InForce(sysFields, sysCategories, sysDisplayed) /\ BubbleTellsOfEdits

\* Without values there is no setting.
LEMMA NoSettings == <<>> \in SettingValues /\ DOMAIN <<>> = {}
<1>1. <<>> \in Seq(Value) /\ Len(<<>>) = 0
  BY EmptySeq
<1> DEFINE q == <<>>
<1>2. q \in Seq(Value) /\ Len(q) = 0
  BY <1>1
<1> HIDE DEF q
<1>3. q \in [1..0 -> Value] /\ DOMAIN q = 1..0 /\ 1..0 = {}
  BY <1>2, LenProperties
<1>4. {} \in SUBSET Setting /\ q \in [{} -> Value]
  BY <1>3
<1> QED
  BY <1>3, <1>4 DEF SettingValues, q

\* Values of settings are values.
LEMMA ValuesAre ==
    ASSUME NEW f \in SettingValues
    PROVE  /\ DOMAIN f \subseteq Setting /\ f \in [DOMAIN f -> Value] /\ Range(f) \subseteq Value
           /\ \A S \in SUBSET DOMAIN f : Restrict(f, S) \in SettingValues /\ DOMAIN Restrict(f, S) = S
                                         /\ \A k \in S : Restrict(f, S)[k] = f[k]
           /\ \A k \in DOMAIN f, v \in Value : [f EXCEPT ![k] = v] \in SettingValues
<1>1. PICK ks \in SUBSET Setting : f \in [ks -> Value]
  BY DEF SettingValues
<1>2. DOMAIN f = ks
  BY <1>1
<1>3. Range(f) \subseteq Value
  BY <1>1 DEF Range
<1>4. ASSUME NEW S \in SUBSET ks
      PROVE  Restrict(f, S) \in SettingValues /\ DOMAIN Restrict(f, S) = S /\ \A k \in S : Restrict(f, S)[k] = f[k]
  <2>1. Restrict(f, S) = [k \in S |-> f[k]]
    BY DEF Restrict
  <2>2. Restrict(f, S) \in [S -> Value] /\ S \in SUBSET Setting
    BY <1>1, <2>1
  <2> QED
    BY <2>1, <2>2 DEF SettingValues
<1>5. ASSUME NEW k \in ks, NEW v \in Value PROVE [f EXCEPT ![k] = v] \in SettingValues
  <2>1. [f EXCEPT ![k] = v] \in [ks -> Value]
    BY <1>1
  <2> QED
    BY <2>1 DEF SettingValues
<1> QED
  BY <1>1, <1>2, <1>3, <1>4, <1>5

\* A bubble that tells of no edits is right when there are none.
LEMMA SystemSettingsInvInit == SystemSettingsInit => SystemSettingsInv
<1> SUFFICES ASSUME SystemSettingsInit PROVE SystemSettingsInv
  OBVIOUS
<1> USE SystemSettingsAssumption DEF SystemSettingsInit
<1>1. sysCategories \in SettingValues /\ sysFields \in SettingValues /\ DOMAIN sysFields = {} /\ DOMAIN sysCategories = {}
  BY NoSettings
<1>2. IsFiniteSet(sysLoads) /\ Cardinality(sysLoads) <= MaxSysLoads
  BY FS_EmptySet
<1>3. Range(sysFields) \subseteq Value
  BY <1>1, ValuesAre
<1>4. sysStored \in [Setting -> Value]
  OBVIOUS
<1>5. SystemSettingsTypeOK
  BY <1>1, <1>2, <1>3, <1>4 DEF SystemSettingsTypeOK
<1>6. InForce(sysFields, sysCategories, sysDisplayed)
  BY DEF InForce
<1>7. BubbleTellsOfEdits
  BY DEF BubbleTellsOfEdits, Edited
<1>8. sysSaving \in SettingSaves /\ sysLoads \subseteq SettingLoads
  BY DEF SettingSaves
<1> QED
  BY <1>1, <1>2, <1>5, <1>6, <1>7, <1>8 DEF SystemSettingsInv

\* What the chosen engine leaves of the fields shown.
LEMMA EngineShownIs ==
    ASSUME NEW form, NEW shown \in SUBSET DOMAIN form
    PROVE  /\ EngineShown(form, shown) \subseteq DOMAIN form
           /\ \A k \in EngineShown(form, shown) :
                 /\ k \notin DOMAIN EngineOf => k \in shown
                 /\ k \in DOMAIN EngineOf =>
                       On(form, SwitchOf[k]) /\ SwitchOf[k] \in DOMAIN form /\ EngineOf[k] = ChosenEngine(form)
BY DEF EngineShown, On

\* A form drawn anew shows what is in force, and has no edits.
LEMMA RenderedIs ==
    ASSUME NEW cats \in SettingValues, NEW filter \in SUBSET Setting, Rendered(cats, filter)
    PROVE  /\ sysCategories' = cats /\ sysFilter' = filter /\ sysBubble' = FALSE /\ sysTesting' = FALSE
           /\ sysFields' \in SettingValues /\ DOMAIN sysFields' \subseteq DOMAIN cats /\ sysDisplayed' \subseteq DOMAIN sysFields'
           /\ InForce(sysFields', sysCategories', sysDisplayed') /\ BubbleTellsOfEdits'
<1> USE SystemSettingsAssumption
<1> DEFINE S == DOMAIN cats \cap filter
           form == Restrict(cats, S)
           inForce == {k \in DOMAIN form : k \in DOMAIN SwitchOf => On(cats, SwitchOf[k])}
           shown == EngineShown(form, inForce)
<1>1. /\ sysCategories' = cats /\ sysFilter' = filter /\ sysBubble' = FALSE /\ sysTesting' = FALSE
      /\ sysFields' = form /\ sysDisplayed' = shown
  BY DEF Rendered
<1>2. form \in SettingValues /\ DOMAIN form = S /\ \A k \in S : form[k] = cats[k]
  <2>1. S \in SUBSET DOMAIN cats
    OBVIOUS
  <2> HIDE DEF S
  <2> QED
    BY <2>1, ValuesAre
<1>3. S \subseteq DOMAIN cats
  OBVIOUS
<1> HIDE DEF form, S
<1>4. inForce \in SUBSET DOMAIN form
  OBVIOUS
<1>5. /\ shown \subseteq DOMAIN form
      /\ \A k \in shown : /\ k \notin DOMAIN EngineOf => k \in inForce
                          /\ k \in DOMAIN EngineOf =>
                                On(form, SwitchOf[k]) /\ SwitchOf[k] \in DOMAIN form /\ EngineOf[k] = ChosenEngine(form)
  BY <1>4, EngineShownIs
<1>6. \A k \in inForce : k \in DOMAIN SwitchOf => On(IF SwitchOf[k] \in DOMAIN form THEN form ELSE cats, SwitchOf[k])
  BY <1>2, <1>3 DEF On
<1> HIDE DEF shown, inForce
<1>7. InForce(form, cats, shown)
  BY <1>5, <1>6 DEF InForce
<1>8. Edited(cats, form, shown) = {}
  BY <1>2, <1>5 DEF Edited
<1>9. BubbleTellsOfEdits'
  BY <1>1, <1>8 DEF BubbleTellsOfEdits
<1> QED
  BY <1>1, <1>2, <1>3, <1>5, <1>7, <1>9

\* After an edit the fields shown are those in force.
LEMMA ShownIs ==
    ASSUME SystemSettingsInv, NEW k \in sysDisplayed, NEW v, NEW form, form = [sysFields EXCEPT ![k] = v]
    PROVE  Shown(k, form) \subseteq DOMAIN form /\ InForce(form, sysCategories, Shown(k, form))
<1> USE SystemSettingsAssumption
<1>1. k \in DOMAIN sysFields /\ sysDisplayed \subseteq DOMAIN sysFields /\ InForce(sysFields, sysCategories, sysDisplayed)
  BY DEF SystemSettingsInv, SystemSettingsTypeOK
<1>2. DOMAIN form = DOMAIN sysFields /\ form[k] = v /\ \A j \in DOMAIN form \ {k} : form[j] = sysFields[j]
  BY <1>1
<1>3. \A j : j # k => (On(IF j \in DOMAIN form THEN form ELSE sysCategories, j)
                        <=> On(IF j \in DOMAIN sysFields THEN sysFields ELSE sysCategories, j))
  BY <1>2 DEF On
<1>4. k # Engine => ChosenEngine(form) = ChosenEngine(sysFields)
  BY <1>2 DEF ChosenEngine
<1>5. \A d \in sysDisplayed \cap DOMAIN SwitchOf :
         SwitchOf[d] # k => On(IF SwitchOf[d] \in DOMAIN form THEN form ELSE sysCategories, SwitchOf[d])
  BY <1>1, <1>3 DEF InForce
<1>6. \A d \in sysDisplayed \cap DOMAIN EngineOf : k # Engine => EngineOf[d] = ChosenEngine(form)
  BY <1>1, <1>4 DEF InForce
<1>7. \A d \in DOMAIN SwitchOf : SwitchOf[d] \in Range(SwitchOf)
  BY DEF Range
\* What the engine leaves of shown fields whose switches are on.
<1>8. ASSUME NEW shown \in SUBSET DOMAIN form,
             \A d \in (shown \cap DOMAIN SwitchOf) \ DOMAIN EngineOf :
                On(IF SwitchOf[d] \in DOMAIN form THEN form ELSE sysCategories, SwitchOf[d])
      PROVE  EngineShown(form, shown) \subseteq DOMAIN form /\ InForce(form, sysCategories, EngineShown(form, shown))
  <2> DEFINE all == EngineShown(form, shown)
  <2>1. /\ all \subseteq DOMAIN form
        /\ \A d \in all : /\ d \notin DOMAIN EngineOf => d \in shown
                          /\ d \in DOMAIN EngineOf =>
                                On(form, SwitchOf[d]) /\ SwitchOf[d] \in DOMAIN form /\ EngineOf[d] = ChosenEngine(form)
    BY EngineShownIs
  <2> HIDE DEF all
  <2>2. InForce(form, sysCategories, all)
    BY <1>8, <2>1 DEF InForce
  <2> QED
    BY <2>1, <2>2 DEF all
<1>9. CASE k \in Range(SwitchOf)
  <2> DEFINE deps == {d \in DOMAIN SwitchOf \cap DOMAIN form : SwitchOf[d] = k}
             on == form[k] # 0
             shown == IF on THEN sysDisplayed \cup deps ELSE sysDisplayed \ deps
  <2>1. Shown(k, form) = IF SwitchOf[Engine] = k THEN EngineShown(form, shown) ELSE shown
    BY <1>9 DEF Shown, Toggled
  <2>2. k # Engine
    BY <1>9
  <2>3. shown \in SUBSET DOMAIN form
    BY <1>1, <1>2
  <2>4. \A d \in shown \cap DOMAIN SwitchOf : SwitchOf[d] = k => On(form, k)
    BY <1>1, <1>2, <2>3 DEF On
  <2>5. \A d \in shown \cap DOMAIN SwitchOf : SwitchOf[d] # k => d \in sysDisplayed
    OBVIOUS
  <2> HIDE DEF shown
  <2>6. \A d \in shown \cap DOMAIN SwitchOf :
           On(IF SwitchOf[d] \in DOMAIN form THEN form ELSE sysCategories, SwitchOf[d])
    <3> SUFFICES ASSUME NEW d \in shown \cap DOMAIN SwitchOf
                 PROVE  On(IF SwitchOf[d] \in DOMAIN form THEN form ELSE sysCategories, SwitchOf[d])
      OBVIOUS
    <3>1. CASE SwitchOf[d] = k
      <4>1. On(form, k) /\ k \in DOMAIN form
        BY <1>1, <1>2, <2>4, <3>1
      <4> QED
        BY <3>1, <4>1
    <3>2. CASE SwitchOf[d] # k
      <4>1. d \in sysDisplayed \cap DOMAIN SwitchOf
        BY <2>5, <3>2
      <4> QED
        BY <1>5, <3>2, <4>1
    <3> QED
      BY <3>1, <3>2
  <2>7. CASE SwitchOf[Engine] = k
    BY <1>8, <2>1, <2>3, <2>6, <2>7
  <2>8. CASE SwitchOf[Engine] # k
    <3>1. \A d \in shown \cap DOMAIN EngineOf : d \in sysDisplayed
      BY <2>5, <2>8
    <3>2. InForce(form, sysCategories, shown)
      BY <1>6, <2>2, <2>6, <3>1 DEF InForce
    <3> QED
      BY <2>1, <2>3, <2>8, <3>2
  <2> QED
    BY <2>7, <2>8
<1>10. CASE k \notin Range(SwitchOf)
  <2>1. \A d \in sysDisplayed \cap DOMAIN SwitchOf :
           On(IF SwitchOf[d] \in DOMAIN form THEN form ELSE sysCategories, SwitchOf[d])
    <3>1. \A d \in sysDisplayed \cap DOMAIN SwitchOf : SwitchOf[d] # k
      BY <1>7, <1>10
    <3> QED
      BY <1>5, <3>1
  <2>2. CASE k = Engine
    <3>1. Shown(k, form) = EngineShown(form, sysDisplayed)
      BY <1>10, <2>2 DEF Shown
    <3>2. sysDisplayed \in SUBSET DOMAIN form
      BY <1>1, <1>2
    <3>3. \A d \in (sysDisplayed \cap DOMAIN SwitchOf) \ DOMAIN EngineOf :
             On(IF SwitchOf[d] \in DOMAIN form THEN form ELSE sysCategories, SwitchOf[d])
      BY <2>1
    <3>4. /\ EngineShown(form, sysDisplayed) \subseteq DOMAIN form
          /\ InForce(form, sysCategories, EngineShown(form, sysDisplayed))
      BY <1>8, <3>2, <3>3
    <3> QED
      BY <3>1, <3>4
  <2>3. CASE k # Engine
    <3>1. Shown(k, form) = sysDisplayed
      BY <1>10, <2>3 DEF Shown
    <3>2. InForce(form, sysCategories, sysDisplayed)
      BY <1>6, <2>1, <2>3 DEF InForce
    <3> QED
      BY <1>1, <1>2, <3>1, <3>2
  <2> QED
    BY <2>2, <2>3
<1> QED
  BY <1>9, <1>10

\* A list of the server has the value of every setting.
LEMMA ListingIs == \A stored \in [Setting -> Value] : Listing(stored) \in [Setting -> Value]
BY SystemSettingsAssumption DEF Listing

\* Every step of the settings keeps the invariant.
LEMMA SystemSettingsStep == ASSUME SystemSettingsInv, SystemSettingsNext PROVE SystemSettingsInv'
<1> USE SystemSettingsAssumption DEF SystemSettingsInv, SystemSettingsTypeOK
<1>0. DOMAIN sysFields \subseteq Setting /\ Range(sysFields) \subseteq Value
  OBVIOUS
\* What changes neither the form nor the bubble.
<1>1. ASSUME UNCHANGED <<sysCategories, sysFilter, sysFields, sysDisplayed, sysBubble>>, sysTesting' \in BOOLEAN,
             sysStored' \in [Setting -> Value], sysLoads' \subseteq SettingLoads, IsFiniteSet(sysLoads'),
             Cardinality(sysLoads') <= MaxSysLoads, sysSaving' \in SettingSaves
      PROVE  SystemSettingsInv'
  <2>1. BubbleTellsOfEdits'
    BY <1>1 DEF BubbleTellsOfEdits
  <2>2. InForce(sysFields, sysCategories, sysDisplayed)'
    BY <1>1 DEF InForce, On, ChosenEngine
  <2> QED
    BY <1>1, <2>1, <2>2
\* A list that is asked for.
<1>2. ASSUME NEW who \in {"open", "save"}, NEW stored \in [Setting -> Value], LoadFor(who, stored)
      PROVE  sysLoads' \subseteq SettingLoads /\ IsFiniteSet(sysLoads') /\ Cardinality(sysLoads') <= MaxSysLoads
  <2> DEFINE load == [for |-> who, items |-> Listing(stored)]
  <2>1. load \in SettingLoads
    BY ListingIs DEF SettingLoads
  <2>2. sysLoads' = sysLoads \cup {load} /\ Cardinality(sysLoads') <= MaxSysLoads
    BY <1>2 DEF LoadFor
  <2> HIDE DEF load
  <2> QED
    BY <2>1, <2>2, OneMore
<1>3. ASSUME NEW load \in sysLoads, sysLoads' = sysLoads \ {load}
      PROVE  sysLoads' \subseteq SettingLoads /\ IsFiniteSet(sysLoads') /\ Cardinality(sysLoads') <= MaxSysLoads
  BY <1>3, OneLess
<1>4. ASSUME NEW cats \in SettingValues, NEW filter \in SUBSET Setting, Rendered(cats, filter),
             sysStored' = sysStored, sysLoads' \subseteq SettingLoads, IsFiniteSet(sysLoads'),
             Cardinality(sysLoads') <= MaxSysLoads, sysSaving' \in SettingSaves
      PROVE  SystemSettingsInv'
  <2>1. /\ sysCategories' = cats /\ sysFilter' = filter /\ sysBubble' = FALSE /\ sysTesting' = FALSE
        /\ sysFields' \in SettingValues /\ DOMAIN sysFields' \subseteq DOMAIN cats /\ sysDisplayed' \subseteq DOMAIN sysFields'
        /\ InForce(sysFields', sysCategories', sysDisplayed') /\ BubbleTellsOfEdits'
    BY <1>4, RenderedIs
  <2>2. Range(sysFields') \subseteq Value /\ DOMAIN sysFields' \subseteq Setting /\ DOMAIN cats \subseteq Setting
    BY <2>1, ValuesAre
  <2>3. sysBubble' \in BOOLEAN /\ sysTesting' \in BOOLEAN
    BY <2>1
  <2> QED
    BY <1>4, <2>1, <2>2, <2>3
<1>5. [stage |-> "ready"] \in SettingSaves /\ [stage |-> "reload"] \in SettingSaves
  BY DEF SettingSaves
<1>6. CASE LoadSystemSettings
  <2>1. LoadFor("open", sysStored)
    BY <1>6 DEF LoadSystemSettings
  <2>2. UNCHANGED <<sysStored, sysCategories, sysFilter, sysFields, sysDisplayed, sysBubble, sysTesting, sysSaving>>
    BY <1>6 DEF LoadSystemSettings, sysForm
  <2>3. sysLoads' \subseteq SettingLoads /\ IsFiniteSet(sysLoads') /\ Cardinality(sysLoads') <= MaxSysLoads
    BY <1>2, <2>1
  <2> QED
    BY <1>1, <2>2, <2>3
<1>7. ASSUME NEW load \in sysLoads, SystemSettingsArrive(load) PROVE SystemSettingsInv'
  <2>1. /\ sysLoads' = sysLoads \ {load} /\ Rendered(load.items, sysFilter) /\ SaveEnds(load) /\ sysStored' = sysStored
    BY <1>7 DEF SystemSettingsArrive
  <2>2. load.items \in SettingValues
    <3>1. load.items \in [Setting -> Value]
      BY DEF SettingLoads
    <3> QED
      BY <3>1 DEF SettingValues
  <2>3. sysSaving' \in SettingSaves
    BY <1>5, <2>1 DEF SaveEnds
  <2> DEFINE cats == load.items
  <2> HIDE DEF cats
  <2> QED
    BY <1>3, <1>4, <2>1, <2>2, <2>3 DEF cats
<1>8. ASSUME NEW load \in sysLoads, SystemSettingsFail(load) PROVE SystemSettingsInv'
  <2>1. /\ sysLoads' = sysLoads \ {load} /\ sysFields' = <<>> /\ sysDisplayed' = {} /\ SaveEnds(load) /\ sysTesting' = FALSE
        /\ UNCHANGED <<sysStored, sysCategories, sysFilter>> /\ sysBubble' = (sysBubble /\ load.for # "save")
    BY <1>8 DEF SystemSettingsFail
  <2>2. sysSaving' \in SettingSaves
    BY <1>5, <2>1 DEF SaveEnds
  <2>3. sysFields' \in SettingValues /\ DOMAIN sysFields' = {}
    BY <2>1, NoSettings
  <2>4. sysBubble' \in BOOLEAN
    <3>1. (sysBubble /\ load.for # "save") \in BOOLEAN
      OBVIOUS
    <3> QED
      BY <2>1, <3>1, Zenon
  <2>5. BubbleTellsOfEdits'
    BY <2>1 DEF BubbleTellsOfEdits, Edited
  <2>6. InForce(sysFields, sysCategories, sysDisplayed)'
    BY <2>1 DEF InForce
  <2>7. Range(sysFields') \subseteq Value
    BY <2>3, ValuesAre
  <2>8. sysTesting' \in BOOLEAN
    BY <2>1
  <2> QED
    BY <1>3, <2>1, <2>2, <2>3, <2>4, <2>5, <2>6, <2>7, <2>8
<1>9. ASSUME NEW filter \in {Setting, {Engine} \cup DOMAIN EngineOf, {Icon}}, FilterSystemSettings(filter) PROVE SystemSettingsInv'
  <2>1. Rendered(sysCategories, filter) /\ UNCHANGED <<sysStored, sysSaving, sysLoads>>
    BY <1>9 DEF FilterSystemSettings
  <2>2. filter \in SUBSET Setting
    OBVIOUS
  <2> QED
    BY <1>4, <2>1, <2>2
<1>10. ASSUME NEW k \in Setting, NEW v \in Value, EditSetting(k, v) PROVE SystemSettingsInv'
  <2>1. /\ k \in sysDisplayed /\ sysFields' = [sysFields EXCEPT ![k] = v] /\ sysDisplayed' = Shown(k, sysFields')
        /\ sysBubble' = (Edited(sysCategories, sysFields', sysDisplayed') # {})
        /\ UNCHANGED <<sysStored, sysCategories, sysFilter, sysSaving, sysLoads, sysTesting>>
    BY <1>10 DEF EditSetting
  <2>2. sysFields' \in SettingValues /\ DOMAIN sysFields' = DOMAIN sysFields
    <3>1. k \in DOMAIN sysFields
      BY <2>1
    <3> QED
      BY <2>1, <3>1, ValuesAre
  <2>3. sysDisplayed' \subseteq DOMAIN sysFields' /\ InForce(sysFields', sysCategories, sysDisplayed')
    <3> DEFINE form == sysFields'
    <3>1. form = [sysFields EXCEPT ![k] = v]
      BY <2>1
    <3> HIDE DEF form
    <3>2. Shown(k, form) \subseteq DOMAIN form /\ InForce(form, sysCategories, Shown(k, form))
      BY <2>1, <3>1, ShownIs
    <3> QED
      BY <2>1, <3>2 DEF form
  <2>4. InForce(sysFields, sysCategories, sysDisplayed)'
    BY <2>1, <2>3 DEF InForce, On, ChosenEngine
  <2>5. Range(sysFields') \subseteq Value
    BY <2>2, ValuesAre
  <2>6. sysBubble' \in BOOLEAN
    <3>1. (Edited(sysCategories, sysFields', sysDisplayed') # {}) \in BOOLEAN
      OBVIOUS
    <3> QED
      BY <2>1, <3>1, Zenon
  <2>7. BubbleTellsOfEdits'
    <3>1. Edited(sysCategories, sysFields', sysDisplayed') # {} => sysBubble'
      BY <2>1
    <3>2. BubbleTellsOfEdits' <=> (Edited(sysCategories, sysFields', sysDisplayed') \ {Icon} # {} => sysBubble')
      BY <2>1 DEF BubbleTellsOfEdits
    <3> DEFINE E == Edited(sysCategories, sysFields', sysDisplayed')
    <3> HIDE DEF E
    <3>3. E \ {Icon} # {} => E # {}
      OBVIOUS
    <3> QED
      BY <3>1, <3>2, <3>3 DEF E
  <2> QED
    BY <2>1, <2>2, <2>3, <2>4, <2>5, <2>6, <2>7
<1>11. ASSUME NEW k \in Setting, NEW v \in Value, OthersSave(k, v) PROVE SystemSettingsInv'
  <2>1. /\ sysStored' = [sysStored EXCEPT ![k] = v]
        /\ UNCHANGED <<sysCategories, sysFilter, sysFields, sysDisplayed, sysBubble, sysTesting, sysSaving, sysLoads>>
    BY <1>11 DEF OthersSave, sysForm
  <2>2. sysStored' \in [Setting -> Value]
    BY <2>1
  <2> QED
    BY <1>1, <2>1, <2>2
<1>12. CASE SaveSystemSettings
  <2> DEFINE changed == Edited(sysCategories, sysFields, sysDisplayed)
  <2>1. /\ sysBubble' = (changed # {})
        /\ sysSaving' = IF changed = {} THEN sysSaving ELSE [stage |-> "sent", sends |-> Restrict(sysFields, changed)]
        /\ UNCHANGED <<sysStored, sysCategories, sysFilter, sysFields, sysDisplayed, sysLoads, sysTesting>>
    BY <1>12 DEF SaveSystemSettings
  <2>2. changed \in SUBSET DOMAIN sysFields
    BY DEF Edited
  <2>3. BubbleTellsOfEdits' <=> (changed \ {Icon} # {} => sysBubble')
    BY <2>1 DEF BubbleTellsOfEdits
  <2> HIDE DEF changed
  <2>4. Restrict(sysFields, changed) \in SettingValues
    BY <2>2, ValuesAre
  <2>5. sysSaving' \in SettingSaves
    BY <2>1, <2>4 DEF SettingSaves
  <2>6. sysBubble' \in BOOLEAN
    <3>1. (changed # {}) \in BOOLEAN
      OBVIOUS
    <3> QED
      BY <2>1, <3>1, Zenon
  <2>7. BubbleTellsOfEdits'
    BY <2>1, <2>3
  <2>8. InForce(sysFields, sysCategories, sysDisplayed)'
    BY <2>1 DEF InForce, On, ChosenEngine
  <2> QED
    BY <2>1, <2>5, <2>6, <2>7, <2>8
<1>13. CASE SettingsSaved
  <2>1. /\ sysSaving.stage = "sent" /\ sysStored' = Merged(sysSaving.sends)
        /\ sysSaving' = [stage |-> "reload"] /\ LoadFor("save", sysStored')
        /\ UNCHANGED <<sysCategories, sysFilter, sysFields, sysDisplayed, sysBubble, sysTesting>>
    BY <1>13 DEF SettingsSaved, sysForm
  <2>2. sysSaving.sends \in SettingValues
    BY <2>1 DEF SettingSaves
  <2>3. sysStored' \in [Setting -> Value]
    <3> DEFINE sends == sysSaving.sends
    <3>1. sends \in [DOMAIN sends -> Value]
      BY <2>2, ValuesAre
    <3> HIDE DEF sends
    <3>2. Merged(sends) \in [Setting -> Value]
      BY <3>1 DEF Merged
    <3> QED
      BY <2>1, <3>2 DEF sends
  <2> DEFINE stored == sysStored'
  <2> HIDE DEF stored
  <2>4. sysLoads' \subseteq SettingLoads /\ IsFiniteSet(sysLoads') /\ Cardinality(sysLoads') <= MaxSysLoads
    BY <1>2, <2>1, <2>3 DEF stored
  <2> QED
    BY <1>1, <1>5, <2>1, <2>3, <2>4
<1>14. CASE SettingsRefused
  <2>1. sysSaving' = [stage |-> "ready"]
        /\ UNCHANGED <<sysStored, sysCategories, sysFilter, sysFields, sysDisplayed, sysBubble, sysTesting, sysLoads>>
    BY <1>14 DEF SettingsRefused, sysForm
  <2> QED
    BY <1>1, <1>5, <2>1
<1>15. CASE TestSettings \/ TestAnswered
  <2>1. UNCHANGED <<sysStored, sysCategories, sysFilter, sysFields, sysDisplayed, sysBubble, sysSaving, sysLoads>>
        /\ (sysTesting' = TRUE \/ sysTesting' = FALSE)
    BY <1>15 DEF TestSettings, TestAnswered
  <2>2. sysTesting' \in BOOLEAN
    BY <2>1
  <2> QED
    BY <1>1, <2>1, <2>2
<1>16. ASSUME NEW v \in Value, GenerateVapidKeys(v) PROVE SystemSettingsInv'
  <2>1. sysStored' = [sysStored EXCEPT ![Keys] = v] /\ LoadFor("open", sysStored')
        /\ UNCHANGED <<sysCategories, sysFilter, sysFields, sysDisplayed, sysBubble, sysTesting, sysSaving>>
    BY <1>16 DEF GenerateVapidKeys, sysForm
  <2>2. sysStored' \in [Setting -> Value]
    BY <2>1
  <2> DEFINE stored == sysStored'
  <2> HIDE DEF stored
  <2>3. sysLoads' \subseteq SettingLoads /\ IsFiniteSet(sysLoads') /\ Cardinality(sysLoads') <= MaxSysLoads
    BY <1>2, <2>1, <2>2 DEF stored
  <2> QED
    BY <1>1, <2>1, <2>2, <2>3
<1>17. ASSUME NEW v \in Value, IconStored(v) PROVE SystemSettingsInv'
  <2>1. /\ Icon \in DOMAIN sysFields /\ sysStored' = [sysStored EXCEPT ![Icon] = v] /\ sysFields' = [sysFields EXCEPT ![Icon] = v]
        /\ UNCHANGED <<sysCategories, sysFilter, sysDisplayed, sysBubble, sysSaving, sysLoads, sysTesting>>
    BY <1>17 DEF IconStored
  <2>2. sysFields' \in SettingValues /\ DOMAIN sysFields' = DOMAIN sysFields /\ Range(sysFields') \subseteq Value
    <3>1. sysFields' \in SettingValues
      BY <2>1, ValuesAre
    <3> QED
      BY <2>1, <3>1, ValuesAre
  <2>3. \A j \in DOMAIN sysFields \ {Icon} : sysFields'[j] = sysFields[j]
    BY <2>1
  <2>4. InForce(sysFields, sysCategories, sysDisplayed)'
    <3>1. ChosenEngine(sysFields') = ChosenEngine(sysFields)
      BY <2>2, <2>3 DEF ChosenEngine
    <3>2. \A j \in Range(SwitchOf) :
             (On(IF j \in DOMAIN sysFields THEN sysFields ELSE sysCategories, j))'
               <=> On(IF j \in DOMAIN sysFields THEN sysFields ELSE sysCategories, j)
      BY <2>1, <2>2, <2>3 DEF On
    <3>3. \A d \in DOMAIN SwitchOf : SwitchOf[d] \in Range(SwitchOf)
      BY DEF Range
    <3>4. ASSUME NEW d \in sysDisplayed' \cap DOMAIN SwitchOf
          PROVE  /\ On(IF SwitchOf[d] \in DOMAIN sysFields' THEN sysFields' ELSE sysCategories', SwitchOf[d])
                 /\ d \in DOMAIN EngineOf => EngineOf[d] = ChosenEngine(sysFields')
      <4>1. d \in sysDisplayed \cap DOMAIN SwitchOf
        BY <2>1
      <4>2. /\ On(IF SwitchOf[d] \in DOMAIN sysFields THEN sysFields ELSE sysCategories, SwitchOf[d])
            /\ d \in DOMAIN EngineOf => EngineOf[d] = ChosenEngine(sysFields)
        BY <4>1 DEF InForce
      <4> QED
        BY <3>1, <3>2, <3>3, <4>1, <4>2 DEF On
    <3> QED
      BY <3>4 DEF InForce, On, ChosenEngine
  <2>5. BubbleTellsOfEdits'
    <3>1. Edited(sysCategories, sysFields', sysDisplayed) \ {Icon} = Edited(sysCategories, sysFields, sysDisplayed) \ {Icon}
      BY <2>3 DEF Edited
    <3> QED
      BY <2>1, <3>1 DEF BubbleTellsOfEdits
  <2>6. sysStored' \in [Setting -> Value]
    BY <2>1
  <2> QED
    BY <2>1, <2>2, <2>4, <2>5, <2>6
<1> QED
  BY <1>6, <1>7, <1>8, <1>9, <1>10, <1>11, <1>12, <1>13, <1>14, <1>15, <1>16, <1>17 DEF SystemSettingsNext

\* A step of another part leaves them.
LEMMA SystemSettingsStutter == ASSUME SystemSettingsInv, UNCHANGED systemSettingsVars PROVE SystemSettingsInv'
<1> USE DEF SystemSettingsInv
<1>1. UNCHANGED <<sysStored, sysCategories, sysFilter, sysFields, sysDisplayed, sysBubble, sysSaving, sysLoads, sysTesting>>
  BY DEF systemSettingsVars
<1>2. SystemSettingsTypeOK'
  BY <1>1 DEF SystemSettingsTypeOK
<1>3. BubbleTellsOfEdits'
  BY <1>1 DEF BubbleTellsOfEdits
<1>4. InForce(sysFields, sysCategories, sysDisplayed)'
  BY <1>1 DEF InForce, On, ChosenEngine
<1> QED
  BY <1>1, <1>2, <1>3, <1>4

\* What the invariant of the settings says of the form.
LEMMA SystemSettingsInvGives == SystemSettingsInv => SystemSettingsTypeOK /\ SystemSettingsSound
<1> SUFFICES ASSUME SystemSettingsInv PROVE SystemSettingsTypeOK /\ SystemSettingsSound
  OBVIOUS
<1>1. FieldsInForce
  BY DEF SystemSettingsInv, InForce, FieldsInForce
<1> QED
  BY <1>1 DEF SystemSettingsInv, SystemSettingsSound

-----------------------------------------------------------------------------
(* The tickets. *)
\* A closed window has no files but those of a reply, which its opening drops.  A comment whose
\* edit is drawn is the one that is edited, if any is.
TicketsInv ==
    /\ TicketsTypeOK /\ TicketsSound
    /\ IsFiniteSet(tkOpenings) /\ IsFiniteSet(tkCalls) /\ \A c \in tkCalls : c.of \in Ticket
    /\ ~tkOpen => tkFiles.description = {} /\ tkFiles.comment = {}
    /\ tkDrawn.comment /\ tkComment # NoTicket => tkDrawn.ticket = tkComment

\* The tickets start with no window open.
LEMMA TicketsInvInit == TicketsInit => TicketsInv
<1> SUFFICES ASSUME TicketsInit PROVE TicketsInv
  OBVIOUS
<1>1. IsFiniteSet({}) /\ Cardinality({}) = 0
  BY FS_EmptySet
<1>2. tkOpen \in BOOLEAN /\ tkOpen = FALSE
  BY Zenon DEF TicketsInit
<1>3. tkCreate \in [shown : BOOLEAN, sending : BOOLEAN]
  BY DEF TicketsInit
<1>4. tkFiles \in [{"reply", "description", "comment"} -> SUBSET PickedFile]
  BY DEF TicketsInit, NoFiles
<1>5. TicketsTypeOK
  BY <1>1, <1>2, <1>3, <1>4, TicketsAssumption DEF TicketsInit, TicketsTypeOK, Tickets0
<1> QED
  BY <1>1, <1>2, <1>5 DEF TicketsInit, TicketsInv, TicketsSound, NoFiles

\* What is drawn in place: the comment that is edited, if it is the ticket's.
LEMMA DrawnWell ==
    ASSUME TicketsInv, NEW t \in Tickets0, NEW field \in {"none", "title", "description"}, NEW comment \in Tickets0,
           tkComment' = comment, DetailDrawn(t, field, comment)
    PROVE  /\ tkCurrent' = t
           /\ tkDrawn' \in [ticket : Tickets0, field : {"none", "title", "description"}, comment : BOOLEAN]
           /\ tkDrawn'.comment /\ tkComment' # NoTicket => tkDrawn'.ticket = tkComment'
<1>1. (comment # NoTicket /\ comment = t) \in BOOLEAN
  OBVIOUS
<1> QED
  BY <1>1 DEF DetailDrawn

\* Every step of the tickets keeps the invariant.
LEMMA TicketsStep ==
    ASSUME TicketsInv, TicketsNext PROVE TicketsInv'
<1> USE TicketsAssumption DEF TicketsInv, TicketsTypeOK
<1>0. /\ \A o \in tkOpenings : IsFiniteSet(tkOpenings \ {o}) /\ Cardinality(tkOpenings \ {o}) <= MaxOpenings
      /\ \A c \in tkCalls : IsFiniteSet(tkCalls \ {c}) /\ Cardinality(tkCalls \ {c}) <= MaxTicketCalls
  BY OneLess
<1>1. CASE LoadTickets
  BY <1>1 DEF LoadTickets, tkEdit, TicketsSound
<1>2. ASSUME NEW b \in BOOLEAN, ShowCreate(b) PROVE TicketsInv'
  BY <1>2 DEF ShowCreate, tkEdit, TicketsSound
<1>3. CASE CreateTicket
  <2>1. tkCreate' \in [shown : BOOLEAN, sending : BOOLEAN]
    BY <1>3 DEF CreateTicket
  <2> QED
    BY <1>3, <2>1 DEF CreateTicket, tkEdit, TicketsSound
<1>4. CASE TicketCreated
  <2>1. tkCreate' \in [shown : BOOLEAN, sending : BOOLEAN]
    <3>1. tkCreate' = [shown |-> FALSE, sending |-> FALSE] \/ tkCreate' = [tkCreate EXCEPT !.sending = FALSE]
      BY <1>4 DEF TicketCreated
    <3>2. [shown |-> FALSE, sending |-> FALSE] \in [shown : BOOLEAN, sending : BOOLEAN]
      BY Zenon
    <3>3. [tkCreate EXCEPT !.sending = FALSE] \in [shown : BOOLEAN, sending : BOOLEAN]
      OBVIOUS
    <3> QED
      BY <3>1, <3>2, <3>3
  <2>2. tkStored' \subseteq Ticket /\ tkRows' \subseteq Ticket
    BY <1>4 DEF TicketCreated
  <2> QED
    BY <1>4, <2>1, <2>2 DEF TicketCreated, tkEdit, TicketsSound
<1>5. ASSUME NEW t \in Ticket, OpenTicketModal(t) PROVE TicketsInv'
  <2>1. IsFiniteSet(tkOpenings')
    BY <1>5, OneMore DEF OpenTicketModal
  <2>2. tkOpenings' \subseteq [of : Ticket, stage : {"asked", "filling"}]
    BY <1>5 DEF OpenTicketModal
  <2> QED
    BY <1>5, <2>1, <2>2 DEF OpenTicketModal, tkList, tkEdit, TicketsSound, Tickets0
<1>6. ASSUME NEW o \in tkOpenings, TicketArrives(o) PROVE TicketsInv'
  <2>1. IsFiniteSet(tkOpenings') /\ Cardinality(tkOpenings') <= MaxOpenings
    BY <1>0, <1>6, OneForAnother DEF TicketArrives
  <2>2. o.of \in Ticket
    OBVIOUS
  <2>3. tkOpenings' \subseteq [of : Ticket, stage : {"asked", "filling"}]
    BY <1>6, <2>2 DEF TicketArrives
  <2> QED
    BY <1>6, <2>1, <2>2, <2>3 DEF TicketArrives, tkList, TicketsSound, Tickets0
<1>7. ASSUME NEW o \in tkOpenings, TicketFails(o) PROVE TicketsInv'
  BY <1>0, <1>7 DEF TicketFails, tkList, tkEdit, TicketsSound
<1>8. ASSUME NEW o \in tkOpenings, WindowFilled(o) PROVE TicketsInv'
  <2>1. o.of \in Tickets0
    BY DEF Tickets0
  <2>2. /\ tkCurrent' = o.of
        /\ tkDrawn' \in [ticket : Tickets0, field : {"none", "title", "description"}, comment : BOOLEAN]
        /\ tkDrawn'.comment /\ tkComment' # NoTicket => tkDrawn'.ticket = tkComment'
    BY <1>8, <2>1, DrawnWell DEF WindowFilled
  <2>3. /\ tkFiles' \in [{"reply", "description", "comment"} -> SUBSET PickedFile]
        /\ tkFiles'.reply = {} /\ tkFiles'.description = tkFiles.description /\ tkFiles'.comment = tkFiles.comment
    BY <1>8 DEF WindowFilled, FreshReply
  <2>4. TicketsSound'
    BY <1>8, <2>3 DEF WindowFilled, TicketsSound
  <2>5. tkOpen' \in BOOLEAN /\ tkOpen'
    BY <1>8, Zenon DEF WindowFilled
  <2> QED
    BY <1>0, <1>8, <2>1, <2>2, <2>3, <2>4, <2>5 DEF WindowFilled, tkList
<1>9. ASSUME WindowClosed(tkFiles)
      PROVE  /\ tkOpen' \in BOOLEAN /\ ~tkOpen' /\ tkEditing' \in Tickets0 /\ tkCurrent' \in Tickets0 /\ tkComment' \in Tickets0
             /\ tkField' \in {"none", "title", "description"} /\ tkComment' = NoTicket
             /\ tkFiles' \in [{"reply", "description", "comment"} -> SUBSET PickedFile]
             /\ tkFiles'.description = {} /\ tkFiles'.comment = {}
  <2>1. tkOpen' \in BOOLEAN /\ ~tkOpen'
    BY <1>9, Zenon DEF WindowClosed
  <2> QED
    BY <1>9, <2>1 DEF WindowClosed, NoFiles, Tickets0
<1>10. CASE CloseTicketModal
  BY <1>9, <1>10 DEF CloseTicketModal, tkList, TicketsSound
<1>11. ASSUME NEW field \in {"none", "title", "description"}, NEW comment \in Tickets0, tkComment' = comment,
              DetailRedrawn(field, comment), tkCurrent = NoTicket => ~(tkDrawn.comment /\ comment # NoTicket) \/ comment = tkComment
       PROVE  /\ tkCurrent' \in Tickets0
              /\ tkDrawn' \in [ticket : Tickets0, field : {"none", "title", "description"}, comment : BOOLEAN]
              /\ tkDrawn'.comment /\ tkComment' # NoTicket => tkDrawn'.ticket = tkComment'
  BY <1>11, DrawnWell DEF DetailRedrawn
<1>12. ASSUME NEW field \in {"title", "description"}, StartFieldEdit(field) PROVE TicketsInv'
  <2>1. /\ tkCurrent' \in Tickets0
        /\ tkDrawn' \in [ticket : Tickets0, field : {"none", "title", "description"}, comment : BOOLEAN]
        /\ tkDrawn'.comment /\ tkComment' # NoTicket => tkDrawn'.ticket = tkComment'
    BY <1>11, <1>12 DEF StartFieldEdit
  <2>2. /\ tkFiles' \in [{"reply", "description", "comment"} -> SUBSET PickedFile]
        /\ \A bucket \in DOMAIN tkFiles : tkFiles'[bucket] \subseteq tkFiles[bucket]
    BY <1>12 DEF StartFieldEdit
  <2>3. TicketsSound'
    BY <1>12, <2>2 DEF StartFieldEdit, TicketsSound
  <2> QED
    BY <1>12, <2>1, <2>2, <2>3 DEF StartFieldEdit, tkList
<1>13. CASE CancelFieldEdit
  <2>1. /\ tkCurrent' \in Tickets0
        /\ tkDrawn' \in [ticket : Tickets0, field : {"none", "title", "description"}, comment : BOOLEAN]
        /\ tkDrawn'.comment /\ tkComment' # NoTicket => tkDrawn'.ticket = tkComment'
    BY <1>11, <1>13 DEF CancelFieldEdit
  <2>2. /\ tkFiles' \in [{"reply", "description", "comment"} -> SUBSET PickedFile]
        /\ \A bucket \in DOMAIN tkFiles : tkFiles'[bucket] \subseteq tkFiles[bucket]
    BY <1>13 DEF CancelFieldEdit
  <2>3. TicketsSound'
    BY <1>13, <2>2 DEF CancelFieldEdit, TicketsSound
  <2> QED
    BY <1>13, <2>1, <2>2, <2>3 DEF CancelFieldEdit, tkList
<1>14. ASSUME NEW comment \in Tickets0, EditComment(comment) PROVE TicketsInv'
  <2>1. comment # NoTicket => ~tkDrawn.comment
    BY <1>14 DEF EditComment
  <2>2. /\ tkCurrent' \in Tickets0
        /\ tkDrawn' \in [ticket : Tickets0, field : {"none", "title", "description"}, comment : BOOLEAN]
        /\ tkDrawn'.comment /\ tkComment' # NoTicket => tkDrawn'.ticket = tkComment'
    BY <1>11, <1>14, <2>1 DEF EditComment
  <2>3. /\ tkFiles' \in [{"reply", "description", "comment"} -> SUBSET PickedFile] /\ tkFiles'.comment = {}
        /\ \A bucket \in DOMAIN tkFiles : tkFiles'[bucket] \subseteq tkFiles[bucket]
    BY <1>14 DEF EditComment
  <2>4. TicketsSound'
    BY <1>14, <2>3 DEF EditComment, TicketsSound
  <2> QED
    BY <1>14, <2>2, <2>3, <2>4 DEF EditComment, tkList
<1>15. ASSUME NEW bucket \in {"reply", "description", "comment"}, AddFile(bucket) PROVE TicketsInv'
  <2> DEFINE file == [ticket |-> tkEditing, comment |-> IF bucket = "comment" THEN tkDrawn.ticket ELSE NoTicket]
  <2>1. /\ tkOpen /\ (bucket = "comment" => tkDrawn.comment)
        /\ tkFiles' = [tkFiles EXCEPT ![bucket] = @ \cup {file}]
        /\ UNCHANGED <<tkList, tkEditing, tkOpenings, tkOpen, tkEdit, tkCalls>>
    BY <1>15 DEF AddFile
  <2>2. file \in PickedFile
    BY DEF PickedFile, Tickets0
  <2>3. file.ticket = tkEditing /\ (bucket = "comment" /\ tkComment # NoTicket => file.comment = tkComment)
    BY <2>1
  <2> HIDE DEF file
  <2>4. tkFiles' \in [{"reply", "description", "comment"} -> SUBSET PickedFile]
    BY <2>1, <2>2
  <2>5. TicketsSound'
    BY <2>1, <2>3 DEF TicketsSound, tkEdit
  <2> QED
    BY <2>1, <2>4, <2>5 DEF tkList, tkEdit
<1>16. ASSUME NEW what \in {"save", "reply", "title", "description", "comment", "detach"}, AskOfTicket(what)
       PROVE  TicketsInv'
  <2>1. IsFiniteSet(tkCalls')
    BY <1>16, OneMore DEF AskOfTicket
  <2>2. \A c \in tkCalls' : c.of \in Ticket
    BY <1>16 DEF AskOfTicket, Tickets0
  <2> QED
    BY <1>16, <2>1, <2>2 DEF AskOfTicket, tkList, tkEdit, TicketsSound
<1>17. ASSUME NEW c \in tkCalls, TicketCallFails(c) PROVE TicketsInv'
  BY <1>0, <1>17 DEF TicketCallFails, tkList, tkEdit, TicketsSound
<1>18. ASSUME NEW c \in tkCalls, ReplyAnswered(c) PROVE TicketsInv'
  <2>1. c.of \in Tickets0 /\ tkRows' \subseteq Ticket /\ tkCalls' = tkCalls \ {c}
    BY <1>18 DEF ReplyAnswered, TicketAnswered, Tickets0
  <2>2. /\ tkCurrent' = c.of
        /\ tkDrawn' \in [ticket : Tickets0, field : {"none", "title", "description"}, comment : BOOLEAN]
        /\ tkDrawn'.comment /\ tkComment' # NoTicket => tkDrawn'.ticket = tkComment'
    BY <1>18, <2>1, DrawnWell DEF ReplyAnswered
  <2>3. /\ tkFiles' \in [{"reply", "description", "comment"} -> SUBSET PickedFile]
        /\ \A bucket \in DOMAIN tkFiles : tkFiles'[bucket] \subseteq tkFiles[bucket]
    BY <1>18 DEF ReplyAnswered, FreshReply
  <2>4. TicketsSound'
    BY <1>18, <2>3 DEF ReplyAnswered, TicketsSound
  <2> QED
    BY <1>0, <1>18, <2>1, <2>2, <2>3, <2>4 DEF ReplyAnswered
<1>19. ASSUME NEW c \in tkCalls, AttributesSaved(c) PROVE TicketsInv'
  <2>1. c.of \in Tickets0 /\ tkRows' \subseteq Ticket /\ tkCalls' = tkCalls \ {c}
    BY <1>19 DEF AttributesSaved, TicketAnswered, Tickets0
  <2>2. tkDrawn' \in [ticket : Tickets0, field : {"none", "title", "description"}, comment : BOOLEAN]
    <3>1. (tkComment = c.of) \in BOOLEAN
      OBVIOUS
    <3> QED
      BY <1>19, <2>1, <3>1 DEF AttributesSaved
  <2> QED
    BY <1>0, <1>9, <1>19, <2>1, <2>2 DEF AttributesSaved, TicketsSound
<1>20. ASSUME NEW c \in tkCalls, CommentSaved(c) PROVE TicketsInv'
  <2>1. c.of \in Tickets0 /\ tkRows' \subseteq Ticket /\ tkCalls' = tkCalls \ {c} /\ NoTicket \in Tickets0
    BY <1>20 DEF CommentSaved, TicketAnswered, Tickets0
  <2>2. /\ tkCurrent' = c.of
        /\ tkDrawn' \in [ticket : Tickets0, field : {"none", "title", "description"}, comment : BOOLEAN]
        /\ tkDrawn'.comment /\ tkComment' # NoTicket => tkDrawn'.ticket = tkComment'
    BY <1>20, <2>1, DrawnWell DEF CommentSaved
  <2>3. /\ tkFiles' \in [{"reply", "description", "comment"} -> SUBSET PickedFile] /\ tkFiles'.comment = {}
        /\ \A bucket \in DOMAIN tkFiles : tkFiles'[bucket] \subseteq tkFiles[bucket]
    BY <1>20 DEF CommentSaved
  <2>4. TicketsSound'
    BY <1>20, <2>3 DEF CommentSaved, TicketsSound
  <2> QED
    BY <1>0, <1>20, <2>1, <2>2, <2>3, <2>4 DEF CommentSaved
<1>21. ASSUME NEW c \in tkCalls, FieldSaved(c) PROVE TicketsInv'
  <2>1. c.of \in Tickets0 /\ tkRows' \subseteq Ticket /\ tkCalls' = tkCalls \ {c}
    BY <1>21 DEF FieldSaved, Tickets0
  <2>2. /\ tkCurrent' \in Tickets0
        /\ tkDrawn' \in [ticket : Tickets0, field : {"none", "title", "description"}, comment : BOOLEAN]
        /\ tkDrawn'.comment /\ tkComment' # NoTicket => tkDrawn'.ticket = tkComment'
    BY <1>21, <2>1, DrawnWell DEF FieldSaved
  <2>3. /\ tkFiles' \in [{"reply", "description", "comment"} -> SUBSET PickedFile]
        /\ \A bucket \in DOMAIN tkFiles : tkFiles'[bucket] \subseteq tkFiles[bucket]
    BY <1>21 DEF FieldSaved
  <2>4. TicketsSound'
    BY <1>21, <2>3 DEF FieldSaved, TicketsSound
  <2> QED
    BY <1>0, <1>21, <2>1, <2>2, <2>3, <2>4 DEF FieldSaved
<1> QED
  BY <1>1, <1>2, <1>3, <1>4, <1>5, <1>6, <1>7, <1>8, <1>10, <1>12, <1>13, <1>14, <1>15, <1>16, <1>17, <1>18, <1>19,
     <1>20, <1>21 DEF TicketsNext

\* A step of another part leaves it.
LEMMA TicketsStutter == ASSUME TicketsInv, UNCHANGED ticketsVars PROVE TicketsInv'
BY DEF TicketsInv, TicketsTypeOK, TicketsSound, ticketsVars

-----------------------------------------------------------------------------
(* The route planner. *)
PlannerCalls ==
    [kind : {"get", "save", "delete"}, route : PlannedRoute \cup {NoPlanned}, stops : PlannedStops,
     status : {"none", "planned"}, seen : Status \cup {"unchecked"}]
PlannerCallsWell ==
    \A call \in rpCalls : call.kind = "save" => /\ Len(call.stops) >= 2
                                                /\ call.route = NoPlanned => call.status = "planned"
RoutePlannerInv ==
    /\ RoutePlannerTypeOK /\ RoutePlannerSound
    /\ rpGeometry \in {NoPlanned, rpSignature}
    /\ rpTimer \in PlannedStops \cup {NoPlanned} /\ rpPreviews \in SUBSET PlannedStops
    /\ rpCalls \subseteq PlannerCalls /\ PlannerCallsWell /\ IsFiniteSet(rpCalls)

\* No stops are a list of stops, and a list of stops is a sequence.
LEMMA StopsAre ==
    /\ <<>> \in PlannedStops
    /\ \A stops \in PlannedStops : stops \in Seq(Place)
<1>1. <<>> \in [1..0 -> Place] /\ 0 \in 0..MaxPlannedStops
  BY RoutePlannerAssumption
<1>2. IsInjective(<<>>)
  BY DEF IsInjective
<1>3. <<>> \in PlannedStops
  BY <1>1, <1>2 DEF PlannedStops
<1>4. \A stops \in PlannedStops : stops \in Seq(Place)
  BY RoutePlannerAssumption DEF PlannedStops
<1> QED
  BY <1>3, <1>4

\* The planner starts with its invariant.
LEMMA RoutePlannerInvInit == RoutePlannerInit => RoutePlannerInv
<1> SUFFICES ASSUME RoutePlannerInit PROVE RoutePlannerInv
  OBVIOUS
<1>1. /\ DOMAIN plannedRoutes \subseteq PlannedRoute
      /\ \A r \in DOMAIN plannedRoutes : plannedRoutes[r] \in Planned /\ plannedRoutes[r].status = "planned"
  BY DEF RoutePlannerInit
<1>2. DOMAIN rpTable \subseteq PlannedRoute /\ \A r \in DOMAIN rpTable : rpTable[r] \in Status
  BY <1>1 DEF RoutePlannerInit, Status
<1>3. IsFiniteSet(rpCalls) /\ Cardinality(rpCalls) <= MaxPlannerCalls
  BY FS_EmptySet, RoutePlannerAssumption DEF RoutePlannerInit
<1>4. rpStops \in PlannedStops /\ Len(rpStops) = 0
  BY StopsAre, EmptySeq DEF RoutePlannerInit
<1>5. {rpOpen, rpReadonly} \subseteq BOOLEAN /\ rpEditing \in PlannedRoute \cup {NoPlanned} /\ rpPreviews = {}
  BY DEF RoutePlannerInit
<1>6. RoutePlannerTypeOK
  BY <1>1, <1>2, <1>3, <1>4, <1>5 DEF RoutePlannerTypeOK
<1>7. RoutePlannerSound
  BY <1>4 DEF RoutePlannerInit, RoutePlannerSound
<1>8. rpCalls = {} /\ PlannerCallsWell
  BY DEF RoutePlannerInit, PlannerCallsWell
<1>9. rpGeometry = NoPlanned /\ rpTimer = NoPlanned
  BY DEF RoutePlannerInit
<1> QED
  BY <1>3, <1>5, <1>6, <1>7, <1>8, <1>9 DEF RoutePlannerInv

\* A map that is refreshed shows the stops of the form, and no line of other stops.
LEMMA MapIsOfStops ==
    ASSUME NEW stops \in PlannedStops, NEW geometry, NEW signature, PlannerMap(stops, geometry, signature),
           geometry \in {NoPlanned, signature}
    PROVE  /\ rpStops' \in PlannedStops /\ rpDrawn'.stops = rpStops'
           /\ rpDrawn'.line = IF Len(rpStops') < 2 THEN <<>> ELSE rpStops'
           /\ rpGeometry' \in {NoPlanned, rpSignature'}
<1>1. /\ rpStops' = stops /\ rpGeometry' = geometry /\ rpSignature' = signature
      /\ rpDrawn'.stops = stops /\ rpDrawn'.line = PlannedLine(stops, geometry, signature)
  BY DEF PlannerMap
<1>2. PlannedLine(stops, geometry, signature) = IF Len(stops) < 2 THEN <<>> ELSE stops
  BY DEF PlannedLine
<1> QED
  BY <1>1, <1>2

\* What is asked of the server is a call of the planner.
LEMMA PlannerAsksWell ==
    ASSUME RoutePlannerInv, NEW call \in PlannerCalls, PlannerAsks(call),
           call.kind = "save" => Len(call.stops) >= 2 /\ (call.route = NoPlanned => call.status = "planned")
    PROVE  /\ rpCalls' \subseteq PlannerCalls /\ PlannerCallsWell' /\ IsFiniteSet(rpCalls')
           /\ Cardinality(rpCalls') <= MaxPlannerCalls
<1>1. IsFiniteSet(rpCalls')
  BY OneMore DEF RoutePlannerInv, PlannerAsks
<1>2. PlannerCallsWell'
  BY DEF PlannerCallsWell, RoutePlannerInv, PlannerAsks
<1> QED
  BY <1>1, <1>2 DEF RoutePlannerInv, PlannerAsks

\* An answer takes its call away.
LEMMA AnsweredWell ==
    ASSUME RoutePlannerInv, NEW call \in rpCalls, rpCalls' = rpCalls \ {call}
    PROVE  /\ rpCalls' \subseteq PlannerCalls /\ PlannerCallsWell' /\ IsFiniteSet(rpCalls')
           /\ Cardinality(rpCalls') <= MaxPlannerCalls
<1>1. MaxPlannerCalls \in Nat /\ IsFiniteSet(rpCalls) /\ Cardinality(rpCalls) <= MaxPlannerCalls
  BY RoutePlannerAssumption DEF RoutePlannerInv, RoutePlannerTypeOK
<1>2. IsFiniteSet(rpCalls') /\ Cardinality(rpCalls') <= MaxPlannerCalls
  BY <1>1, OneLess
<1>3. PlannerCallsWell'
  BY DEF PlannerCallsWell, RoutePlannerInv
<1> QED
  BY <1>2, <1>3 DEF RoutePlannerInv

\* The routes at the server are well formed, and the table has a status for each of its rows.
RoutesWell ==
    /\ DOMAIN plannedRoutes \subseteq PlannedRoute /\ \A r \in DOMAIN plannedRoutes : plannedRoutes[r] \in Planned
    /\ DOMAIN rpTable \subseteq PlannedRoute /\ \A r \in DOMAIN rpTable : rpTable[r] \in Status
\* The window, its form and its map.
FormWell ==
    /\ {rpOpen, rpReadonly} \subseteq BOOLEAN /\ rpEditing \in PlannedRoute \cup {NoPlanned} /\ rpStops \in PlannedStops
    /\ RoutePlannerSound /\ rpGeometry \in {NoPlanned, rpSignature}
PreviewsWell == rpTimer \in PlannedStops \cup {NoPlanned} /\ rpPreviews \in SUBSET PlannedStops
CallsWell ==
    /\ rpCalls \subseteq PlannerCalls /\ PlannerCallsWell /\ IsFiniteSet(rpCalls)
    /\ Cardinality(rpCalls) <= MaxPlannerCalls

\* The invariant of the planner is that its four parts are well formed.
LEMMA PlannerParts == RoutePlannerInv <=> RoutesWell /\ FormWell /\ PreviewsWell /\ CallsWell
BY DEF RoutePlannerInv, RoutePlannerTypeOK, RoutesWell, FormWell, PreviewsWell, CallsWell

\* The same of the next state.
LEMMA PlannerPartsNext == RoutePlannerInv' <=> RoutesWell' /\ FormWell' /\ PreviewsWell' /\ CallsWell'
BY DEF RoutePlannerInv, RoutePlannerTypeOK, RoutesWell, FormWell, PreviewsWell, CallsWell

\* A form that is cleared has no route, no stops and no line.
LEMMA ClearedWell == ASSUME PlannerCleared, rpOpen' \in BOOLEAN PROVE FormWell'
<1>1. <<>> \in PlannedStops
  BY StopsAre
<1>2. rpEditing' = NoPlanned /\ rpReadonly' = FALSE /\ PlannerMap(<<>>, NoPlanned, <<>>)
  BY DEF PlannerCleared
<1>3. /\ rpStops' \in PlannedStops /\ rpDrawn'.stops = rpStops'
      /\ rpDrawn'.line = IF Len(rpStops') < 2 THEN <<>> ELSE rpStops'
      /\ rpGeometry' \in {NoPlanned, rpSignature'}
  BY <1>1, <1>2, MapIsOfStops
<1>4. RoutePlannerSound'
  BY <1>2, <1>3 DEF RoutePlannerSound
<1> QED
  BY <1>2, <1>3, <1>4 DEF FormWell

\* A preview that is scheduled is of the stops it was scheduled for.
LEMMA PreviewWell ==
    ASSUME PreviewsWell, NEW stops \in PlannedStops, PlannerPreview(stops) PROVE PreviewsWell'
BY DEF PreviewsWell, PlannerPreview

\* Every edit of the stops leaves map and line those of the new stops.
LEMMA EditedWell ==
    ASSUME RoutePlannerInv, NEW stops, StopsEdited(stops) PROVE RoutePlannerInv'
<1>1. RoutesWell /\ FormWell /\ PreviewsWell /\ CallsWell
  BY PlannerParts
<1>2. stops \in PlannedStops /\ PlannerMap(stops, rpGeometry, rpSignature) /\ PlannerPreview(stops)
  BY DEF StopsEdited
<1>3. /\ rpStops' \in PlannedStops /\ rpDrawn'.stops = rpStops'
      /\ rpDrawn'.line = IF Len(rpStops') < 2 THEN <<>> ELSE rpStops'
      /\ rpGeometry' \in {NoPlanned, rpSignature'}
  BY <1>1, <1>2, MapIsOfStops DEF FormWell
<1>4. RoutePlannerSound'
  BY <1>1, <1>3 DEF StopsEdited, RoutePlannerSound, FormWell
<1>5. FormWell'
  BY <1>1, <1>3, <1>4 DEF FormWell, StopsEdited
<1>6. PreviewsWell'
  BY <1>1, <1>2, PreviewWell
<1>7. RoutesWell' /\ CallsWell'
  BY <1>1 DEF StopsEdited, RoutesWell, CallsWell, PlannerCallsWell
<1> QED
  BY <1>5, <1>6, <1>7, PlannerPartsNext

\* What a successful call leaves: no call, a closed window and a cleared form.
LEMMA DoneWell ==
    ASSUME RoutePlannerInv, NEW call \in rpCalls, PlannerDone(call) PROVE FormWell' /\ CallsWell'
<1>1. rpCalls' = rpCalls \ {call} /\ rpOpen' = FALSE /\ PlannerCleared
  BY DEF PlannerDone
<1>2. FormWell'
  BY <1>1, ClearedWell
<1>3. CallsWell'
  BY <1>1, AnsweredWell DEF CallsWell
<1> QED
  BY <1>2, <1>3

\* Every step of the planner keeps its invariant.
LEMMA RoutePlannerStep == ASSUME RoutePlannerInv, RoutePlannerNext PROVE RoutePlannerInv'
<1>0. RoutesWell /\ FormWell /\ PreviewsWell /\ CallsWell
  BY PlannerParts
<1>t. {rpOpen, rpReadonly} \subseteq BOOLEAN /\ rpOpen \in BOOLEAN
  BY <1>0 DEF FormWell
<1>s. <<>> \in PlannedStops
  BY StopsAre
<1>1. ASSUME NEW r \in DOMAIN rpTable \cup {NoPlanned}, OpenPlannedRoute(r) PROVE RoutePlannerInv'
  <2>1. RoutesWell' /\ PreviewsWell'
    BY <1>0, <1>1 DEF OpenPlannedRoute, rpPreviewing, RoutesWell, PreviewsWell
  <2>2. r \in PlannedRoute \cup {NoPlanned} /\ rpOpen' = TRUE
    BY <1>0, <1>1 DEF RoutesWell, OpenPlannedRoute
  <2>3. CASE r = NoPlanned
    <3>1. FormWell'
      BY <1>1, <2>2, <2>3, ClearedWell DEF OpenPlannedRoute
    <3>2. CallsWell'
      BY <1>0, <1>1, <2>3 DEF OpenPlannedRoute, CallsWell, PlannerCallsWell
    <3> QED
      BY <2>1, <3>1, <3>2, PlannerPartsNext
  <2>4. CASE r # NoPlanned
    <3> DEFINE call == [PlannerCall("get", r) EXCEPT !.stops = <<>>]
    <3>1. call \in PlannerCalls /\ call.kind = "get"
      BY <1>0, <1>s, <2>2 DEF PlannerCall, PlannerCalls, FormWell
    <3>2. PlannerAsks(call) /\ UNCHANGED rpForm
      BY <1>1, <2>4 DEF OpenPlannedRoute
    <3> HIDE DEF call
    <3>3. CallsWell'
      BY <3>1, <3>2, PlannerAsksWell DEF CallsWell
    <3>4. FormWell'
      BY <1>0, <2>2, <3>2 DEF FormWell, rpForm, RoutePlannerSound
    <3> QED
      BY <2>1, <3>3, <3>4, PlannerPartsNext
  <2> QED
    BY <2>3, <2>4
<1>2. CASE AddStop \/ DragStop \/ RemoveStop \/ MoveStop
  <2>1. PICK stops : StopsEdited(stops)
    BY <1>2 DEF AddStop, DragStop, RemoveStop, MoveStop
  <2> QED
    BY <2>1, EditedWell
<1>3. CASE NewRoute
  <2>1. FormWell'
    BY <1>t, <1>3, ClearedWell DEF NewRoute
  <2> QED
    BY <1>0, <1>3, <2>1, PlannerPartsNext DEF NewRoute, rpPreviewing, RoutesWell, PreviewsWell, CallsWell, PlannerCallsWell
<1>4. CASE ClosePlanner
  <2>1. FormWell'
    BY <1>0, <1>4 DEF ClosePlanner, rpForm, FormWell, RoutePlannerSound
  <2> QED
    BY <1>0, <1>4, <2>1, PlannerPartsNext
    DEF ClosePlanner, rpPreviewing, RoutesWell, PreviewsWell, CallsWell, PlannerCallsWell
\* A save or a delete is asked for, and nothing else changes.
<1>5. ASSUME NEW call \in PlannerCalls, PlannerAsks(call),
             call.kind = "save" => Len(call.stops) >= 2 /\ (call.route = NoPlanned => call.status = "planned"),
             UNCHANGED <<plannedRoutes, rpTable, rpOpen, rpForm, rpPreviewing>>
      PROVE  RoutePlannerInv'
  <2>1. CallsWell'
    BY <1>5, PlannerAsksWell DEF CallsWell
  <2> QED
    BY <1>0, <1>5, <2>1, PlannerPartsNext
    DEF rpForm, rpPreviewing, RoutesWell, PreviewsWell, FormWell, RoutePlannerSound
<1>6. CASE SavePlannedRoute
  <2> DEFINE inTable == IF rpEditing \in DOMAIN rpTable THEN rpTable[rpEditing] ELSE "planned"
             status == IF inTable = "planned" THEN "planned" ELSE "none"
             call == [PlannerCall("save", rpEditing) EXCEPT !.status = status]
  <2>1. Len(rpStops) >= 2 /\ PlannerAsks(call) /\ UNCHANGED <<plannedRoutes, rpTable, rpOpen, rpForm, rpPreviewing>>
    BY <1>6 DEF SavePlannedRoute
  <2>2. status \in {"none", "planned"} /\ rpEditing \in PlannedRoute \cup {NoPlanned}
    BY <1>0 DEF FormWell
  <2>3. rpEditing = NoPlanned => status = "planned"
    BY <1>0, RoutePlannerAssumption DEF RoutesWell
  <2> HIDE DEF status
  <2>4. call \in PlannerCalls /\ call.kind = "save" /\ call.route = rpEditing /\ call.stops = rpStops /\ call.status = status
    BY <1>0, <2>2 DEF PlannerCall, PlannerCalls, FormWell
  <2> HIDE DEF call
  <2> QED
    BY <1>5, <2>1, <2>3, <2>4
<1>7. CASE DeletePlannedRoute
  <2> DEFINE call == [PlannerCall("delete", rpEditing) EXCEPT !.stops = <<>>]
  <2>1. PlannerAsks(call) /\ UNCHANGED <<plannedRoutes, rpTable, rpOpen, rpForm, rpPreviewing>>
    BY <1>7 DEF DeletePlannedRoute
  <2>2. call \in PlannerCalls /\ call.kind = "delete"
    BY <1>0, <1>s DEF PlannerCall, PlannerCalls, FormWell
  <2> HIDE DEF call
  <2> QED
    BY <1>5, <2>1, <2>2
<1>8. CASE RoutesListed
  <2>1. RoutesWell'
    BY <1>0, <1>8 DEF RoutesListed, RoutesWell, Planned
  <2> QED
    BY <1>0, <1>8, <2>1, PlannerPartsNext
    DEF RoutesListed, rpForm, rpPreviewing, PreviewsWell, FormWell, RoutePlannerSound, CallsWell, PlannerCallsWell
<1>9. CASE PlannerPreviewAsked
  <2>1. PreviewsWell'
    BY <1>0, <1>9 DEF PlannerPreviewAsked, PreviewsWell
  <2> QED
    BY <1>0, <1>9, <2>1, PlannerPartsNext
    DEF PlannerPreviewAsked, rpForm, RoutesWell, FormWell, RoutePlannerSound, CallsWell, PlannerCallsWell
<1>10. ASSUME NEW stops \in rpPreviews, PlannerPreviewArrives(stops) PROVE RoutePlannerInv'
  <2>1. stops \in PlannedStops
    BY <1>0 DEF PreviewsWell
  <2>2. PreviewsWell'
    BY <1>0, <1>10 DEF PlannerPreviewArrives, PreviewsWell
  <2>3. RoutesWell' /\ CallsWell'
    BY <1>0, <1>10 DEF PlannerPreviewArrives, RoutesWell, CallsWell, PlannerCallsWell
  <2>4. CASE UNCHANGED rpForm
    <3>1. FormWell'
      BY <1>0, <1>10, <2>4 DEF PlannerPreviewArrives, rpForm, FormWell, RoutePlannerSound
    <3> QED
      BY <2>2, <2>3, <3>1, PlannerPartsNext
  <2>5. CASE PlannerMap(rpStops, stops, stops) /\ UNCHANGED <<rpEditing, rpReadonly>>
    <3>0. rpStops \in PlannedStops
      BY <1>0 DEF FormWell
    <3>1. /\ rpStops' \in PlannedStops /\ rpDrawn'.stops = rpStops'
          /\ rpDrawn'.line = IF Len(rpStops') < 2 THEN <<>> ELSE rpStops'
          /\ rpGeometry' \in {NoPlanned, rpSignature'}
      BY <2>5, <3>0, MapIsOfStops
    <3>2. RoutePlannerSound'
      <4>1. rpReadonly' => rpEditing' # NoPlanned
        BY <1>0, <2>5 DEF FormWell, RoutePlannerSound
      <4> QED
        BY <3>1, <4>1 DEF RoutePlannerSound
    <3>3. FormWell'
      BY <1>0, <1>10, <2>5, <3>1, <3>2 DEF PlannerPreviewArrives, FormWell
    <3> QED
      BY <2>2, <2>3, <3>3, PlannerPartsNext
  <2> QED
    BY <1>10, <2>4, <2>5 DEF PlannerPreviewArrives
<1>11. ASSUME NEW r \in DOMAIN rpTable, SetPlannedStatus(r) PROVE RoutePlannerInv'
  <2>1. plannedRoutes[r] \in Planned /\ Offered(rpTable[r]) \in Status
    BY <1>0, <1>11 DEF SetPlannedStatus, RoutesWell, Offered, Status
  <2>2. RoutesWell'
    BY <1>0, <1>11, <2>1 DEF SetPlannedStatus, RoutesWell, Planned
  <2> QED
    BY <1>0, <1>11, <2>2, PlannerPartsNext
    DEF SetPlannedStatus, rpForm, rpPreviewing, PreviewsWell, FormWell, RoutePlannerSound, CallsWell, PlannerCallsWell
<1>12. ASSUME NEW call \in rpCalls, RouteArrives(call) PROVE RoutePlannerInv'
  <2> DEFINE route == plannedRoutes[call.route]
  <2>1. call.route \in PlannedRoute /\ route \in Planned /\ route.stops \in PlannedStops
    BY <1>0, <1>12 DEF RouteArrives, RoutesWell, Planned
  <2>2. PICK geometry \in {NoPlanned, route.stops} : PlannerMap(route.stops, geometry, route.stops)
    BY <1>12 DEF RouteArrives
  <2>3. PlannerPreview(route.stops) /\ rpEditing' = call.route /\ rpReadonly' = (route.status = "active")
    BY <1>12 DEF RouteArrives
  <2>4. rpReadonly' \in BOOLEAN
    <3>1. (route.status = "active") \in BOOLEAN
      OBVIOUS
    <3> QED
      BY <2>3, <3>1, Zenon
  <2> HIDE DEF route
  <2>5. /\ rpStops' \in PlannedStops /\ rpDrawn'.stops = rpStops'
        /\ rpDrawn'.line = IF Len(rpStops') < 2 THEN <<>> ELSE rpStops'
        /\ rpGeometry' \in {NoPlanned, rpSignature'}
    BY <2>1, <2>2, MapIsOfStops
  <2>6. rpEditing' # NoPlanned
    BY <2>1, <2>3, RoutePlannerAssumption
  <2>7. RoutePlannerSound'
    BY <2>5, <2>6 DEF RoutePlannerSound
  <2>8. {rpOpen', rpReadonly'} \subseteq BOOLEAN
    BY <1>t, <1>12, <2>4 DEF RouteArrives
  <2>9. FormWell'
    BY <2>1, <2>3, <2>5, <2>7, <2>8 DEF FormWell
  <2>10. PreviewsWell'
    BY <1>0, <2>1, <2>3, PreviewWell
  <2>11. CallsWell'
    BY <1>12, AnsweredWell DEF RouteArrives, CallsWell
  <2>12. RoutesWell'
    BY <1>0, <1>12 DEF RouteArrives, RoutesWell
  <2> QED
    BY <2>9, <2>10, <2>11, <2>12, PlannerPartsNext
<1>13. ASSUME NEW call \in rpCalls, UpdateChecked(call) PROVE RoutePlannerInv'
  <2> DEFINE checked == [call EXCEPT !.seen = plannedRoutes[call.route].status]
  <2>1. call \in PlannerCalls /\ plannedRoutes[call.route] \in Planned
    BY <1>0, <1>13 DEF CallsWell, UpdateChecked, RoutesWell
  <2>2. /\ checked \in PlannerCalls /\ checked.kind = call.kind /\ checked.stops = call.stops
        /\ checked.route = call.route /\ checked.status = call.status
    BY <2>1 DEF PlannerCalls, Planned
  <2>3. rpCalls' = (rpCalls \ {call}) \cup {checked}
    BY <1>13 DEF UpdateChecked
  <2> HIDE DEF checked
  <2>4. PlannerCallsWell'
    BY <1>0, <2>2, <2>3 DEF CallsWell, PlannerCallsWell
  <2>5. IsFiniteSet(rpCalls') /\ Cardinality(rpCalls') <= MaxPlannerCalls
    BY <1>0, <2>3, OneForAnother, RoutePlannerAssumption DEF CallsWell
  <2>6. CallsWell'
    BY <1>0, <2>2, <2>3, <2>4, <2>5 DEF CallsWell
  <2> QED
    BY <1>0, <1>13, <2>6, PlannerPartsNext
    DEF UpdateChecked, rpForm, rpPreviewing, RoutesWell, PreviewsWell, FormWell, RoutePlannerSound
\* The server wrote, and the form is done with.
<1>14. ASSUME NEW call \in rpCalls, PlannerDone(call), UNCHANGED <<rpTable, rpPreviewing>>, RoutesWell'
       PROVE  RoutePlannerInv'
  <2>1. FormWell' /\ CallsWell'
    BY <1>14, DoneWell
  <2>2. PreviewsWell'
    BY <1>0, <1>14 DEF rpPreviewing, PreviewsWell
  <2> QED
    BY <1>14, <2>1, <2>2, PlannerPartsNext
<1>15. ASSUME NEW call \in rpCalls, RouteUpdated(call) PROVE RoutePlannerInv'
  <2> DEFINE route == plannedRoutes[call.route]
             status == IF call.status \in {"none", call.seen} THEN route.status ELSE call.status
  <2>1. call \in PlannerCalls /\ route \in Planned /\ Len(call.stops) >= 2
    BY <1>0, <1>15 DEF CallsWell, PlannerCallsWell, RouteUpdated, RoutesWell
  <2>2. status \in Status
    BY <2>1 DEF PlannerCalls, Planned, Status
  <2>3. [stops |-> call.stops, status |-> status] \in Planned
    BY <2>1, <2>2 DEF PlannerCalls, Planned
  <2>4. plannedRoutes' = [plannedRoutes EXCEPT ![call.route] = [stops |-> call.stops, status |-> status]]
    BY <1>15 DEF RouteUpdated
  <2>5. UNCHANGED <<rpTable, rpPreviewing>> /\ PlannerDone(call)
    BY <1>15 DEF RouteUpdated
  <2> HIDE DEF status
  <2>6. RoutesWell'
    BY <1>0, <2>3, <2>4, <2>5 DEF RoutesWell
  <2> QED
    BY <1>14, <2>5, <2>6
<1>16. ASSUME NEW call \in rpCalls, RouteCreated(call) PROVE RoutePlannerInv'
  <2>1. call \in PlannerCalls /\ Len(call.stops) >= 2 /\ call.status = "planned"
    BY <1>0, <1>16 DEF CallsWell, PlannerCallsWell, RouteCreated
  <2>2. [stops |-> call.stops, status |-> call.status] \in Planned
    BY <2>1 DEF PlannerCalls, Planned, Status
  <2>3. PICK r \in PlannedRoute \ DOMAIN plannedRoutes :
           plannedRoutes' = [q \in DOMAIN plannedRoutes \cup {r} |->
              IF q = r THEN [stops |-> call.stops, status |-> call.status] ELSE plannedRoutes[q]]
    BY <1>16 DEF RouteCreated
  <2>4. UNCHANGED <<rpTable, rpPreviewing>> /\ PlannerDone(call)
    BY <1>16 DEF RouteCreated
  <2>5. RoutesWell'
    BY <1>0, <2>2, <2>3, <2>4 DEF RoutesWell
  <2> QED
    BY <1>14, <2>4, <2>5
<1>17. ASSUME NEW call \in rpCalls, RouteDeleted(call) PROVE RoutePlannerInv'
  <2>1. RoutesWell'
    BY <1>0, <1>17 DEF RouteDeleted, RoutesWell
  <2> QED
    BY <1>14, <1>17, <2>1 DEF RouteDeleted
<1>18. ASSUME NEW call \in rpCalls, PlannerCallFails(call) PROVE RoutePlannerInv'
  <2>1. CallsWell'
    BY <1>18, AnsweredWell DEF PlannerCallFails, CallsWell
  <2> QED
    BY <1>0, <1>18, <2>1, PlannerPartsNext
    DEF PlannerCallFails, rpForm, rpPreviewing, RoutesWell, PreviewsWell, FormWell, RoutePlannerSound
<1> QED
  BY <1>1, <1>2, <1>3, <1>4, <1>6, <1>7, <1>8, <1>9, <1>10, <1>11, <1>12, <1>13, <1>15, <1>16, <1>17, <1>18
  DEF RoutePlannerNext

\* What leaves the variables of the planner alone keeps its invariant.
LEMMA RoutePlannerStutter == ASSUME RoutePlannerInv, UNCHANGED routePlannerVars PROVE RoutePlannerInv'
BY DEF routePlannerVars, RoutePlannerInv, RoutePlannerTypeOK, RoutePlannerSound, PlannerCallsWell

-----------------------------------------------------------------------------
(* The sixteen parts together. *)
\* The invariant of all parts: each keeps its own while another is in use.
ManagementInv ==
    /\ VoiceMessagesInv /\ LogbookInv /\ FuelInv /\ TileCacheInv
    /\ ServiceWorkerInv /\ ReportViewInv /\ ScheduleFormInv /\ ScheduleListInv
    /\ RuntimeLogsInv /\ CommandPaneInv /\ AlertRowsInv /\ DeviceWindowInv
    /\ DeviceWizardInv /\ SystemSettingsInv /\ TicketsInv /\ RoutePlannerInv

Parts == {"voice", "logbook", "fuel", "tiles", "worker", "report", "schedule", "schedules",
          "logs", "commands", "rows", "device", "wizard", "settings", "tickets", "planner"}

\* The pages start in it, on one of the parts.
LEMMA ManagementInitially == ManagementInit => ManagementInv /\ page \in Parts
<1> SUFFICES ASSUME ManagementInit PROVE ManagementInv /\ page \in Parts
  OBVIOUS
<1>1. VoiceMessagesInv /\ LogbookInv /\ FuelInv /\ TileCacheInv
  BY VoiceMessagesInvInit, LogbookInvInit, FuelInvInit, TileCacheInvInit DEF ManagementInit
<1>2. ServiceWorkerInv /\ ReportViewInv /\ ScheduleFormInv /\ ScheduleListInv
  BY ServiceWorkerInvInit, ReportViewInvInit, ScheduleFormInvInit, ScheduleListInvInit DEF ManagementInit
<1>3. RuntimeLogsInv /\ CommandPaneInv /\ AlertRowsInv /\ DeviceWindowInv
  BY RuntimeLogsInvInit, CommandPaneInvInit, AlertRowsInvInit, DeviceWindowInvInit DEF ManagementInit
<1>4. DeviceWizardInv /\ SystemSettingsInv /\ TicketsInv /\ RoutePlannerInv
  BY DeviceWizardInvInit, SystemSettingsInvInit, TicketsInvInit, RoutePlannerInvInit DEF ManagementInit
<1>5. page \in Parts
  BY DEF ManagementInit, Parts
<1> QED
  BY <1>1, <1>2, <1>3, <1>4, <1>5 DEF ManagementInv

\* A step is one of the part in use, and every other part keeps its state.
LEMMA StepsOfParts ==
    ASSUME [ManagementNext]_ManagementVars
    PROVE  /\ page' = page
           /\ VoiceMessagesNext \/ UNCHANGED voiceMessagesVars
           /\ LogbookNext \/ UNCHANGED logbookVars
           /\ FuelNext \/ UNCHANGED fuelVars
           /\ TileCacheNext \/ UNCHANGED tileCacheVars
           /\ ServiceWorkerNext \/ UNCHANGED serviceWorkerVars
           /\ ReportViewNext \/ UNCHANGED reportViewVars
           /\ ScheduleFormNext \/ UNCHANGED scheduleFormVars
           /\ ScheduleListNext \/ UNCHANGED scheduleListVars
           /\ RuntimeLogsNext \/ UNCHANGED runtimeLogsVars
           /\ CommandPaneNext \/ UNCHANGED commandPaneVars
           /\ AlertRowsNext \/ UNCHANGED alertRowsVars
           /\ DeviceWindowNext \/ UNCHANGED deviceWindowVars
           /\ DeviceWizardNext \/ UNCHANGED deviceWizardVars
           /\ SystemSettingsNext \/ UNCHANGED systemSettingsVars
           /\ TicketsNext \/ UNCHANGED ticketsVars
           /\ RoutePlannerNext \/ UNCHANGED routePlannerVars
<1>1. CASE UNCHANGED ManagementVars
  BY <1>1 DEF ManagementVars
<1>2. CASE ManagementNext
  <2>1. CASE VoicePage
    BY <2>1 DEF VoicePage, recordVars, reportVars, windowVars
  <2>2. CASE LogbookPage
    BY <2>2 DEF LogbookPage, recordVars, reportVars, windowVars
  <2>3. CASE FuelPage
    BY <2>3 DEF FuelPage, recordVars, reportVars, windowVars
  <2>4. CASE TilesPage
    BY <2>4 DEF TilesPage, recordVars, reportVars, windowVars
  <2>5. CASE WorkerPage
    BY <2>5 DEF WorkerPage, recordVars, reportVars, windowVars
  <2>6. CASE ReportPage
    BY <2>6 DEF ReportPage, recordVars, reportVars, windowVars
  <2>7. CASE SchedulePage
    BY <2>7 DEF SchedulePage, recordVars, reportVars, windowVars
  <2>8. CASE SchedulesPage
    BY <2>8 DEF SchedulesPage, recordVars, reportVars, windowVars
  <2>9. CASE LogsPage
    BY <2>9 DEF LogsPage, recordVars, reportVars, windowVars
  <2>10. CASE CommandsPage
    BY <2>10 DEF CommandsPage, recordVars, reportVars, windowVars
  <2>11. CASE RowsPage
    BY <2>11 DEF RowsPage, recordVars, reportVars, windowVars
  <2>12. CASE DevicePage
    BY <2>12 DEF DevicePage, recordVars, reportVars, windowVars
  <2>13. CASE WizardPage
    BY <2>13 DEF WizardPage, recordVars, reportVars, windowVars
  <2>14. CASE SettingsPage
    BY <2>14 DEF SettingsPage, recordVars, reportVars, windowVars
  <2>15. CASE TicketsPage
    BY <2>15 DEF TicketsPage, recordVars, reportVars, windowVars
  <2>16. CASE PlannerPage
    BY <2>16 DEF PlannerPage, recordVars, reportVars, windowVars
  <2> QED
    BY <1>2, <2>1, <2>2, <2>3, <2>4, <2>5, <2>6, <2>7, <2>8, <2>9, <2>10, <2>11, <2>12, <2>13,
       <2>14, <2>15, <2>16 DEF ManagementNext
<1> QED
  BY <1>1, <1>2

\* Every step of the pages keeps the invariant of every part.
LEMMA ManagementStep ==
    ASSUME ManagementInv, page \in Parts, [ManagementNext]_ManagementVars
    PROVE  ManagementInv' /\ page' \in Parts
<1>1. VoiceMessagesInv'
  BY StepsOfParts, VoiceMessagesStep, VoiceMessagesStutter DEF ManagementInv
<1>2. LogbookInv'
  BY StepsOfParts, LogbookStep, LogbookStutter DEF ManagementInv
<1>3. FuelInv'
  BY StepsOfParts, FuelStep, FuelStutter DEF ManagementInv
<1>4. TileCacheInv'
  BY StepsOfParts, TileCacheStep, TileCacheStutter DEF ManagementInv
<1>5. ServiceWorkerInv'
  BY StepsOfParts, ServiceWorkerStep, ServiceWorkerStutter DEF ManagementInv
<1>6. ReportViewInv'
  BY StepsOfParts, ReportViewStep, ReportViewStutter DEF ManagementInv
<1>7. ScheduleFormInv'
  BY StepsOfParts, ScheduleFormStep, ScheduleFormStutter DEF ManagementInv
<1>8. ScheduleListInv'
  BY StepsOfParts, ScheduleListStep, ScheduleListStutter DEF ManagementInv
<1>9. RuntimeLogsInv'
  BY StepsOfParts, RuntimeLogsStep, RuntimeLogsStutter DEF ManagementInv
<1>10. CommandPaneInv'
  BY StepsOfParts, CommandPaneStep, CommandPaneStutter DEF ManagementInv
<1>11. AlertRowsInv'
  BY StepsOfParts, AlertRowsStep, AlertRowsStutter DEF ManagementInv
<1>12. DeviceWindowInv'
  BY StepsOfParts, DeviceWindowStep, DeviceWindowStutter DEF ManagementInv
<1>13. DeviceWizardInv'
  BY StepsOfParts, DeviceWizardStep, DeviceWizardStutter DEF ManagementInv
<1>14. SystemSettingsInv'
  BY StepsOfParts, SystemSettingsStep, SystemSettingsStutter DEF ManagementInv
<1>15. TicketsInv'
  BY StepsOfParts, TicketsStep, TicketsStutter DEF ManagementInv
<1>16. RoutePlannerInv'
  BY StepsOfParts, RoutePlannerStep, RoutePlannerStutter DEF ManagementInv
<1>17. page' \in Parts
  BY StepsOfParts
<1> QED
  BY <1>1, <1>2, <1>3, <1>4, <1>5, <1>6, <1>7, <1>8, <1>9,
     <1>10, <1>11, <1>12, <1>13, <1>14, <1>15, <1>16, <1>17 DEF ManagementInv

\* ManagementInv holds in every state the pages reach.
LEMMA ManagementAlways == ManagementSpec => [](ManagementInv /\ page \in Parts)
<1>1. ManagementInit => ManagementInv /\ page \in Parts
  BY ManagementInitially
<1>2. ManagementInv /\ page \in Parts /\ [ManagementNext]_ManagementVars => (ManagementInv /\ page \in Parts)'
  BY ManagementStep
<1> QED
  BY <1>1, <1>2, PTL DEF ManagementSpec

\* ManagementTypeOK: whatever the user does on a page beside the map, and whenever answers,
\* events and timers come, its state keeps its type (voice-ptt.js, reports.js and the others).
THEOREM ManagementTypeCorrect == ManagementSpec => []ManagementTypeOK
<1>1. ManagementInv /\ page \in Parts => ManagementTypeOK
  <2> SUFFICES ASSUME ManagementInv, page \in Parts PROVE ManagementTypeOK
    OBVIOUS
  <2>1. /\ VoiceMessagesTypeOK /\ LogbookTypeOK /\ FuelTypeOK /\ TileCacheTypeOK
        /\ ServiceWorkerTypeOK /\ ReportViewTypeOK
    BY FuelInvGives, TileCacheInvGives, ServiceWorkerInvGives, ReportViewInvGives
    DEF ManagementInv, VoiceMessagesInv, LogbookInv
  <2>2. /\ ScheduleFormTypeOK /\ ScheduleListTypeOK /\ RuntimeLogsTypeOK /\ CommandPaneTypeOK
        /\ AlertRowsTypeOK
    BY RuntimeLogsInvGives, CommandPaneInvGives DEF ManagementInv, ScheduleFormInv, ScheduleListInv, AlertRowsInv
  <2>3. /\ DeviceWindowTypeOK /\ DeviceWizardTypeOK /\ SystemSettingsTypeOK /\ TicketsTypeOK
        /\ RoutePlannerTypeOK
    BY SystemSettingsInvGives DEF ManagementInv, DeviceWindowInv, DeviceWizardInv, TicketsInv, RoutePlannerInv
  <2>4. CASE page \in {"voice", "logbook", "fuel", "tiles", "worker", "report"}
    BY <2>1, <2>4 DEF ManagementTypeOK
  <2>5. CASE page \in {"schedule", "schedules", "logs", "commands", "rows"}
    BY <2>2, <2>5 DEF ManagementTypeOK
  <2>6. CASE page \in {"device", "wizard", "settings", "tickets", "planner"}
    BY <2>3, <2>6 DEF ManagementTypeOK
  <2> QED
    BY <2>4, <2>5, <2>6 DEF Parts
<1> QED
  BY <1>1, ManagementAlways, PTL

\* RecordsSound: for any messages, fill-ups, tiles, versions and late fetches the badge counts
\* the unread rows, each distance counts once, the tile cache is bounded once a trim is through,
\* and what is cached is of the version in force (voice-ptt.js, dashboard-logbook.js, sw.js).
THEOREM RecordsAreSound == ManagementSpec => []RecordsSound
<1>1. ManagementInv => RecordsSound
  <2> SUFFICES ASSUME ManagementInv PROVE RecordsSound
    OBVIOUS
  <2>1. BadgeAgreesWithRows /\ DistancesCountOnce /\ TilesBounded /\ ServiceWorkerSound
    BY FuelInvGives, TileCacheInvGives, ServiceWorkerInvGives DEF ManagementInv, VoiceMessagesInv
  <2> QED
    BY <2>1 DEF RecordsSound
<1> QED
  BY <1>1, ManagementAlways, PTL

\* ReportsSound: for any reports, pages, searches, schedules and log records the table shows the
\* rows of one render of the current page, a form has the fields of its trigger, an expanded
\* row loads, and the groups of the log count every row (reports.js).
THEOREM ReportsAreSound == ManagementSpec => []ReportsSound
<1>1. ManagementInv => ReportsSound
  <2> SUFFICES ASSUME ManagementInv PROVE ReportsSound
    OBVIOUS
  <2>1. ReportViewSound /\ ScheduleFormSound /\ ExpandedRowLoads /\ RuntimeLogsSound
    BY ReportViewInvGives, RuntimeLogsInvGives
    DEF ManagementInv, ScheduleFormInv, ScheduleFormSound, ScheduleListInv
  <2> QED
    BY <2>1 DEF ReportsSound
<1> QED
  BY <1>1, ManagementAlways, PTL

\* WindowsSound: for any vehicles, users, rows, settings, tickets and stops a save sends what
\* was chosen, rows have uids of their own, a command goes out as shown, the wizard sums up what
\* it stores, shown fields are in force, files go with their ticket, and a line fits its stops
\* (device-management.js, device-commands.js, device-wizard.js, user-settings.js,
\* management-advanced.js).
THEOREM WindowsAreSound == ManagementSpec => []WindowsSound
<1>1. ManagementInv => WindowsSound
  <2> SUFFICES ASSUME ManagementInv PROVE WindowsSound
    OBVIOUS
  <2>1. DeviceWindowSound /\ UidsUnique /\ CommandPaneSound
    BY CommandPaneInvGives DEF ManagementInv, DeviceWindowInv, DeviceWindowSound, AlertRowsInv
  <2>2. DeviceWizardSound /\ SystemSettingsSound /\ TicketsSound /\ RoutePlannerSound
    BY SystemSettingsInvGives DEF ManagementInv, DeviceWizardInv, DeviceWizardSound, TicketsInv, RoutePlannerInv
  <2> QED
    BY <2>1, <2>2 DEF WindowsSound
<1> QED
  BY <1>1, ManagementAlways, PTL

\* ManagementSteps: a save of the editor drops no channel and no recipient that the user was not
\* shown, and an entry of the logbook changes or goes only by a call for its own vehicle and
\* entry, whichever answers come late (device-management.js, dashboard-logbook.js).
THEOREM ManagementStepsAreSound == ManagementSpec => ManagementSteps
<1> DEFINE Good == ManagementInv /\ page \in Parts
<1>1. Good /\ [ManagementNext]_ManagementVars => [HiddenKeptStep]_alertRowsVars
  BY HiddenIsKept DEF ManagementInv
<1>2. Good /\ [ManagementNext]_ManagementVars =>
        [\A e \in lbStored.there :
           e \notin lbStored'.there \/ (e \in lbStored'.edited /\ e \notin lbStored.edited)
             => \E c \in lbCalls \ lbCalls' : c.of = EntryOf[e] /\ c.entry = e]_logbookVars
  BY StepsOfParts, LogbookStep DEF ManagementInv
<1>3. ManagementSpec => []Good
  BY ManagementAlways
<1> HIDE DEF Good
<1> QED
  BY <1>1, <1>2, <1>3, PTL DEF ManagementSpec, ManagementSteps, HiddenKept, EntriesKeptApart
=============================================================================
