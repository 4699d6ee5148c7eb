----------------------------- MODULE AlertRows -----------------------------
(***************************************************************************)
(* The alerts tab of the device window: the rows of a device's alert       *)
(* configuration, the editor of one row, and profiles that are copied from *)
(* a file or another device.  The stored rows keep the uid they had on the *)
(* page that saved them, while the page counts uids from one again.        *)
(***************************************************************************)
EXTENDS Integers, Sequences, FiniteSetsExt

CONSTANTS
    Channel, ShownChannels,   \* channels, and those this user may see
    Recipient, ShownUsers,    \* users, and those this user may see
    Everybody,                \* a row without a list of users
    Outsiders,                \* administrators, whom a company's administrator does not list
    Profile,                  \* the rows of a file or of another device
    MaxRows, MaxUids,         \* bounds: rows of the window, uids of one page,
    MaxEditorOpenings         \* openings of the editor that wait at once

AlertRow == [uid : 1..MaxUids, channels : SUBSET Channel, notify : {Everybody} \cup SUBSET Recipient]

ASSUME AlertRowsAssumption ==
    /\ Profile \in Seq(AlertRow)
    /\ ShownChannels \subseteq Channel /\ ShownUsers \subseteq Recipient /\ Outsiders \subseteq Recipient \ ShownUsers
    /\ MaxRows \in Nat /\ MaxUids \in Nat /\ MaxEditorOpenings \in Nat

NoEditor == [row |-> 0]

VARIABLES
    storedRows,     \* config.alert_rows of the device
    rowsOpen,       \* the window is open
    alertRows, uidCounter,
    pendingProfile, \* the profile waits for "append" or "replace"
    editingUid,     \* editingAlertUid, 0 for none
    editorOpening,  \* openings of the editor that wait: row and what they wait for
    editor          \* what the editor shows

alertRowsVars == <<storedRows, rowsOpen, alertRows, uidCounter, pendingProfile,
                   editingUid, editorOpening, editor>>
editorVars == <<editingUid, editorOpening, editor>>
rowVars == <<alertRows, uidCounter>>

Uids(rows) == {rows[i].uid : i \in 1..Len(rows)}
RowOf(uid) == CHOOSE i \in 1..Len(alertRows) : alertRows[i].uid = uid

AlertRowsTypeOK ==
    /\ storedRows \in Seq(AlertRow) /\ alertRows \in Seq(AlertRow) /\ Len(alertRows) <= MaxRows
    /\ uidCounter \in 0..MaxUids /\ editingUid \in 0..MaxUids
    /\ pendingProfile \in BOOLEAN
    /\ rowsOpen \in BOOLEAN
    /\ editorOpening \subseteq [uid : 1..MaxUids, wait : {"settings", "options"}]
    /\ editor # NoEditor => editor.ticked \cup editor.hidden \subseteq Channel /\ editor.users \subseteq editor.boxes

AlertRowsInit ==
    /\ storedRows \in {<<>>, Profile} /\ rowsOpen = FALSE /\ alertRows = <<>> /\ uidCounter = 0
    /\ pendingProfile = FALSE
    /\ editingUid = 0 /\ editorOpening = {} /\ editor = NoEditor

-----------------------------------------------------------------------------
(* Rows. *)
\* _alertRowWithFreshUid, for each row of a configuration or a profile.
Fresh(rows, from) == [i \in 1..Len(rows) |-> [rows[i] EXCEPT !.uid = from + i]]

RowsAre(rows, counter) ==
    /\ Len(rows) <= MaxRows /\ counter <= MaxUids
    /\ alertRows' = rows /\ uidCounter' = counter

\* openDeviceModal with loadAlertsFromConfig.
OpenRows ==
    /\ ~rowsOpen /\ rowsOpen' = TRUE
    /\ RowsAre(Fresh(storedRows, uidCounter), uidCounter + Len(storedRows))
    /\ UNCHANGED <<storedRows, pendingProfile, editorVars>>
CloseRows ==
    /\ rowsOpen /\ rowsOpen' = FALSE
    /\ UNCHANGED <<storedRows, rowVars, pendingProfile, editorVars>>

\* addSelectedAlert and addCustomRule: the user who adds a rule is notified.
AddAlert ==
    /\ rowsOpen
    /\ \E me \in ShownUsers :
          RowsAre(Append(alertRows, [uid |-> uidCounter + 1, channels |-> {}, notify |-> {me}]), uidCounter + 1)
    /\ UNCHANGED <<storedRows, rowsOpen, pendingProfile, editorVars>>
Without(rows, uid) ==
    LET kept[i \in 0..Len(rows)] ==
            IF i = 0 THEN <<>> ELSE IF rows[i].uid = uid THEN kept[i - 1] ELSE Append(kept[i - 1], rows[i])
    IN kept[Len(rows)]
RemoveAlertRow(uid) ==
    /\ rowsOpen /\ RowsAre(Without(alertRows, uid), uidCounter)
    /\ UNCHANGED <<storedRows, rowsOpen, pendingProfile, editorVars>>

\* _applyAlertRowsFromProfile.
Applied(rows, mode) ==
    RowsAre((IF mode = "append" THEN alertRows ELSE <<>>) \o Fresh(rows, uidCounter), uidCounter + Len(rows))
\* openAlertProfileMergeChoice: rows of their own are first asked about.
OfferedTypes(rows) ==
    IF alertRows = <<>>
    THEN Applied(rows, "replace") /\ UNCHANGED pendingProfile
    ELSE pendingProfile' = TRUE /\ UNCHANGED rowVars
CopyAlertsFromDevice ==
    /\ rowsOpen /\ ~pendingProfile /\ OfferedTypes(Profile)
    /\ UNCHANGED <<storedRows, rowsOpen, editorVars>>
ApplyPendingAlertProfile(mode) ==
    /\ pendingProfile /\ pendingProfile' = FALSE /\ Applied(Profile, mode)
    /\ UNCHANGED <<storedRows, rowsOpen, editorVars>>
CloseAlertProfileMergeChoice ==
    /\ pendingProfile /\ pendingProfile' = FALSE
    /\ UNCHANGED <<storedRows, rowsOpen, rowVars, editorVars>>

\* handleSubmit stores the rows, uids included; its answer closes the window.
SaveRows ==
    /\ rowsOpen /\ storedRows' = alertRows /\ rowsOpen' = FALSE
    /\ UNCHANGED <<rowVars, pendingProfile, editorVars>>
\* The page is left and loaded again.
ReloadPage ==
    /\ rowsOpen' = FALSE /\ alertRows' = <<>> /\ uidCounter' = 0
    /\ pendingProfile' = FALSE
    /\ editingUid' = 0 /\ editorOpening' = {} /\ editor' = NoEditor
    /\ UNCHANGED storedRows

-----------------------------------------------------------------------------
(* The editor of a row. *)
\* openAlertEditor asks for the public settings first, then, for some rows, for the options
\* of a field, and for the users; each wait may end after another row was opened.
OpenAlertEditor(uid) ==
    /\ rowsOpen /\ Cardinality(editorOpening) < MaxEditorOpenings
    /\ editorOpening' = editorOpening \cup {[uid |-> uid, wait |-> "settings"]}
    /\ UNCHANGED <<storedRows, rowsOpen, rowVars, pendingProfile, editingUid, editor>>
SettingsKnown(o) ==
    /\ o.wait = "settings"
    /\ IF o.uid \in Uids(alertRows)
       THEN editingUid' = o.uid /\ editorOpening' = (editorOpening \ {o}) \cup {[o EXCEPT !.wait = "options"]}
       ELSE UNCHANGED editingUid /\ editorOpening' = editorOpening \ {o}
    /\ UNCHANGED <<storedRows, rowsOpen, rowVars, pendingProfile, editor>>

\* What the user may not see is kept aside, administrators excepted.
HiddenUsers(r) == IF r.notify = Everybody THEN {} ELSE r.notify \ (ShownUsers \cup Outsiders)
EditorDrawn(o) ==
    /\ o.wait = "options" /\ editorOpening' = editorOpening \ {o}
    /\ IF o.uid \in Uids(alertRows)
       THEN LET r == alertRows[RowOf(o.uid)] IN
            editor' = [row |-> o.uid, ticked |-> r.channels \cap ShownChannels, hidden |-> r.channels \ ShownChannels,
                       boxes |-> ShownUsers, users |-> IF r.notify = Everybody THEN ShownUsers ELSE r.notify \cap ShownUsers,
                       kept |-> HiddenUsers(r)]
       ELSE UNCHANGED editor
    /\ UNCHANGED <<storedRows, rowsOpen, rowVars, pendingProfile, editingUid>>
EditAlert ==
    /\ editor # NoEditor
    /\ editor' \in {[editor EXCEPT !.ticked = SymDiff(@, {c})] : c \in ShownChannels}
                    \cup {[editor EXCEPT !.users = SymDiff(@, {u})] : u \in editor.boxes}
    /\ UNCHANGED <<storedRows, rowsOpen, rowVars, pendingProfile, editingUid, editorOpening>>
CloseAlertEditor ==
    /\ editor # NoEditor /\ editor' = NoEditor /\ editingUid' = 0
    /\ UNCHANGED <<storedRows, rowsOpen, rowVars, pendingProfile, editorOpening>>

\* All boxes ticked and nobody kept aside means everybody, later users included.
SavedUsers(r) ==
    IF editor.boxes = {} THEN r.notify
    ELSE IF editor.users = editor.boxes /\ editor.kept = {} THEN Everybody
    ELSE editor.users \cup editor.kept
SavedRowShown(r) == [r EXCEPT !.channels = editor.ticked, !.notify = SavedUsers(r)]
SavedRow(r) == [r EXCEPT !.channels = editor.ticked \cup editor.hidden, !.notify = SavedUsers(r)]
SaveAlertFromEditor ==
    /\ editor # NoEditor /\ editingUid \in Uids(alertRows)
    /\ alertRows' = [alertRows EXCEPT ![RowOf(editingUid)] = SavedRow(@)]
    /\ editor' = NoEditor /\ editingUid' = 0
    /\ UNCHANGED <<storedRows, rowsOpen, uidCounter, pendingProfile, editorOpening>>

AlertRowsNext ==
    \/ OpenRows \/ CloseRows \/ AddAlert \/ CopyAlertsFromDevice
    \/ \E mode \in {"append", "replace"} : ApplyPendingAlertProfile(mode)
    \/ CloseAlertProfileMergeChoice \/ SaveRows \/ ReloadPage
    \/ \E uid \in Uids(alertRows) : RemoveAlertRow(uid) \/ OpenAlertEditor(uid)
    \/ \E o \in editorOpening : SettingsKnown(o) \/ EditorDrawn(o)
    \/ EditAlert \/ CloseAlertEditor \/ SaveAlertFromEditor

-----------------------------------------------------------------------------
\* Every button of the table acts on one row: no two rows have the same uid, whatever was
\* stored by earlier pages, copied, imported, appended or edited.
UidsUnique == \A i, j \in 1..Len(alertRows) : alertRows[i].uid = alertRows[j].uid => i = j

\* A save by the editor of its own row takes away no channel and no recipient that the user
\* was not shown; only administrators leave the list of a company's administrator.
HiddenKeptStep ==
    \A i \in 1..Len(alertRows) :
        LET r == alertRows[i] IN
        SaveAlertFromEditor /\ editor.row = editingUid /\ r.uid = editingUid =>
            /\ r.channels \ ShownChannels \subseteq alertRows'[i].channels
            /\ alertRows'[i].notify # Everybody => HiddenUsers(r) \subseteq alertRows'[i].notify
HiddenKept == [][HiddenKeptStep]_alertRowsVars
=============================================================================
