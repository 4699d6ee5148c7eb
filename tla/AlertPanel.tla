----------------------------- MODULE AlertPanel -----------------------------
(***************************************************************************)
(* The alerts of one browser tab: the bell and its badge, the list, the    *)
(* toasts, the history of read alerts, and what tells the tab of alerts:   *)
(* its WebSocket, the answers to its own requests and the other tabs.      *)
(* What the server answers or does and the arrival of the answer are two   *)
(* steps, with whatever comes in between.                                  *)
(***************************************************************************)
EXTENDS Integers, Sequences, FiniteSets, SequencesExt

CONSTANTS
    Alert,      \* the alerts the server raises for the user
    Critical,   \* those of severity critical or high
    Unloaded,   \* window.loadedAlerts before the first answer
    PageSize,   \* HISTORY_PAGE_SIZE
    MaxCopies,  \* bound: copies of one alert message
    MaxCalls,   \* bound: requests of the tab under way
    MaxWire     \* bound: messages on the socket

ASSUME AlertPanelAssumption ==
    /\ IsFiniteSet(Alert) /\ Critical \subseteq Alert /\ \A alerts \in SUBSET Alert : Unloaded # alerts
    /\ {PageSize, MaxCopies, MaxCalls} \subseteq Nat \ {0} /\ MaxWire \in Nat

VARIABLES
    unread,         \* unread alerts at the server
    readOnes,       \* read alerts at the server, the latest first
    wire,           \* messages of the server on their way to the tab
    windowLoaded,   \* window.loadedAlerts
    lexicalLoaded,  \* the script's own loadedAlerts
    alertsList,     \* the items of the list, the newest first
    bell,           \* what the button shows: [count, critical]
    toasts,         \* toasts on screen for each alert
    recentKeys,     \* _recentAlertKeys
    alertCalls,     \* requests of the tab: what their answers will hold
    historyVisible, historyOffset, historyItems

alertPanelVars == <<unread, readOnes, wire, windowLoaded, lexicalLoaded, alertsList, bell,
                    toasts, recentKeys, alertCalls, historyVisible, historyOffset, historyItems>>
panelServer == <<unread, readOnes, wire>>
panelLists == <<windowLoaded, lexicalLoaded, alertsList, bell>>
panelHistory == <<historyVisible, historyOffset, historyItems>>

Message == [kind : {"alert", "dismissed"}, alert : Alert] \cup {[kind |-> "cleared"]}

AlertPanelTypeOK ==
    /\ unread \subseteq Alert /\ ToSet(readOnes) \subseteq Alert
    /\ ToSet(wire) \subseteq Message /\ Len(wire) <= MaxWire
    /\ windowLoaded = Unloaded \/ windowLoaded \subseteq Alert
    /\ lexicalLoaded \subseteq Alert
    /\ ToSet(alertsList) \subseteq Alert
    /\ bell \in [count : 0..(Cardinality(Alert) + 1), critical : BOOLEAN]
    /\ toasts \in [Alert -> 0..MaxCopies] /\ recentKeys \subseteq Alert
    /\ Cardinality(alertCalls) <= MaxCalls
    /\ historyVisible \in BOOLEAN /\ historyOffset \in Nat /\ ToSet(historyItems) \subseteq Alert

AlertPanelInit ==
    /\ unread = {} /\ readOnes = <<>> /\ wire = <<>>
    /\ windowLoaded = Unloaded /\ lexicalLoaded = {} /\ alertsList = <<>>
    /\ bell = [count |-> 0, critical |-> FALSE]
    /\ toasts = [a \in Alert |-> 0] /\ recentKeys = {}
    /\ alertCalls = {[kind |-> "load", found |-> {}]}
    /\ historyVisible = FALSE /\ historyOffset = 0 /\ historyItems = <<>>

BellFor(S) == [count |-> Cardinality(S), critical |-> S \cap Critical # {}]
LoadCall == [kind |-> "load", found |-> unread]
PageCall(offset) ==
    LET end == IF offset + PageSize < Len(readOnes) THEN offset + PageSize ELSE Len(readOnes)
    IN [kind |-> "page", items |-> SubSeq(readOnes, offset + 1, end)]
HistoryReload == IF historyVisible THEN {PageCall(historyOffset)} ELSE {}
CallsBounded == Cardinality(alertCalls') <= MaxCalls

\* The badge of a tab that has loaded nothing counts down, not below zero.
CountDownBelow(n) == n - 1
CountDown(n) == IF n > 0 THEN n - 1 ELSE 0

\* handleAlertDismissedLocally: a tab that has not loaded yet counts down and loads.
Forget(a, calls) ==
    /\ toasts' = [toasts EXCEPT ![a] = 0]
    /\ IF windowLoaded = Unloaded
       THEN /\ bell' = [count |-> CountDown(bell.count), critical |-> FALSE]
            /\ alertCalls' = calls \cup HistoryReload \cup {LoadCall}
            /\ UNCHANGED windowLoaded
       ELSE /\ windowLoaded' = windowLoaded \ {a}
            /\ bell' = BellFor(windowLoaded')
            /\ alertCalls' = calls \cup HistoryReload
    /\ alertsList' = RemoveFirst(alertsList, a)
    /\ UNCHANGED lexicalLoaded

\* handleAlertsClearedLocally.
ForgetAll(calls) ==
    /\ toasts' = [a \in Alert |-> 0]
    /\ windowLoaded' = {} /\ bell' = BellFor({}) /\ alertsList' = <<>>
    /\ alertCalls' = calls \cup HistoryReload
    /\ UNCHANGED lexicalLoaded

-----------------------------------------------------------------------------
\* The server, and what it tells the socket.

Raise(a, copies) ==
    /\ a \notin unread /\ a \notin ToSet(readOnes)
    /\ Len(wire) + copies <= MaxWire
    /\ unread' = unread \cup {a}
    /\ wire' = wire \o [i \in 1..copies |-> [kind |-> "alert", alert |-> a]]
    /\ UNCHANGED <<readOnes, panelLists, toasts, recentKeys, alertCalls, panelHistory>>

\* mark_alert_read and mark_all_alerts_read, for this tab or another one.
Dismissal(a) == [kind |-> "dismissed", alert |-> a]
MarkedRead(S, messages) ==
    /\ Len(wire) + Len(messages) <= MaxWire
    /\ unread' = unread \ S
    /\ readOnes' = SetToSeq(S \cap unread) \o readOnes
    /\ wire' = wire \o messages

ReadElsewhere(a) ==
    /\ a \in unread /\ MarkedRead({a}, <<Dismissal(a)>>)
    /\ UNCHANGED <<panelLists, toasts, recentKeys, alertCalls, panelHistory>>

\* Another tab dismisses: the channel between the tabs is faster than the server.
OtherTabDismisses(a) ==
    /\ a \in unread
    /\ Forget(a, alertCalls)
    /\ UNCHANGED <<panelServer, recentKeys, panelHistory>>

\* _isDuplicateAlert: a copy within eight seconds.
IsDuplicate(a) == a \in recentKeys

\* The bell counts one more than it has, whether or not the list has the alert.
Rung(a) ==
    [count |-> 1 + Cardinality(IF windowLoaded = Unloaded THEN lexicalLoaded ELSE windowLoaded),
     critical |-> a \in Critical]

\* The alert enters both lists and the screen.
Inserted(a) ==
    /\ windowLoaded' = windowLoaded \cup {a} /\ lexicalLoaded' = windowLoaded \cup {a}
    /\ alertsList' = <<a>> \o alertsList

\* An alert arrives: a copy within eight seconds is dropped, any other raises the badge
\* and a toast, and enters the list unless the list has it or was never loaded.
AlertArrives(a) ==
    IF IsDuplicate(a)
    THEN UNCHANGED <<panelLists, toasts, recentKeys, alertCalls>>
    ELSE
         /\ recentKeys' = recentKeys \cup {a}
         /\ toasts' = [toasts EXCEPT ![a] = @ + 1]
         /\ bell' = Rung(a)
         /\ IF windowLoaded = Unloaded
            THEN /\ alertCalls' = alertCalls \cup {LoadCall}
                 /\ UNCHANGED <<windowLoaded, lexicalLoaded, alertsList>>
            ELSE /\ UNCHANGED alertCalls
                 /\ IF a \in windowLoaded
                    THEN UNCHANGED <<windowLoaded, lexicalLoaded, alertsList>>
                    ELSE Inserted(a)

MessageArrives ==
    /\ wire # <<>> /\ wire' = Tail(wire)
    /\ LET m == Head(wire) IN
       \/ m.kind = "alert" /\ AlertArrives(m.alert)
       \/ m.kind = "dismissed" /\ Forget(m.alert, alertCalls) /\ UNCHANGED recentKeys
       \/ m.kind = "cleared" /\ ForgetAll(alertCalls) /\ UNCHANGED recentKeys
    /\ UNCHANGED <<unread, readOnes, panelHistory>>

\* The eight seconds end: every copy was sent at once and has arrived by then.
KeyExpires(a) ==
    /\ a \in recentKeys /\ [kind |-> "alert", alert |-> a] \notin ToSet(wire)
    /\ recentKeys' = recentKeys \ {a}
    /\ UNCHANGED <<panelServer, panelLists, toasts, alertCalls, panelHistory>>

ToastExpires(a) ==
    /\ toasts[a] > 0 /\ toasts' = [toasts EXCEPT ![a] = @ - 1]
    /\ UNCHANGED <<panelServer, panelLists, recentKeys, alertCalls, panelHistory>>

-----------------------------------------------------------------------------
\* The user.

\* loadAlerts: a reconnect, a page that becomes visible, or the dialog.
LoadAlerts ==
    /\ alertCalls' = alertCalls \cup {LoadCall}
    /\ UNCHANGED <<panelServer, panelLists, toasts, recentKeys, panelHistory>>

OpenedWithOldOffset ==
    /\ alertCalls' = alertCalls \cup {LoadCall}
    /\ historyVisible' = FALSE /\ historyItems' = <<>>
    /\ UNCHANGED <<historyOffset, panelServer, panelLists, toasts, recentKeys>>
OpenAlertsModal ==
    /\ alertCalls' = alertCalls \cup {LoadCall}
    /\ historyVisible' = FALSE /\ historyOffset' = 0 /\ historyItems' = <<>>
    /\ UNCHANGED <<panelServer, panelLists, toasts, recentKeys>>

\* dismissAlert in the list, _dismissAlertById on a toast: the page forgets first.
DismissAlert(a, from) ==
    /\ \/ from = "list" /\ a \in ToSet(alertsList)
       \/ from = "toast" /\ toasts[a] > 0
    /\ Forget(a, alertCalls \cup {[kind |-> "dismiss", alert |-> a, from |-> from, done |-> FALSE]})
    /\ UNCHANGED <<panelServer, recentKeys, panelHistory>>

ClearAllAlerts ==
    /\ lexicalLoaded # {}
    /\ ForgetAll(alertCalls \cup {[kind |-> "clear", done |-> FALSE]})
    /\ UNCHANGED <<panelServer, recentKeys, panelHistory>>

ToggleAlertHistory ==
    /\ historyVisible' = ~historyVisible
    /\ IF historyVisible THEN UNCHANGED <<historyOffset, historyItems, alertCalls>>
       ELSE /\ historyOffset' = 0 /\ historyItems' = <<>>
            /\ alertCalls' = alertCalls \cup {PageCall(0)}
    /\ UNCHANGED <<panelServer, panelLists, toasts, recentKeys>>

LoadMoreAlertHistory ==
    /\ historyVisible /\ historyItems # <<>>
    /\ alertCalls' = alertCalls \cup {PageCall(historyOffset)}
    /\ UNCHANGED <<panelServer, panelLists, toasts, recentKeys, panelHistory>>

-----------------------------------------------------------------------------
\* Answers.

AlertsLoaded(c) ==
    /\ c.kind = "load" /\ alertCalls' = alertCalls \ {c}
    /\ windowLoaded' = c.found /\ lexicalLoaded' = c.found
    /\ alertsList' = SetToSeq(c.found) /\ bell' = BellFor(c.found)
    /\ UNCHANGED <<panelServer, toasts, recentKeys, panelHistory>>

\* loadAlertHistory appends below what is shown when the answer comes.
HistoryLoaded(c) ==
    /\ c.kind = "page" /\ alertCalls' = alertCalls \ {c}
    /\ historyItems' = (IF historyOffset = 0 THEN <<>> ELSE historyItems) \o c.items
    /\ historyOffset' = historyOffset + Len(c.items)
    /\ UNCHANGED <<panelServer, panelLists, toasts, recentKeys, historyVisible>>

\* The server carries a request out before its answer arrives.  When read-all fails the
\* tab sends one request for each alert it holds, and each of those may fail as well.
ServerReads(c) ==
    /\ c.kind \in {"dismiss", "clear"} /\ ~c.done
    /\ \/ c.kind = "dismiss" /\ MarkedRead({c.alert}, <<Dismissal(c.alert)>>)
       \/ c.kind = "clear" /\ MarkedRead(unread, <<[kind |-> "cleared"]>>)
       \/ /\ c.kind = "clear"
          /\ \E S \in SUBSET lexicalLoaded :
               MarkedRead(S, [i \in 1..Cardinality(S) |-> Dismissal(SetToSeq(S)[i])])
    /\ alertCalls' = (alertCalls \ {c}) \cup {[c EXCEPT !.done = TRUE]}
    /\ UNCHANGED <<panelLists, toasts, recentKeys, panelHistory>>

\* The dismissal is confirmed: forgotten again, and the shown history begins anew.
Dismissed(c) ==
    /\ c.kind = "dismiss" /\ c.done
    /\ IF c.from = "list" /\ historyVisible
       THEN /\ Forget(c.alert, (alertCalls \ {c}) \cup {PageCall(0)})
            /\ historyOffset' = 0 /\ historyItems' = <<>>
       ELSE Forget(c.alert, alertCalls \ {c}) /\ UNCHANGED <<historyOffset, historyItems>>
    /\ UNCHANGED <<panelServer, recentKeys, historyVisible>>

\* Whatever came of the requests, all is forgotten once more.
AllCleared(c) ==
    /\ c.kind = "clear" /\ c.done
    /\ IF historyVisible
       THEN /\ ForgetAll((alertCalls \ {c}) \cup {PageCall(0)})
            /\ historyOffset' = 0 /\ historyItems' = <<>>
       ELSE ForgetAll(alertCalls \ {c}) /\ UNCHANGED <<historyOffset, historyItems>>
    /\ UNCHANGED <<panelServer, recentKeys, historyVisible>>

\* Errors of the other requests are logged and forgotten.
CallFails(c) ==
    /\ c.kind # "clear" /\ alertCalls' = alertCalls \ {c}
    /\ UNCHANGED <<panelServer, panelLists, toasts, recentKeys, panelHistory>>

AlertPanelStep ==
    \/ \E a \in Alert :
         \/ \E copies \in 1..MaxCopies : Raise(a, copies)
         \/ ReadElsewhere(a) \/ OtherTabDismisses(a) \/ KeyExpires(a) \/ ToastExpires(a)
         \/ \E from \in {"list", "toast"} : DismissAlert(a, from)
    \/ MessageArrives
    \/ LoadAlerts \/ OpenAlertsModal \/ ClearAllAlerts \/ ToggleAlertHistory \/ LoadMoreAlertHistory
    \/ \E c \in alertCalls :
         AlertsLoaded(c) \/ HistoryLoaded(c) \/ ServerReads(c) \/ Dismissed(c) \/ AllCleared(c) \/ CallFails(c)

AlertPanelNext == AlertPanelStep /\ CallsBounded

AlertPanelSpec == AlertPanelInit /\ [][AlertPanelNext]_alertPanelVars

-----------------------------------------------------------------------------
\* The list on screen and the list in memory hold the same alerts, each once, whichever of
\* the socket, the answers and the other tabs changed them last.
ListShowsLoaded ==
    LET loaded == IF windowLoaded = Unloaded THEN {} ELSE windowLoaded IN
    ToSet(alertsList) = loaded /\ Len(alertsList) = Cardinality(loaded)

\* The bell never rests while the list holds an alert: its badge is at least the list.
BellCountsTheList == bell.count >= Len(alertsList)

\* "Clear all" gives up when the script's own list is empty; that list is another variable
\* than the one on screen, and must not be empty before it.
ClearAllReaches == alertsList # <<>> => lexicalLoaded # {}

\* Copies of one alert, by several ways through the server, give a single toast.
OneToast == \A a \in Alert : toasts[a] <= 1

\* The next page of the history begins after the items shown, although dismissals, the
\* toggle and the button each ask for pages of their own at once.
HistoryContinues == historyOffset = Len(historyItems)
=============================================================================
