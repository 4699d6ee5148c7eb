---------------------------- MODULE RuntimeLogs ----------------------------
(***************************************************************************)
(* The log viewer of the report page: the records a request or the         *)
(* snapshot of a socket brings, those the socket pushes after it, the      *)
(* reconnection, and the grouping of equal records.                        *)
(***************************************************************************)
EXTENDS Integers, Sequences, FiniteSets, SequencesExt

CONSTANTS
    LogKind,   \* what _logGroupKey tells apart: level, place and message
    MaxLogs,   \* bound: records the server logs
    KeepRows,  \* records a request brings and the page keeps (1000)
    MaxPushed  \* bound: messages on their way through the socket

ASSUME RuntimeLogsAssumption == {MaxLogs, KeepRows, MaxPushed} \subseteq Nat

VARIABLES
    serverLogs, nextLog,  \* the records of the server's buffer, and the next one's number
    logRows,              \* _runtimeLogRows
    logFilter,            \* kinds that pass the level filter and the search
    logsTab,              \* _activeTab is "logs"
    opening,              \* initRuntimeLogs calls that await, and the step each is at
    sockets,              \* sockets that are connecting or open
    subscribed,           \* the server has added the socket's queue to its subscribers
    pushed,               \* messages of the socket on their way
    reconnect,            \* a timer of _runtimeLogReconnect is running
    clearing              \* a clear the server has done and not answered yet

runtimeLogsVars == <<serverLogs, nextLog, logRows, logFilter, logsTab, opening, sockets, subscribed,
                     pushed, reconnect, clearing>>

Records == [n : 1..MaxLogs, kind : LogKind]
RuntimeLogsTypeOK ==
    /\ serverLogs \in Seq(Records) /\ logRows \in Seq(Records) /\ Len(logRows) <= KeepRows
    /\ nextLog \in 1..(MaxLogs + 1) /\ logFilter \subseteq LogKind
    /\ {logsTab, subscribed, reconnect, clearing} \subseteq BOOLEAN /\ sockets \in Nat
    /\ \A o \in opening : o.step \in {"debug", "rows"}

RuntimeLogsInit ==
    /\ serverLogs = <<>> /\ nextLog = 1 /\ logRows = <<>> /\ logFilter = LogKind
    /\ logsTab = FALSE /\ opening = {} /\ sockets = 0 /\ subscribed = FALSE
    /\ pushed = <<>> /\ reconnect = FALSE /\ clearing = FALSE

NewestOf(rows) == SubSeq(rows, IF Len(rows) > KeepRows THEN Len(rows) - KeepRows + 1 ELSE 1, Len(rows))
Push(message) == IF subscribed THEN Append(pushed, message) ELSE pushed
Snapshot(rows) == [snapshot |-> TRUE, rows |-> rows]
PushBounded == Len(pushed') <= MaxPushed

Log(kind) ==
    /\ nextLog <= MaxLogs /\ nextLog' = nextLog + 1
    /\ serverLogs' = Append(serverLogs, [n |-> nextLog, kind |-> kind])
    /\ pushed' = Push([snapshot |-> FALSE, rows |-> <<[n |-> nextLog, kind |-> kind]>>]) /\ PushBounded
    /\ UNCHANGED <<logRows, logFilter, logsTab, opening, sockets, subscribed, reconnect, clearing>>

\* switchTab and the first two steps of initRuntimeLogs: the debug mode and the rows.
ShowLogsTab ==
    /\ logsTab' = TRUE
    /\ opening' = opening \cup {[step |-> "debug", rows |-> <<>>]} /\ Cardinality(opening') <= 2
    /\ UNCHANGED <<serverLogs, nextLog, logRows, logFilter, sockets, subscribed, pushed, reconnect, clearing>>
LeaveLogsTab ==
    /\ logsTab /\ logsTab' = FALSE
    /\ UNCHANGED <<serverLogs, nextLog, logRows, logFilter, opening, sockets, subscribed, pushed, reconnect, clearing>>
DebugModeArrives(o) ==
    /\ o.step = "debug"
    /\ opening' = (opening \ {o}) \cup {[step |-> "rows", rows |-> NewestOf(serverLogs)]}
    /\ UNCHANGED <<serverLogs, nextLog, logRows, logFilter, logsTab, sockets, subscribed, pushed, reconnect, clearing>>

\* connectRuntimeLogWebSocket: one that is connecting or open is kept.
Connected ==
    IF sockets > 0 THEN UNCHANGED <<sockets, reconnect, clearing>>
    ELSE sockets' = sockets + 1 /\ reconnect' = FALSE

\* The answer of refreshRuntimeLogs, or its failure, and the connection that follows.
RowsArrive(o) ==
    /\ o.step = "rows" /\ opening' = opening \ {o}
    /\ logRows' \in {o.rows, logRows} /\ Connected
    /\ UNCHANGED <<serverLogs, nextLog, logFilter, logsTab, subscribed, pushed, clearing>>
ReconnectFires ==
    /\ reconnect
    /\ IF sockets > 0 THEN reconnect' = FALSE /\ UNCHANGED sockets ELSE Connected
    /\ UNCHANGED <<serverLogs, nextLog, logRows, logFilter, logsTab, opening, subscribed, pushed, clearing>>

\* The server's end of a socket sends a snapshot, and subscribes after it.
SnapshotSent ==
    /\ sockets > 0 /\ ~subscribed /\ subscribed' = TRUE
    /\ \E k \in 0..Len(serverLogs) :   \* the rest was logged after the snapshot
           pushed' = Append(pushed, Snapshot(NewestOf(SubSeq(serverLogs, 1, k))))
    /\ PushBounded
    /\ UNCHANGED <<serverLogs, nextLog, logRows, logFilter, logsTab, opening, sockets, reconnect, clearing>>
PushArrives ==
    /\ pushed # <<>> /\ pushed' = Tail(pushed)
    /\ LET m == Head(pushed)
       IN logRows' = IF m.snapshot THEN m.rows ELSE NewestOf(logRows \o m.rows)
    /\ UNCHANGED <<serverLogs, nextLog, logFilter, logsTab, opening, sockets, subscribed, reconnect, clearing>>
\* onclose connects again only while the tab is shown.
SocketCloses ==
    /\ sockets > 0 /\ sockets' = sockets - 1 /\ subscribed' = FALSE /\ pushed' = <<>>
    /\ reconnect' = (reconnect \/ logsTab)
    /\ UNCHANGED <<serverLogs, nextLog, logRows, logFilter, logsTab, opening, clearing>>

\* clearRuntimeLogs: the server's buffer, and the page when the answer is there.
ClearLogs ==
    /\ logsTab /\ ~clearing /\ clearing' = TRUE /\ serverLogs' = <<>>
    /\ pushed' = Push(Snapshot(<<>>)) /\ PushBounded
    /\ UNCHANGED <<nextLog, logRows, logFilter, logsTab, opening, sockets, subscribed, reconnect>>
ClearAnswered ==
    /\ clearing /\ clearing' = FALSE /\ logRows' = <<>>
    /\ UNCHANGED <<serverLogs, nextLog, logFilter, logsTab, opening, sockets, subscribed, pushed, reconnect>>
SetLogFilter ==
    /\ logsTab /\ logFilter' \in SUBSET LogKind /\ logFilter' # logFilter
    /\ UNCHANGED <<serverLogs, nextLog, logRows, logsTab, opening, sockets, subscribed, pushed, reconnect, clearing>>

\* renderRuntimeLogs with its groups: how often a kind was logged, and its last record.
Filtered ==
    LET kept[i \in 0..Len(logRows)] ==
            IF i = 0 THEN <<>>
            ELSE IF logRows[i].kind \in logFilter THEN Append(kept[i - 1], logRows[i]) ELSE kept[i - 1]
    IN kept[Len(logRows)]
Grouped(rows) ==
    LET Added(groups, r) ==
            IF r.kind \in DOMAIN groups
            THEN [groups EXCEPT ![r.kind] = [count |-> @.count + 1, latest |-> r.n]]
            ELSE [k \in DOMAIN groups \cup {r.kind} |->
                     IF k = r.kind THEN [count |-> 1, latest |-> r.n] ELSE groups[k]]
        groupsOf[i \in 0..Len(rows)] == IF i = 0 THEN <<>> ELSE Added(groupsOf[i - 1], rows[i])
    IN groupsOf[Len(rows)]

RuntimeLogsNext ==
    \/ \E kind \in LogKind : Log(kind)
    \/ ShowLogsTab \/ LeaveLogsTab \/ ReconnectFires \/ SnapshotSent \/ PushArrives \/ SocketCloses
    \/ ClearLogs \/ ClearAnswered \/ SetLogFilter
    \/ \E o \in opening : DebugModeArrives(o) \/ RowsArrive(o)

-----------------------------------------------------------------------------
\* While the tab is shown the page listens, or is about to: a socket closed while another
\* tab was shown is opened again by the return, and there are never two.
LogsTabListens == sockets <= 1 /\ (logsTab => sockets = 1 \/ reconnect \/ opening # {})

\* Grouping loses no record that passes the filter, and shows the last of each group.
GroupsCountEveryRow ==
    \A k \in LogKind :
        LET rows == {i \in DOMAIN logRows : logRows[i].kind = k /\ k \in logFilter}
            groups == Grouped(Filtered)
        IN IF rows = {} THEN k \notin DOMAIN groups
           ELSE groups[k] = [count |-> Cardinality(rows),
                             latest |-> logRows[CHOOSE i \in rows : \A j \in rows : j <= i].n]

RuntimeLogsSound == LogsTabListens /\ GroupsCountEveryRow
=============================================================================
