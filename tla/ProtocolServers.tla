--------------------------- MODULE ProtocolServers ---------------------------
(***************************************************************************)
(* The listeners of the device protocols.  A request that changes a device *)
(* reads, after its commit, which listeners the active devices require,    *)
(* waits for the lock, stops the others one by one and starts the missing  *)
(* ones.  The listener of a stopped TCP server closes when the last of its *)
(* connections has ended.  A task whose port cannot be bound ends, and     *)
(* what its end calls back removes the entry that runs under its name: the *)
(* event loop makes that call before anything but the requests that are    *)
(* ready to go on.                                                         *)
(***************************************************************************)
EXTENDS Integers, FiniteSets

CONSTANTS
    Listener,       \* a protocol and its transport
    Tcp,            \* those that have connections
    Syncs,          \* requests at once
    MaxChanges,     \* bound: changes of the active devices
    MaxBindErrors   \* bound: ports that cannot be bound

ASSUME ProtocolServersAssumption == Tcp \subseteq Listener /\ {MaxChanges, MaxBindErrors} \subseteq Nat

VARIABLES
    required,       \* the listeners that the active devices require, in the database
    running,        \* _running
    task,           \* what the task of a listener does: "none", "starting" or "serving"
    endings,        \* listeners with a task that has ended, _log_task_result yet to be called
    connected,      \* listeners with an open connection
    sync,           \* the requests in sync_active_protocol_servers
    \* history: what was read last and applied last, listeners that ended by themselves since
    \* they were started, and what went wrong: "older" (an older read was applied after a newer
    \* one), "raised" (the last request to have the lock raised) or "crossed" (a listener was
    \* started between the end of its task and the call for that end)
    reads, newest, ended, amiss,
    changes, bindErrors     \* what the bounds have used

serverTasks == <<running, task, endings, connected>>
protocolServersVars == <<required, serverTasks, sync, reads, newest, ended, amiss, changes, bindErrors>>

NoSync == [stage |-> "none"]
\* A request that has changed a device, has read, or has the lock.
Changed == [stage |-> "changed"]
HasRead(wanted, n) == [stage |-> "read", wanted |-> wanted, at |-> n]
HasLock(read, left, closing) == [stage |-> "locked", wanted |-> read.wanted, left |-> left, closing |-> closing]
Locked == {s \in Syncs : sync[s].stage = "locked"}
Closing == UNION {sync[s].closing : s \in Locked}
\* A request that has the lock goes on without a pause but while a listener closes.
Paused == \A s \in Locked : sync[s].closing # {}
\* Calls for the end of a task come before all but what is ready.
NoneDue == endings = {} /\ Paused

ProtocolServersTypeOK ==
    /\ required \cup running \cup endings \cup ended \subseteq Listener /\ connected \subseteq Tcp
    /\ task \in [Listener -> {"none", "starting", "serving"}]
    /\ \A s \in Syncs : sync[s].stage \in {"none", "changed", "read", "locked"}
    /\ newest \in 0..reads /\ amiss \subseteq {"older", "raised", "crossed"}
    /\ changes \in 0..MaxChanges /\ bindErrors \in 0..MaxBindErrors
    /\ Cardinality(Locked) <= 1

\* The first sync of the process, before it serves, is a request like the others.
ProtocolServersInit ==
    /\ required \in SUBSET Listener /\ running = {} /\ task = [l \in Listener |-> "none"]
    /\ endings = {} /\ connected = {} /\ \E s \in Syncs : sync = [q \in Syncs |-> IF q = s THEN Changed ELSE NoSync]
    /\ reads = 0 /\ newest = 0 /\ ended = {} /\ amiss = {} /\ changes = 0 /\ bindErrors = 0

-----------------------------------------------------------------------------
(* The requests. *)
\* A device is created, edited or deleted; the request goes on to the sync.
ChangeDevices(s, now) ==
    /\ sync[s] = NoSync /\ now # required /\ changes < MaxChanges /\ NoneDue
    /\ required' = now /\ changes' = changes + 1 /\ sync' = [sync EXCEPT ![s] = Changed]
    /\ UNCHANGED <<serverTasks, reads, newest, ended, amiss, bindErrors>>

\* get_active_device_protocols
ReadRequired(s) ==
    /\ sync[s] = Changed /\ NoneDue
    /\ reads' = reads + 1 /\ sync' = [sync EXCEPT ![s] = HasRead(required, reads + 1)]
    /\ UNCHANGED <<required, serverTasks, newest, ended, amiss, changes, bindErrors>>

UnwantedNow(read) == running \ read.wanted
\* The lock is free: the entries that are there now are looked at one by one.
TakeLock(s) ==
    /\ sync[s].stage = "read" /\ Locked = {}
    /\ sync' = [sync EXCEPT ![s] = HasLock(sync[s], UnwantedNow(sync[s]), {})]
    /\ IF sync[s].at < newest THEN amiss' = amiss \cup {"older"} /\ UNCHANGED newest
       ELSE amiss' = amiss \ {"older"} /\ newest' = sync[s].at
    /\ UNCHANGED <<required, serverTasks, reads, ended, changes, bindErrors>>

HasNoEntry(l) == l \notin running
\* _stop: the entry goes at once; the listener closes unless its task has ended.
StopListener(s, l) ==
    /\ sync[s].stage = "locked" /\ sync[s].closing = {} /\ l \in sync[s].left /\ ~HasNoEntry(l)
    /\ running' = running \ {l}
    /\ sync' = [sync EXCEPT ![s] = HasLock(@, @.left \ {l}, IF task[l] = "none" THEN {} ELSE {l})]
    /\ UNCHANGED <<required, task, endings, connected, reads, newest, ended, amiss, changes, bindErrors>>

\* The entry went by itself while another listener closed: the pop raises, the lock is
\* released, and nothing is stopped or started any more.
StopRaises(s, l) ==
    /\ sync[s].stage = "locked" /\ sync[s].closing = {} /\ l \in sync[s].left /\ HasNoEntry(l)
    /\ sync' = [sync EXCEPT ![s] = NoSync] /\ amiss' = amiss \cup {"raised"}
    /\ UNCHANGED <<required, serverTasks, reads, newest, ended, changes, bindErrors>>

\* wait_closed returns when no connection is left; the task is cancelled and awaited.
CanClose(l) == l \notin connected
ListenerClosed(s) ==
    /\ sync[s].stage = "locked" /\ sync[s].closing # {} /\ \A l \in sync[s].closing : CanClose(l)
    /\ task' = [l \in Listener |-> IF l \in sync[s].closing THEN "none" ELSE task[l]]
    /\ sync' = [sync EXCEPT ![s].closing = {}]
    /\ UNCHANGED <<required, running, endings, connected, reads, newest, ended, amiss, changes, bindErrors>>

Missing(wanted) == wanted \ running
\* The missing listeners are started, and the lock is released.  A listener that still
\* serves without an entry keeps its port: the new task ends.
StartMissing(s) ==
    /\ sync[s].stage = "locked" /\ sync[s].closing = {} /\ sync[s].left = {}
    /\ LET missing == Missing(sync[s].wanted) IN
       /\ running' = running \cup missing
       /\ task' = [l \in Listener |-> IF l \in missing /\ task[l] = "none" THEN "starting" ELSE task[l]]
       /\ endings' = endings \cup {l \in missing : task[l] # "none"}
       /\ ended' = ended \ missing
       /\ amiss' = (amiss \ {"raised"}) \cup (IF missing \cap endings # {} THEN {"crossed"} ELSE {})
    /\ sync' = [sync EXCEPT ![s] = NoSync]
    /\ UNCHANGED <<required, connected, reads, newest, changes, bindErrors>>

-----------------------------------------------------------------------------
(* The listeners. *)
Bound(l) ==
    /\ task[l] = "starting" /\ NoneDue /\ l \notin Closing
    /\ task' = [task EXCEPT ![l] = "serving"]
    /\ UNCHANGED <<required, running, endings, connected, sync, reads, newest, ended, amiss, changes, bindErrors>>
BindFails(l) ==
    /\ task[l] = "starting" /\ NoneDue /\ l \notin Closing /\ bindErrors < MaxBindErrors
    /\ task' = [task EXCEPT ![l] = "none"] /\ endings' = endings \cup {l} /\ bindErrors' = bindErrors + 1
    /\ UNCHANGED <<required, running, connected, sync, reads, newest, ended, amiss, changes>>

\* _log_task_result removes the entry by its key.
EntryRemoved(l) == running \ {l}
LogTaskResult(l) ==
    /\ l \in endings /\ Paused /\ endings' = endings \ {l}
    /\ running' = EntryRemoved(l)
    /\ ended' = ended \cup (IF l \in running THEN {l} ELSE {})
    /\ UNCHANGED <<required, task, connected, sync, reads, newest, amiss, changes, bindErrors>>

Connect(l) ==
    /\ l \in Tcp \ connected /\ task[l] = "serving" /\ l \notin Closing /\ NoneDue
    /\ connected' = connected \cup {l}
    /\ UNCHANGED <<required, running, task, endings, sync, reads, newest, ended, amiss, changes, bindErrors>>
HangUp(l) ==
    /\ l \in connected /\ NoneDue /\ connected' = connected \ {l}
    /\ UNCHANGED <<required, running, task, endings, sync, reads, newest, ended, amiss, changes, bindErrors>>

SyncStep(s) ==
    \/ ReadRequired(s) \/ TakeLock(s) \/ ListenerClosed(s) \/ StartMissing(s)
    \/ \E l \in Listener : StopListener(s, l) \/ StopRaises(s, l)

ProtocolServersNext ==
    \/ \E s \in Syncs : SyncStep(s) \/ \E now \in SUBSET Listener : ChangeDevices(s, now)
    \/ \E l \in Listener : Bound(l) \/ BindFails(l) \/ LogTaskResult(l) \/ Connect(l) \/ HangUp(l)

-----------------------------------------------------------------------------
AtRest == endings = {} /\ \A s \in Syncs : sync[s] = NoSync

\* "Starts only the protocol listeners required by active devices" (core/gateway.py:310): once
\* no request is under way the listeners that run are the required ones, but for those whose
\* port could not be bound, unless the last request to have the lock raised or had read before
\* another one, or a start met the end of the task before it.
OnlyRequiredRun ==
    AtRest /\ amiss = {} => running \subseteq required /\ required \ running \subseteq ended

\* No listener serves that has no entry and that nobody stops, so that one which is no longer
\* required can be stopped, unless a start met the end of the task before it.
NoListenerForgotten ==
    "crossed" \notin amiss => \A l \in Listener : task[l] # "none" => l \in running \cup Closing

\* Every request gets through the lock and ends, as long as no connection of a listener
\* stays for good.
RequestsGetThrough ==
    (\A l \in Tcp : []<>(l \notin connected)) => []<>(\A s \in Syncs : sync[s] = NoSync)

ProtocolServersSpec == ProtocolServersInit /\ [][ProtocolServersNext]_protocolServersVars

=============================================================================
