---------------------------- MODULE CommandQueue ----------------------------
(***************************************************************************)
(* Delivery of queued commands to one TCP device: the command_queue table, *)
(* the connection handlers of the device (TCPDeviceHandler.handle and the  *)
(* callbacks of main.py it awaits), the in-memory connection registry, the *)
(* operator's requests and the device at the other end of the sockets.     *)
(*                                                                         *)
(* Each await of the code ends an action, so every other task may run      *)
(* between two actions of a handler.  The bytes of a packet, the codec and *)
(* the text of responses are abstracted; which command a row, a write or a *)
(* read is about is kept.  Command c is the c-th row created, so the order *)
(* of created_at is the order of the numbers.                              *)
(***************************************************************************)
EXTENDS Naturals, Sequences, TLC

CONSTANTS
    Conn,          \* the connections the device makes, each used once
    MaxCommands,   \* bound: rows an operator creates
    Unencodable,   \* commands the codec of the device returns no bytes for
    SingleWriter,  \* TRUE: one write transaction at a time (SQLite); FALSE: PostgreSQL
    MaxFaults,     \* bound: database errors inside a callback
    MaxCrashes,    \* bound: restarts of the server process
    None           \* no connection

Command == 1..MaxCommands
NoCommand == 0

ASSUME CommandQueueAssumption ==
    /\ MaxCommands \in Nat
    /\ MaxFaults \in Nat
    /\ MaxCrashes \in Nat
    /\ Unencodable \subseteq Command
    /\ SingleWriter \in BOOLEAN
    /\ None \notin Conn

VARIABLES
    active,      \* devices.is_active
    disabling,   \* update_device has committed is_active = False, disconnect_device is still due
    requested,   \* send_command has seen an active device and is about to insert the row
    created,     \* number of rows created so far
    status,      \* command_queue.status, "absent" before the insert
    sentAt,      \* command_queue.sent_at, as a logical time
    clock,       \* the next value of sent_at
    phase,       \* where each connection handler is
    known,       \* self.imei is set
    todo,        \* the snapshot of pending rows command_callback still has to go through
    target,      \* the row mark_oldest_sent_command_acked selected
    registry,    \* connection_manager.connections[imei]
    sock,        \* state of each socket
    wire,        \* commands written to the socket, not read by the device yet
    acks,        \* ack packets the server has not read yet
    received,    \* how many times the device has read each command
    written,     \* how many times each connection has written each command
    faults,      \* database errors so far
    crashes      \* restarts so far

dbVars      == <<created, status, sentAt, clock>>
adminVars   == <<active, disabling, requested>>
handlerVars == <<phase, known, todo, target>>
netVars     == <<sock, wire, acks>>
ghostVars   == <<received, written>>
limitVars   == <<faults, crashes>>
vars == <<dbVars, adminVars, handlerVars, registry, netVars, ghostVars, limitVars>>

Status == {"absent", "pending", "sent", "acked", "canceled", "deleted"}

\* "idle" connections have not been opened; a handler waits for a packet
\* ("reading"), dispatches ("check", "query", "send", "mark"), records an ack
\* ("ack") or has returned ("closed").
Phase == {"idle", "reading", "check", "query", "send", "mark", "ack", "closed"}

\* "half": the peer is gone but a last packet sits in the stream reader.
Sock == {"none", "open", "half", "dead"}

TypeOK ==
    /\ active \in BOOLEAN
    /\ disabling \in BOOLEAN
    /\ requested \in BOOLEAN
    /\ created \in 0..MaxCommands
    /\ status \in [Command -> Status]
    /\ sentAt \in [Command -> Nat]
    /\ clock \in Nat
    /\ phase \in [Conn -> Phase]
    /\ known \in [Conn -> BOOLEAN]
    /\ todo \in [Conn -> SUBSET Command]
    /\ target \in [Conn -> Command \cup {NoCommand}]
    /\ registry \in Conn \cup {None}
    /\ sock \in [Conn -> Sock]
    /\ wire \in [Conn -> Seq(Command)]
    /\ acks \in [Conn -> Nat]
    /\ received \in [Command -> Nat]
    /\ written \in [Conn -> [Command -> Nat]]
    /\ faults \in 0..MaxFaults
    /\ crashes \in 0..MaxCrashes

Init ==
    /\ active = TRUE
    /\ disabling = FALSE
    /\ requested = FALSE
    /\ created = 0
    /\ status = [c \in Command |-> "absent"]
    /\ sentAt = [c \in Command |-> 0]
    /\ clock = 0
    /\ phase = [h \in Conn |-> "idle"]
    /\ known = [h \in Conn |-> FALSE]
    /\ todo = [h \in Conn |-> {}]
    /\ target = [h \in Conn |-> NoCommand]
    /\ registry = None
    /\ sock = [h \in Conn |-> "none"]
    /\ wire = [h \in Conn |-> <<>>]
    /\ acks = [h \in Conn |-> 0]
    /\ received = [c \in Command |-> 0]
    /\ written = [h \in Conn |-> [c \in Command |-> 0]]
    /\ faults = 0
    /\ crashes = 0

-----------------------------------------------------------------------------
(* Helpers *)

Live(h) == phase[h] \notin {"idle", "closed"}

\* With a single writer, a transaction that has begun to write (the insert of
\* the received row in mark_oldest_sent_command_acked) holds every other write.
DbWritableNoLock == TRUE  \* mutant: the select comes before the insert
DbWritable == SingleWriter => \A h \in Conn : phase[h] # "ack"

HasStatus(s) == {c \in Command : status[c] = s}

\* The first command of S in the order of created_at.
IsFirstNewest(c, S) == c \in S /\ \A d \in S : c >= d  \* mutant: ORDER BY DESC
IsFirst(c, S) == c \in S /\ \A d \in S : c <= d

\* The command of the sent rows with the smallest sent_at.
IsOldestSentNewest(c) ==  \* mutant: sent_at.desc()
    /\ c \in HasStatus("sent")
    /\ \A d \in HasStatus("sent") : sentAt[c] >= sentAt[d]
IsOldestSent(c) ==
    /\ c \in HasStatus("sent")
    /\ \A d \in HasStatus("sent") : sentAt[c] <= sentAt[d]

\* The registry after a packet: register_connection, on every login and on a
\* first position.
RegistryAfterPacketLoginOnly(h) == {h, registry}  \* mutant: positions never register
RegistryAfterPacket(h) == IF known[h] THEN {h, registry} ELSE {h}

\* The registry after a handler returned: unregister_connection goes by IMEI.
RegistryAfterCloseKept(h) == registry  \* mutant: no unregister
RegistryAfterClose(h) == IF known[h] THEN None ELSE registry

-----------------------------------------------------------------------------
(* The operator *)

\* send_command reads the device, refuses a disabled one, and encodes a test.
RequestCommand ==
    /\ active /\ ~requested
    /\ created < MaxCommands
    /\ requested' = TRUE
    /\ UNCHANGED <<dbVars, active, disabling, handlerVars, registry, netVars, ghostVars, limitVars>>

\* create_command inserts the row, whatever happened to the device meanwhile.
CreateCommand ==
    /\ requested /\ DbWritable
    /\ created < MaxCommands
    /\ requested' = FALSE
    /\ created' = created + 1
    /\ status' = [status EXCEPT ![created + 1] = "pending"]
    /\ UNCHANGED <<sentAt, clock, active, disabling, handlerVars, registry, netVars, ghostVars, limitVars>>

CancelCommandAnyStatus(c) ==  \* mutant: no status in the WHERE clause
    /\ DbWritable
    /\ status[c] \notin {"absent", "deleted"}
    /\ status' = [status EXCEPT ![c] = "canceled"]
    /\ UNCHANGED <<created, sentAt, clock, adminVars, handlerVars, registry, netVars, ghostVars, limitVars>>

CancelCommandMisspelt(c) ==  \* mutant: the status nobody else knows
    /\ DbWritable
    /\ status[c] \in {"pending", "sent"}
    /\ status' = [status EXCEPT ![c] = "cancelled"]
    /\ UNCHANGED <<created, sentAt, clock, adminVars, handlerVars, registry, netVars, ghostVars, limitVars>>

CancelCommand(c) ==
    /\ DbWritable
    /\ status[c] \in {"pending", "sent"}
    /\ status' = [status EXCEPT ![c] = "canceled"]
    /\ UNCHANGED <<created, sentAt, clock, adminVars, handlerVars, registry, netVars, ghostVars, limitVars>>

DeleteCommandHistory(c) ==
    /\ DbWritable
    /\ status[c] \notin {"absent", "deleted"}
    /\ status' = [status EXCEPT ![c] = "deleted"]
    /\ UNCHANGED <<created, sentAt, clock, adminVars, handlerVars, registry, netVars, ghostVars, limitVars>>

\* update_device commits is_active = False ...
DisableDevice ==
    /\ DbWritable /\ ~disabling
    /\ active' = FALSE
    /\ disabling' = TRUE
    /\ UNCHANGED <<dbVars, requested, handlerVars, registry, netVars, ghostVars, limitVars>>

\* ... and some awaits later disconnect_device closes the registered writer.
DisconnectDevice ==
    /\ disabling
    /\ disabling' = FALSE
    /\ registry' = None
    /\ \E s \in {"half", "dead"} :
          sock' = [h \in Conn |-> IF h = registry /\ sock[h] = "open" THEN s ELSE sock[h]]
    /\ wire' = [h \in Conn |-> IF h = registry THEN <<>> ELSE wire[h]]
    /\ UNCHANGED <<dbVars, active, requested, handlerVars, acks, ghostVars, limitVars>>

EnableDevice ==
    /\ DbWritable /\ ~active
    /\ active' = TRUE
    /\ UNCHANGED <<dbVars, disabling, requested, handlerVars, registry, netVars, ghostVars, limitVars>>

-----------------------------------------------------------------------------
(* The device and the network *)

\* A device talks on one socket; it opens another only when the last is lost.
Connect(h) ==
    /\ phase[h] = "idle"
    /\ \A g \in Conn : sock[g] # "open"
    /\ phase' = [phase EXCEPT ![h] = "reading"]
    /\ sock' = [sock EXCEPT ![h] = "open"]
    /\ UNCHANGED <<dbVars, adminVars, known, todo, target, registry, wire, acks, ghostVars, limitVars>>

\* The peer is gone: what the server wrote and the device has not read is
\* lost, what the device sent may have arrived already or not.
LoseSocket(h) ==
    /\ sock[h] = "open"
    /\ \E s \in {"half", "dead"} : sock' = [sock EXCEPT ![h] = s]
    /\ wire' = [wire EXCEPT ![h] = <<>>]
    /\ \E n \in 0..acks[h] : acks' = [acks EXCEPT ![h] = n]
    /\ UNCHANGED <<dbVars, adminVars, handlerVars, registry, ghostVars, limitVars>>

\* The device executes the next command it was sent and answers with an ack,
\* which names no command.
DeviceReads(h) ==
    /\ sock[h] = "open"
    /\ wire[h] # <<>>
    /\ received' = [received EXCEPT ![Head(wire[h])] = @ + 1]
    /\ wire' = [wire EXCEPT ![h] = Tail(@)]
    /\ acks' = [acks EXCEPT ![h] = @ + 1]
    /\ UNCHANGED <<dbVars, adminVars, handlerVars, registry, sock, written, limitVars>>

-----------------------------------------------------------------------------
(* The connection handler *)

\* A login or a position.  A login registers the writer, and so does the first
\* position when no login came before it; both end in the command callback.
ReadPacket(h) ==
    /\ phase[h] = "reading"
    /\ \/ sock[h] = "open" /\ UNCHANGED sock
       \/ sock[h] = "half" /\ sock' = [sock EXCEPT ![h] = "dead"]
    /\ phase' = [phase EXCEPT ![h] = "check"]
    /\ known' = [known EXCEPT ![h] = TRUE]
    /\ registry' \in RegistryAfterPacket(h)
    /\ UNCHANGED <<dbVars, adminVars, todo, target, wire, acks, ghostVars, limitVars>>

\* command_callback: get_device_by_imei and the test of is_active.
CheckDevice(h) ==
    /\ phase[h] = "check"
    /\ phase' = [phase EXCEPT ![h] = IF active THEN "query" ELSE "reading"]
    /\ UNCHANGED <<dbVars, adminVars, known, todo, target, registry, netVars, ghostVars, limitVars>>

QueryPendingRetries(h) ==  \* mutant: unacknowledged rows are sent again
    /\ phase[h] = "query"
    /\ todo' = [todo EXCEPT ![h] = HasStatus("pending") \cup HasStatus("sent")]
    /\ phase' = [phase EXCEPT ![h] = "send"]
    /\ UNCHANGED <<dbVars, adminVars, known, target, registry, netVars, ghostVars, limitVars>>

\* get_pending_commands.
QueryPending(h) ==
    /\ phase[h] = "query"
    /\ todo' = [todo EXCEPT ![h] = HasStatus("pending")]
    /\ phase' = [phase EXCEPT ![h] = "send"]
    /\ UNCHANGED <<dbVars, adminVars, known, target, registry, netVars, ghostVars, limitVars>>

SkipEndsDispatch(h, c) ==  \* mutant: the callback returns
    /\ phase[h] = "send"
    /\ IsFirst(c, todo[h]) /\ c \in Unencodable
    /\ todo' = [todo EXCEPT ![h] = {}]
    /\ UNCHANGED <<dbVars, adminVars, phase, known, target, registry, netVars, ghostVars, limitVars>>
\* encode_command returns nothing: the row is passed over.
SkipCommand(h, c) ==
    /\ phase[h] = "send"
    /\ IsFirst(c, todo[h]) /\ c \in Unencodable
    /\ todo' = [todo EXCEPT ![h] = @ \ {c}]
    /\ UNCHANGED <<dbVars, adminVars, phase, known, target, registry, netVars, ghostVars, limitVars>>

\* writer.write and drain return: always on an open socket, and also on one
\* whose loss the server has not noticed.
WriteCommand(h, c) ==
    /\ phase[h] = "send"
    /\ IsFirst(c, todo[h]) /\ c \notin Unencodable
    /\ phase' = [phase EXCEPT ![h] = "mark"]
    /\ wire' = IF sock[h] = "open" THEN [wire EXCEPT ![h] = Append(@, c)] ELSE wire
    /\ written' = [written EXCEPT ![h][c] = @ + 1]
    /\ UNCHANGED <<dbVars, adminVars, known, todo, target, registry, sock, acks, received, limitVars>>

WriteFailsMarks(h, c) ==  \* mutant: marked whether or not the write returned
    /\ phase[h] = "send"
    /\ IsFirst(c, todo[h]) /\ c \notin Unencodable
    /\ sock[h] # "open"
    /\ phase' = [phase EXCEPT ![h] = "mark"]
    /\ UNCHANGED <<dbVars, adminVars, todo, known, target, registry, netVars, ghostVars, limitVars>>

\* drain raises on a lost connection: logged, and on to the next command.
WriteFails(h, c) ==
    /\ phase[h] = "send"
    /\ IsFirst(c, todo[h]) /\ c \notin Unencodable
    /\ sock[h] # "open"
    /\ todo' = [todo EXCEPT ![h] = @ \ {c}]
    /\ UNCHANGED <<dbVars, adminVars, phase, known, target, registry, netVars, ghostVars, limitVars>>

MarkNotCommitted(h, c) ==  \* mutant: the update is not committed
    /\ phase[h] = "mark" /\ DbWritable
    /\ IsFirst(c, todo[h])
    /\ todo' = [todo EXCEPT ![h] = @ \ {c}]
    /\ phase' = [phase EXCEPT ![h] = "send"]
    /\ UNCHANGED <<dbVars, adminVars, known, target, registry, netVars, ghostVars, limitVars>>
\* mark_command_sent: an UPDATE by id that does not look at the status.
MarkCommandSent(h, c) ==
    /\ phase[h] = "mark" /\ DbWritable
    /\ IsFirst(c, todo[h])
    /\ IF status[c] = "deleted"
       THEN UNCHANGED <<status, sentAt, clock>>
       ELSE /\ status' = [status EXCEPT ![c] = "sent"]
            /\ sentAt' = [sentAt EXCEPT ![c] = clock]
            /\ clock' = clock + 1
    /\ todo' = [todo EXCEPT ![h] = @ \ {c}]
    /\ phase' = [phase EXCEPT ![h] = "send"]
    /\ UNCHANGED <<created, adminVars, known, target, registry, netVars, ghostVars, limitVars>>

FinishDispatch(h) ==
    /\ phase[h] = "send"
    /\ todo[h] = {}
    /\ phase' = [phase EXCEPT ![h] = "reading"]
    /\ UNCHANGED <<dbVars, adminVars, known, todo, target, registry, netVars, ghostVars, limitVars>>

\* A command_ack packet: mark_oldest_sent_command_acked inserts the received
\* row and selects the sent row with the smallest sent_at, if there is one.
SelectOldestSent(h) ==
    /\ phase[h] = "reading" /\ known[h] /\ DbWritable
    /\ acks[h] > 0
    /\ acks' = [acks EXCEPT ![h] = @ - 1]
    /\ \E c \in Command \cup {NoCommand} :
          /\ IF HasStatus("sent") = {} THEN c = NoCommand ELSE IsOldestSent(c)
          /\ target' = [target EXCEPT ![h] = c]
    /\ phase' = [phase EXCEPT ![h] = "ack"]
    /\ UNCHANGED <<dbVars, adminVars, known, todo, registry, sock, wire, ghostVars, limitVars>>

MarkAckedNotSaved(h) ==  \* mutant: the row is not in the session any more
    /\ phase[h] = "ack"
    /\ target' = [target EXCEPT ![h] = NoCommand]
    /\ phase' = [phase EXCEPT ![h] = "reading"]
    /\ UNCHANGED <<dbVars, adminVars, known, todo, registry, netVars, ghostVars, limitVars>>

\* The UPDATE of the selected row, by id: no effect on a row deleted since.
\* The handler then goes on to the next packet, without a dispatch.
MarkAcked(h) ==
    /\ phase[h] = "ack"
    /\ status' = [c \in Command |->
                    IF c = target[h] /\ status[c] # "deleted" THEN "acked" ELSE status[c]]
    /\ target' = [target EXCEPT ![h] = NoCommand]
    /\ phase' = [phase EXCEPT ![h] = "reading"]
    /\ UNCHANGED <<created, sentAt, clock, adminVars, known, todo, registry, netVars, ghostVars, limitVars>>

\* A database call of a callback raises: the callback logs it and gives up
\* what it was doing; only a failed mark goes on, with the next command.
DatabaseFault(h) ==
    /\ faults < MaxFaults
    /\ faults' = faults + 1
    /\ \/ /\ phase[h] \in {"check", "query", "ack"}
          /\ phase' = [phase EXCEPT ![h] = "reading"]
          /\ target' = [target EXCEPT ![h] = NoCommand]
          /\ UNCHANGED todo
       \/ /\ phase[h] = "mark"
          /\ phase' = [phase EXCEPT ![h] = "send"]
          /\ \E c \in Command : IsFirst(c, todo[h]) /\ todo' = [todo EXCEPT ![h] = @ \ {c}]
          /\ UNCHANGED target
    /\ UNCHANGED <<dbVars, adminVars, known, registry, netVars, ghostVars, crashes>>

\* End of stream, the 300 s read timeout or a decoder error: the handler
\* unregisters its IMEI, whichever writer is registered, and closes.
CloseHandler(h) ==
    /\ phase[h] = "reading"
    /\ phase' = [phase EXCEPT ![h] = "closed"]
    /\ registry' = RegistryAfterClose(h)
    /\ sock' = [sock EXCEPT ![h] = "dead"]
    /\ wire' = [wire EXCEPT ![h] = <<>>]
    /\ acks' = [acks EXCEPT ![h] = 0]
    /\ UNCHANGED <<dbVars, adminVars, known, todo, target, ghostVars, limitVars>>

\* The process dies and is restarted: handlers, registry and requests in
\* progress are gone, the rows remain.
Crash ==
    /\ crashes < MaxCrashes
    /\ crashes' = crashes + 1
    /\ phase' = [h \in Conn |-> IF Live(h) THEN "closed" ELSE phase[h]]
    /\ sock' = [h \in Conn |-> IF Live(h) THEN "dead" ELSE sock[h]]
    /\ todo' = [h \in Conn |-> {}]
    /\ target' = [h \in Conn |-> NoCommand]
    /\ wire' = [h \in Conn |-> <<>>]
    /\ acks' = [h \in Conn |-> 0]
    /\ registry' = None
    /\ requested' = FALSE
    /\ disabling' = FALSE
    /\ UNCHANGED <<dbVars, active, known, ghostVars, faults>>

-----------------------------------------------------------------------------
Operator ==
    \/ RequestCommand \/ CreateCommand
    \/ DisableDevice \/ DisconnectDevice \/ EnableDevice
    \/ \E c \in Command : CancelCommand(c) \/ DeleteCommandHistory(c)

Dispatch(h) ==
    \/ CheckDevice(h) \/ QueryPending(h) \/ FinishDispatch(h) \/ MarkAcked(h)
    \/ \E c \in Command :
          \/ SkipCommand(h, c) \/ WriteCommand(h, c)
          \/ WriteFails(h, c) \/ MarkCommandSent(h, c)

Connection(h) ==
    \/ Connect(h) \/ LoseSocket(h) \/ DeviceReads(h)
    \/ ReadPacket(h) \/ SelectOldestSent(h) \/ Dispatch(h)
    \/ DatabaseFault(h) \/ CloseHandler(h)

Next == Operator \/ (\E h \in Conn : Connection(h)) \/ Crash

Spec == Init /\ [][Next]_vars

\* Connections are alike.
Symmetry == Permutations(Conn)

-----------------------------------------------------------------------------
(* Fairness *)

\* The event loop runs every task that can run; the device keeps reporting on
\* its open socket, reads what it is sent and opens another socket when it has
\* none; the kernel delivers what arrived in order, so an ack is not overtaken
\* for ever by later packets; a handler notices a dead socket (end of stream
\* or the read timeout).  Operators, losses, faults and restarts owe nothing.
Fairness ==
    /\ \A h \in Conn :
          /\ WF_vars(Dispatch(h))
          /\ SF_vars(ReadPacket(h))
          /\ SF_vars(SelectOldestSent(h))
          /\ WF_vars(DeviceReads(h))
          /\ WF_vars(sock[h] # "open" /\ CloseHandler(h))
    /\ WF_vars(\E h \in Conn : Connect(h))

FairSpec == Spec /\ Fairness

-----------------------------------------------------------------------------
(* Safety *)

\* A row says "sent" or "acked" only if some handler's write of that command
\* returned: neither a failed write, a row passed over by the codec nor an ack
\* for something else moves a row past "pending" (command_callback marks after
\* the write, mark_oldest_sent_command_acked takes sent rows only).
SentWasWritten ==
    \A c \in Command :
        status[c] \in {"sent", "acked"} => \E h \in Conn : written[h][c] > 0

\* However often the callback runs on a connection, it writes a command there
\* once, and once more for each mark that a database error undid.
AtMostOncePerConnection ==
    \A h \in Conn, c \in Command : written[h][c] <= 1 + faults

\* Without database errors a connection that is up sends commands in the order
\* in which they were queued, over any number of dispatches
\* (get_pending_commands orders by created_at).
OldestFirst ==
    [][\A h \in Conn : \A c \in Command :
          (written'[h][c] # written[h][c] /\ sock[h] = "open" /\ faults = 0)
            => \A d \in Command : written[h][d] > 0 => d < c]_vars

\* Some task still holds a reference to the row, read before it changed.
InFlight(c) == \E h \in Conn : c \in todo[h] \/ c = target[h]

Settled(c) == status[c] \in {"acked", "canceled", "deleted"} /\ ~InFlight(c)

\* A command that is finished and that no handler still holds stays finished,
\* is never picked up again and never written again.
SettledIsFinal ==
    [][\A c \in Command : Settled(c) =>
          /\ status'[c] \in {status[c], "deleted"} /\ Settled(c)'
          /\ \A h \in Conn : written'[h][c] = written[h][c]]_vars

\* With SQLite's single writer an operator's cancel is not overwritten by an
\* ack that had selected the row before: only a dispatch that holds the row can.
CancelHoldsAgainstAcks ==
    [][\A c \in Command :
          (status[c] = "canceled" /\ \A h \in Conn : c \notin todo[h])
            => status'[c] \in {"canceled", "deleted"}]_vars

\* The registry never leads to a handler that has returned or that has not
\* identified its device, across reconnections, disconnects and restarts.
RegistryIsLive ==
    registry # None => Live(registry) /\ known[registry]

\* A device that has had one connection only is registered as long as that
\* connection is up: only an overlapping second one can displace it.
SingleConnectionRegistered ==
    \A h \in Conn :
        (sock[h] = "open" /\ known[h] /\ \A g \in Conn \ {h} : phase[g] = "idle")
            => registry = h

\* The ideal regime: one connection, up all along, nothing cancelled, deleted
\* or failed.
Orderly ==
    /\ faults = 0
    /\ \E h \in Conn : sock[h] = "open" /\ \A g \in Conn \ {h} : phase[g] = "idle"
    /\ \A c \in Command : status[c] \notin {"canceled", "deleted"}

\* Acks name no command and are given to the oldest sent row; in the ideal
\* regime that is right: a row that says "acked" was executed by the device.
OrderlyAcksMatch ==
    Orderly => \A c \in Command : status[c] = "acked" => received[c] > 0

\* The rows, with the claims the handlers hold on them, are a CommandLifecycle.
Lifecycle == INSTANCE CommandLifecycle WITH
    toSend <- UNION {todo[h] : h \in Conn},
    toAck  <- {target[h] : h \in Conn} \ {NoCommand}

\* Every step of the queue is a step the lifecycle allows: rows move only
\* through claims taken in the right status, and none is pending twice.
RefinesLifecycle == Lifecycle!Spec

-----------------------------------------------------------------------------
(* Liveness *)

NoConnectionLeft == \A h \in Conn : sock[h] \notin {"none", "open"}

\* A pending command the codec can encode is dispatched while the device is
\* active and connects: the callback runs on every login and position.
PendingIsDispatched ==
    \A c \in Command \ Unencodable :
        status[c] = "pending" ~> (status[c] # "pending" \/ ~active \/ NoConnectionLeft)

\* In the ideal regime every command that was sent is acknowledged.
OrderlySentIsAcked ==
    \A c \in Command : status[c] = "sent" ~> (status[c] # "sent" \/ ~Orderly)

-----------------------------------------------------------------------------
(* What the documentation says, and the code does not do *)

\* docs/features.md: the status of a command goes pending, sent, acked.
AckedIsLast ==
    [][\A c \in Command : status[c] = "acked" => status'[c] \in {"acked", "deleted"}]_vars
=============================================================================
