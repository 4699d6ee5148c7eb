------------------------- MODULE CommandQueueProofs -------------------------
(***************************************************************************)
(* Proofs about CommandQueue, for every set of connections, every number   *)
(* of commands and every bound on faults and restarts.                     *)
(***************************************************************************)
EXTENDS CommandQueue, SequenceTheorems, FiniteSetTheorems, TLAPS

USE CommandQueueAssumption DEF CommandQueueAssumption

-----------------------------------------------------------------------------
(* Type correctness *)

LEMMA TypeInit == Init => TypeOK
  <1> SUFFICES ASSUME Init PROVE TypeOK
    OBVIOUS
  <1>1. wire \in [Conn -> Seq(Command)]
    BY EmptySeq DEF Init
  <1>2. written \in [Conn -> [Command -> Nat]]
    <2>1. [c \in Command |-> 0] \in [Command -> Nat]
      OBVIOUS
    <2> QED BY <2>1 DEF Init
  <1>3. created \in 0..MaxCommands /\ faults \in 0..MaxFaults /\ crashes \in 0..MaxCrashes
    BY DEF Init
  <1> QED
    BY <1>1, <1>2, <1>3 DEF Init, TypeOK, Status, Phase, Sock, NoCommand

LEMMA TypeNext == TypeOK /\ [Next]_vars => TypeOK'
  <1> SUFFICES ASSUME TypeOK, [Next]_vars PROVE TypeOK'
    OBVIOUS
  <1> USE DEF TypeOK, Status, Phase, Sock, NoCommand, dbVars, adminVars, handlerVars,
              netVars, ghostVars, limitVars
  <1>0. CASE UNCHANGED vars BY <1>0 DEF vars
  <1>1. CASE RequestCommand BY <1>1 DEF RequestCommand
  <1>2. CASE CreateCommand
    <2>1. created' \in 0..MaxCommands
      BY <1>2 DEF CreateCommand
    <2>2. status' \in [Command -> Status]
      BY <1>2 DEF CreateCommand
    <2> QED BY <1>2, <2>1, <2>2 DEF CreateCommand
  <1>3. CASE DisableDevice BY <1>3 DEF DisableDevice
  <1>4. CASE DisconnectDevice BY <1>4, EmptySeq DEF DisconnectDevice
  <1>5. CASE EnableDevice BY <1>5 DEF EnableDevice
  <1>6. CASE Crash
    <2>1. wire' \in [Conn -> Seq(Command)]
      BY <1>6, EmptySeq DEF Crash
    <2>2. crashes' \in 0..MaxCrashes
      BY <1>6 DEF Crash
    <2>3. phase' \in [Conn -> Phase] /\ sock' \in [Conn -> Sock]
      BY <1>6 DEF Crash
    <2>4. todo' \in [Conn -> SUBSET Command] /\ acks' \in [Conn -> Nat]
      BY <1>6 DEF Crash
    <2> QED BY <1>6, <2>1, <2>2, <2>3, <2>4 DEF Crash
  <1>7. ASSUME NEW c \in Command, CancelCommand(c) PROVE TypeOK' BY <1>7 DEF CancelCommand
  <1>8. ASSUME NEW c \in Command, DeleteCommandHistory(c) PROVE TypeOK'
    BY <1>8 DEF DeleteCommandHistory
  <1>9. ASSUME NEW h \in Conn, Connect(h) PROVE TypeOK' BY <1>9 DEF Connect
  <1>10. ASSUME NEW h \in Conn, LoseSocket(h) PROVE TypeOK' BY <1>10, EmptySeq DEF LoseSocket
  <1>11. ASSUME NEW h \in Conn, DeviceReads(h) PROVE TypeOK'
    <2>1. wire[h] \in Seq(Command) /\ wire[h] # <<>>
      BY <1>11 DEF DeviceReads
    <2>2. Head(wire[h]) \in Command /\ Tail(wire[h]) \in Seq(Command)
      BY <2>1, HeadTailProperties
    <2>3. wire' \in [Conn -> Seq(Command)]
      BY <1>11, <2>2 DEF DeviceReads
    <2>4. received' \in [Command -> Nat]
      <3>1. received[Head(wire[h])] + 1 \in Nat
        BY <2>2
      <3> QED BY <1>11, <3>1 DEF DeviceReads
    <2>5. acks' \in [Conn -> Nat]
      <3>1. acks[h] + 1 \in Nat
        OBVIOUS
      <3> QED BY <1>11, <3>1 DEF DeviceReads
    <2> QED BY <1>11, <2>3, <2>4, <2>5 DEF DeviceReads
  <1>12. ASSUME NEW h \in Conn, ReadPacket(h) PROVE TypeOK'
    BY <1>12 DEF ReadPacket, RegistryAfterPacket
  <1>13. ASSUME NEW h \in Conn, CheckDevice(h) PROVE TypeOK' BY <1>13 DEF CheckDevice
  <1>14. ASSUME NEW h \in Conn, QueryPending(h) PROVE TypeOK' BY <1>14 DEF QueryPending, HasStatus
  <1>15. ASSUME NEW h \in Conn, FinishDispatch(h) PROVE TypeOK' BY <1>15 DEF FinishDispatch
  <1>16. ASSUME NEW h \in Conn, SelectOldestSent(h) PROVE TypeOK' BY <1>16 DEF SelectOldestSent
  <1>17. ASSUME NEW h \in Conn, MarkAcked(h) PROVE TypeOK' BY <1>17 DEF MarkAcked
  <1>18. ASSUME NEW h \in Conn, DatabaseFault(h) PROVE TypeOK'
    <2>1. faults' \in 0..MaxFaults
      BY <1>18 DEF DatabaseFault
    <2>2. phase' \in [Conn -> Phase]
      BY <1>18 DEF DatabaseFault
    <2>3. todo' \in [Conn -> SUBSET Command]
      <3>1. CASE UNCHANGED todo BY <3>1
      <3>2. ASSUME NEW c \in Command, todo' = [todo EXCEPT ![h] = @ \ {c}]
            PROVE  todo' \in [Conn -> SUBSET Command]
        BY <3>2
      <3> QED BY <1>18, <3>1, <3>2 DEF DatabaseFault
    <2>4. target' \in [Conn -> Command \cup {NoCommand}]
      BY <1>18 DEF DatabaseFault
    <2> QED BY <1>18, <2>1, <2>2, <2>3, <2>4 DEF DatabaseFault
  <1>19. ASSUME NEW h \in Conn, CloseHandler(h) PROVE TypeOK'
    BY <1>19, EmptySeq DEF CloseHandler, RegistryAfterClose
  <1>20. ASSUME NEW h \in Conn, NEW c \in Command, SkipCommand(h, c) PROVE TypeOK'
    BY <1>20 DEF SkipCommand
  <1>21. ASSUME NEW h \in Conn, NEW c \in Command, WriteCommand(h, c) PROVE TypeOK'
    <2>1. wire' \in [Conn -> Seq(Command)]
      BY <1>21 DEF WriteCommand
    <2>3. written' \in [Conn -> [Command -> Nat]]
      BY <1>21 DEF WriteCommand
    <2> QED BY <1>21, <2>1, <2>3 DEF WriteCommand
  <1>22. ASSUME NEW h \in Conn, NEW c \in Command, WriteFails(h, c) PROVE TypeOK'
    BY <1>22 DEF WriteFails
  <1>23. ASSUME NEW h \in Conn, NEW c \in Command, MarkCommandSent(h, c) PROVE TypeOK'
    <2>1. status' \in [Command -> Status]
      BY <1>23 DEF MarkCommandSent
    <2>3. sentAt' \in [Command -> Nat] /\ clock' \in Nat
      <3>1. CASE status[c] = "deleted" BY <1>23, <3>1 DEF MarkCommandSent
      <3>2. CASE status[c] # "deleted"
        <4>1. sentAt' = [sentAt EXCEPT ![c] = clock] /\ clock' = clock + 1
          BY <1>23, <3>2 DEF MarkCommandSent
        <4> QED BY <4>1
      <3> QED BY <3>1, <3>2
    <2>2. todo' \in [Conn -> SUBSET Command] /\ phase' \in [Conn -> Phase]
      BY <1>23 DEF MarkCommandSent
    <2> QED BY <1>23, <2>1, <2>2, <2>3 DEF MarkCommandSent
  <1> QED
    BY <1>0, <1>1, <1>2, <1>3, <1>4, <1>5, <1>6, <1>7, <1>8, <1>9, <1>10, <1>11, <1>12, <1>13,
       <1>14, <1>15, <1>16, <1>17, <1>18, <1>19, <1>20, <1>21, <1>22, <1>23
       DEF Next, Operator, Connection, Dispatch

\* The state of the queue is well typed in every behaviour.
THEOREM CommandQueueTypeCorrect == Spec => []TypeOK
  <1>1. Init => TypeOK BY TypeInit
  <1>2. TypeOK /\ [Next]_vars => TypeOK' BY TypeNext
  <1> QED BY <1>1, <1>2, PTL DEF Spec

-----------------------------------------------------------------------------
(* The inductive invariant *)

\* The command a handler has written and not marked yet.
Unmarked(h, c) == phase[h] = "mark" /\ IsFirst(c, todo[h])

\* Rows beyond the last insert are untouched.
AbsentInv ==
    /\ \A c \in Command : created < c => status[c] = "absent"
    /\ \A c \in Command : status[c] = "absent" =>
          \A h \in Conn : c \notin todo[h] /\ c # target[h] /\ written[h][c] = 0

\* A handler holds rows only while it dispatches or records an ack, and goes on
\* to mark only a row it holds.
HoldInv ==
    \A h \in Conn :
        /\ phase[h] \notin {"send", "mark"} => todo[h] = {}
        /\ phase[h] # "ack" => target[h] = NoCommand

\* Whatever can become sent or acked has been written.
WrittenInv ==
    /\ SentWasWritten
    /\ \A h \in Conn, c \in Command : Unmarked(h, c) => written[h][c] > 0
    /\ \A h \in Conn, c \in Command :
          c = target[h] => \E g \in Conn : written[g][c] > 0

\* A running handler has written a row that it may write again, because it is
\* pending or in its snapshot, no more often than marks of it have failed.
OnceInv ==
    /\ AtMostOncePerConnection
    /\ \A h \in Conn, c \in Command :
          (phase[h] # "closed" /\ ~Unmarked(h, c) /\ (status[c] = "pending" \/ c \in todo[h]))
             => written[h][c] <= faults

IInv == TypeOK /\ AbsentInv /\ HoldInv /\ WrittenInv /\ OnceInv /\ RegistryIsLive
-----------------------------------------------------------------------------
(* Preservation, one lemma per part *)

\* The registry leads to a running, identified handler after every step.
LEMMA RegistryNext == IInv /\ [Next]_vars => RegistryIsLive'
  <1> SUFFICES ASSUME IInv, [Next]_vars PROVE RegistryIsLive'
    OBVIOUS
  <1> USE DEF IInv, TypeOK, RegistryIsLive, Live, dbVars, adminVars, handlerVars, netVars, ghostVars, limitVars
  <1>0. CASE UNCHANGED vars BY <1>0 DEF vars
  <1>1. CASE RequestCommand
    BY <1>1 DEF RequestCommand
  <1>2. CASE CreateCommand
    BY <1>2 DEF CreateCommand
  <1>3. CASE DisableDevice
    BY <1>3 DEF DisableDevice
  <1>4. CASE DisconnectDevice
    BY <1>4 DEF DisconnectDevice
  <1>5. CASE EnableDevice
    BY <1>5 DEF EnableDevice
  <1>6. CASE Crash
    BY <1>6 DEF Crash
  <1>7. ASSUME NEW c \in Command, CancelCommand(c) PROVE RegistryIsLive'
    BY <1>7 DEF CancelCommand
  <1>8. ASSUME NEW c \in Command, DeleteCommandHistory(c) PROVE RegistryIsLive'
    BY <1>8 DEF DeleteCommandHistory
  <1>9. ASSUME NEW h \in Conn, Connect(h) PROVE RegistryIsLive'
    BY <1>9 DEF Connect
  <1>10. ASSUME NEW h \in Conn, LoseSocket(h) PROVE RegistryIsLive'
    BY <1>10 DEF LoseSocket
  <1>11. ASSUME NEW h \in Conn, DeviceReads(h) PROVE RegistryIsLive'
    BY <1>11 DEF DeviceReads
  <1>12. ASSUME NEW h \in Conn, ReadPacket(h) PROVE RegistryIsLive'
    BY <1>12 DEF ReadPacket, RegistryAfterPacket
  <1>13. ASSUME NEW h \in Conn, CheckDevice(h) PROVE RegistryIsLive'
    BY <1>13 DEF CheckDevice
  <1>14. ASSUME NEW h \in Conn, QueryPending(h) PROVE RegistryIsLive'
    BY <1>14 DEF QueryPending
  <1>15. ASSUME NEW h \in Conn, FinishDispatch(h) PROVE RegistryIsLive'
    BY <1>15 DEF FinishDispatch
  <1>16. ASSUME NEW h \in Conn, SelectOldestSent(h) PROVE RegistryIsLive'
    BY <1>16 DEF SelectOldestSent
  <1>17. ASSUME NEW h \in Conn, MarkAcked(h) PROVE RegistryIsLive'
    BY <1>17 DEF MarkAcked
  <1>18. ASSUME NEW h \in Conn, DatabaseFault(h) PROVE RegistryIsLive'
    BY <1>18 DEF DatabaseFault
  <1>19. ASSUME NEW h \in Conn, CloseHandler(h) PROVE RegistryIsLive'
    BY <1>19 DEF CloseHandler, RegistryAfterClose
  <1>20. ASSUME NEW h \in Conn, NEW c \in Command, SkipCommand(h, c) PROVE RegistryIsLive'
    BY <1>20 DEF SkipCommand
  <1>21. ASSUME NEW h \in Conn, NEW c \in Command, WriteCommand(h, c) PROVE RegistryIsLive'
    BY <1>21 DEF WriteCommand
  <1>22. ASSUME NEW h \in Conn, NEW c \in Command, WriteFails(h, c) PROVE RegistryIsLive'
    BY <1>22 DEF WriteFails
  <1>23. ASSUME NEW h \in Conn, NEW c \in Command, MarkCommandSent(h, c) PROVE RegistryIsLive'
    BY <1>23 DEF MarkCommandSent
  <1> QED
    BY <1>0, <1>1, <1>2, <1>3, <1>4, <1>5, <1>6, <1>7, <1>8, <1>9, <1>10, <1>11, <1>12,
       <1>13, <1>14, <1>15, <1>16, <1>17, <1>18, <1>19, <1>20, <1>21, <1>22, <1>23
       DEF Next, Operator, Connection, Dispatch

\* Handlers let go of their rows when they leave a dispatch or an ack.
LEMMA HoldNext == IInv /\ [Next]_vars => HoldInv'
  <1> SUFFICES ASSUME IInv, [Next]_vars PROVE HoldInv'
    OBVIOUS
  <1> USE DEF IInv, TypeOK, HoldInv, Live, NoCommand, dbVars, adminVars, handlerVars, netVars, ghostVars, limitVars
  <1>0. CASE UNCHANGED vars BY <1>0 DEF vars
  <1>1. CASE RequestCommand
    BY <1>1 DEF RequestCommand
  <1>2. CASE CreateCommand
    BY <1>2 DEF CreateCommand
  <1>3. CASE DisableDevice
    BY <1>3 DEF DisableDevice
  <1>4. CASE DisconnectDevice
    BY <1>4 DEF DisconnectDevice
  <1>5. CASE EnableDevice
    BY <1>5 DEF EnableDevice
  <1>6. CASE Crash
    BY <1>6 DEF Crash
  <1>7. ASSUME NEW c \in Command, CancelCommand(c) PROVE HoldInv'
    BY <1>7 DEF CancelCommand
  <1>8. ASSUME NEW c \in Command, DeleteCommandHistory(c) PROVE HoldInv'
    BY <1>8 DEF DeleteCommandHistory
  <1>9. ASSUME NEW h \in Conn, Connect(h) PROVE HoldInv'
    BY <1>9 DEF Connect
  <1>10. ASSUME NEW h \in Conn, LoseSocket(h) PROVE HoldInv'
    BY <1>10 DEF LoseSocket
  <1>11. ASSUME NEW h \in Conn, DeviceReads(h) PROVE HoldInv'
    BY <1>11 DEF DeviceReads
  <1>12. ASSUME NEW h \in Conn, ReadPacket(h) PROVE HoldInv'
    BY <1>12 DEF ReadPacket
  <1>13. ASSUME NEW h \in Conn, CheckDevice(h) PROVE HoldInv'
    BY <1>13 DEF CheckDevice
  <1>14. ASSUME NEW h \in Conn, QueryPending(h) PROVE HoldInv'
    BY <1>14 DEF QueryPending
  <1>15. ASSUME NEW h \in Conn, FinishDispatch(h) PROVE HoldInv'
    BY <1>15 DEF FinishDispatch
  <1>16. ASSUME NEW h \in Conn, SelectOldestSent(h) PROVE HoldInv'
    BY <1>16 DEF SelectOldestSent
  <1>17. ASSUME NEW h \in Conn, MarkAcked(h) PROVE HoldInv'
    BY <1>17 DEF MarkAcked
  <1>18. ASSUME NEW h \in Conn, DatabaseFault(h) PROVE HoldInv'
    BY <1>18 DEF DatabaseFault
  <1>19. ASSUME NEW h \in Conn, CloseHandler(h) PROVE HoldInv'
    BY <1>19 DEF CloseHandler
  <1>20. ASSUME NEW h \in Conn, NEW c \in Command, SkipCommand(h, c) PROVE HoldInv'
    BY <1>20 DEF SkipCommand
  <1>21. ASSUME NEW h \in Conn, NEW c \in Command, WriteCommand(h, c) PROVE HoldInv'
    BY <1>21 DEF WriteCommand
  <1>22. ASSUME NEW h \in Conn, NEW c \in Command, WriteFails(h, c) PROVE HoldInv'
    BY <1>22 DEF WriteFails
  <1>23. ASSUME NEW h \in Conn, NEW c \in Command, MarkCommandSent(h, c) PROVE HoldInv'
    BY <1>23 DEF MarkCommandSent
  <1> QED
    BY <1>0, <1>1, <1>2, <1>3, <1>4, <1>5, <1>6, <1>7, <1>8, <1>9, <1>10, <1>11, <1>12,
       <1>13, <1>14, <1>15, <1>16, <1>17, <1>18, <1>19, <1>20, <1>21, <1>22, <1>23
       DEF Next, Operator, Connection, Dispatch
-----------------------------------------------------------------------------
(* What four of the actions do, row by row *)

LEMMA CreateEffect ==
    ASSUME TypeOK, CreateCommand
    PROVE  /\ created \in Nat /\ created + 1 \in Command /\ created' = created + 1
           /\ \A d \in Command : status'[d] = IF d = created + 1 THEN "pending" ELSE status[d]
           /\ UNCHANGED <<handlerVars, ghostVars, limitVars>>
  <1>1. created \in Nat /\ created + 1 \in Command
    BY DEF CreateCommand, Command, TypeOK
  <1> QED BY <1>1 DEF CreateCommand, TypeOK

LEMMA FaultEffect ==
    ASSUME TypeOK, NEW h \in Conn, DatabaseFault(h)
    PROVE  /\ faults' = faults + 1 /\ UNCHANGED <<dbVars, ghostVars>>
           /\ \A g \in Conn :
                 /\ todo'[g] \subseteq todo[g]
                 /\ target'[g] \in {target[g], NoCommand}
                 /\ phase'[g] = "mark" => phase[g] = "mark" /\ todo'[g] = todo[g]
                 /\ phase'[g] = "closed" => phase[g] = "closed"
                 /\ phase'[g] \in {phase[g], "reading", "send"}
  <1>1. CASE phase[h] \in {"check", "query", "ack"} /\ UNCHANGED todo
             /\ phase' = [phase EXCEPT ![h] = "reading"]
             /\ target' = [target EXCEPT ![h] = NoCommand]
    BY <1>1 DEF DatabaseFault, TypeOK
  <1>2. ASSUME NEW c \in Command, todo' = [todo EXCEPT ![h] = @ \ {c}], UNCHANGED target,
               phase' = [phase EXCEPT ![h] = "send"]
        PROVE  \A g \in Conn :
                 /\ todo'[g] \subseteq todo[g]
                 /\ target'[g] \in {target[g], NoCommand}
                 /\ phase'[g] = "mark" => phase[g] = "mark" /\ todo'[g] = todo[g]
                 /\ phase'[g] = "closed" => phase[g] = "closed"
                 /\ phase'[g] \in {phase[g], "reading", "send"}
    BY <1>2 DEF TypeOK
  <1> QED BY <1>1, <1>2 DEF DatabaseFault

\* Row c leaves the snapshot of handler h and says "sent", unless it is deleted.
Marked(h, c) ==
    /\ phase[h] = "mark" /\ IsFirst(c, todo[h])
    /\ UNCHANGED <<created, target, written, faults>>
    /\ \A d \in Command :
          status'[d] = IF d = c /\ status[c] # "deleted" THEN "sent" ELSE status[d]
    /\ \A g \in Conn : todo'[g] = IF g = h THEN todo[h] \ {c} ELSE todo[g]
    /\ \A g \in Conn : phase'[g] = IF g = h THEN "send" ELSE phase[g]

LEMMA MarkEffect ==
    ASSUME TypeOK, NEW h \in Conn, NEW c \in Command, MarkCommandSent(h, c)
    PROVE  Marked(h, c)
  <1>1. phase[h] = "mark" /\ IsFirst(c, todo[h])
    BY DEF MarkCommandSent
  <1>2. UNCHANGED <<created, target, written, faults>>
    BY DEF MarkCommandSent, ghostVars, limitVars
  <1>3. \A d \in Command :
           status'[d] = IF d = c /\ status[c] # "deleted" THEN "sent" ELSE status[d]
    BY DEF MarkCommandSent, TypeOK
  <1>4. \A g \in Conn : todo'[g] = IF g = h THEN todo[h] \ {c} ELSE todo[g]
    BY DEF MarkCommandSent, TypeOK
  <1>5. \A g \in Conn : phase'[g] = IF g = h THEN "send" ELSE phase[g]
    BY DEF MarkCommandSent, TypeOK
  <1> QED BY <1>1, <1>2, <1>3, <1>4, <1>5 DEF Marked

LEMMA WriteEffect ==
    ASSUME TypeOK, NEW h \in Conn, NEW c \in Command, WriteCommand(h, c)
    PROVE  /\ phase[h] = "send" /\ IsFirst(c, todo[h])
           /\ UNCHANGED <<dbVars, todo, target, faults>>
           /\ \A g \in Conn, d \in Command :
                 written'[g][d] = IF g = h /\ d = c THEN written[h][c] + 1 ELSE written[g][d]
           /\ \A g \in Conn : phase'[g] = IF g = h THEN "mark" ELSE phase[g]
  <1>1. \A g \in Conn, d \in Command :
           written'[g][d] = IF g = h /\ d = c THEN written[h][c] + 1 ELSE written[g][d]
    BY DEF WriteCommand, TypeOK
  <1>2. \A g \in Conn : phase'[g] = IF g = h THEN "mark" ELSE phase[g]
    BY DEF WriteCommand, TypeOK
  <1>3. UNCHANGED <<dbVars, todo, target, faults>>
    BY DEF WriteCommand, dbVars, limitVars
  <1>4. phase[h] = "send" /\ IsFirst(c, todo[h])
    BY DEF WriteCommand
  <1> QED BY <1>1, <1>2, <1>3, <1>4

-----------------------------------------------------------------------------

\* Rows not inserted yet stay untouched.
LEMMA AbsentNext == IInv /\ [Next]_vars => AbsentInv'
  <1> SUFFICES ASSUME IInv, [Next]_vars PROVE AbsentInv'
    OBVIOUS
  <1> USE DEF IInv, AbsentInv, NoCommand, HasStatus, IsFirst, IsOldestSent, dbVars, adminVars, handlerVars, netVars, ghostVars, limitVars
  <1>a. 0 \notin Command /\ \A d \in Command : d \in Nat
    BY DEF Command
  <1> USE <1>a
  <1>0. CASE UNCHANGED vars BY <1>0 DEF vars
  <1>1. CASE RequestCommand
    BY <1>1 DEF RequestCommand, TypeOK
  <1>2. CASE CreateCommand
    BY <1>2, CreateEffect
  <1>3. CASE DisableDevice
    BY <1>3 DEF DisableDevice, TypeOK
  <1>4. CASE DisconnectDevice
    BY <1>4 DEF DisconnectDevice, TypeOK
  <1>5. CASE EnableDevice
    BY <1>5 DEF EnableDevice, TypeOK
  <1>6. CASE Crash
    BY <1>6 DEF Crash, TypeOK
  <1>7. ASSUME NEW c \in Command, CancelCommand(c) PROVE AbsentInv'
    BY <1>7 DEF CancelCommand, TypeOK
  <1>8. ASSUME NEW c \in Command, DeleteCommandHistory(c) PROVE AbsentInv'
    BY <1>8 DEF DeleteCommandHistory, TypeOK
  <1>9. ASSUME NEW h \in Conn, Connect(h) PROVE AbsentInv'
    BY <1>9 DEF Connect, TypeOK
  <1>10. ASSUME NEW h \in Conn, LoseSocket(h) PROVE AbsentInv'
    BY <1>10 DEF LoseSocket, TypeOK
  <1>11. ASSUME NEW h \in Conn, DeviceReads(h) PROVE AbsentInv'
    BY <1>11 DEF DeviceReads, TypeOK
  <1>12. ASSUME NEW h \in Conn, ReadPacket(h) PROVE AbsentInv'
    BY <1>12 DEF ReadPacket, TypeOK
  <1>13. ASSUME NEW h \in Conn, CheckDevice(h) PROVE AbsentInv'
    BY <1>13 DEF CheckDevice, TypeOK
  <1>14. ASSUME NEW h \in Conn, QueryPending(h) PROVE AbsentInv'
    BY <1>14 DEF QueryPending, TypeOK
  <1>15. ASSUME NEW h \in Conn, FinishDispatch(h) PROVE AbsentInv'
    BY <1>15 DEF FinishDispatch, TypeOK
  <1>16. ASSUME NEW h \in Conn, SelectOldestSent(h) PROVE AbsentInv'
    BY <1>16 DEF SelectOldestSent, TypeOK
  <1>17. ASSUME NEW h \in Conn, MarkAcked(h) PROVE AbsentInv'
    BY <1>17 DEF MarkAcked, TypeOK
  <1>18. ASSUME NEW h \in Conn, DatabaseFault(h) PROVE AbsentInv'
    BY <1>18, FaultEffect
  <1>19. ASSUME NEW h \in Conn, CloseHandler(h) PROVE AbsentInv'
    BY <1>19 DEF CloseHandler, TypeOK
  <1>20. ASSUME NEW h \in Conn, NEW c \in Command, SkipCommand(h, c) PROVE AbsentInv'
    BY <1>20 DEF SkipCommand, TypeOK
  <1>21. ASSUME NEW h \in Conn, NEW c \in Command, WriteCommand(h, c) PROVE AbsentInv'
    BY <1>21, WriteEffect DEF WriteCommand
  <1>22. ASSUME NEW h \in Conn, NEW c \in Command, WriteFails(h, c) PROVE AbsentInv'
    BY <1>22 DEF WriteFails, TypeOK
  <1>23. ASSUME NEW h \in Conn, NEW c \in Command, MarkCommandSent(h, c) PROVE AbsentInv'
    <2>0. Marked(h, c)
      BY <1>23, MarkEffect
    <2>1. c \in todo[h]
      BY <2>0 DEF Marked
    <2>2. status[c] # "absent"
      BY <2>1
    <2>3. \A d \in Command : status'[d] = "absent" <=> status[d] = "absent"
      BY <2>0, <2>2 DEF Marked
    <2>4. \A g \in Conn : todo'[g] \subseteq todo[g]
      BY <2>0 DEF Marked
    <2>5. UNCHANGED <<created, target, written>>
      BY <2>0 DEF Marked
    <2> QED BY <2>3, <2>4, <2>5
  <1> QED
    BY <1>0, <1>1, <1>2, <1>3, <1>4, <1>5, <1>6, <1>7, <1>8, <1>9, <1>10, <1>11, <1>12,
       <1>13, <1>14, <1>15, <1>16, <1>17, <1>18, <1>19, <1>20, <1>21, <1>22, <1>23
       DEF Next, Operator, Connection, Dispatch

\* What is sent, acked, about to be marked or acked has been written.
LEMMA WrittenNext == IInv /\ [Next]_vars => WrittenInv'
  <1> SUFFICES ASSUME IInv, [Next]_vars PROVE WrittenInv'
    OBVIOUS
  <1> USE DEF IInv, WrittenInv, SentWasWritten, Unmarked, NoCommand, HasStatus, IsFirst, IsOldestSent, dbVars, adminVars, handlerVars, netVars, ghostVars, limitVars
  <1>a. 0 \notin Command /\ \A d \in Command : d \in Nat
    BY DEF Command
  <1> USE <1>a
  <1>0. CASE UNCHANGED vars BY <1>0 DEF vars
  <1>1. CASE RequestCommand
    BY <1>1 DEF RequestCommand, TypeOK
  <1>2. CASE CreateCommand
    BY <1>2 DEF CreateCommand, TypeOK
  <1>3. CASE DisableDevice
    BY <1>3 DEF DisableDevice, TypeOK
  <1>4. CASE DisconnectDevice
    BY <1>4 DEF DisconnectDevice, TypeOK
  <1>5. CASE EnableDevice
    BY <1>5 DEF EnableDevice, TypeOK
  <1>6. CASE Crash
    BY <1>6 DEF Crash, TypeOK
  <1>7. ASSUME NEW c \in Command, CancelCommand(c) PROVE WrittenInv'
    BY <1>7 DEF CancelCommand, TypeOK
  <1>8. ASSUME NEW c \in Command, DeleteCommandHistory(c) PROVE WrittenInv'
    BY <1>8 DEF DeleteCommandHistory, TypeOK
  <1>9. ASSUME NEW h \in Conn, Connect(h) PROVE WrittenInv'
    BY <1>9 DEF Connect, TypeOK
  <1>10. ASSUME NEW h \in Conn, LoseSocket(h) PROVE WrittenInv'
    BY <1>10 DEF LoseSocket, TypeOK
  <1>11. ASSUME NEW h \in Conn, DeviceReads(h) PROVE WrittenInv'
    BY <1>11 DEF DeviceReads, TypeOK
  <1>12. ASSUME NEW h \in Conn, ReadPacket(h) PROVE WrittenInv'
    BY <1>12 DEF ReadPacket, TypeOK
  <1>13. ASSUME NEW h \in Conn, CheckDevice(h) PROVE WrittenInv'
    BY <1>13 DEF CheckDevice, TypeOK
  <1>14. ASSUME NEW h \in Conn, QueryPending(h) PROVE WrittenInv'
    BY <1>14 DEF QueryPending, TypeOK
  <1>15. ASSUME NEW h \in Conn, FinishDispatch(h) PROVE WrittenInv'
    BY <1>15 DEF FinishDispatch, TypeOK
  <1>16. ASSUME NEW h \in Conn, SelectOldestSent(h) PROVE WrittenInv'
    <2>1. UNCHANGED <<status, todo, written>>
      BY <1>16 DEF SelectOldestSent
    <2>2. \A g \in Conn : phase'[g] = "mark" => phase[g] = "mark"
      BY <1>16 DEF SelectOldestSent, TypeOK
    <2>3. \A g \in Conn, d \in Command : d = target'[g] => d = target[g] \/ status[d] = "sent"
      BY <1>16 DEF SelectOldestSent, TypeOK
    <2> QED BY <2>1, <2>2, <2>3
  <1>17. ASSUME NEW h \in Conn, MarkAcked(h) PROVE WrittenInv'
    BY <1>17 DEF MarkAcked, TypeOK
  <1>18. ASSUME NEW h \in Conn, DatabaseFault(h) PROVE WrittenInv'
    BY <1>18, FaultEffect
  <1>19. ASSUME NEW h \in Conn, CloseHandler(h) PROVE WrittenInv'
    BY <1>19 DEF CloseHandler, TypeOK
  <1>20. ASSUME NEW h \in Conn, NEW c \in Command, SkipCommand(h, c) PROVE WrittenInv'
    BY <1>20 DEF SkipCommand, TypeOK
  <1>21. ASSUME NEW h \in Conn, NEW c \in Command, WriteCommand(h, c) PROVE WrittenInv'
    <2> \A g \in Conn, d \in Command : written[g][d] \in Nat /\ (written[g][d] > 0 => written'[g][d] > 0)
      <3>1. \A g \in Conn, d \in Command : written[g][d] \in Nat
        BY DEF TypeOK
      <3> QED BY <1>21, <3>1, WriteEffect
    <2>1. SentWasWritten'
      BY <1>21, WriteEffect
    <2>2. (\A g \in Conn, d \in Command : Unmarked(g, d) => written[g][d] > 0)'
      <3> SUFFICES ASSUME NEW g \in Conn, NEW d \in Command, Unmarked(g, d)'
                   PROVE  written'[g][d] > 0
        OBVIOUS
      <3>1. CASE g = h
        <4>1. d = c
          BY <1>21, <3>1, WriteEffect
        <4> QED BY <1>21, <3>1, <4>1, WriteEffect
      <3>2. CASE g # h
        BY <1>21, <3>2, WriteEffect
      <3> QED BY <3>1, <3>2
    <2>3. (\A g \in Conn, d \in Command : d = target[g] => \E k \in Conn : written[k][d] > 0)'
      BY <1>21, WriteEffect
    <2> QED BY <2>1, <2>2, <2>3
  <1>22. ASSUME NEW h \in Conn, NEW c \in Command, WriteFails(h, c) PROVE WrittenInv'
    BY <1>22 DEF WriteFails, TypeOK
  <1>23. ASSUME NEW h \in Conn, NEW c \in Command, MarkCommandSent(h, c) PROVE WrittenInv'
    <2>0. Marked(h, c)
      BY <1>23, MarkEffect
    <2>1. written[h][c] > 0 /\ written' = written /\ target' = target
      BY <2>0 DEF Marked
    <2>2. SentWasWritten'
      BY <2>0, <2>1 DEF Marked
    <2>3. \A g \in Conn, d \in Command : Unmarked(g, d)' => Unmarked(g, d)
      BY <2>0 DEF Marked
    <2> QED BY <2>1, <2>2, <2>3
  <1> QED
    BY <1>0, <1>1, <1>2, <1>3, <1>4, <1>5, <1>6, <1>7, <1>8, <1>9, <1>10, <1>11, <1>12,
       <1>13, <1>14, <1>15, <1>16, <1>17, <1>18, <1>19, <1>20, <1>21, <1>22, <1>23
       DEF Next, Operator, Connection, Dispatch

\* No handler writes a row once more than marks of it have failed.
LEMMA OnceNext == IInv /\ [Next]_vars => OnceInv'
  <1> SUFFICES ASSUME IInv, [Next]_vars PROVE OnceInv'
    OBVIOUS
  <1> USE DEF IInv, AbsentInv, HoldInv, OnceInv, AtMostOncePerConnection, Unmarked, NoCommand, HasStatus, IsFirst, dbVars, adminVars, handlerVars, netVars, ghostVars, limitVars
  <1>a. 0 \notin Command /\ \A d \in Command : d \in Nat
    BY DEF Command
  <1>b. faults \in Nat /\ \A g \in Conn, d \in Command : written[g][d] \in Nat
    BY DEF TypeOK
  <1> USE <1>a, <1>b
  <1>0. CASE UNCHANGED vars BY <1>0 DEF vars
  <1>1. CASE RequestCommand
    BY <1>1 DEF RequestCommand, TypeOK
  <1>2. CASE CreateCommand
    <2> SUFFICES ASSUME NEW g \in Conn, NEW d \in Command, phase[g] # "closed",
                        ~Unmarked(g, d), status'[d] = "pending" \/ d \in todo[g]
                 PROVE  written[g][d] <= faults
      BY <1>2, CreateEffect
    <2>1. CASE d = created + 1
      <3>1. status[d] = "absent"
        BY <1>2, <2>1, CreateEffect
      <3> QED BY <3>1
    <2>2. CASE d # created + 1
      BY <1>2, <2>2, CreateEffect
    <2> QED BY <2>1, <2>2
  <1>3. CASE DisableDevice
    BY <1>3 DEF DisableDevice, TypeOK
  <1>4. CASE DisconnectDevice
    BY <1>4 DEF DisconnectDevice, TypeOK
  <1>5. CASE EnableDevice
    BY <1>5 DEF EnableDevice, TypeOK
  <1>6. CASE Crash
    <2>1. \A g \in Conn : phase'[g] # "closed" => phase[g] = "idle" /\ todo[g] = {}
      BY <1>6 DEF Crash, Live, TypeOK
    <2>2. \A g \in Conn : todo'[g] = {}
      BY <1>6 DEF Crash
    <2>3. UNCHANGED <<status, written, faults>>
      BY <1>6 DEF Crash
    <2> QED BY <2>1, <2>2, <2>3
  <1>7. ASSUME NEW c \in Command, CancelCommand(c) PROVE OnceInv'
    <2>1. /\ UNCHANGED <<phase, todo, written, faults>>
          /\ \A d \in Command : status'[d] = "pending" => status[d] = "pending"
      BY <1>7 DEF CancelCommand, TypeOK
    <2> QED BY <2>1
  <1>8. ASSUME NEW c \in Command, DeleteCommandHistory(c) PROVE OnceInv'
    BY <1>8 DEF DeleteCommandHistory, TypeOK
  <1>9. ASSUME NEW h \in Conn, Connect(h) PROVE OnceInv'
    BY <1>9 DEF Connect, TypeOK
  <1>10. ASSUME NEW h \in Conn, LoseSocket(h) PROVE OnceInv'
    BY <1>10 DEF LoseSocket, TypeOK
  <1>11. ASSUME NEW h \in Conn, DeviceReads(h) PROVE OnceInv'
    BY <1>11 DEF DeviceReads, TypeOK
  <1>12. ASSUME NEW h \in Conn, ReadPacket(h) PROVE OnceInv'
    BY <1>12 DEF ReadPacket, TypeOK
  <1>13. ASSUME NEW h \in Conn, CheckDevice(h) PROVE OnceInv'
    BY <1>13 DEF CheckDevice, TypeOK
  <1>14. ASSUME NEW h \in Conn, QueryPending(h) PROVE OnceInv'
    <2>1. UNCHANGED <<status, written, faults>> /\ phase[h] = "query"
      BY <1>14 DEF QueryPending
    <2>2. \A g \in Conn : g # h => todo'[g] = todo[g] /\ phase'[g] = phase[g]
      BY <1>14 DEF QueryPending, TypeOK
    <2>3. phase'[h] = "send" /\ \A d \in todo'[h] : status[d] = "pending"
      BY <1>14 DEF QueryPending, TypeOK
    <2> QED BY <2>1, <2>2, <2>3
  <1>15. ASSUME NEW h \in Conn, FinishDispatch(h) PROVE OnceInv'
    BY <1>15 DEF FinishDispatch, TypeOK
  <1>16. ASSUME NEW h \in Conn, SelectOldestSent(h) PROVE OnceInv'
    BY <1>16 DEF SelectOldestSent, TypeOK
  <1>17. ASSUME NEW h \in Conn, MarkAcked(h) PROVE OnceInv'
    BY <1>17 DEF MarkAcked, TypeOK
  <1>18. ASSUME NEW h \in Conn, DatabaseFault(h) PROVE OnceInv'
    <2>1. AtMostOncePerConnection'
      BY <1>18, FaultEffect
    <2>2. ASSUME NEW g \in Conn, NEW d \in Command
          PROVE  written'[g][d] <= faults'
      BY <1>18, FaultEffect
    <2> QED BY <2>1, <2>2
  <1>19. ASSUME NEW h \in Conn, CloseHandler(h) PROVE OnceInv'
    BY <1>19 DEF CloseHandler, TypeOK
  <1>20. ASSUME NEW h \in Conn, NEW c \in Command, SkipCommand(h, c) PROVE OnceInv'
    <2>1. UNCHANGED <<status, phase, written, faults>> /\ phase[h] = "send"
      BY <1>20 DEF SkipCommand
    <2>2. \A g \in Conn : todo'[g] \subseteq todo[g] /\ (g # h => todo'[g] = todo[g])
      BY <1>20 DEF SkipCommand, TypeOK
    <2> QED BY <2>1, <2>2
  <1>21. ASSUME NEW h \in Conn, NEW c \in Command, WriteCommand(h, c) PROVE OnceInv'
    <2>1. written[h][c] <= faults
      BY <1>21, WriteEffect
    <2>2. AtMostOncePerConnection'
      BY <1>21, <2>1, WriteEffect
    <2>3. ASSUME NEW g \in Conn, NEW d \in Command, phase'[g] # "closed", ~Unmarked(g, d)',
                 status'[d] = "pending" \/ d \in todo'[g]
          PROVE  written'[g][d] <= faults'
      <3>1. CASE g = h /\ d = c
        BY <1>21, <2>3, <3>1, WriteEffect
      <3>2. CASE g = h /\ d # c
        BY <1>21, <2>3, <3>2, WriteEffect
      <3>3. CASE g # h
        BY <1>21, <2>3, <3>3, WriteEffect
      <3> QED BY <3>1, <3>2, <3>3
    <2> QED BY <2>2, <2>3
  <1>22. ASSUME NEW h \in Conn, NEW c \in Command, WriteFails(h, c) PROVE OnceInv'
    <2>1. UNCHANGED <<status, phase, written, faults>> /\ phase[h] = "send"
      BY <1>22 DEF WriteFails
    <2>2. \A g \in Conn : todo'[g] \subseteq todo[g] /\ (g # h => todo'[g] = todo[g])
      BY <1>22 DEF WriteFails, TypeOK
    <2> QED BY <2>1, <2>2
  <1>23. ASSUME NEW h \in Conn, NEW c \in Command, MarkCommandSent(h, c) PROVE OnceInv'
    <2>0. Marked(h, c)
      BY <1>23, MarkEffect
    <2>1. UNCHANGED <<written, faults>>
      BY <2>0 DEF Marked
    <2>2. \A d \in Command : status'[d] = "pending" => d # c /\ status[d] = "pending"
      <3>1. \A d \in Command :
               status'[d] = IF d = c /\ status[c] # "deleted" THEN "sent" ELSE status[d]
        BY <2>0 DEF Marked
      <3> QED BY <3>1
    <2>3. \A g \in Conn : todo'[g] = IF g = h THEN todo[h] \ {c} ELSE todo[g]
      BY <2>0 DEF Marked
    <2>4. \A g \in Conn : phase'[g] = IF g = h THEN "send" ELSE phase[g]
      BY <2>0 DEF Marked
    <2>5. phase[h] = "mark" /\ IsFirst(c, todo[h])
      BY <2>0 DEF Marked
    <2>6. ASSUME NEW g \in Conn, NEW d \in Command, phase'[g] # "closed", ~Unmarked(g, d)',
                 status'[d] = "pending" \/ d \in todo'[g]
          PROVE  written'[g][d] <= faults'
      <3>1. CASE g = h
        <4>1. d # c
          BY <2>2, <2>3, <2>6, <3>1
        <4>2. ~Unmarked(h, d)
          BY <2>5, <4>1
        <4>3. status[d] = "pending" \/ d \in todo[h]
          BY <2>2, <2>3, <2>6, <3>1
        <4> QED BY <2>1, <2>5, <3>1, <4>2, <4>3
      <3>2. CASE g # h
        <4>1. ~Unmarked(g, d)
          BY <2>3, <2>4, <2>6, <3>2
        <4> QED BY <2>1, <2>2, <2>3, <2>4, <2>6, <3>2, <4>1
      <3> QED BY <3>1, <3>2
    <2> QED BY <2>1, <2>6
  <1> QED
    BY <1>0, <1>1, <1>2, <1>3, <1>4, <1>5, <1>6, <1>7, <1>8, <1>9, <1>10, <1>11, <1>12,
       <1>13, <1>14, <1>15, <1>16, <1>17, <1>18, <1>19, <1>20, <1>21, <1>22, <1>23
       DEF Next, Operator, Connection, Dispatch

-----------------------------------------------------------------------------
(* The safety theorems *)

LEMMA InvInit == Init => IInv
  <1> SUFFICES ASSUME Init PROVE IInv
    OBVIOUS
  <1>a. 0 \notin Command /\ \A d \in Command : d \in Nat
    BY DEF Command
  <1>1. TypeOK BY TypeInit
  <1>2. /\ faults = 0
        /\ \A c \in Command : status[c] = "absent"
        /\ \A h \in Conn : todo[h] = {} /\ target[h] = NoCommand /\ phase[h] = "idle"
        /\ \A h \in Conn, c \in Command : written[h][c] = 0
    BY DEF Init
  <1>3. AbsentInv BY <1>a, <1>2 DEF AbsentInv, NoCommand
  <1>4. HoldInv BY <1>2 DEF HoldInv
  <1>5. WrittenInv BY <1>a, <1>2 DEF WrittenInv, SentWasWritten, Unmarked, NoCommand
  <1>6. OnceInv BY <1>2 DEF OnceInv, AtMostOncePerConnection
  <1>7. RegistryIsLive BY DEF Init, RegistryIsLive
  <1> QED BY <1>1, <1>3, <1>4, <1>5, <1>6, <1>7 DEF IInv

LEMMA InvNext == IInv /\ [Next]_vars => IInv'
  <1> SUFFICES ASSUME IInv, [Next]_vars PROVE IInv'
    OBVIOUS
  <1>1. TypeOK' BY TypeNext DEF IInv
  <1> QED BY <1>1, RegistryNext, HoldNext, AbsentNext, WrittenNext, OnceNext DEF IInv

LEMMA Invariance == Spec => []IInv
  BY InvInit, InvNext, PTL DEF Spec

\* No row says "sent" or "acked" unless a write of that command returned, for
\* any number of connections, commands, database faults and restarts.
THEOREM SentOnlyIfWritten == Spec => []SentWasWritten
  <1>1. IInv => SentWasWritten BY DEF IInv, WrittenInv
  <1> QED BY <1>1, Invariance, PTL

\* No connection writes a command more often than once, plus once for each
\* database fault, whatever reconnections and restarts interleave.
THEOREM WrittenOnce == Spec => []AtMostOncePerConnection
  <1>1. IInv => AtMostOncePerConnection BY DEF IInv, OnceInv
  <1> QED BY <1>1, Invariance, PTL

\* The registry never names a handler that has returned or has not identified
\* its device.
THEOREM RegistryAlwaysLive == Spec => []RegistryIsLive
  <1>1. IInv => RegistryIsLive BY DEF IInv
  <1> QED BY <1>1, Invariance, PTL

-----------------------------------------------------------------------------
(* Finished commands *)

SettledStep ==
    \A c \in Command : Settled(c) =>
        /\ status'[c] \in {status[c], "deleted"} /\ Settled(c)'
        /\ \A h \in Conn : written'[h][c] = written[h][c]

\* A step touches a finished row nobody holds only to delete it.
LEMMA SettledNext == IInv /\ [Next]_vars => SettledStep
  <1> SUFFICES ASSUME IInv, [Next]_vars PROVE SettledStep
    OBVIOUS
  <1> USE DEF IInv, AbsentInv, SettledStep, Settled, InFlight, NoCommand, HasStatus, IsFirst, IsOldestSent,
          dbVars, adminVars, handlerVars, netVars, ghostVars, limitVars
  <1>a. 0 \notin Command /\ \A d \in Command : d \in Nat
    BY DEF Command
  <1> USE <1>a
  <1>0. CASE UNCHANGED vars BY <1>0 DEF vars
  <1>1. CASE RequestCommand
    BY <1>1 DEF RequestCommand, TypeOK
  <1>2. CASE CreateCommand
    BY <1>2, CreateEffect
  <1>3. CASE DisableDevice
    BY <1>3 DEF DisableDevice, TypeOK
  <1>4. CASE DisconnectDevice
    BY <1>4 DEF DisconnectDevice, TypeOK
  <1>5. CASE EnableDevice
    BY <1>5 DEF EnableDevice, TypeOK
  <1>6. CASE Crash
    BY <1>6 DEF Crash, TypeOK
  <1>7. ASSUME NEW c \in Command, CancelCommand(c) PROVE SettledStep
    BY <1>7 DEF CancelCommand, TypeOK
  <1>8. ASSUME NEW c \in Command, DeleteCommandHistory(c) PROVE SettledStep
    BY <1>8 DEF DeleteCommandHistory, TypeOK
  <1>9. ASSUME NEW h \in Conn, Connect(h) PROVE SettledStep
    BY <1>9 DEF Connect, TypeOK
  <1>10. ASSUME NEW h \in Conn, LoseSocket(h) PROVE SettledStep
    BY <1>10 DEF LoseSocket, TypeOK
  <1>11. ASSUME NEW h \in Conn, DeviceReads(h) PROVE SettledStep
    BY <1>11 DEF DeviceReads, TypeOK
  <1>12. ASSUME NEW h \in Conn, ReadPacket(h) PROVE SettledStep
    BY <1>12 DEF ReadPacket, TypeOK
  <1>13. ASSUME NEW h \in Conn, CheckDevice(h) PROVE SettledStep
    BY <1>13 DEF CheckDevice, TypeOK
  <1>14. ASSUME NEW h \in Conn, QueryPending(h) PROVE SettledStep
    BY <1>14 DEF QueryPending, TypeOK
  <1>15. ASSUME NEW h \in Conn, FinishDispatch(h) PROVE SettledStep
    BY <1>15 DEF FinishDispatch, TypeOK
  <1>16. ASSUME NEW h \in Conn, SelectOldestSent(h) PROVE SettledStep
    BY <1>16 DEF SelectOldestSent, TypeOK
  <1>17. ASSUME NEW h \in Conn, MarkAcked(h) PROVE SettledStep
    BY <1>17 DEF MarkAcked, TypeOK
  <1>18. ASSUME NEW h \in Conn, DatabaseFault(h) PROVE SettledStep
    BY <1>18, FaultEffect
  <1>19. ASSUME NEW h \in Conn, CloseHandler(h) PROVE SettledStep
    BY <1>19 DEF CloseHandler, TypeOK
  <1>20. ASSUME NEW h \in Conn, NEW c \in Command, SkipCommand(h, c) PROVE SettledStep
    BY <1>20 DEF SkipCommand, TypeOK
  <1>21. ASSUME NEW h \in Conn, NEW c \in Command, WriteCommand(h, c) PROVE SettledStep
    BY <1>21, WriteEffect
  <1>22. ASSUME NEW h \in Conn, NEW c \in Command, WriteFails(h, c) PROVE SettledStep
    BY <1>22 DEF WriteFails, TypeOK
  <1>23. ASSUME NEW h \in Conn, NEW c \in Command, MarkCommandSent(h, c) PROVE SettledStep
    <2>0. Marked(h, c)
      BY <1>23, MarkEffect
    <2> SUFFICES ASSUME NEW d \in Command, Settled(d)
                 PROVE  /\ status'[d] = status[d] /\ Settled(d)'
                        /\ \A g \in Conn : written'[g][d] = written[g][d]
      OBVIOUS
    <2>1. d # c
      BY <2>0 DEF Marked
    <2>2. status'[d] = status[d] /\ written' = written /\ target' = target
      BY <2>0, <2>1 DEF Marked
    <2>3. \A g \in Conn : todo'[g] \subseteq todo[g]
      BY <2>0 DEF Marked
    <2> QED BY <2>2, <2>3
  <1> QED
    BY <1>0, <1>1, <1>2, <1>3, <1>4, <1>5, <1>6, <1>7, <1>8, <1>9, <1>10, <1>11, <1>12,
       <1>13, <1>14, <1>15, <1>16, <1>17, <1>18, <1>19, <1>20, <1>21, <1>22, <1>23
       DEF Next, Operator, Connection, Dispatch

\* A finished command that no handler holds is never picked up, written or
\* changed again, except that an operator may delete it.
THEOREM SettledStaysSettled == Spec => SettledIsFinal
  <1>1. IInv /\ [Next]_vars => [SettledStep]_vars
    BY SettledNext
  <1> QED BY <1>1, Invariance, PTL DEF Spec, SettledIsFinal, SettledStep

-----------------------------------------------------------------------------
(* The refinement of CommandLifecycle *)

\* The claims of the lifecycle, under the refinement mapping.
ToSend == UNION {todo[h] : h \in Conn}
ToAck  == {target[h] : h \in Conn} \ {NoCommand}

\* A step that leaves rows and claims alone is a stutter of the lifecycle.
LEMMA Stutter ==
    UNCHANGED <<status, todo, target>> => [Lifecycle!Next]_(Lifecycle!vars)
  BY DEF Lifecycle!vars

\* A step that only lets go of claims is one the lifecycle allows.
LEMMA Release ==
    ASSUME status' = status,
           \A g \in Conn : todo'[g] \subseteq todo[g] /\ target'[g] \in {target[g], NoCommand}
    PROVE  [Lifecycle!Next]_(Lifecycle!vars)
  <1>1. ToSend' \subseteq ToSend
    BY DEF ToSend
  <1>2. ToAck' \subseteq ToAck
    BY DEF ToAck, NoCommand
  <1>3. Lifecycle!GiveUp
    BY <1>1, <1>2 DEF Lifecycle!GiveUp, ToSend, ToAck
  <1> QED BY <1>3 DEF Lifecycle!Next

\* Every action is a lifecycle action on the rows and the claims, or a stutter.
LEMMA LifecycleNext == IInv /\ [Next]_vars => [Lifecycle!Next]_(Lifecycle!vars)
  <1> SUFFICES ASSUME IInv, [Next]_vars PROVE [Lifecycle!Next]_(Lifecycle!vars)
    OBVIOUS
  <1> USE DEF IInv, AbsentInv, HoldInv, NoCommand,
          dbVars, adminVars, handlerVars, netVars, ghostVars, limitVars
  <1>a. 0 \notin Command /\ \A d \in Command : d \in Nat
    BY DEF Command
  <1> USE <1>a
  <1>0. CASE UNCHANGED vars BY <1>0, Stutter DEF vars
  <1>1. CASE RequestCommand
    BY <1>1, Stutter DEF RequestCommand
  <1>2. CASE CreateCommand
    <2>1. status[created + 1] = "absent" /\ created + 1 \in Command
      BY <1>2, CreateEffect
    <2>2. Lifecycle!Create(created + 1)
      BY <1>2, <2>1 DEF CreateCommand, Lifecycle!Create
    <2> QED BY <2>1, <2>2 DEF Lifecycle!Next
  <1>3. CASE DisableDevice
    BY <1>3, Stutter DEF DisableDevice
  <1>4. CASE DisconnectDevice
    BY <1>4, Stutter DEF DisconnectDevice
  <1>5. CASE EnableDevice
    BY <1>5, Stutter DEF EnableDevice
  <1>6. CASE Crash
    <2>1. \A g \in Conn : todo'[g] \subseteq todo[g] /\ target'[g] \in {target[g], NoCommand}
      BY <1>6 DEF Crash
    <2> QED BY <1>6, <2>1, Release DEF Crash
  <1>7. ASSUME NEW c \in Command, CancelCommand(c) PROVE [Lifecycle!Next]_(Lifecycle!vars)
    <2>1. Lifecycle!Cancel(c)
      BY <1>7 DEF CancelCommand, Lifecycle!Cancel
    <2> QED BY <2>1 DEF Lifecycle!Next
  <1>8. ASSUME NEW c \in Command, DeleteCommandHistory(c) PROVE [Lifecycle!Next]_(Lifecycle!vars)
    <2>1. Lifecycle!Delete(c)
      BY <1>8 DEF DeleteCommandHistory, Lifecycle!Delete
    <2> QED BY <2>1 DEF Lifecycle!Next
  <1>9. ASSUME NEW h \in Conn, Connect(h) PROVE [Lifecycle!Next]_(Lifecycle!vars)
    BY <1>9, Stutter DEF Connect
  <1>10. ASSUME NEW h \in Conn, LoseSocket(h) PROVE [Lifecycle!Next]_(Lifecycle!vars)
    BY <1>10, Stutter DEF LoseSocket
  <1>11. ASSUME NEW h \in Conn, DeviceReads(h) PROVE [Lifecycle!Next]_(Lifecycle!vars)
    BY <1>11, Stutter DEF DeviceReads
  <1>12. ASSUME NEW h \in Conn, ReadPacket(h) PROVE [Lifecycle!Next]_(Lifecycle!vars)
    BY <1>12, Stutter DEF ReadPacket
  <1>13. ASSUME NEW h \in Conn, CheckDevice(h) PROVE [Lifecycle!Next]_(Lifecycle!vars)
    BY <1>13, Stutter DEF CheckDevice
  <1>14. ASSUME NEW h \in Conn, QueryPending(h) PROVE [Lifecycle!Next]_(Lifecycle!vars)
    <2>1. \A g \in Conn : todo'[g] = IF g = h THEN HasStatus("pending") ELSE todo[g]
      BY <1>14 DEF QueryPending, TypeOK
    <2>2. todo[h] = {}
      BY <1>14 DEF QueryPending
    <2>3. ToSend' = ToSend \cup HasStatus("pending")
      BY <2>1, <2>2 DEF ToSend
    <2>4. ToAck' = ToAck /\ status' = status
      BY <1>14 DEF QueryPending, ToAck
    <2>5. Lifecycle!ClaimToSend
      <3>1. HasStatus("pending") \in SUBSET {c \in Command : status[c] = "pending"}
        BY DEF HasStatus
      <3>2. ToSend' \in {ToSend \cup S : S \in SUBSET {c \in Command : status[c] = "pending"}}
        BY <2>3, <3>1
      <3> QED BY <2>4, <3>2 DEF Lifecycle!ClaimToSend, ToSend, ToAck
    <2> QED BY <2>5 DEF Lifecycle!Next
  <1>15. ASSUME NEW h \in Conn, FinishDispatch(h) PROVE [Lifecycle!Next]_(Lifecycle!vars)
    BY <1>15, Stutter DEF FinishDispatch
  <1>16. ASSUME NEW h \in Conn, SelectOldestSent(h) PROVE [Lifecycle!Next]_(Lifecycle!vars)
    <2>1. UNCHANGED <<status, todo>>
      BY <1>16 DEF SelectOldestSent
    <2>2. PICK c \in Command \cup {NoCommand} :
             /\ IF HasStatus("sent") = {} THEN c = NoCommand ELSE IsOldestSent(c)
             /\ target' = [target EXCEPT ![h] = c]
      BY <1>16 DEF SelectOldestSent
    <2>3. target[h] = NoCommand /\ \A g \in Conn : target'[g] = IF g = h THEN c ELSE target[g]
      BY <1>16, <2>2 DEF SelectOldestSent, TypeOK
    <2>4. CASE c = NoCommand
      <3>1. \A g \in Conn : todo'[g] \subseteq todo[g] /\ target'[g] \in {target[g], NoCommand}
        BY <2>1, <2>3, <2>4
      <3> QED BY <2>1, <3>1, Release
    <2>5. CASE c # NoCommand
      <3>1. c \in Command /\ status[c] = "sent"
        BY <2>2, <2>5 DEF IsOldestSent, HasStatus
      <3>2. ToAck' = ToAck \cup {c} /\ ToSend' = ToSend
        BY <2>1, <2>3, <2>5 DEF ToAck, ToSend
      <3>3. Lifecycle!ClaimToAck(c)
        BY <2>1, <3>1, <3>2 DEF Lifecycle!ClaimToAck, ToSend, ToAck
      <3> QED BY <3>1, <3>3 DEF Lifecycle!Next
    <2> QED BY <2>4, <2>5
  <1>17. ASSUME NEW h \in Conn, MarkAcked(h) PROVE [Lifecycle!Next]_(Lifecycle!vars)
    <2>1. todo' = todo /\ \A g \in Conn : target'[g] = IF g = h THEN NoCommand ELSE target[g]
      BY <1>17 DEF MarkAcked, TypeOK
    <2>2. CASE target[h] = NoCommand
      <3>1. status' = status
        BY <1>17, <2>2 DEF MarkAcked, TypeOK
      <3>2. \A g \in Conn : todo'[g] \subseteq todo[g] /\ target'[g] \in {target[g], NoCommand}
        BY <2>1, <2>2
      <3> QED BY <3>1, <3>2, Release
    <2>3. CASE target[h] # NoCommand
      <3>0. PICK c \in Command : c = target[h]
        BY <2>3 DEF TypeOK
      <3>1. c \in ToAck
        BY <3>0 DEF ToAck
      <3>2. ToSend' = ToSend /\ ToAck' \in {ToAck, ToAck \ {c}}
        BY <2>1, <3>0 DEF ToSend, ToAck
      <3>3. status' = [status EXCEPT ![c] = IF @ = "deleted" THEN @ ELSE "acked"]
        BY <1>17, <3>0 DEF MarkAcked, TypeOK
      <3>4. Lifecycle!Ack(c)
        BY <3>1, <3>2, <3>3 DEF Lifecycle!Ack, ToSend, ToAck
      <3> QED BY <3>4 DEF Lifecycle!Next
    <2> QED BY <2>2, <2>3
  <1>18. ASSUME NEW h \in Conn, DatabaseFault(h) PROVE [Lifecycle!Next]_(Lifecycle!vars)
    BY <1>18, FaultEffect, Release
  <1>19. ASSUME NEW h \in Conn, CloseHandler(h) PROVE [Lifecycle!Next]_(Lifecycle!vars)
    BY <1>19, Stutter DEF CloseHandler
  <1>20. ASSUME NEW h \in Conn, NEW c \in Command, SkipCommand(h, c) PROVE [Lifecycle!Next]_(Lifecycle!vars)
    <2>1. \A g \in Conn : todo'[g] \subseteq todo[g] /\ target'[g] \in {target[g], NoCommand}
      BY <1>20 DEF SkipCommand, TypeOK
    <2> QED BY <1>20, <2>1, Release DEF SkipCommand
  <1>21. ASSUME NEW h \in Conn, NEW c \in Command, WriteCommand(h, c) PROVE [Lifecycle!Next]_(Lifecycle!vars)
    BY <1>21, Stutter DEF WriteCommand
  <1>22. ASSUME NEW h \in Conn, NEW c \in Command, WriteFails(h, c) PROVE [Lifecycle!Next]_(Lifecycle!vars)
    <2>1. \A g \in Conn : todo'[g] \subseteq todo[g] /\ target'[g] \in {target[g], NoCommand}
      BY <1>22 DEF WriteFails, TypeOK
    <2> QED BY <1>22, <2>1, Release DEF WriteFails
  <1>23. ASSUME NEW h \in Conn, NEW c \in Command, MarkCommandSent(h, c) PROVE [Lifecycle!Next]_(Lifecycle!vars)
    <2>1. c \in todo[h] /\ \A g \in Conn : todo'[g] = IF g = h THEN todo[h] \ {c} ELSE todo[g]
      BY <1>23 DEF MarkCommandSent, IsFirst, TypeOK
    <2>2. c \in ToSend /\ ToSend' \in {ToSend, ToSend \ {c}}
      BY <2>1 DEF ToSend
    <2>3. ToAck' = ToAck
      BY <1>23 DEF MarkCommandSent, ToAck
    <2>4. status' = [status EXCEPT ![c] = IF @ = "deleted" THEN @ ELSE "sent"]
      BY <1>23 DEF MarkCommandSent, TypeOK
    <2>5. Lifecycle!Send(c)
      BY <2>2, <2>3, <2>4 DEF Lifecycle!Send, ToSend, ToAck
    <2> QED BY <2>5 DEF Lifecycle!Next
  <1> QED
    BY <1>0, <1>1, <1>2, <1>3, <1>4, <1>5, <1>6, <1>7, <1>8, <1>9, <1>10, <1>11, <1>12,
       <1>13, <1>14, <1>15, <1>16, <1>17, <1>18, <1>19, <1>20, <1>21, <1>22, <1>23
       DEF Next, Operator, Connection, Dispatch

\* The queue implements CommandLifecycle: with any number of handlers, faults
\* and restarts a row is marked only through a claim taken in the right status.
THEOREM QueueRefinesLifecycle == Spec => RefinesLifecycle
  <1>1. Init => Lifecycle!Init
    <2> SUFFICES ASSUME Init PROVE Lifecycle!Init
      OBVIOUS
    <2>1. \A h \in Conn : todo[h] = {} /\ target[h] = NoCommand
      BY DEF Init
    <2>2. ToSend = {} /\ ToAck = {}
      BY <2>1 DEF ToSend, ToAck
    <2> QED BY <2>2 DEF Init, Lifecycle!Init, ToSend, ToAck
  <1> QED BY <1>1, LifecycleNext, Invariance, PTL DEF Spec, Lifecycle!Spec, RefinesLifecycle

-----------------------------------------------------------------------------
(* The order of commands on one connection, and the acks that answer them *)

\* A connection that was never opened has no state, and only a running handler
\* has an open socket.
IdleInv ==
    /\ \A h \in Conn : sock[h] = "open" => Live(h)
    /\ \A h \in Conn : phase[h] = "idle" =>
          /\ ~known[h] /\ sock[h] = "none" /\ acks[h] = 0 /\ wire[h] = <<>>
          /\ \A c \in Command : written[h][c] = 0

\* What the device reads was written by some handler, and only commands the
\* codec can encode are written.
ReceivedInv ==
    /\ \A c \in Command : received[c] > 0 => \E h \in Conn : written[h][c] > 0
    /\ \A h \in Conn, c \in Command : written[h][c] > 0 => c \notin Unencodable
    /\ \A h \in Conn : \A i \in 1..Len(wire[h]) : written[h][wire[h][i]] > 0

\* With a single writer one handler at a time records an ack, and the row it
\* selected still says "sent".
AckInv ==
    \A h \in Conn : phase[h] = "ack" =>
        /\ \A g \in Conn : phase[g] = "ack" => g = h
        /\ \A c \in Command : c = target[h] => status[c] = "sent"

\* A row handler h may still write.
Due(h, c) ==
    /\ c \notin Unencodable /\ ~Unmarked(h, c)
    /\ status[c] = "pending" \/ c \in todo[h]

\* On a connection that is up and has seen no fault: every row still to be
\* written is younger than all that were, the one being marked is the youngest
\* written, and pending rows outside the snapshot are younger than those in it.
Ordered(h) ==
    /\ \A c, d \in Command : Due(h, c) /\ written[h][d] > 0 => d < c
    /\ \A c, d \in Command : Unmarked(h, c) /\ written[h][d] > 0 => d <= c
    /\ \A c, d \in Command :
          (phase[h] \in {"send", "mark"} /\ status[c] = "pending"
             /\ c \notin Unencodable /\ c \notin todo[h] /\ d \in todo[h]) => d < c

OrderInv == \A h \in Conn : (sock[h] = "open" /\ faults = 0) => Ordered(h)

\* One connection, up, no fault, no row deleted, and every cancelled row is
\* one the handler holds: it may still become "sent" or "acked".
Clean(h) ==
    /\ faults = 0 /\ sock[h] = "open"
    /\ \A g \in Conn \ {h} : phase[g] = "idle"
    /\ \A c \in Command : status[c] # "deleted"
    /\ \A c \in Command : status[c] = "canceled" => c \in todo[h] \/ c = target[h]

Executed == {c \in Command : received[c] > 0}
Answered(h) == {c \in Command : status[c] = "acked" \/ c = target[h]}

\* On a clean connection the device executes commands in the order they were
\* written, and the server answers them in that order: the answered ones are
\* the oldest of the executed ones, and the acks on their way are as many as
\* the executed commands that are not answered.
Matching(h) ==
    /\ \A i, j \in 1..Len(wire[h]) : i < j => wire[h][i] < wire[h][j]
    /\ \A c \in Executed : \A i \in 1..Len(wire[h]) : c < wire[h][i]
    /\ \A c \in Command : written[h][c] > 0 =>
          c \in Executed \/ \E i \in 1..Len(wire[h]) : c = wire[h][i]
    /\ Answered(h) \subseteq Executed
    /\ \A c \in Answered(h), d \in Command : written[h][d] > 0 /\ d < c => d \in Answered(h)
    /\ \A c \in Command : Unmarked(h, c) => c \notin Answered(h)
    /\ acks[h] = Cardinality(Executed \ Answered(h))
    /\ \A c, d \in HasStatus("sent") : c < d => sentAt[c] < sentAt[d]
    /\ \A c \in HasStatus("sent") : sentAt[c] < clock

MatchInv == \A h \in Conn : Clean(h) => Matching(h)

-----------------------------------------------------------------------------
(* Preservation of the further parts *)

\* Connections not opened yet stay blank, open sockets have a running handler.
LEMMA IdleNext == IInv /\ IdleInv /\ [Next]_vars => IdleInv'
  <1> SUFFICES ASSUME IInv, IdleInv, [Next]_vars PROVE IdleInv'
    OBVIOUS
  <1> USE DEF IInv, TypeOK, IdleInv, Live, dbVars, adminVars, handlerVars, netVars, ghostVars, limitVars
  <1>0. CASE UNCHANGED vars BY <1>0 DEF vars
  <1>1. CASE RequestCommand
    BY <1>1 DEF RequestCommand
  <1>2. CASE CreateCommand
    BY <1>2 DEF CreateCommand
  <1>3. CASE DisableDevice
    BY <1>3 DEF DisableDevice
  <1>4. CASE DisconnectDevice
    BY <1>4 DEF DisconnectDevice
  <1>5. CASE EnableDevice
    BY <1>5 DEF EnableDevice
  <1>6. CASE Crash
    BY <1>6 DEF Crash
  <1>7. ASSUME NEW c \in Command, CancelCommand(c) PROVE IdleInv'
    BY <1>7 DEF CancelCommand
  <1>8. ASSUME NEW c \in Command, DeleteCommandHistory(c) PROVE IdleInv'
    BY <1>8 DEF DeleteCommandHistory
  <1>9. ASSUME NEW h \in Conn, Connect(h) PROVE IdleInv'
    BY <1>9 DEF Connect
  <1>10. ASSUME NEW h \in Conn, LoseSocket(h) PROVE IdleInv'
    BY <1>10 DEF LoseSocket
  <1>11. ASSUME NEW h \in Conn, DeviceReads(h) PROVE IdleInv'
    BY <1>11 DEF DeviceReads
  <1>12. ASSUME NEW h \in Conn, ReadPacket(h) PROVE IdleInv'
    BY <1>12 DEF ReadPacket
  <1>13. ASSUME NEW h \in Conn, CheckDevice(h) PROVE IdleInv'
    BY <1>13 DEF CheckDevice
  <1>14. ASSUME NEW h \in Conn, QueryPending(h) PROVE IdleInv'
    BY <1>14 DEF QueryPending
  <1>15. ASSUME NEW h \in Conn, FinishDispatch(h) PROVE IdleInv'
    BY <1>15 DEF FinishDispatch
  <1>16. ASSUME NEW h \in Conn, SelectOldestSent(h) PROVE IdleInv'
    BY <1>16 DEF SelectOldestSent
  <1>17. ASSUME NEW h \in Conn, MarkAcked(h) PROVE IdleInv'
    BY <1>17 DEF MarkAcked
  <1>18. ASSUME NEW h \in Conn, DatabaseFault(h) PROVE IdleInv'
    BY <1>18, FaultEffect DEF DatabaseFault
  <1>19. ASSUME NEW h \in Conn, CloseHandler(h) PROVE IdleInv'
    BY <1>19 DEF CloseHandler
  <1>20. ASSUME NEW h \in Conn, NEW c \in Command, SkipCommand(h, c) PROVE IdleInv'
    BY <1>20 DEF SkipCommand
  <1>21. ASSUME NEW h \in Conn, NEW c \in Command, WriteCommand(h, c) PROVE IdleInv'
    BY <1>21, WriteEffect DEF WriteCommand
  <1>22. ASSUME NEW h \in Conn, NEW c \in Command, WriteFails(h, c) PROVE IdleInv'
    BY <1>22 DEF WriteFails
  <1>23. ASSUME NEW h \in Conn, NEW c \in Command, MarkCommandSent(h, c) PROVE IdleInv'
    BY <1>23 DEF MarkCommandSent
  <1> QED
    BY <1>0, <1>1, <1>2, <1>3, <1>4, <1>5, <1>6, <1>7, <1>8, <1>9, <1>10, <1>11, <1>12,
       <1>13, <1>14, <1>15, <1>16, <1>17, <1>18, <1>19, <1>20, <1>21, <1>22, <1>23
       DEF Next, Operator, Connection, Dispatch

\* The only connection a device has had stays in the registry.
LEMMA SingleNext == IInv /\ IdleInv /\ SingleConnectionRegistered /\ [Next]_vars => SingleConnectionRegistered'
  <1> SUFFICES ASSUME IInv, IdleInv, SingleConnectionRegistered, [Next]_vars PROVE SingleConnectionRegistered'
    OBVIOUS
  <1> USE DEF IInv, TypeOK, IdleInv, SingleConnectionRegistered, Live, dbVars, adminVars, handlerVars, netVars, ghostVars, limitVars
  <1>0. CASE UNCHANGED vars BY <1>0 DEF vars
  <1>1. CASE RequestCommand
    BY <1>1 DEF RequestCommand
  <1>2. CASE CreateCommand
    BY <1>2 DEF CreateCommand
  <1>3. CASE DisableDevice
    BY <1>3 DEF DisableDevice
  <1>4. CASE DisconnectDevice
    BY <1>4 DEF DisconnectDevice
  <1>5. CASE EnableDevice
    BY <1>5 DEF EnableDevice
  <1>6. CASE Crash
    BY <1>6 DEF Crash
  <1>7. ASSUME NEW c \in Command, CancelCommand(c) PROVE SingleConnectionRegistered'
    BY <1>7 DEF CancelCommand
  <1>8. ASSUME NEW c \in Command, DeleteCommandHistory(c) PROVE SingleConnectionRegistered'
    BY <1>8 DEF DeleteCommandHistory
  <1>9. ASSUME NEW h \in Conn, Connect(h) PROVE SingleConnectionRegistered'
    BY <1>9 DEF Connect
  <1>10. ASSUME NEW h \in Conn, LoseSocket(h) PROVE SingleConnectionRegistered'
    BY <1>10 DEF LoseSocket
  <1>11. ASSUME NEW h \in Conn, DeviceReads(h) PROVE SingleConnectionRegistered'
    BY <1>11 DEF DeviceReads
  <1>12. ASSUME NEW h \in Conn, ReadPacket(h) PROVE SingleConnectionRegistered'
    BY <1>12 DEF ReadPacket, RegistryAfterPacket
  <1>13. ASSUME NEW h \in Conn, CheckDevice(h) PROVE SingleConnectionRegistered'
    BY <1>13 DEF CheckDevice
  <1>14. ASSUME NEW h \in Conn, QueryPending(h) PROVE SingleConnectionRegistered'
    BY <1>14 DEF QueryPending
  <1>15. ASSUME NEW h \in Conn, FinishDispatch(h) PROVE SingleConnectionRegistered'
    BY <1>15 DEF FinishDispatch
  <1>16. ASSUME NEW h \in Conn, SelectOldestSent(h) PROVE SingleConnectionRegistered'
    BY <1>16 DEF SelectOldestSent
  <1>17. ASSUME NEW h \in Conn, MarkAcked(h) PROVE SingleConnectionRegistered'
    BY <1>17 DEF MarkAcked
  <1>18. ASSUME NEW h \in Conn, DatabaseFault(h) PROVE SingleConnectionRegistered'
    BY <1>18 DEF DatabaseFault
  <1>19. ASSUME NEW h \in Conn, CloseHandler(h) PROVE SingleConnectionRegistered'
    BY <1>19 DEF CloseHandler, RegistryAfterClose
  <1>20. ASSUME NEW h \in Conn, NEW c \in Command, SkipCommand(h, c) PROVE SingleConnectionRegistered'
    BY <1>20 DEF SkipCommand
  <1>21. ASSUME NEW h \in Conn, NEW c \in Command, WriteCommand(h, c) PROVE SingleConnectionRegistered'
    BY <1>21, WriteEffect DEF WriteCommand
  <1>22. ASSUME NEW h \in Conn, NEW c \in Command, WriteFails(h, c) PROVE SingleConnectionRegistered'
    BY <1>22 DEF WriteFails
  <1>23. ASSUME NEW h \in Conn, NEW c \in Command, MarkCommandSent(h, c) PROVE SingleConnectionRegistered'
    BY <1>23 DEF MarkCommandSent
  <1> QED
    BY <1>0, <1>1, <1>2, <1>3, <1>4, <1>5, <1>6, <1>7, <1>8, <1>9, <1>10, <1>11, <1>12,
       <1>13, <1>14, <1>15, <1>16, <1>17, <1>18, <1>19, <1>20, <1>21, <1>22, <1>23
       DEF Next, Operator, Connection, Dispatch

\* While a handler records an ack no other transaction can write.
LEMMA AckNext == SingleWriter /\ IInv /\ AckInv /\ [Next]_vars => AckInv'
  <1> SUFFICES ASSUME SingleWriter, IInv, AckInv, [Next]_vars PROVE AckInv'
    OBVIOUS
  <1> USE DEF IInv, AckInv, HoldInv, DbWritable, NoCommand, HasStatus, IsOldestSent, dbVars, adminVars, handlerVars, netVars, ghostVars, limitVars
  <1>a. 0 \notin Command /\ \A d \in Command : d \in Nat
    BY DEF Command
  <1> USE <1>a
  <1>0. CASE UNCHANGED vars BY <1>0 DEF vars
  <1>1. CASE RequestCommand
    BY <1>1 DEF RequestCommand, TypeOK
  <1>2. CASE CreateCommand
    BY <1>2, CreateEffect DEF CreateCommand
  <1>3. CASE DisableDevice
    BY <1>3 DEF DisableDevice, TypeOK
  <1>4. CASE DisconnectDevice
    BY <1>4 DEF DisconnectDevice, TypeOK
  <1>5. CASE EnableDevice
    BY <1>5 DEF EnableDevice, TypeOK
  <1>6. CASE Crash
    BY <1>6 DEF Crash, TypeOK
  <1>7. ASSUME NEW c \in Command, CancelCommand(c) PROVE AckInv'
    BY <1>7 DEF CancelCommand, TypeOK
  <1>8. ASSUME NEW c \in Command, DeleteCommandHistory(c) PROVE AckInv'
    BY <1>8 DEF DeleteCommandHistory, TypeOK
  <1>9. ASSUME NEW h \in Conn, Connect(h) PROVE AckInv'
    BY <1>9 DEF Connect, TypeOK
  <1>10. ASSUME NEW h \in Conn, LoseSocket(h) PROVE AckInv'
    BY <1>10 DEF LoseSocket, TypeOK
  <1>11. ASSUME NEW h \in Conn, DeviceReads(h) PROVE AckInv'
    BY <1>11 DEF DeviceReads, TypeOK
  <1>12. ASSUME NEW h \in Conn, ReadPacket(h) PROVE AckInv'
    BY <1>12 DEF ReadPacket, TypeOK
  <1>13. ASSUME NEW h \in Conn, CheckDevice(h) PROVE AckInv'
    BY <1>13 DEF CheckDevice, TypeOK
  <1>14. ASSUME NEW h \in Conn, QueryPending(h) PROVE AckInv'
    BY <1>14 DEF QueryPending, TypeOK
  <1>15. ASSUME NEW h \in Conn, FinishDispatch(h) PROVE AckInv'
    BY <1>15 DEF FinishDispatch, TypeOK
  <1>16. ASSUME NEW h \in Conn, SelectOldestSent(h) PROVE AckInv'
    BY <1>16 DEF SelectOldestSent, TypeOK
  <1>17. ASSUME NEW h \in Conn, MarkAcked(h) PROVE AckInv'
    BY <1>17 DEF MarkAcked, TypeOK
  <1>18. ASSUME NEW h \in Conn, DatabaseFault(h) PROVE AckInv'
    BY <1>18, FaultEffect
  <1>19. ASSUME NEW h \in Conn, CloseHandler(h) PROVE AckInv'
    BY <1>19 DEF CloseHandler, TypeOK
  <1>20. ASSUME NEW h \in Conn, NEW c \in Command, SkipCommand(h, c) PROVE AckInv'
    BY <1>20 DEF SkipCommand, TypeOK
  <1>21. ASSUME NEW h \in Conn, NEW c \in Command, WriteCommand(h, c) PROVE AckInv'
    BY <1>21, WriteEffect DEF WriteCommand
  <1>22. ASSUME NEW h \in Conn, NEW c \in Command, WriteFails(h, c) PROVE AckInv'
    BY <1>22 DEF WriteFails, TypeOK
  <1>23. ASSUME NEW h \in Conn, NEW c \in Command, MarkCommandSent(h, c) PROVE AckInv'
    BY <1>23, MarkEffect DEF MarkCommandSent, Marked
  <1> QED
    BY <1>0, <1>1, <1>2, <1>3, <1>4, <1>5, <1>6, <1>7, <1>8, <1>9, <1>10, <1>11, <1>12,
       <1>13, <1>14, <1>15, <1>16, <1>17, <1>18, <1>19, <1>20, <1>21, <1>22, <1>23
       DEF Next, Operator, Connection, Dispatch

\* What a device that reads does to the wire, to what it received and to the
\* acks, and what a write does to the wire.
LEMMA ReadEffect ==
    ASSUME TypeOK, NEW h \in Conn, DeviceReads(h)
    PROVE  /\ sock[h] = "open" /\ Len(wire[h]) \in Nat /\ Len(wire[h]) > 0 /\ wire[h][1] \in Command
           /\ \A c \in Command :
                 received'[c] = IF c = wire[h][1] THEN received[c] + 1 ELSE received[c]
           /\ Len(wire'[h]) = Len(wire[h]) - 1
           /\ \A i \in 1..Len(wire'[h]) : i + 1 \in 1..Len(wire[h]) /\ wire'[h][i] = wire[h][i + 1]
           /\ \A g \in Conn : g # h => wire'[g] = wire[g]
           /\ acks' = [acks EXCEPT ![h] = acks[h] + 1]
           /\ UNCHANGED <<dbVars, adminVars, handlerVars, registry, sock, written, limitVars>>
  <1> DEFINE s == wire[h]
  <1>1. s \in Seq(Command) /\ s # <<>>
    BY DEF DeviceReads, TypeOK
  <1>2. Len(s) \in Nat /\ Len(s) # 0
    BY <1>1, LenProperties, EmptySeq
  <1>3. Head(s) = s[1] /\ Head(s) \in Command
    BY <1>1, HeadTailProperties
  <1>4. Tail(s) \in Seq(Command) /\ Len(Tail(s)) = Len(s) - 1 /\ \A i \in 1..Len(Tail(s)) : Tail(s)[i] = s[i + 1]
    BY <1>1, HeadTailProperties
  <1>5. wire' = [wire EXCEPT ![h] = Tail(s)]
    BY DEF DeviceReads
  <1>6. wire'[h] = Tail(s) /\ \A g \in Conn : g # h => wire'[g] = wire[g]
    BY <1>5 DEF TypeOK
  <1>7. received' = [received EXCEPT ![s[1]] = received[s[1]] + 1]
    BY <1>3 DEF DeviceReads
  <1>8. \A c \in Command : received'[c] = IF c = s[1] THEN received[c] + 1 ELSE received[c]
    BY <1>7, <1>3 DEF TypeOK
  <1>9. \A i \in 1..Len(wire'[h]) : i + 1 \in 1..Len(s) /\ wire'[h][i] = s[i + 1]
    BY <1>2, <1>4, <1>6
  <1>10. UNCHANGED <<dbVars, adminVars, handlerVars, registry, sock, written, limitVars>> /\ sock[h] = "open"
         /\ acks' = [acks EXCEPT ![h] = acks[h] + 1]
    BY DEF DeviceReads
  <1> QED BY <1>2, <1>3, <1>4, <1>6, <1>8, <1>9, <1>10

LEMMA WireEffect ==
    ASSUME TypeOK, NEW h \in Conn, NEW c \in Command, WriteCommand(h, c)
    PROVE  /\ \A g \in Conn : g # h => wire'[g] = wire[g]
           /\ Len(wire[h]) \in Nat
           /\ sock[h] # "open" => wire' = wire
           /\ sock[h] = "open" =>
                 /\ Len(wire'[h]) = Len(wire[h]) + 1
                 /\ wire'[h][Len(wire[h]) + 1] = c
                 /\ \A i \in 1..Len(wire[h]) : wire'[h][i] = wire[h][i]
           /\ c \notin Unencodable
           /\ UNCHANGED <<dbVars, adminVars, known, todo, target, registry, sock, acks, received, limitVars>>
  <1>1. wire[h] \in Seq(Command) /\ Len(wire[h]) \in Nat
    BY LenProperties DEF TypeOK
  <1>2. CASE sock[h] = "open"
    <2>1. wire'[h] = Append(wire[h], c) /\ \A g \in Conn : g # h => wire'[g] = wire[g]
      BY <1>2 DEF WriteCommand, TypeOK
    <2>2. Len(wire'[h]) = Len(wire[h]) + 1 /\ wire'[h][Len(wire[h]) + 1] = c
          /\ \A i \in 1..Len(wire[h]) : wire'[h][i] = wire[h][i]
      BY <1>1, <2>1, AppendProperties
    <2> QED BY <1>1, <1>2, <2>1, <2>2 DEF WriteCommand
  <1>3. CASE sock[h] # "open"
    BY <1>1, <1>3 DEF WriteCommand
  <1> QED BY <1>2, <1>3

\* Only written commands are on the wire and with the device.
LEMMA ReceivedNext == IInv /\ ReceivedInv /\ [Next]_vars => ReceivedInv'
  <1> SUFFICES ASSUME IInv, ReceivedInv, [Next]_vars PROVE ReceivedInv'
    OBVIOUS
  <1> USE DEF IInv, ReceivedInv, dbVars, adminVars, handlerVars, netVars, ghostVars, limitVars
  <1>0. CASE UNCHANGED vars BY <1>0 DEF vars
  <1>1. CASE RequestCommand
    BY <1>1 DEF RequestCommand, TypeOK
  <1>2. CASE CreateCommand
    BY <1>2 DEF CreateCommand, TypeOK
  <1>3. CASE DisableDevice
    BY <1>3 DEF DisableDevice, TypeOK
  <1>4. CASE DisconnectDevice
    <2>1. UNCHANGED <<received, written>> /\ \A g \in Conn : wire'[g] = wire[g] \/ wire'[g] = <<>>
      BY <1>4 DEF DisconnectDevice, TypeOK
    <2>2. \A g \in Conn : wire'[g] = wire[g] \/ Len(wire'[g]) = 0
      BY <2>1, EmptySeq
    <2> QED BY <2>1, <2>2
  <1>5. CASE EnableDevice
    BY <1>5 DEF EnableDevice, TypeOK
  <1>6. CASE Crash
    BY <1>6, EmptySeq DEF Crash, TypeOK
  <1>7. ASSUME NEW c \in Command, CancelCommand(c) PROVE ReceivedInv'
    BY <1>7 DEF CancelCommand, TypeOK
  <1>8. ASSUME NEW c \in Command, DeleteCommandHistory(c) PROVE ReceivedInv'
    BY <1>8 DEF DeleteCommandHistory, TypeOK
  <1>9. ASSUME NEW h \in Conn, Connect(h) PROVE ReceivedInv'
    BY <1>9 DEF Connect, TypeOK
  <1>10. ASSUME NEW h \in Conn, LoseSocket(h) PROVE ReceivedInv'
    <2>1. UNCHANGED <<received, written>> /\ \A g \in Conn : wire'[g] = wire[g] \/ wire'[g] = <<>>
      BY <1>10 DEF LoseSocket, TypeOK
    <2>2. \A g \in Conn : wire'[g] = wire[g] \/ Len(wire'[g]) = 0
      BY <2>1, EmptySeq
    <2> QED BY <2>1, <2>2
  <1>11. ASSUME NEW h \in Conn, DeviceReads(h) PROVE ReceivedInv'
    <2> SUFFICES /\ \A c \in Command : received'[c] > 0 => \E g \in Conn : written[g][c] > 0
                 /\ \A g \in Conn : \A i \in 1..Len(wire'[g]) : written[g][wire'[g][i]] > 0
      BY <1>11 DEF DeviceReads
    <2>1. ASSUME NEW c \in Command, received'[c] > 0 PROVE \E g \in Conn : written[g][c] > 0
      <3>1. CASE c = wire[h][1]
        <4>1. 1 \in 1..Len(wire[h])
          BY <1>11, ReadEffect
        <4> QED BY <4>1, <3>1
      <3>2. CASE c # wire[h][1]
        BY <1>11, ReadEffect, <2>1, <3>2
      <3> QED BY <3>1, <3>2
    <2>2. ASSUME NEW g \in Conn, NEW i \in 1..Len(wire'[g]) PROVE written[g][wire'[g][i]] > 0
      <3>1. CASE g = h
        <4>1. i + 1 \in 1..Len(wire[h]) /\ wire'[h][i] = wire[h][i + 1]
          BY <1>11, ReadEffect, <2>2, <3>1
        <4> QED BY <4>1, <3>1
      <3>2. CASE g # h
        BY <1>11, ReadEffect, <2>2, <3>2
      <3> QED BY <3>1, <3>2
    <2> QED BY <2>1, <2>2
  <1>12. ASSUME NEW h \in Conn, ReadPacket(h) PROVE ReceivedInv'
    BY <1>12 DEF ReadPacket, TypeOK
  <1>13. ASSUME NEW h \in Conn, CheckDevice(h) PROVE ReceivedInv'
    BY <1>13 DEF CheckDevice, TypeOK
  <1>14. ASSUME NEW h \in Conn, QueryPending(h) PROVE ReceivedInv'
    BY <1>14 DEF QueryPending, TypeOK
  <1>15. ASSUME NEW h \in Conn, FinishDispatch(h) PROVE ReceivedInv'
    BY <1>15 DEF FinishDispatch, TypeOK
  <1>16. ASSUME NEW h \in Conn, SelectOldestSent(h) PROVE ReceivedInv'
    BY <1>16 DEF SelectOldestSent, TypeOK
  <1>17. ASSUME NEW h \in Conn, MarkAcked(h) PROVE ReceivedInv'
    BY <1>17 DEF MarkAcked, TypeOK
  <1>18. ASSUME NEW h \in Conn, DatabaseFault(h) PROVE ReceivedInv'
    BY <1>18 DEF DatabaseFault, TypeOK
  <1>19. ASSUME NEW h \in Conn, CloseHandler(h) PROVE ReceivedInv'
    BY <1>19, EmptySeq DEF CloseHandler, TypeOK
  <1>20. ASSUME NEW h \in Conn, NEW c \in Command, SkipCommand(h, c) PROVE ReceivedInv'
    BY <1>20 DEF SkipCommand, TypeOK
  <1>21. ASSUME NEW h \in Conn, NEW c \in Command, WriteCommand(h, c) PROVE ReceivedInv'
    <2>0. \A g \in Conn, d \in Command :
             /\ written[g][d] \in Nat
             /\ written'[g][d] = IF g = h /\ d = c THEN written[h][c] + 1 ELSE written[g][d]
      <3>1. \A g \in Conn, d \in Command : written[g][d] \in Nat
        BY DEF TypeOK
      <3> QED BY <1>21, WriteEffect, <3>1
    <2>1. \A g \in Conn, d \in Command : written'[g][d] \in Nat /\ written'[g][d] >= written[g][d]
      BY <2>0
    <2>2. \A d \in Command : received'[d] > 0 => \E g \in Conn : written'[g][d] > 0
      <3>1. ASSUME NEW d \in Command, received'[d] > 0 PROVE \E g \in Conn : written'[g][d] > 0
        <4>1. received' = received
          BY <1>21, WireEffect
        <4>2. PICK g \in Conn : written[g][d] > 0
          BY <3>1, <4>1
        <4>3. written[g][d] \in Nat /\ written'[g][d] \in Nat
          BY <2>0, <2>1
        <4> QED BY <2>1, <4>2, <4>3
      <3> QED BY <3>1
    <2>3. \A g \in Conn, d \in Command : written'[g][d] > 0 => d \notin Unencodable
      BY <1>21, WriteEffect, WireEffect
    <2>4. ASSUME NEW g \in Conn, NEW i \in 1..Len(wire'[g]) PROVE written'[g][wire'[g][i]] > 0
      <3>1. written'[h][c] > 0
        BY <2>0
      <3>2. CASE i \in 1..Len(wire[g]) /\ wire'[g][i] = wire[g][i]
        <4>1. wire[g] \in Seq(Command) /\ wire[g][i] \in Command
          BY <3>2, ElementOfSeq DEF TypeOK
        <4>2. written[g][wire[g][i]] > 0 /\ written[g][wire[g][i]] \in Nat
          BY <3>2, <4>1 DEF TypeOK
        <4> QED BY <1>21, WriteEffect, <3>1, <3>2, <4>1, <4>2
      <3>3. CASE g = h /\ wire'[g][i] = c
        BY <3>1, <3>3
      <3> QED BY <1>21, WireEffect, <3>2, <3>3, <2>4
    <2> QED BY <2>2, <2>3, <2>4
  <1>22. ASSUME NEW h \in Conn, NEW c \in Command, WriteFails(h, c) PROVE ReceivedInv'
    BY <1>22 DEF WriteFails, TypeOK
  <1>23. ASSUME NEW h \in Conn, NEW c \in Command, MarkCommandSent(h, c) PROVE ReceivedInv'
    BY <1>23 DEF MarkCommandSent
  <1> QED
    BY <1>0, <1>1, <1>2, <1>3, <1>4, <1>5, <1>6, <1>7, <1>8, <1>9, <1>10, <1>11, <1>12,
       <1>13, <1>14, <1>15, <1>16, <1>17, <1>18, <1>19, <1>20, <1>21, <1>22, <1>23
       DEF Next, Operator, Connection, Dispatch

\* A step that writes nothing on connection h, starts no dispatch there and
\* lets go only of rows that need no writing keeps the order.
Kept(h) ==
    /\ sock[h] = "open" /\ faults = 0
    /\ \A c \in Command : written'[h][c] = written[h][c]
    /\ todo'[h] \subseteq todo[h]
    /\ \A c \in Command : status'[c] = "pending" => status[c] = "pending"
    /\ \A c \in todo[h] \ todo'[h] : c \in Unencodable \/ status'[c] # "pending"
    /\ phase'[h] \in {"send", "mark"} => phase[h] \in {"send", "mark"}
    /\ \A c \in Command : Unmarked(h, c)' => Unmarked(h, c)
    /\ \A c \in Command : Unmarked(h, c) => Unmarked(h, c)' \/ (c \notin todo'[h] /\ status'[c] # "pending")

LEMMA KeptOrder ==
    ASSUME TypeOK, OrderInv, NEW h \in Conn, Kept(h)
    PROVE  Ordered(h)'
  <1>1. Ordered(h)
    BY DEF Kept, OrderInv
  <1>2. \A c \in Command : Due(h, c)' => Due(h, c)
    BY DEF Kept, Due
  <1>3. ASSUME NEW c \in Command, NEW d \in Command, Due(h, c)', written'[h][d] > 0 PROVE d < c
    BY <1>1, <1>2, <1>3 DEF Ordered, Kept
  <1>4. ASSUME NEW c \in Command, NEW d \in Command, Unmarked(h, c)', written'[h][d] > 0 PROVE d <= c
    BY <1>1, <1>4 DEF Ordered, Kept
  <1>5. ASSUME NEW c \in Command, NEW d \in Command, phase'[h] \in {"send", "mark"}, status'[c] = "pending",
               c \notin Unencodable, c \notin todo'[h], d \in todo'[h]
        PROVE  d < c
    BY <1>1, <1>5 DEF Ordered, Kept, TypeOK
  <1> QED BY <1>3, <1>4, <1>5 DEF Ordered

\* Commands are written to a connection oldest first.
LEMMA OrderNext == IInv /\ IdleInv /\ OrderInv /\ [Next]_vars => OrderInv'
  <1> SUFFICES ASSUME IInv, IdleInv, OrderInv, [Next]_vars PROVE OrderInv'
    OBVIOUS
  <1> USE DEF IInv, AbsentInv, HoldInv, IdleInv, OrderInv, Due, Unmarked, HasStatus, IsFirst, Live, NoCommand, dbVars, adminVars, handlerVars, netVars, ghostVars, limitVars
  <1>a. 0 \notin Command /\ \A d \in Command : d \in Nat
    BY DEF Command
  <1> USE <1>a
  <1> SUFFICES ASSUME NEW g \in Conn, sock'[g] = "open", faults' = 0 PROVE Ordered(g)'
    BY DEF OrderInv
  <1>0. CASE UNCHANGED vars
    <2>1. Kept(g)
      BY <1>0 DEF Kept, vars
    <2> QED BY <2>1, KeptOrder
  <1>1. CASE RequestCommand
    <2>1. Kept(g)
      BY <1>1 DEF Kept, RequestCommand, TypeOK
    <2> QED BY <2>1, KeptOrder
  <1>2. CASE CreateCommand
    <2>1. sock[g] = "open" /\ faults = 0 /\ Ordered(g)
      BY <1>2 DEF CreateCommand
    <2>2. /\ created \in Nat /\ created + 1 \in Command
          /\ \A d \in Command : status'[d] = IF d = created + 1 THEN "pending" ELSE status[d]
          /\ UNCHANGED <<handlerVars, ghostVars, limitVars>>
      BY <1>2, CreateEffect
    <2>3. status[created + 1] = "absent"
      BY <2>2
    <2>4. \A d \in Command : (written[g][d] > 0 \/ d \in todo[g]) => d < created + 1
      <3>1. ASSUME NEW d \in Command, written[g][d] > 0 \/ d \in todo[g] PROVE d < created + 1
        <4>1. status[d] # "absent"
          BY <3>1
        <4>2. ~(created < d)
          BY <4>1
        <4> QED BY <4>2, <2>2
      <3> QED BY <3>1
    <2>5. \A c \in Command : c # created + 1 => (Due(g, c)' <=> Due(g, c))
      BY <2>2 DEF Due, Unmarked
    <2>6. \A c \in Command : Unmarked(g, c)' <=> Unmarked(g, c)
      BY <2>2 DEF Unmarked
    <2>7. \A c, d \in Command : Due(g, c)' /\ written'[g][d] > 0 => d < c
      BY <2>1, <2>2, <2>4, <2>5 DEF Ordered
    <2>8. \A c, d \in Command : Unmarked(g, c)' /\ written'[g][d] > 0 => d <= c
      BY <2>1, <2>2, <2>6 DEF Ordered
    <2>9. ASSUME NEW c \in Command, NEW d \in Command, phase'[g] \in {"send", "mark"}, status'[c] = "pending",
                 c \notin Unencodable, c \notin todo'[g], d \in todo'[g]
          PROVE  d < c
      BY <2>1, <2>2, <2>4, <2>9 DEF Ordered
    <2> QED BY <2>7, <2>8, <2>9 DEF Ordered
  <1>3. CASE DisableDevice
    <2>1. Kept(g)
      BY <1>3 DEF Kept, DisableDevice, TypeOK
    <2> QED BY <2>1, KeptOrder
  <1>4. CASE DisconnectDevice
    <2>1. Kept(g)
      BY <1>4 DEF Kept, DisconnectDevice, TypeOK
    <2> QED BY <2>1, KeptOrder
  <1>5. CASE EnableDevice
    <2>1. Kept(g)
      BY <1>5 DEF Kept, EnableDevice, TypeOK
    <2> QED BY <2>1, KeptOrder
  <1>6. CASE Crash
    <2>1. Kept(g)
      BY <1>6 DEF Kept, Crash, TypeOK
    <2> QED BY <2>1, KeptOrder
  <1>7. ASSUME NEW c \in Command, CancelCommand(c) PROVE Ordered(g)'
    <2>1. Kept(g)
      BY <1>7 DEF Kept, CancelCommand, TypeOK
    <2> QED BY <2>1, KeptOrder
  <1>8. ASSUME NEW c \in Command, DeleteCommandHistory(c) PROVE Ordered(g)'
    <2>1. Kept(g)
      BY <1>8 DEF Kept, DeleteCommandHistory, TypeOK
    <2> QED BY <2>1, KeptOrder
  <1>9. ASSUME NEW h \in Conn, Connect(h) PROVE Ordered(g)'
    <2>1. CASE g = h
      <3>1. \A d \in Command : ~(written'[g][d] > 0)
        BY <1>9, <2>1 DEF Connect
      <3>2. phase'[g] = "reading"
        BY <1>9, <2>1 DEF Connect, TypeOK
      <3> QED BY <3>1, <3>2 DEF Ordered
    <2>2. CASE g # h
      <3>1. Kept(g)
        BY <1>9, <2>2 DEF Kept, Connect, TypeOK
      <3> QED BY <3>1, KeptOrder
    <2> QED BY <2>1, <2>2
  <1>10. ASSUME NEW h \in Conn, LoseSocket(h) PROVE Ordered(g)'
    <2>1. Kept(g)
      BY <1>10 DEF Kept, LoseSocket, TypeOK
    <2> QED BY <2>1, KeptOrder
  <1>11. ASSUME NEW h \in Conn, DeviceReads(h) PROVE Ordered(g)'
    <2>1. Kept(g)
      BY <1>11 DEF Kept, DeviceReads, TypeOK
    <2> QED BY <2>1, KeptOrder
  <1>12. ASSUME NEW h \in Conn, ReadPacket(h) PROVE Ordered(g)'
    <2>1. Kept(g)
      BY <1>12 DEF Kept, ReadPacket, TypeOK
    <2> QED BY <2>1, KeptOrder
  <1>13. ASSUME NEW h \in Conn, CheckDevice(h) PROVE Ordered(g)'
    <2>1. Kept(g)
      BY <1>13 DEF Kept, CheckDevice, TypeOK
    <2> QED BY <2>1, KeptOrder
  <1>14. ASSUME NEW h \in Conn, QueryPending(h) PROVE Ordered(g)'
    <2>1. CASE g = h
      <3>1. /\ todo'[g] = HasStatus("pending") /\ todo[g] = {} /\ phase'[g] = "send" /\ phase[g] = "query"
            /\ status' = status /\ written' = written /\ Ordered(g)
        BY <1>14, <2>1 DEF QueryPending, TypeOK
      <3>2. \A c \in Command : Due(g, c)' => Due(g, c)
        BY <3>1
      <3>3. \A c \in Command : ~Unmarked(g, c)'
        BY <3>1
      <3>4. \A c \in Command : status[c] = "pending" => c \in todo'[g]
        BY <3>1
      <3> QED BY <3>1, <3>2, <3>3, <3>4 DEF Ordered
    <2>2. CASE g # h
      <3>1. Kept(g)
        BY <1>14, <2>2 DEF Kept, QueryPending, TypeOK
      <3> QED BY <3>1, KeptOrder
    <2> QED BY <2>1, <2>2
  <1>15. ASSUME NEW h \in Conn, FinishDispatch(h) PROVE Ordered(g)'
    <2>1. Kept(g)
      BY <1>15 DEF Kept, FinishDispatch, TypeOK
    <2> QED BY <2>1, KeptOrder
  <1>16. ASSUME NEW h \in Conn, SelectOldestSent(h) PROVE Ordered(g)'
    <2>1. Kept(g)
      <3>1. /\ phase[h] = "reading" /\ phase' = [phase EXCEPT ![h] = "ack"]
            /\ UNCHANGED <<status, written, todo, sock, faults>>
        BY <1>16 DEF SelectOldestSent
      <3>2. /\ g = h => phase[g] = "reading" /\ phase'[g] = "ack"
            /\ g # h => phase'[g] = phase[g]
        BY <3>1 DEF TypeOK
      <3> QED BY <3>1, <3>2 DEF Kept
    <2> QED BY <2>1, KeptOrder
  <1>17. ASSUME NEW h \in Conn, MarkAcked(h) PROVE Ordered(g)'
    <2>1. Kept(g)
      BY <1>17 DEF Kept, MarkAcked, TypeOK
    <2> QED BY <2>1, KeptOrder
  <1>18. ASSUME NEW h \in Conn, DatabaseFault(h) PROVE Ordered(g)'
    BY <1>18, FaultEffect DEF TypeOK
  <1>19. ASSUME NEW h \in Conn, CloseHandler(h) PROVE Ordered(g)'
    <2>1. Kept(g)
      BY <1>19 DEF Kept, CloseHandler, TypeOK
    <2> QED BY <2>1, KeptOrder
  <1>20. ASSUME NEW h \in Conn, NEW c \in Command, SkipCommand(h, c) PROVE Ordered(g)'
    <2>1. Kept(g)
      BY <1>20 DEF Kept, SkipCommand, TypeOK
    <2> QED BY <2>1, KeptOrder
  <1>21. ASSUME NEW h \in Conn, NEW c \in Command, WriteCommand(h, c) PROVE Ordered(g)'
    <2>0. /\ phase[h] = "send" /\ IsFirst(c, todo[h])
          /\ UNCHANGED <<dbVars, todo, target, faults>>
          /\ \A x \in Conn, d \in Command :
                written'[x][d] = IF x = h /\ d = c THEN written[h][c] + 1 ELSE written[x][d]
          /\ \A x \in Conn : phase'[x] = IF x = h THEN "mark" ELSE phase[x]
          /\ c \notin Unencodable /\ sock' = sock
      BY <1>21, WriteEffect, WireEffect
    <2>1. CASE g = h
      <3>1. Ordered(g) /\ Due(g, c)
        BY <2>0, <2>1
      <3>2. \A d \in Command : written[g][d] > 0 => d < c
        BY <3>1 DEF Ordered
      <3>3. \A d \in Command : written'[g][d] > 0 => d <= c
        BY <2>0, <3>2
      <3>4. \A d \in Command : Unmarked(g, d)' => d = c
        BY <2>0, <2>1 DEF TypeOK
      <3>5. Unmarked(g, c)'
        BY <2>0, <2>1
      <3>6. \A d \in Command : Due(g, d)' => Due(g, d) /\ d # c
        BY <2>0, <2>1, <3>5
      <3>7. \A d \in Command : Due(g, d)' => c < d
        <4>1. ASSUME NEW d \in Command, Due(g, d)' PROVE c < d
          <5>1. d # c /\ Due(g, d)
            BY <4>1, <3>6
          <5>2. CASE d \in todo[g]
            BY <2>0, <2>1, <5>1, <5>2 DEF TypeOK
          <5>3. CASE d \notin todo[g]
            <6>1. status[d] = "pending" /\ d \notin Unencodable
              BY <5>1, <5>3
            <6>2. c \in todo[g] /\ phase[g] = "send"
              BY <2>0, <2>1
            <6> QED BY <3>1, <5>3, <6>1, <6>2 DEF Ordered
          <5> QED BY <5>2, <5>3
        <4> QED BY <4>1
      <3>8. \A x, d \in Command : Due(g, x)' /\ written'[g][d] > 0 => d < x
        <4>1. ASSUME NEW x \in Command, NEW d \in Command, Due(g, x)', written'[g][d] > 0 PROVE d < x
          <5>1. c < x /\ d <= c
            BY <4>1, <3>3, <3>7
          <5> QED BY <5>1
        <4> QED BY <4>1
      <3>9. \A x, d \in Command : Unmarked(g, x)' /\ written'[g][d] > 0 => d <= x
        BY <3>3, <3>4
      <3>10. ASSUME NEW x \in Command, NEW d \in Command, status'[x] = "pending",
                    x \notin Unencodable, x \notin todo'[g], d \in todo'[g]
             PROVE  d < x
        BY <2>0, <2>1, <3>1, <3>10 DEF Ordered
      <3> QED BY <3>8, <3>9, <3>10 DEF Ordered
    <2>2. CASE g # h
      <3>1. Kept(g)
        BY <2>0, <2>2 DEF Kept
      <3> QED BY <3>1, KeptOrder
    <2> QED BY <2>1, <2>2
  <1>22. ASSUME NEW h \in Conn, NEW c \in Command, WriteFails(h, c) PROVE Ordered(g)'
    <2>1. Kept(g)
      BY <1>22 DEF Kept, WriteFails, TypeOK
    <2> QED BY <2>1, KeptOrder
  <1>23. ASSUME NEW h \in Conn, NEW c \in Command, MarkCommandSent(h, c) PROVE Ordered(g)'
    <2>0. Marked(h, c) /\ sock' = sock
      BY <1>23, MarkEffect DEF MarkCommandSent
    <2>1. \A x \in Conn : todo'[x] = IF x = h THEN todo[h] \ {c} ELSE todo[x]
      BY <2>0 DEF Marked
    <2>2. \A d \in Command : status'[d] = "pending" => status[d] = "pending" /\ d # c
      BY <2>0 DEF Marked
    <2>3. /\ sock[g] = "open" /\ faults = 0 /\ written' = written
          /\ phase'[g] \in {"send", "mark"} => phase[g] \in {"send", "mark"}
      BY <2>0 DEF Marked
    <2>4. \A d \in Command : Unmarked(g, d)' => Unmarked(g, d)
      BY <2>0 DEF Marked
    <2>5. ASSUME NEW d \in Command, Unmarked(g, d)
          PROVE  Unmarked(g, d)' \/ (d \notin todo'[g] /\ status'[d] # "pending")
      <3>1. CASE g = h
        <4>1. d = c
          BY <2>0, <2>5, <3>1 DEF Marked, TypeOK
        <4> QED BY <2>1, <2>2, <3>1, <4>1
      <3>2. CASE g # h
        BY <2>0, <2>5, <3>2 DEF Marked
      <3> QED BY <3>1, <3>2
    <2>6. \A d \in todo[g] \ todo'[g] : status'[d] # "pending"
      <3>1. ASSUME NEW d \in todo[g] \ todo'[g] PROVE status'[d] # "pending"
        <4>1. d = c
          BY <2>1
        <4> QED BY <2>2, <4>1
      <3> QED BY <3>1
    <2>7. Kept(g)
      BY <2>1, <2>2, <2>3, <2>4, <2>5, <2>6 DEF Kept
    <2> QED BY <2>7, KeptOrder
  <1> QED
    BY <1>0, <1>1, <1>2, <1>3, <1>4, <1>5, <1>6, <1>7, <1>8, <1>9, <1>10, <1>11, <1>12,
       <1>13, <1>14, <1>15, <1>16, <1>17, <1>18, <1>19, <1>20, <1>21, <1>22, <1>23
       DEF Next, Operator, Connection, Dispatch

\* A connection that is clean after a step was clean before, or is new.
LEMMA CleanBack ==
    ASSUME IInv, IdleInv, [Next]_vars, NEW x \in Conn, Clean(x)'
    PROVE  Clean(x) \/ Connect(x)
  <1> USE DEF IInv, IdleInv, HoldInv, Clean, Live, HasStatus, IsFirst, IsOldestSent, NoCommand, dbVars, adminVars, handlerVars, netVars, ghostVars, limitVars
  <1>a. 0 \notin Command /\ \A d \in Command : d \in Nat
    BY DEF Command
  <1> USE <1>a
  <1>0. CASE UNCHANGED vars BY <1>0 DEF vars
  <1>1. CASE RequestCommand
    BY <1>1 DEF RequestCommand, TypeOK
  <1>2. CASE CreateCommand
    <2>1. /\ \A d \in Command : status'[d] = IF d = created + 1 THEN "pending" ELSE status[d]
          /\ UNCHANGED <<phase, todo, target, faults, sock>>
      BY <1>2, CreateEffect DEF CreateCommand
    <2>2. created + 1 \in Command /\ status[created + 1] = "absent"
      BY <1>2, CreateEffect DEF AbsentInv
    <2>3. \A d \in Command : status[d] \in {"canceled", "deleted"} => status'[d] = status[d]
      BY <2>1, <2>2
    <2> QED BY <2>1, <2>2, <2>3
  <1>3. CASE DisableDevice
    BY <1>3 DEF DisableDevice, TypeOK
  <1>4. CASE DisconnectDevice
    BY <1>4 DEF DisconnectDevice, TypeOK
  <1>5. CASE EnableDevice
    BY <1>5 DEF EnableDevice, TypeOK
  <1>6. CASE Crash
    <2>1. sock'[x] # "open"
      BY <1>6 DEF Crash, IdleInv, TypeOK
    <2> QED BY <2>1
  <1>7. ASSUME NEW c \in Command, CancelCommand(c) PROVE Clean(x) \/ Connect(x)
    BY <1>7 DEF CancelCommand, TypeOK
  <1>8. ASSUME NEW c \in Command, DeleteCommandHistory(c) PROVE Clean(x) \/ Connect(x)
    BY <1>8 DEF DeleteCommandHistory, TypeOK
  <1>9. ASSUME NEW h \in Conn, Connect(h) PROVE Clean(x) \/ Connect(x)
    BY <1>9 DEF Connect, TypeOK
  <1>10. ASSUME NEW h \in Conn, LoseSocket(h) PROVE Clean(x) \/ Connect(x)
    BY <1>10 DEF LoseSocket, TypeOK
  <1>11. ASSUME NEW h \in Conn, DeviceReads(h) PROVE Clean(x) \/ Connect(x)
    BY <1>11 DEF DeviceReads, TypeOK
  <1>12. ASSUME NEW h \in Conn, ReadPacket(h) PROVE Clean(x) \/ Connect(x)
    BY <1>12 DEF ReadPacket, TypeOK
  <1>13. ASSUME NEW h \in Conn, CheckDevice(h) PROVE Clean(x) \/ Connect(x)
    BY <1>13 DEF CheckDevice, TypeOK
  <1>14. ASSUME NEW h \in Conn, QueryPending(h) PROVE Clean(x) \/ Connect(x)
    BY <1>14 DEF QueryPending, TypeOK
  <1>15. ASSUME NEW h \in Conn, FinishDispatch(h) PROVE Clean(x) \/ Connect(x)
    BY <1>15 DEF FinishDispatch, TypeOK
  <1>16. ASSUME NEW h \in Conn, SelectOldestSent(h) PROVE Clean(x) \/ Connect(x)
    <2>1. PICK c \in Command \cup {NoCommand} :
             /\ IF HasStatus("sent") = {} THEN c = NoCommand ELSE IsOldestSent(c)
             /\ target' = [target EXCEPT ![h] = c]
      BY <1>16 DEF SelectOldestSent
    <2>2. c = NoCommand \/ (c \in Command /\ status[c] = "sent")
      BY <2>1
    <2>3. \A d \in Command : d = target'[x] => d = target[x] \/ status[d] = "sent"
      BY <2>1, <2>2 DEF TypeOK
    <2>4. UNCHANGED <<status, todo, faults, sock>> /\ phase[h] # "idle" /\ phase' = [phase EXCEPT ![h] = "ack"]
      BY <1>16 DEF SelectOldestSent
    <2>5. \A y \in Conn : phase'[y] = "idle" => phase[y] = "idle"
      BY <2>4 DEF TypeOK
    <2> QED BY <2>3, <2>4, <2>5
  <1>17. ASSUME NEW h \in Conn, MarkAcked(h) PROVE Clean(x) \/ Connect(x)
    BY <1>17 DEF MarkAcked, TypeOK
  <1>18. ASSUME NEW h \in Conn, DatabaseFault(h) PROVE Clean(x) \/ Connect(x)
    <2>1. faults' = faults + 1 /\ faults \in Nat /\ faults' = 0
      BY <1>18, FaultEffect DEF TypeOK
    <2> QED BY <2>1
  <1>19. ASSUME NEW h \in Conn, CloseHandler(h) PROVE Clean(x) \/ Connect(x)
    BY <1>19 DEF CloseHandler, TypeOK
  <1>20. ASSUME NEW h \in Conn, NEW c \in Command, SkipCommand(h, c) PROVE Clean(x) \/ Connect(x)
    BY <1>20 DEF SkipCommand, TypeOK
  <1>21. ASSUME NEW h \in Conn, NEW c \in Command, WriteCommand(h, c) PROVE Clean(x) \/ Connect(x)
    BY <1>21, WriteEffect, WireEffect
  <1>22. ASSUME NEW h \in Conn, NEW c \in Command, WriteFails(h, c) PROVE Clean(x) \/ Connect(x)
    BY <1>22 DEF WriteFails, TypeOK
  <1>23. ASSUME NEW h \in Conn, NEW c \in Command, MarkCommandSent(h, c) PROVE Clean(x) \/ Connect(x)
    BY <1>23 DEF MarkCommandSent, TypeOK
  <1> QED
    BY <1>0, <1>1, <1>2, <1>3, <1>4, <1>5, <1>6, <1>7, <1>8, <1>9, <1>10, <1>11, <1>12,
       <1>13, <1>14, <1>15, <1>16, <1>17, <1>18, <1>19, <1>20, <1>21, <1>22, <1>23
       DEF Next, Operator, Connection, Dispatch

\* On a clean connection everything that was sent or received went through it.
LEMMA OneWriter ==
    ASSUME IInv, IdleInv, ReceivedInv, NEW h \in Conn, Clean(h)
    PROVE  /\ \A c \in Command : status[c] \in {"sent", "acked"} => written[h][c] > 0
           /\ \A c \in Command : received[c] > 0 => written[h][c] > 0
           /\ \A c \in Command : c = target[h] => written[h][c] > 0
           /\ \A c \in Command, g \in Conn : g # h => c \notin todo[g] /\ c # target[g]
           /\ \A g \in Conn : g # h => phase[g] = "idle" /\ sock[g] = "none"
  <1>1. \A g \in Conn : g # h => phase[g] = "idle" /\ sock[g] = "none"
    BY DEF Clean, IdleInv
  <1>2. \A g \in Conn, c \in Command : g # h => ~(written[g][c] > 0)
    BY <1>1 DEF IdleInv
  <1>3. \A c \in Command, g \in Conn : g # h => c \notin todo[g] /\ c # target[g]
    BY <1>1 DEF IInv, HoldInv, NoCommand, Command
  <1>4. \A c \in Command : (\E g \in Conn : written[g][c] > 0) => written[h][c] > 0
    BY <1>2
  <1>5. \A c \in Command : status[c] \in {"sent", "acked"} => written[h][c] > 0
    BY <1>4 DEF IInv, WrittenInv, SentWasWritten
  <1>6. \A c \in Command : received[c] > 0 => written[h][c] > 0
    BY <1>4 DEF ReceivedInv
  <1>7. \A c \in Command : c = target[h] => written[h][c] > 0
    BY <1>4 DEF IInv, WrittenInv
  <1> QED BY <1>1, <1>3, <1>5, <1>6, <1>7

LEMMA ExecutedFinite == IsFiniteSet(Executed) /\ Executed \subseteq Command
  <1>1. IsFiniteSet(Command)
    BY FS_Interval DEF Command
  <1> QED BY <1>1, FS_Subset DEF Executed

\* A step that neither writes, reads nor answers keeps the matching.
LEMMA MatchKept ==
    ASSUME NEW h \in Conn, Matching(h),
           UNCHANGED <<received, sentAt, clock>>, wire'[h] = wire[h], acks'[h] = acks[h],
           \A c \in Command : written'[h][c] = written[h][c],
           Answered(h)' = Answered(h),
           \A c \in Command : status'[c] = "sent" => status[c] = "sent",
           \A c \in Command : Unmarked(h, c)' => Unmarked(h, c)
    PROVE  Matching(h)'
  <1>1. Executed' = Executed
    BY DEF Executed
  <1>2. \A i, j \in 1..Len(wire'[h]) : i < j => wire'[h][i] < wire'[h][j]
    BY DEF Matching
  <1>3. \A c \in Executed' : \A i \in 1..Len(wire'[h]) : c < wire'[h][i]
    BY <1>1 DEF Matching
  <1>4. \A c \in Command : written'[h][c] > 0 =>
          c \in Executed' \/ \E i \in 1..Len(wire'[h]) : c = wire'[h][i]
    BY <1>1 DEF Matching
  <1>5. Answered(h)' \subseteq Executed' /\ acks'[h] = Cardinality(Executed' \ Answered(h)')
    BY <1>1 DEF Matching
  <1>6. \A c \in Answered(h)', d \in Command : written'[h][d] > 0 /\ d < c => d \in Answered(h)'
    BY DEF Matching
  <1>7. \A c \in Command : Unmarked(h, c)' => c \notin Answered(h)'
    BY DEF Matching
  <1>8. \A c \in HasStatus("sent")' : c \in HasStatus("sent")
    BY DEF HasStatus
  <1>9. \A c, d \in HasStatus("sent")' : c < d => sentAt'[c] < sentAt'[d]
    BY <1>8 DEF Matching
  <1>10. \A c \in HasStatus("sent")' : sentAt'[c] < clock'
    BY <1>8 DEF Matching
  <1> QED BY <1>2, <1>3, <1>4, <1>5, <1>6, <1>7, <1>9, <1>10 DEF Matching

\* A new connection has nothing to match.
LEMMA MatchConnect ==
    ASSUME IInv, IdleInv, ReceivedInv, NEW x \in Conn, Connect(x), Clean(x)'
    PROVE  Matching(x)'
  <1>a. 0 \notin Command
    BY DEF Command
  <1>1. \A g \in Conn : phase[g] = "idle"
    BY DEF Connect, Clean, IInv, TypeOK
  <1>2. \A g \in Conn, c \in Command : ~(written[g][c] > 0)
    BY <1>1 DEF IdleInv
  <1>3. \A c \in Command : ~(received[c] > 0) /\ status[c] \notin {"sent", "acked"} /\ c # target[x]
    BY <1>a, <1>1, <1>2 DEF ReceivedInv, IInv, WrittenInv, SentWasWritten, HoldInv, NoCommand
  <1>4. /\ UNCHANGED <<received, status, target, wire, acks, written>> /\ phase'[x] = "reading"
        /\ wire[x] = <<>> /\ acks[x] = 0
    BY DEF Connect, IInv, TypeOK, IdleInv, dbVars, ghostVars
  <1>5. Executed' = {} /\ Answered(x)' = {} /\ HasStatus("sent")' = {}
    BY <1>3, <1>4 DEF Executed, Answered, HasStatus
  <1>6. Cardinality({}) = 0
    BY FS_EmptySet
  <1>7. acks'[x] = Cardinality(Executed' \ Answered(x)')
    BY <1>4, <1>5, <1>6
  <1>8. Len(wire'[x]) = 0
    BY <1>4
  <1>9. \A c \in Command : ~Unmarked(x, c)'
    BY <1>4 DEF Unmarked
  <1> HIDE DEF Executed, Answered, HasStatus, Unmarked
  <1> QED BY <1>2, <1>4, <1>5, <1>7, <1>8, <1>9 DEF Matching

\* The device executes the oldest command on the wire.
LEMMA MatchRead ==
    ASSUME IInv, ReceivedInv, NEW x \in Conn, Clean(x), Matching(x), DeviceReads(x)
    PROVE  Matching(x)'
  <1> DEFINE s == wire[x]
             c0 == s[1]
  <1>1. /\ Len(s) \in Nat /\ Len(s) > 0 /\ c0 \in Command
        /\ \A c \in Command : received'[c] = IF c = c0 THEN received[c] + 1 ELSE received[c]
        /\ Len(wire'[x]) = Len(s) - 1
        /\ \A i \in 1..Len(wire'[x]) : i + 1 \in 1..Len(s) /\ wire'[x][i] = s[i + 1]
        /\ acks' = [acks EXCEPT ![x] = acks[x] + 1]
        /\ UNCHANGED <<dbVars, adminVars, handlerVars, registry, sock, written, limitVars>>
    BY ReadEffect DEF IInv
  <1>2. UNCHANGED <<status, sentAt, clock, target, written, phase, todo>>
    BY <1>1 DEF dbVars, handlerVars
  <1>3. 1 \in 1..Len(s)
    BY <1>1
  <1>4. \A c \in Command : received[c] \in Nat
    BY DEF IInv, TypeOK
  <1>5. Executed' = Executed \cup {c0}
    BY <1>1, <1>4 DEF Executed
  <1>6. c0 \notin Executed
    <2>1. \A c \in Executed : c < c0
      BY <1>3 DEF Matching
    <2>2. c0 \in Nat
      BY <1>1 DEF Command
    <2> QED BY <2>1, <2>2
  <1>7. Answered(x)' = Answered(x)
    BY <1>2 DEF Answered
  <1>8. c0 \notin Answered(x)
    BY <1>6 DEF Matching
  <1>9. acks'[x] = Cardinality(Executed' \ Answered(x)')
    <2>1. Executed' \ Answered(x)' = (Executed \ Answered(x)) \cup {c0}
      BY <1>5, <1>7, <1>8
    <2>2. IsFiniteSet(Executed \ Answered(x))
      BY ExecutedFinite, FS_Difference
    <2>3. Cardinality((Executed \ Answered(x)) \cup {c0}) = Cardinality(Executed \ Answered(x)) + 1
      BY <2>2, <1>6, FS_AddElement
    <2>4. acks'[x] = acks[x] + 1
      BY <1>1 DEF IInv, TypeOK
    <2> QED BY <2>1, <2>3, <2>4 DEF Matching
  <1>10. \A i, j \in 1..Len(wire'[x]) : i < j => wire'[x][i] < wire'[x][j]
    <2>1. ASSUME NEW i \in 1..Len(wire'[x]), NEW j \in 1..Len(wire'[x]), i < j
          PROVE  wire'[x][i] < wire'[x][j]
      <3>1. i + 1 \in 1..Len(s) /\ j + 1 \in 1..Len(s) /\ i + 1 < j + 1
        BY <1>1, <2>1
      <3>2. s[i + 1] < s[j + 1]
        BY <3>1 DEF Matching
      <3> QED BY <1>1, <3>2
    <2> QED BY <2>1
  <1>11. \A c \in Executed' : \A i \in 1..Len(wire'[x]) : c < wire'[x][i]
    <2>1. ASSUME NEW c \in Executed', NEW i \in 1..Len(wire'[x]) PROVE c < wire'[x][i]
      <3>1. i + 1 \in 1..Len(s) /\ 1 < i + 1 /\ wire'[x][i] = s[i + 1]
        BY <1>1
      <3>2. CASE c = c0
        BY <1>3, <3>1, <3>2 DEF Matching
      <3>3. CASE c # c0
        BY <1>5, <3>1, <3>3 DEF Matching
      <3> QED BY <3>2, <3>3
    <2> QED BY <2>1
  <1>12. \A c \in Command : written'[x][c] > 0 =>
            c \in Executed' \/ \E i \in 1..Len(wire'[x]) : c = wire'[x][i]
    <2>1. ASSUME NEW c \in Command, written[x][c] > 0, c \notin Executed'
          PROVE  \E i \in 1..Len(wire'[x]) : c = wire'[x][i]
      <3>1. c \notin Executed /\ c # c0
        BY <1>5, <2>1
      <3>2. PICK i \in 1..Len(s) : c = s[i]
        BY <2>1, <3>1 DEF Matching
      <3>3. i # 1
        BY <3>1, <3>2
      <3>4. i - 1 \in 1..Len(wire'[x]) /\ (i - 1) + 1 = i
        BY <1>1, <3>3
      <3>5. wire'[x][i - 1] = s[i]
        BY <1>1, <3>4
      <3> QED BY <3>2, <3>4, <3>5
    <2> QED BY <1>2, <2>1
  <1>13. Answered(x)' \subseteq Executed'
    BY <1>5, <1>7 DEF Matching
  <1>14. /\ \A c \in Answered(x)', d \in Command : written'[x][d] > 0 /\ d < c => d \in Answered(x)'
         /\ \A c \in Command : Unmarked(x, c)' => c \notin Answered(x)'
    BY <1>2, <1>7 DEF Matching, Unmarked, IsFirst
  <1>15. /\ \A c, d \in HasStatus("sent")' : c < d => sentAt'[c] < sentAt'[d]
         /\ \A c \in HasStatus("sent")' : sentAt'[c] < clock'
    BY <1>2 DEF Matching, HasStatus
  <1> QED BY <1>9, <1>10, <1>11, <1>12, <1>13, <1>14, <1>15 DEF Matching

\* A write puts the youngest command so far at the end of the wire.
LEMMA MatchWrite ==
    ASSUME IInv, IdleInv, ReceivedInv, OrderInv, NEW x \in Conn, NEW c0 \in Command,
           Clean(x), Matching(x), WriteCommand(x, c0)
    PROVE  Matching(x)'
  <1> DEFINE s == wire[x]
  <1>1. /\ phase[x] = "send" /\ IsFirst(c0, todo[x]) /\ c0 \notin Unencodable
        /\ Len(s) \in Nat /\ Len(wire'[x]) = Len(s) + 1 /\ wire'[x][Len(s) + 1] = c0
        /\ \A i \in 1..Len(s) : wire'[x][i] = s[i]
        /\ UNCHANGED <<status, sentAt, clock, todo, target, acks, received>>
        /\ \A d \in Command : written'[x][d] = IF d = c0 THEN written[x][c0] + 1 ELSE written[x][d]
        /\ phase'[x] = "mark"
    BY WriteEffect, WireEffect DEF IInv, Clean, dbVars
  <1>2. Due(x, c0) /\ Ordered(x)
    BY <1>1 DEF Due, Unmarked, IsFirst, OrderInv, Clean
  <1>3. \A d \in Command : written[x][d] > 0 => d < c0
    BY <1>2 DEF Ordered
  <1>4. \A d \in Executed : d < c0
    BY <1>3, OneWriter DEF Executed
  <1>5. \A i \in 1..Len(s) : s[i] \in Command /\ s[i] < c0
    <2>1. ASSUME NEW i \in 1..Len(s) PROVE s[i] \in Command /\ s[i] < c0
      <3>1. s \in Seq(Command)
        BY DEF IInv, TypeOK
      <3>2. s[i] \in Command
        BY <3>1, ElementOfSeq
      <3>3. written[x][s[i]] > 0
        BY DEF ReceivedInv
      <3> QED BY <1>3, <3>2, <3>3
    <2> QED BY <2>1
  <1>6. Executed' = Executed /\ Answered(x)' = Answered(x) /\ HasStatus("sent")' = HasStatus("sent")
    BY <1>1 DEF Executed, Answered, HasStatus
  <1>7. \A i, j \in 1..Len(wire'[x]) : i < j => wire'[x][i] < wire'[x][j]
    <2>1. ASSUME NEW i \in 1..Len(wire'[x]), NEW j \in 1..Len(wire'[x]), i < j
          PROVE  wire'[x][i] < wire'[x][j]
      <3>1. i \in 1..Len(s) /\ wire'[x][i] = s[i]
        BY <1>1, <2>1
      <3>2. CASE j = Len(s) + 1
        BY <1>1, <1>5, <3>1, <3>2
      <3>3. CASE j # Len(s) + 1
        <4>1. j \in 1..Len(s) /\ wire'[x][j] = s[j]
          BY <1>1, <3>3
        <4> QED BY <2>1, <3>1, <4>1 DEF Matching
      <3> QED BY <3>2, <3>3
    <2> QED BY <2>1
  <1>8. \A c \in Executed' : \A i \in 1..Len(wire'[x]) : c < wire'[x][i]
    <2>1. ASSUME NEW c \in Executed', NEW i \in 1..Len(wire'[x]) PROVE c < wire'[x][i]
      <3>1. CASE i = Len(s) + 1
        BY <1>1, <1>4, <1>6, <3>1
      <3>2. CASE i # Len(s) + 1
        <4>1. i \in 1..Len(s) /\ wire'[x][i] = s[i]
          BY <1>1, <3>2
        <4> QED BY <1>6, <4>1 DEF Matching
      <3> QED BY <3>1, <3>2
    <2> QED BY <2>1
  <1>9. \A c \in Command : written'[x][c] > 0 =>
            c \in Executed' \/ \E i \in 1..Len(wire'[x]) : c = wire'[x][i]
    <2>1. ASSUME NEW c \in Command, written'[x][c] > 0, c \notin Executed'
          PROVE  \E i \in 1..Len(wire'[x]) : c = wire'[x][i]
      <3>1. CASE c = c0
        <4>1. Len(s) + 1 \in 1..Len(wire'[x])
          BY <1>1
        <4> QED BY <1>1, <3>1, <4>1
      <3>2. CASE c # c0
        <4>1. PICK i \in 1..Len(s) : c = s[i]
          BY <1>1, <1>6, <2>1, <3>2 DEF Matching
        <4>2. i \in 1..Len(wire'[x]) /\ wire'[x][i] = s[i]
          BY <1>1
        <4> QED BY <4>1, <4>2
      <3> QED BY <3>1, <3>2
    <2> QED BY <2>1
  <1>10. Answered(x)' \subseteq Executed' /\ acks'[x] = Cardinality(Executed' \ Answered(x)')
    BY <1>1, <1>6 DEF Matching
  <1>11. \A c \in Answered(x)', d \in Command : written'[x][d] > 0 /\ d < c => d \in Answered(x)'
    <2>1. ASSUME NEW c \in Answered(x), NEW d \in Command, written'[x][d] > 0, d < c
          PROVE  d \in Answered(x)
      <3>1. c \in Executed /\ c < c0
        BY <1>4 DEF Matching
      <3>2. d # c0
        BY <2>1, <3>1 DEF Command, Executed
      <3> QED BY <1>1, <2>1, <3>2 DEF Matching
    <2> QED BY <1>6, <2>1
  <1>12. \A c \in Command : Unmarked(x, c)' => c \notin Answered(x)'
    <2>1. c0 \notin Answered(x)
      <3>1. ~(c0 < c0)
        BY DEF Command
      <3> QED BY <1>4, <3>1 DEF Matching
    <2>2. \A c \in Command : Unmarked(x, c)' => c = c0
      BY <1>1 DEF Unmarked, IsFirst, Command
    <2> QED BY <1>6, <2>1, <2>2
  <1>13. /\ \A c, d \in HasStatus("sent")' : c < d => sentAt'[c] < sentAt'[d]
         /\ \A c \in HasStatus("sent")' : sentAt'[c] < clock'
    BY <1>1, <1>6 DEF Matching
  <1> QED BY <1>7, <1>8, <1>9, <1>10, <1>11, <1>12, <1>13 DEF Matching

\* The row of the youngest written command gets the youngest time.
LEMMA MatchMark ==
    ASSUME IInv, IdleInv, ReceivedInv, OrderInv, NEW x \in Conn, NEW c0 \in Command,
           Clean(x), Matching(x), MarkCommandSent(x, c0)
    PROVE  Matching(x)'
  <1>1. Marked(x, c0)
    BY MarkEffect DEF IInv
  <1>2. /\ Unmarked(x, c0) /\ UNCHANGED <<target, written>> /\ phase'[x] = "send"
        /\ \A d \in Command : status'[d] = IF d = c0 THEN "sent" ELSE status[d]
    BY <1>1 DEF Marked, Unmarked, Clean
  <1>3. /\ UNCHANGED <<received, wire, acks>>
        /\ sentAt' = [sentAt EXCEPT ![c0] = clock] /\ clock' = clock + 1
    BY DEF MarkCommandSent, netVars, ghostVars, Clean
  <1>4. c0 \notin Answered(x)
    BY <1>2 DEF Matching
  <1>5. Answered(x)' = Answered(x) /\ Executed' = Executed
    BY <1>2, <1>3, <1>4 DEF Answered, Executed
  <1>6. \A c \in Command : ~Unmarked(x, c)'
    BY <1>2 DEF Unmarked
  <1>7. \A d \in HasStatus("sent") : d <= c0
    <2>1. \A d \in HasStatus("sent") : d \in Command /\ written[x][d] > 0
      BY OneWriter DEF HasStatus
    <2>2. Ordered(x)
      BY DEF OrderInv, Clean
    <2> QED BY <1>2, <2>1, <2>2 DEF Ordered
  <1>8. HasStatus("sent")' = HasStatus("sent") \cup {c0}
    BY <1>2 DEF HasStatus
  <1>9. /\ sentAt'[c0] = clock /\ clock \in Nat
        /\ \A d \in Command : sentAt[d] \in Nat /\ (d # c0 => sentAt'[d] = sentAt[d])
    BY <1>3 DEF IInv, TypeOK
  <1>10. \A d \in HasStatus("sent") : d # c0 => sentAt'[d] = sentAt[d] /\ sentAt'[d] < clock /\ d < c0
    BY <1>7, <1>9 DEF Matching, HasStatus, Command
  <1>11. \A c \in HasStatus("sent")' : sentAt'[c] < clock'
    <2>1. ASSUME NEW c \in HasStatus("sent")' PROVE sentAt'[c] < clock'
      <3>1. clock' = clock + 1 /\ clock \in Nat /\ c \in Command
        BY <1>3, <1>9 DEF HasStatus
      <3>2. CASE c = c0
        BY <1>9, <3>1, <3>2
      <3>3. CASE c # c0
        BY <1>8, <1>9, <1>10, <3>1, <3>3
      <3> QED BY <3>2, <3>3
    <2> QED BY <2>1
  <1>12. ASSUME NEW c \in HasStatus("sent")', NEW d \in HasStatus("sent")', c < d
         PROVE  sentAt'[c] < sentAt'[d]
    <2>1. c \in Command /\ d \in Command
      BY DEF HasStatus
    <2>2. CASE d = c0
      <3>1. c # c0
        BY <1>12, <2>1, <2>2 DEF Command
      <3> QED BY <1>8, <1>9, <1>10, <2>2, <3>1
    <2>3. CASE d # c0
      <3>1. d \in HasStatus("sent") /\ d < c0
        BY <1>8, <1>10, <2>3
      <3>2. c # c0
        BY <1>12, <2>1, <3>1 DEF Command
      <3>3. c \in HasStatus("sent")
        BY <1>8, <3>2
      <3> QED BY <1>10, <1>12, <2>3, <3>1, <3>2, <3>3 DEF Matching
    <2> QED BY <2>2, <2>3
  <1>13. /\ \A i, j \in 1..Len(wire'[x]) : i < j => wire'[x][i] < wire'[x][j]
         /\ \A c \in Executed' : \A i \in 1..Len(wire'[x]) : c < wire'[x][i]
         /\ \A c \in Command : written'[x][c] > 0 =>
               c \in Executed' \/ \E i \in 1..Len(wire'[x]) : c = wire'[x][i]
         /\ Answered(x)' \subseteq Executed'
         /\ \A c \in Answered(x)', d \in Command : written'[x][d] > 0 /\ d < c => d \in Answered(x)'
         /\ acks'[x] = Cardinality(Executed' \ Answered(x)')
    BY <1>2, <1>3, <1>5 DEF Matching
  <1> QED BY <1>6, <1>11, <1>12, <1>13 DEF Matching

\* An ack is given to the oldest sent row, which is one the device executed.
LEMMA MatchSelect ==
    ASSUME IInv, IdleInv, ReceivedInv, OrderInv, NEW x \in Conn,
           Clean(x), Matching(x), SelectOldestSent(x)
    PROVE  Matching(x)'
  <1>1. /\ phase[x] = "reading" /\ acks[x] > 0 /\ acks' = [acks EXCEPT ![x] = acks[x] - 1]
        /\ UNCHANGED <<status, sentAt, clock, received, written, wire>>
        /\ phase' = [phase EXCEPT ![x] = "ack"]
    BY DEF SelectOldestSent, dbVars, ghostVars
  <1>2. target[x] = NoCommand /\ todo[x] = {}
    BY <1>1 DEF IInv, HoldInv
  <1>3. Answered(x) = HasStatus("acked")
    BY <1>2 DEF Answered, HasStatus, NoCommand, Command
  <1>4. \A c \in Command : written[x][c] > 0 => c \in HasStatus("sent") \/ c \in Answered(x)
    <2>1. ASSUME NEW c \in Command, written[x][c] > 0 PROVE status[c] \in {"sent", "acked"}
      <3>1. ~Due(x, c)
        <4>1. Ordered(x)
          BY DEF OrderInv, Clean
        <4> QED BY <2>1, <4>1 DEF Ordered, Command
      <3>2. c \notin Unencodable /\ ~Unmarked(x, c)
        BY <1>1, <2>1 DEF ReceivedInv, Unmarked
      <3>3. status[c] # "pending"
        BY <3>1, <3>2 DEF Due
      <3>4. status[c] # "absent"
        BY <2>1 DEF IInv, AbsentInv
      <3>5. status[c] # "deleted" /\ status[c] # "canceled"
        BY <1>2 DEF Clean, NoCommand, Command
      <3> QED BY <3>3, <3>4, <3>5 DEF IInv, TypeOK, Status
    <2> QED BY <1>3, <2>1 DEF HasStatus
  <1>5. IsFiniteSet(Executed \ Answered(x)) /\ Cardinality(Executed \ Answered(x)) = acks[x]
    BY ExecutedFinite, FS_Difference DEF Matching
  <1>6. PICK r \in Executed : r \notin Answered(x)
    <2>1. Executed \ Answered(x) # {}
      BY <1>1, <1>5, FS_EmptySet
    <2> QED BY <2>1
  <1>7. r \in HasStatus("sent")
    BY <1>4, <1>6, OneWriter DEF Executed
  <1>8. PICK c0 \in Command \cup {NoCommand} :
           /\ IF HasStatus("sent") = {} THEN c0 = NoCommand ELSE IsOldestSent(c0)
           /\ target' = [target EXCEPT ![x] = c0]
    BY DEF SelectOldestSent
  <1>9. IsOldestSent(c0)
    BY <1>7, <1>8
  <1>10. c0 \in HasStatus("sent") /\ c0 \in Command /\ target'[x] = c0
    BY <1>8, <1>9 DEF IsOldestSent, HasStatus, IInv, TypeOK
  <1>11. \A d \in HasStatus("sent") : ~(d < c0)
    <2>1. ASSUME NEW d \in HasStatus("sent"), d < c0 PROVE FALSE
      <3>1. sentAt[d] < sentAt[c0]
        BY <1>10, <2>1 DEF Matching
      <3>2. sentAt[c0] <= sentAt[d]
        BY <1>9 DEF IsOldestSent
      <3>3. sentAt[c0] \in Nat /\ sentAt[d] \in Nat
        BY <1>10 DEF IInv, TypeOK, HasStatus
      <3> QED BY <3>1, <3>2, <3>3
    <2> QED BY <2>1
  <1>12. c0 \in Executed
    <2>1. c0 = r \/ c0 < r
      BY <1>7, <1>10, <1>11 DEF HasStatus, Command
    <2>2. CASE c0 = r
      BY <2>2
    <2>3. CASE c0 < r
      <3>1. written[x][c0] > 0
        BY <1>10, OneWriter DEF HasStatus
      <3>2. ASSUME NEW i \in 1..Len(wire[x]), c0 = wire[x][i] PROVE FALSE
        <4>1. r < wire[x][i]
          BY DEF Matching
        <4> QED BY <2>3, <3>2, <4>1 DEF Executed, Command
      <3> QED BY <1>10, <3>1, <3>2 DEF Matching
    <2> QED BY <2>1, <2>2, <2>3
  <1>13. c0 \notin Answered(x)
    BY <1>3, <1>10 DEF HasStatus
  <1>14. Executed' = Executed /\ Answered(x)' = Answered(x) \cup {c0} /\ HasStatus("sent")' = HasStatus("sent")
    BY <1>1, <1>2, <1>10 DEF Executed, Answered, HasStatus, NoCommand, Command
  <1>15. acks'[x] = Cardinality(Executed' \ Answered(x)')
    <2>1. Executed' \ Answered(x)' = (Executed \ Answered(x)) \ {c0}
      BY <1>14
    <2>2. c0 \in Executed \ Answered(x)
      BY <1>12, <1>13
    <2>3. Cardinality((Executed \ Answered(x)) \ {c0}) = Cardinality(Executed \ Answered(x)) - 1
      BY <1>5, <2>2, FS_RemoveElement
    <2>4. acks'[x] = acks[x] - 1
      BY <1>1 DEF IInv, TypeOK
    <2> QED BY <1>5, <2>1, <2>3, <2>4
  <1>16. \A c \in Answered(x)', d \in Command : written'[x][d] > 0 /\ d < c => d \in Answered(x)'
    <2>1. ASSUME NEW c \in Answered(x)', NEW d \in Command, written[x][d] > 0, d < c
          PROVE  d \in Answered(x)'
      <3>1. CASE c = c0
        BY <1>4, <1>11, <1>14, <2>1, <3>1
      <3>2. CASE c # c0
        BY <1>14, <2>1, <3>2 DEF Matching
      <3> QED BY <3>1, <3>2
    <2> QED BY <1>1, <2>1
  <1>17. \A c \in Command : ~Unmarked(x, c)'
    BY <1>1 DEF Unmarked, IInv, TypeOK
  <1>18. Answered(x)' \subseteq Executed'
    BY <1>12, <1>14 DEF Matching
  <1>19. /\ \A i, j \in 1..Len(wire'[x]) : i < j => wire'[x][i] < wire'[x][j]
         /\ \A c \in Executed' : \A i \in 1..Len(wire'[x]) : c < wire'[x][i]
         /\ \A c \in Command : written'[x][c] > 0 =>
               c \in Executed' \/ \E i \in 1..Len(wire'[x]) : c = wire'[x][i]
    BY <1>1, <1>14 DEF Matching
  <1>20. /\ \A c, d \in HasStatus("sent")' : c < d => sentAt'[c] < sentAt'[d]
         /\ \A c \in HasStatus("sent")' : sentAt'[c] < clock'
    BY <1>1, <1>14 DEF Matching
  <1> QED BY <1>15, <1>16, <1>17, <1>18, <1>19, <1>20 DEF Matching

\* The selected row becomes the acked one.
LEMMA MatchAck ==
    ASSUME IInv, NEW x \in Conn, Clean(x), Clean(x)', Matching(x), MarkAcked(x)
    PROVE  Matching(x)'
  <1>1. /\ UNCHANGED <<sentAt, clock, received, written, wire, acks>>
        /\ \A c \in Command : status'[c] = IF c = target[x] THEN "acked" ELSE status[c]
        /\ target'[x] = NoCommand /\ phase'[x] = "reading"
    BY DEF MarkAcked, ghostVars, netVars, IInv, TypeOK, Clean
  <1>2. Answered(x)' = Answered(x)
    BY <1>1 DEF Answered, NoCommand, Command
  <1>3. \A c \in Command : status'[c] = "sent" => status[c] = "sent"
    BY <1>1
  <1>4. \A c \in Command : Unmarked(x, c)' => Unmarked(x, c)
    BY <1>1 DEF Unmarked
  <1> QED BY <1>1, <1>2, <1>3, <1>4, MatchKept

\* A step from a clean connection to a clean one keeps the matching.
LEMMA MatchStep ==
    ASSUME IInv, IdleInv, ReceivedInv, OrderInv, [Next]_vars,
           NEW x \in Conn, Clean(x), Matching(x), Clean(x)'
    PROVE  Matching(x)'
  <1> USE DEF IInv, dbVars, adminVars, handlerVars, netVars, ghostVars, limitVars
  <1>0. CASE UNCHANGED vars
    BY <1>0, MatchKept DEF vars, Answered, Unmarked
  <1>1. CASE RequestCommand
    <2>1. /\ UNCHANGED <<received, sentAt, clock>> /\ wire'[x] = wire[x] /\ acks'[x] = acks[x]
          /\ \A c \in Command : written'[x][c] = written[x][c]
          /\ \A c \in Command : status'[c] = "sent" => status[c] = "sent"
      BY <1>1 DEF RequestCommand, TypeOK
    <2>2. Answered(x)' = Answered(x)
      BY <1>1 DEF RequestCommand, Answered, TypeOK
    <2>3. \A c \in Command : Unmarked(x, c)' => Unmarked(x, c)
      BY <1>1 DEF RequestCommand, Unmarked, TypeOK
    <2> QED BY <2>1, <2>2, <2>3, MatchKept
  <1>2. CASE CreateCommand
    <2>1. /\ created + 1 \in Command
          /\ \A d \in Command : status'[d] = IF d = created + 1 THEN "pending" ELSE status[d]
          /\ UNCHANGED <<handlerVars, ghostVars, limitVars>>
          /\ UNCHANGED <<sentAt, clock, netVars>>
      BY <1>2, CreateEffect DEF CreateCommand
    <2>2. status[created + 1] = "absent"
      BY <1>2, CreateEffect DEF AbsentInv
    <2>3. Answered(x)' = Answered(x)
      BY <2>1, <2>2 DEF Answered
    <2> QED BY <2>1, <2>3, MatchKept DEF Unmarked
  <1>3. CASE DisableDevice
    <2>1. /\ UNCHANGED <<received, sentAt, clock>> /\ wire'[x] = wire[x] /\ acks'[x] = acks[x]
          /\ \A c \in Command : written'[x][c] = written[x][c]
          /\ \A c \in Command : status'[c] = "sent" => status[c] = "sent"
      BY <1>3 DEF DisableDevice, TypeOK
    <2>2. Answered(x)' = Answered(x)
      BY <1>3 DEF DisableDevice, Answered, TypeOK
    <2>3. \A c \in Command : Unmarked(x, c)' => Unmarked(x, c)
      BY <1>3 DEF DisableDevice, Unmarked, TypeOK
    <2> QED BY <2>1, <2>2, <2>3, MatchKept
  <1>4. CASE DisconnectDevice
    <2>1. registry # x
      BY <1>4 DEF DisconnectDevice, Clean, TypeOK
    <2>2. /\ UNCHANGED <<received, sentAt, clock, status, todo, target, phase>> /\ wire'[x] = wire[x] /\ acks'[x] = acks[x]
          /\ \A c \in Command : written'[x][c] = written[x][c]
      BY <1>4, <2>1 DEF DisconnectDevice, TypeOK
    <2> QED BY <2>2, MatchKept DEF Answered, Unmarked
  <1>5. CASE EnableDevice
    <2>1. /\ UNCHANGED <<received, sentAt, clock>> /\ wire'[x] = wire[x] /\ acks'[x] = acks[x]
          /\ \A c \in Command : written'[x][c] = written[x][c]
          /\ \A c \in Command : status'[c] = "sent" => status[c] = "sent"
      BY <1>5 DEF EnableDevice, TypeOK
    <2>2. Answered(x)' = Answered(x)
      BY <1>5 DEF EnableDevice, Answered, TypeOK
    <2>3. \A c \in Command : Unmarked(x, c)' => Unmarked(x, c)
      BY <1>5 DEF EnableDevice, Unmarked, TypeOK
    <2> QED BY <2>1, <2>2, <2>3, MatchKept
  <1>6. CASE Crash
    <2>1. sock'[x] # "open"
      BY <1>6 DEF Crash, IdleInv, TypeOK, Live
    <2> QED BY <2>1 DEF Clean
  <1>7. ASSUME NEW c \in Command, CancelCommand(c) PROVE Matching(x)'
    <2>1. /\ UNCHANGED <<received, sentAt, clock>> /\ wire'[x] = wire[x] /\ acks'[x] = acks[x]
          /\ \A d \in Command : written'[x][d] = written[x][d]
          /\ \A d \in Command : status'[d] = "sent" => status[d] = "sent"
      BY <1>7 DEF CancelCommand, TypeOK
    <2>2. Answered(x)' = Answered(x)
      BY <1>7 DEF CancelCommand, Answered, TypeOK
    <2>3. \A d \in Command : Unmarked(x, d)' => Unmarked(x, d)
      BY <1>7 DEF CancelCommand, Unmarked, TypeOK
    <2> QED BY <2>1, <2>2, <2>3, MatchKept
  <1>8. ASSUME NEW c \in Command, DeleteCommandHistory(c) PROVE Matching(x)'
    <2>1. status'[c] = "deleted"
      BY <1>8 DEF DeleteCommandHistory, TypeOK
    <2> QED BY <2>1 DEF Clean
  <1>9. ASSUME NEW h \in Conn, Connect(h) PROVE Matching(x)'
    <2>1. sock[x] # "open"
      BY <1>9 DEF Connect
    <2> QED BY <2>1 DEF Clean
  <1>10. ASSUME NEW h \in Conn, LoseSocket(h) PROVE Matching(x)'
    <2>1. sock[h] = "open" /\ sock'[h] # "open"
      BY <1>10 DEF LoseSocket, TypeOK
    <2> QED BY <2>1, OneWriter DEF Clean
  <1>11. ASSUME NEW h \in Conn, DeviceReads(h) PROVE Matching(x)'
    <2>1. h = x
      BY <1>11, OneWriter DEF DeviceReads
    <2> QED BY <1>11, <2>1, MatchRead
  <1>12. ASSUME NEW h \in Conn, ReadPacket(h) PROVE Matching(x)'
    <2>1. /\ UNCHANGED <<received, sentAt, clock>> /\ wire'[x] = wire[x] /\ acks'[x] = acks[x]
          /\ \A c \in Command : written'[x][c] = written[x][c]
          /\ \A c \in Command : status'[c] = "sent" => status[c] = "sent"
      BY <1>12 DEF ReadPacket, TypeOK
    <2>2. Answered(x)' = Answered(x)
      BY <1>12 DEF ReadPacket, Answered, TypeOK
    <2>3. \A c \in Command : Unmarked(x, c)' => Unmarked(x, c)
      BY <1>12 DEF ReadPacket, Unmarked, TypeOK
    <2> QED BY <2>1, <2>2, <2>3, MatchKept
  <1>13. ASSUME NEW h \in Conn, CheckDevice(h) PROVE Matching(x)'
    <2>1. /\ UNCHANGED <<received, sentAt, clock>> /\ wire'[x] = wire[x] /\ acks'[x] = acks[x]
          /\ \A c \in Command : written'[x][c] = written[x][c]
          /\ \A c \in Command : status'[c] = "sent" => status[c] = "sent"
      BY <1>13 DEF CheckDevice, TypeOK
    <2>2. Answered(x)' = Answered(x)
      BY <1>13 DEF CheckDevice, Answered, TypeOK
    <2>3. \A c \in Command : Unmarked(x, c)' => Unmarked(x, c)
      BY <1>13 DEF CheckDevice, Unmarked, TypeOK
    <2> QED BY <2>1, <2>2, <2>3, MatchKept
  <1>14. ASSUME NEW h \in Conn, QueryPending(h) PROVE Matching(x)'
    <2>1. /\ UNCHANGED <<received, sentAt, clock>> /\ wire'[x] = wire[x] /\ acks'[x] = acks[x]
          /\ \A c \in Command : written'[x][c] = written[x][c]
          /\ \A c \in Command : status'[c] = "sent" => status[c] = "sent"
      BY <1>14 DEF QueryPending, TypeOK
    <2>2. Answered(x)' = Answered(x)
      BY <1>14 DEF QueryPending, Answered, TypeOK
    <2>3. \A c \in Command : Unmarked(x, c)' => Unmarked(x, c)
      BY <1>14 DEF QueryPending, Unmarked, TypeOK
    <2> QED BY <2>1, <2>2, <2>3, MatchKept
  <1>15. ASSUME NEW h \in Conn, FinishDispatch(h) PROVE Matching(x)'
    <2>1. /\ UNCHANGED <<received, sentAt, clock>> /\ wire'[x] = wire[x] /\ acks'[x] = acks[x]
          /\ \A c \in Command : written'[x][c] = written[x][c]
          /\ \A c \in Command : status'[c] = "sent" => status[c] = "sent"
      BY <1>15 DEF FinishDispatch, TypeOK
    <2>2. Answered(x)' = Answered(x)
      BY <1>15 DEF FinishDispatch, Answered, TypeOK
    <2>3. \A c \in Command : Unmarked(x, c)' => Unmarked(x, c)
      BY <1>15 DEF FinishDispatch, Unmarked, TypeOK
    <2> QED BY <2>1, <2>2, <2>3, MatchKept
  <1>16. ASSUME NEW h \in Conn, SelectOldestSent(h) PROVE Matching(x)'
    <2>1. h = x
      BY <1>16, OneWriter DEF SelectOldestSent
    <2> QED BY <1>16, <2>1, MatchSelect
  <1>17. ASSUME NEW h \in Conn, MarkAcked(h) PROVE Matching(x)'
    <2>1. h = x
      BY <1>17, OneWriter DEF MarkAcked
    <2> QED BY <1>17, <2>1, MatchAck
  <1>18. ASSUME NEW h \in Conn, DatabaseFault(h) PROVE Matching(x)'
    <2>1. faults' = faults + 1 /\ faults \in Nat /\ faults' = 0
      BY <1>18, FaultEffect DEF TypeOK, Clean
    <2> QED BY <2>1
  <1>19. ASSUME NEW h \in Conn, CloseHandler(h) PROVE Matching(x)'
    <2>1. phase[h] # "idle" /\ sock'[h] # "open"
      BY <1>19 DEF CloseHandler, TypeOK
    <2> QED BY <2>1, OneWriter DEF Clean
  <1>20. ASSUME NEW h \in Conn, NEW c \in Command, SkipCommand(h, c) PROVE Matching(x)'
    <2>1. /\ UNCHANGED <<received, sentAt, clock>> /\ wire'[x] = wire[x] /\ acks'[x] = acks[x]
          /\ \A d \in Command : written'[x][d] = written[x][d]
          /\ \A d \in Command : status'[d] = "sent" => status[d] = "sent"
      BY <1>20 DEF SkipCommand, TypeOK
    <2>2. Answered(x)' = Answered(x)
      BY <1>20 DEF SkipCommand, Answered, TypeOK
    <2>3. \A d \in Command : Unmarked(x, d)' => Unmarked(x, d)
      BY <1>20 DEF SkipCommand, Unmarked, TypeOK
    <2> QED BY <2>1, <2>2, <2>3, MatchKept
  <1>21. ASSUME NEW h \in Conn, NEW c \in Command, WriteCommand(h, c) PROVE Matching(x)'
    <2>1. h = x
      BY <1>21, OneWriter DEF WriteCommand
    <2> QED BY <1>21, <2>1, MatchWrite
  <1>22. ASSUME NEW h \in Conn, NEW c \in Command, WriteFails(h, c) PROVE Matching(x)'
    <2>1. /\ UNCHANGED <<received, sentAt, clock>> /\ wire'[x] = wire[x] /\ acks'[x] = acks[x]
          /\ \A d \in Command : written'[x][d] = written[x][d]
          /\ \A d \in Command : status'[d] = "sent" => status[d] = "sent"
      BY <1>22 DEF WriteFails, TypeOK
    <2>2. Answered(x)' = Answered(x)
      BY <1>22 DEF WriteFails, Answered, TypeOK
    <2>3. \A d \in Command : Unmarked(x, d)' => Unmarked(x, d)
      BY <1>22 DEF WriteFails, Unmarked, TypeOK
    <2> QED BY <2>1, <2>2, <2>3, MatchKept
  <1>23. ASSUME NEW h \in Conn, NEW c \in Command, MarkCommandSent(h, c) PROVE Matching(x)'
    <2>1. h = x
      BY <1>23, OneWriter DEF MarkCommandSent
    <2> QED BY <1>23, <2>1, MatchMark
  <1> QED
    BY <1>0, <1>1, <1>2, <1>3, <1>4, <1>5, <1>6, <1>7, <1>8, <1>9, <1>10, <1>11, <1>12,
       <1>13, <1>14, <1>15, <1>16, <1>17, <1>18, <1>19, <1>20, <1>21, <1>22, <1>23
       DEF Next, Operator, Connection, Dispatch

\* Acks meet the commands they are for as long as the one connection is clean.
LEMMA MatchNext ==
    ASSUME IInv, IdleInv, ReceivedInv, OrderInv, MatchInv, [Next]_vars
    PROVE  MatchInv'
  <1> SUFFICES ASSUME NEW x \in Conn, Clean(x)' PROVE Matching(x)'
    BY DEF MatchInv
  <1>1. CASE Connect(x)
    BY <1>1, MatchConnect
  <1>2. CASE Clean(x)
    BY <1>2, MatchStep DEF MatchInv
  <1> QED BY <1>1, <1>2, CleanBack

-----------------------------------------------------------------------------
(* Steps that may not happen *)

CancelStep ==
    \A c \in Command :
        (status[c] = "canceled" /\ \A h \in Conn : c \notin todo[h])
            => status'[c] \in {"canceled", "deleted"}

\* The step of an ack leaves cancelled rows alone.
LEMMA CancelNext == SingleWriter /\ IInv /\ AckInv /\ [Next]_vars => CancelStep
  <1> SUFFICES ASSUME SingleWriter, IInv, AckInv, [Next]_vars PROVE CancelStep
    OBVIOUS
  <1> USE DEF IInv, AbsentInv, AckInv, CancelStep, HasStatus, IsFirst, dbVars, adminVars, handlerVars, netVars, ghostVars, limitVars
  <1>a. 0 \notin Command /\ \A d \in Command : d \in Nat
    BY DEF Command
  <1> USE <1>a
  <1>0. CASE UNCHANGED vars BY <1>0 DEF vars
  <1>1. CASE RequestCommand
    BY <1>1 DEF RequestCommand, TypeOK
  <1>2. CASE CreateCommand
    BY <1>2, CreateEffect
  <1>3. CASE DisableDevice
    BY <1>3 DEF DisableDevice, TypeOK
  <1>4. CASE DisconnectDevice
    BY <1>4 DEF DisconnectDevice, TypeOK
  <1>5. CASE EnableDevice
    BY <1>5 DEF EnableDevice, TypeOK
  <1>6. CASE Crash
    BY <1>6 DEF Crash, TypeOK
  <1>7. ASSUME NEW c \in Command, CancelCommand(c) PROVE CancelStep
    BY <1>7 DEF CancelCommand, TypeOK
  <1>8. ASSUME NEW c \in Command, DeleteCommandHistory(c) PROVE CancelStep
    BY <1>8 DEF DeleteCommandHistory, TypeOK
  <1>9. ASSUME NEW h \in Conn, Connect(h) PROVE CancelStep
    BY <1>9 DEF Connect, TypeOK
  <1>10. ASSUME NEW h \in Conn, LoseSocket(h) PROVE CancelStep
    BY <1>10 DEF LoseSocket, TypeOK
  <1>11. ASSUME NEW h \in Conn, DeviceReads(h) PROVE CancelStep
    BY <1>11 DEF DeviceReads, TypeOK
  <1>12. ASSUME NEW h \in Conn, ReadPacket(h) PROVE CancelStep
    BY <1>12 DEF ReadPacket, TypeOK
  <1>13. ASSUME NEW h \in Conn, CheckDevice(h) PROVE CancelStep
    BY <1>13 DEF CheckDevice, TypeOK
  <1>14. ASSUME NEW h \in Conn, QueryPending(h) PROVE CancelStep
    BY <1>14 DEF QueryPending, TypeOK
  <1>15. ASSUME NEW h \in Conn, FinishDispatch(h) PROVE CancelStep
    BY <1>15 DEF FinishDispatch, TypeOK
  <1>16. ASSUME NEW h \in Conn, SelectOldestSent(h) PROVE CancelStep
    BY <1>16 DEF SelectOldestSent, TypeOK
  <1>17. ASSUME NEW h \in Conn, MarkAcked(h) PROVE CancelStep
    <2>1. \A c \in Command : status'[c] = IF c = target[h] /\ status[c] # "deleted" THEN "acked" ELSE status[c]
      BY <1>17 DEF MarkAcked
    <2>2. \A c \in Command : c = target[h] => status[c] = "sent"
      BY <1>17 DEF MarkAcked
    <2> QED BY <2>1, <2>2
  <1>18. ASSUME NEW h \in Conn, DatabaseFault(h) PROVE CancelStep
    BY <1>18, FaultEffect
  <1>19. ASSUME NEW h \in Conn, CloseHandler(h) PROVE CancelStep
    BY <1>19 DEF CloseHandler, TypeOK
  <1>20. ASSUME NEW h \in Conn, NEW c \in Command, SkipCommand(h, c) PROVE CancelStep
    BY <1>20 DEF SkipCommand, TypeOK
  <1>21. ASSUME NEW h \in Conn, NEW c \in Command, WriteCommand(h, c) PROVE CancelStep
    BY <1>21, WriteEffect
  <1>22. ASSUME NEW h \in Conn, NEW c \in Command, WriteFails(h, c) PROVE CancelStep
    BY <1>22 DEF WriteFails, TypeOK
  <1>23. ASSUME NEW h \in Conn, NEW c \in Command, MarkCommandSent(h, c) PROVE CancelStep
    <2>0. Marked(h, c)
      BY <1>23, MarkEffect
    <2>1. c \in todo[h] /\ \A d \in Command : d # c => status'[d] = status[d]
      BY <2>0 DEF Marked
    <2> QED BY <2>1
  <1> QED
    BY <1>0, <1>1, <1>2, <1>3, <1>4, <1>5, <1>6, <1>7, <1>8, <1>9, <1>10, <1>11, <1>12,
       <1>13, <1>14, <1>15, <1>16, <1>17, <1>18, <1>19, <1>20, <1>21, <1>22, <1>23
       DEF Next, Operator, Connection, Dispatch

OldestStep ==
    \A h \in Conn : \A c \in Command :
        (written'[h][c] # written[h][c] /\ sock[h] = "open" /\ faults = 0)
            => \A d \in Command : written[h][d] > 0 => d < c

\* A write goes to the oldest row that is due.
LEMMA OldestNext == IInv /\ OrderInv /\ [Next]_vars => OldestStep
  <1> SUFFICES ASSUME IInv, OrderInv, [Next]_vars PROVE OldestStep
    OBVIOUS
  <1> USE DEF IInv, OldestStep, dbVars, adminVars, handlerVars, netVars, ghostVars, limitVars
  <1>0. CASE UNCHANGED vars BY <1>0 DEF vars
  <1>1. CASE RequestCommand
    BY <1>1 DEF RequestCommand
  <1>2. CASE CreateCommand
    BY <1>2, CreateEffect
  <1>3. CASE DisableDevice
    BY <1>3 DEF DisableDevice
  <1>4. CASE DisconnectDevice
    BY <1>4 DEF DisconnectDevice
  <1>5. CASE EnableDevice
    BY <1>5 DEF EnableDevice
  <1>6. CASE Crash
    BY <1>6 DEF Crash
  <1>7. ASSUME NEW c \in Command, CancelCommand(c) PROVE OldestStep
    BY <1>7 DEF CancelCommand
  <1>8. ASSUME NEW c \in Command, DeleteCommandHistory(c) PROVE OldestStep
    BY <1>8 DEF DeleteCommandHistory
  <1>9. ASSUME NEW h \in Conn, Connect(h) PROVE OldestStep
    BY <1>9 DEF Connect
  <1>10. ASSUME NEW h \in Conn, LoseSocket(h) PROVE OldestStep
    BY <1>10 DEF LoseSocket
  <1>11. ASSUME NEW h \in Conn, DeviceReads(h) PROVE OldestStep
    BY <1>11 DEF DeviceReads
  <1>12. ASSUME NEW h \in Conn, ReadPacket(h) PROVE OldestStep
    BY <1>12 DEF ReadPacket
  <1>13. ASSUME NEW h \in Conn, CheckDevice(h) PROVE OldestStep
    BY <1>13 DEF CheckDevice
  <1>14. ASSUME NEW h \in Conn, QueryPending(h) PROVE OldestStep
    BY <1>14 DEF QueryPending
  <1>15. ASSUME NEW h \in Conn, FinishDispatch(h) PROVE OldestStep
    BY <1>15 DEF FinishDispatch
  <1>16. ASSUME NEW h \in Conn, SelectOldestSent(h) PROVE OldestStep
    BY <1>16 DEF SelectOldestSent
  <1>17. ASSUME NEW h \in Conn, MarkAcked(h) PROVE OldestStep
    BY <1>17 DEF MarkAcked
  <1>18. ASSUME NEW h \in Conn, DatabaseFault(h) PROVE OldestStep
    BY <1>18, FaultEffect
  <1>19. ASSUME NEW h \in Conn, CloseHandler(h) PROVE OldestStep
    BY <1>19 DEF CloseHandler
  <1>20. ASSUME NEW h \in Conn, NEW c \in Command, SkipCommand(h, c) PROVE OldestStep
    BY <1>20 DEF SkipCommand
  <1>21. ASSUME NEW h \in Conn, NEW c \in Command, WriteCommand(h, c) PROVE OldestStep
    <2>1. Due(h, c)
      BY <1>21, WriteEffect, WireEffect DEF Due, Unmarked, IsFirst
    <2>2. \A g \in Conn, d \in Command : written'[g][d] # written[g][d] => g = h /\ d = c
      BY <1>21, WriteEffect
    <2> QED BY <2>1, <2>2 DEF OrderInv, Ordered
  <1>22. ASSUME NEW h \in Conn, NEW c \in Command, WriteFails(h, c) PROVE OldestStep
    BY <1>22 DEF WriteFails
  <1>23. ASSUME NEW h \in Conn, NEW c \in Command, MarkCommandSent(h, c) PROVE OldestStep
    BY <1>23, MarkEffect DEF Marked
  <1> QED
    BY <1>0, <1>1, <1>2, <1>3, <1>4, <1>5, <1>6, <1>7, <1>8, <1>9, <1>10, <1>11, <1>12,
       <1>13, <1>14, <1>15, <1>16, <1>17, <1>18, <1>19, <1>20, <1>21, <1>22, <1>23
       DEF Next, Operator, Connection, Dispatch

-----------------------------------------------------------------------------
(* The theorems *)

DeliveryInv ==
    /\ IInv /\ IdleInv /\ SingleConnectionRegistered
    /\ ReceivedInv /\ OrderInv /\ MatchInv

LEMMA DeliveryInit == Init => DeliveryInv /\ AckInv
  <1> SUFFICES ASSUME Init PROVE DeliveryInv /\ AckInv
    OBVIOUS
  <1>1. \A h \in Conn : /\ phase[h] = "idle" /\ ~known[h] /\ sock[h] = "none" /\ acks[h] = 0 /\ wire[h] = <<>>
                        /\ \A c \in Command : written[h][c] = 0
    BY DEF Init
  <1>2. \A c \in Command : received[c] = 0
    BY DEF Init
  <1>3. IdleInv
    BY <1>1 DEF IdleInv
  <1>4. ReceivedInv
    <2>1. \A h \in Conn : Len(wire[h]) = 0
      <3>1. ASSUME NEW h \in Conn PROVE Len(wire[h]) = 0
        <4>1. wire[h] = <<>>
          BY <1>1
        <4> QED BY <4>1
      <3> QED BY <3>1
    <2> QED BY <1>1, <1>2, <2>1 DEF ReceivedInv
  <1>5. OrderInv /\ MatchInv /\ SingleConnectionRegistered /\ AckInv
    BY <1>1 DEF OrderInv, MatchInv, Clean, SingleConnectionRegistered, AckInv
  <1> QED BY <1>3, <1>4, <1>5, InvInit DEF DeliveryInv

LEMMA DeliveryNext == DeliveryInv /\ [Next]_vars => DeliveryInv'
  BY InvNext, IdleNext, SingleNext, ReceivedNext, OrderNext, MatchNext DEF DeliveryInv

LEMMA DeliveryInvariance == Spec => []DeliveryInv
  BY DeliveryInit, DeliveryNext, PTL DEF Spec

\* While a device has had one connection only and that one is up and
\* identified, the registry leads to it, whatever operators do.
THEOREM OnlyConnectionRegistered == Spec => []SingleConnectionRegistered
  <1>1. DeliveryInv => SingleConnectionRegistered BY DEF DeliveryInv
  <1> QED BY <1>1, DeliveryInvariance, PTL

\* Without database errors a connection that is up sends commands in the order
\* in which they were queued, with any number of connections and commands.
THEOREM SentOldestFirst == Spec => OldestFirst
  <1>1. DeliveryInv /\ [Next]_vars => [OldestStep]_vars
    BY OldestNext DEF DeliveryInv
  <1> QED BY <1>1, DeliveryInvariance, PTL DEF Spec, OldestFirst, OldestStep

\* With one write transaction at a time, a row that is cancelled and in no
\* snapshot of a dispatch is not acknowledged any more.
THEOREM CancelIsNotOverwritten == ASSUME SingleWriter PROVE Spec => CancelHoldsAgainstAcks
  <1>1. Init => AckInv BY DeliveryInit
  <1>2. IInv /\ AckInv /\ [Next]_vars => AckInv' BY AckNext
  <1>3. IInv /\ AckInv /\ [Next]_vars => [CancelStep]_vars BY CancelNext
  <1> QED BY <1>1, <1>2, <1>3, Invariance, PTL DEF Spec, CancelHoldsAgainstAcks, CancelStep

\* One connection that is up all along, no fault, nothing cancelled or deleted:
\* then a row that says "acked" was executed by the device, although an ack
\* names no command.
THEOREM AcksMatchInOrder == Spec => []OrderlyAcksMatch
  <1>1. DeliveryInv => OrderlyAcksMatch
    <2> SUFFICES ASSUME DeliveryInv, Orderly, NEW c \in Command, status[c] = "acked"
                 PROVE  received[c] > 0
      BY DEF OrderlyAcksMatch
    <2>1. PICK h \in Conn : Clean(h)
      BY DEF Orderly, Clean
    <2>2. Answered(h) \subseteq Executed
      BY <2>1 DEF DeliveryInv, MatchInv, Matching
    <2> QED BY <2>2 DEF Answered, Executed
  <1> QED BY <1>1, DeliveryInvariance, PTL
=============================================================================
