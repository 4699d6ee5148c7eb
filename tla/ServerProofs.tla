---------------------------- MODULE ServerProofs ----------------------------
(***************************************************************************)
(* Proofs about the server: the listeners and the polling of positions,    *)
(* RouteReports for every number of stops, schedules, tasks, requests,     *)
(* failures and restarts, the server of MCServer, and the alert state of a *)
(* device, AlertState and AlertHistory, with its own specification.        *)
(***************************************************************************)
EXTENDS MCServer, AlertHistory, SequenceTheorems, FiniteSetTheorems, TLAPS

-----------------------------------------------------------------------------
(* NoListenerForgotten for every set of listeners and requests.  A task    *)
(* keeps its entry until a request that has the lock takes it over or the  *)
(* call for its end comes, which is why that call must not find a task of  *)
(* the same name, and why two requests must not have the lock.             *)
LockRecord == [stage : {"locked"}, wanted : SUBSET Listener, left : SUBSET Listener, closing : SUBSET Listener]
ForgottenTypes ==
    /\ task \in [Listener -> {"none", "starting", "serving"}] /\ DOMAIN sync = Syncs
    /\ {required, running, endings} \subseteq SUBSET Listener
    /\ \A s \in Syncs : /\ sync[s].stage = "read" => sync[s].wanted \in SUBSET Listener
                        /\ sync[s].stage = "locked" => sync[s] \in LockRecord
OneHasLock == \A s, q \in Syncs : sync[s].stage = "locked" /\ sync[q].stage = "locked" => s = q
EndedAreDown == "crossed" \notin amiss => \A l \in endings : task[l] = "none"
ForgottenInv ==
    /\ ForgottenTypes /\ OneHasLock /\ EndedAreDown /\ NoListenerForgotten

\* While the request that has the lock does not wait, no listener closes.
LEMMA NoneCloses ==
    ASSUME OneHasLock, NEW s \in Syncs, sync[s].stage = "locked", sync[s].closing = {}
    PROVE  Closing = {}
  <1>1. \A q \in Locked : q = s
    BY DEF OneHasLock, Locked
  <1>2. QED
    BY <1>1 DEF Closing, Locked

\* Every step keeps the tasks that serve within the entries and the listeners that close.
LEMMA ForgottenStep ==
    ASSUME ForgottenInv, [ProtocolServersNext]_protocolServersVars
    PROVE  ForgottenInv'
  <1> USE DEF ForgottenInv, ForgottenTypes, serverTasks
  <1>1. ASSUME NEW s \in Syncs, NEW now \in SUBSET Listener, ChangeDevices(s, now)
        PROVE  ForgottenInv'
    <2>0. ForgottenTypes'
      BY <1>1 DEF ChangeDevices, ForgottenTypes, LockRecord, Changed, NoSync
    <2>1. Locked' = Locked /\ \A q \in Locked : sync'[q] = sync[q]
      BY <1>1 DEF ChangeDevices, Locked, Changed, NoSync
    <2>2. Closing' = Closing
      BY <2>1 DEF Closing
    <2>3. QED
      BY <1>1, <2>0, <2>1, <2>2 DEF ChangeDevices, OneHasLock, EndedAreDown, NoListenerForgotten, Changed, NoSync, Locked
  <1>2. ASSUME NEW s \in Syncs, ReadRequired(s)
        PROVE  ForgottenInv'
    <2>0. ForgottenTypes'
      BY <1>2 DEF ReadRequired, ForgottenTypes, LockRecord, Changed, HasRead
    <2>1. Locked' = Locked /\ \A q \in Locked : sync'[q] = sync[q]
      BY <1>2 DEF ReadRequired, Locked, Changed, HasRead
    <2>2. Closing' = Closing
      BY <2>1 DEF Closing
    <2>3. QED
      BY <1>2, <2>0, <2>1, <2>2 DEF ReadRequired, OneHasLock, EndedAreDown, NoListenerForgotten, Changed, HasRead, Locked
  <1>3. ASSUME NEW s \in Syncs, TakeLock(s)
        PROVE  ForgottenInv'
    <2>0. ForgottenTypes'
      BY <1>3 DEF TakeLock, ForgottenTypes, HasLock, UnwantedNow, LockRecord
    <2>1. Locked = {} /\ Locked' = {s} /\ sync'[s].closing = {}
      BY <1>3 DEF TakeLock, Locked, HasLock
    <2>2. Closing = {} /\ Closing' = {}
      BY <2>1 DEF Closing
    <2>3. "crossed" \in amiss' <=> "crossed" \in amiss
      BY <1>3 DEF TakeLock
    <2>4. QED
      BY <1>3, <2>0, <2>1, <2>2, <2>3 DEF TakeLock, OneHasLock, EndedAreDown, NoListenerForgotten, Locked
  <1>4. ASSUME NEW s \in Syncs, NEW l \in Listener, StopListener(s, l)
        PROVE  ForgottenInv'
    <2>0. ForgottenTypes'
      BY <1>4 DEF StopListener, ForgottenTypes, LockRecord, HasLock
    <2>1. Locked = {s} /\ Locked' = {s}
      BY <1>4 DEF StopListener, Locked, OneHasLock, HasLock
    <2>2. Closing = {} /\ Closing' = IF task[l] = "none" THEN {} ELSE {l}
      BY <1>4, <2>1, NoneCloses DEF StopListener, Closing, HasLock
    <2>3. QED
      BY <1>4, <2>0, <2>1, <2>2 DEF StopListener, OneHasLock, EndedAreDown, NoListenerForgotten, Locked
  <1>5. ASSUME NEW s \in Syncs, NEW l \in Listener, StopRaises(s, l)
        PROVE  ForgottenInv'
    <2>0. ForgottenTypes'
      BY <1>5 DEF StopRaises, ForgottenTypes, LockRecord, NoSync
    <2>1. Locked = {s} /\ Locked' = {}
      BY <1>5 DEF StopRaises, Locked, OneHasLock, NoSync
    <2>2. Closing = {} /\ Closing' = {}
      BY <1>5, <2>1, NoneCloses DEF StopRaises, Closing
    <2>3. "crossed" \in amiss' <=> "crossed" \in amiss
      BY <1>5 DEF StopRaises
    <2>4. QED
      BY <1>5, <2>0, <2>1, <2>2, <2>3 DEF StopRaises, OneHasLock, EndedAreDown, NoListenerForgotten, Locked
  <1>6. ASSUME NEW s \in Syncs, ListenerClosed(s)
        PROVE  ForgottenInv'
    <2>0. ForgottenTypes'
      BY <1>6 DEF ListenerClosed, ForgottenTypes, LockRecord
    <2>1. Locked = {s} /\ Locked' = {s}
      BY <1>6 DEF ListenerClosed, Locked, OneHasLock
    <2>2. Closing = sync[s].closing /\ Closing' = {}
      BY <1>6, <2>1 DEF ListenerClosed, Closing
    <2>3. QED
      BY <1>6, <2>0, <2>1, <2>2 DEF ListenerClosed, OneHasLock, EndedAreDown, NoListenerForgotten, Locked
  <1>7. ASSUME NEW s \in Syncs, StartMissing(s)
        PROVE  ForgottenInv'
    <2>1. Locked = {s} /\ Locked' = {}
      BY <1>7 DEF StartMissing, Locked, OneHasLock, NoSync
    <2>2. Closing = {} /\ Closing' = {}
      BY <1>7, <2>1, NoneCloses DEF StartMissing, Closing
    <2>3. ForgottenTypes' /\ OneHasLock'
      BY <1>7, <2>1 DEF StartMissing, ForgottenTypes, LockRecord, OneHasLock, Locked, NoSync, Missing
    <2>4. ASSUME "crossed" \notin amiss'
          PROVE  /\ \A l \in endings' : task'[l] = "none"
                 /\ \A l \in Listener : task'[l] # "none" => l \in running'
      <3>1. "crossed" \notin amiss /\ Missing(sync[s].wanted) \cap endings = {}
        BY <1>7, <2>4 DEF StartMissing
      <3>2. \A l \in Listener : task[l] # "none" => l \in running
        BY <2>2, <3>1 DEF NoListenerForgotten
      <3>3. {l \in Missing(sync[s].wanted) : task[l] # "none"} \cap Listener = {}
        BY <3>2 DEF Missing
      <3>4. Missing(sync[s].wanted) \subseteq Listener
        BY <1>7 DEF StartMissing, LockRecord, Missing
      <3>5. endings' = endings
        BY <1>7, <3>3, <3>4 DEF StartMissing
      <3>6. \A l \in endings : task'[l] = "none"
        BY <1>7, <3>1 DEF StartMissing, EndedAreDown
      <3>7. \A l \in Listener : task'[l] # "none" => l \in running'
        BY <1>7, <3>2 DEF StartMissing
      <3>8. QED
        BY <3>5, <3>6, <3>7
    <2>5. QED
      BY <2>2, <2>3, <2>4 DEF EndedAreDown, NoListenerForgotten
  <1>8. ASSUME NEW l \in Listener, Bound(l) \/ BindFails(l)
        PROVE  ForgottenInv'
    <2>0. ForgottenTypes'
      BY <1>8 DEF Bound, BindFails, ForgottenTypes, LockRecord
    <2>1. Closing' = Closing /\ sync' = sync /\ endings = {}
      BY <1>8 DEF Bound, BindFails, Closing, Locked, NoneDue
    <2>2. QED
      BY <1>8, <2>0, <2>1 DEF Bound, BindFails, OneHasLock, EndedAreDown, NoListenerForgotten
  <1>9. ASSUME NEW l \in Listener, LogTaskResult(l)
        PROVE  ForgottenInv'
    <2>0. ForgottenTypes'
      BY <1>9 DEF LogTaskResult, ForgottenTypes, LockRecord, EntryRemoved
    <2>1. Closing' = Closing
      BY <1>9 DEF LogTaskResult, Closing, Locked
    <2>2. QED
      BY <1>9, <2>0, <2>1 DEF LogTaskResult, EntryRemoved, OneHasLock, EndedAreDown, NoListenerForgotten
  <1>10. ASSUME NEW l \in Listener, Connect(l) \/ HangUp(l)
        PROVE  ForgottenInv'
    <2>0. ForgottenTypes'
      BY <1>10 DEF Connect, HangUp, ForgottenTypes, LockRecord
    <2>1. Closing' = Closing
      BY <1>10 DEF Connect, HangUp, Closing, Locked
    <2>2. QED
      BY <1>10, <2>0, <2>1 DEF Connect, HangUp, OneHasLock, EndedAreDown, NoListenerForgotten
  <1>11. CASE UNCHANGED protocolServersVars
    <2>0. ForgottenTypes'
      BY <1>11 DEF protocolServersVars, ForgottenTypes, LockRecord
    <2>1. Closing' = Closing
      BY <1>11 DEF protocolServersVars, Closing, Locked
    <2>2. QED
      BY <1>11, <2>0, <2>1 DEF protocolServersVars, OneHasLock, EndedAreDown, NoListenerForgotten
  <1>12. QED
    BY <1>1, <1>2, <1>3, <1>4, <1>5, <1>6, <1>7, <1>8, <1>9, <1>10, <1>11 DEF ProtocolServersNext, SyncStep

\* No listener serves without an entry unless a start met the end of the task before it
\* (core/gateway.py:402), whatever the requests, the bounds and the order of the steps.
THEOREM NoneForgotten == ProtocolServersSpec => []NoListenerForgotten
  <1>1. ProtocolServersInit => ForgottenInv
    BY DEF ProtocolServersInit, ForgottenInv, ForgottenTypes, OneHasLock, EndedAreDown, NoListenerForgotten, Changed, NoSync
  <1>2. ForgottenInv /\ [ProtocolServersNext]_protocolServersVars => ForgottenInv'
    BY ForgottenStep
  <1>3. ForgottenInv => NoListenerForgotten
    BY DEF ForgottenInv
  <1>4. QED
    BY <1>1, <1>2, <1>3, PTL DEF ProtocolServersSpec
-----------------------------------------------------------------------------
(* OnlyRequiredRun for every set of listeners and requests.  A change of   *)
(* the devices that nobody has read yet is still to be read by its         *)
(* request, the newest read is applied or still to be applied, and what    *)
(* was applied leaves just what it wanted.                                 *)
ReadsOf(stages) == {s \in Syncs : sync[s].stage \in stages}
AllRead == ReadsOf({"changed"}) = {}
Applied == newest = reads /\ "older" \notin amiss /\ AllRead
ReadTypes ==
    /\ {reads, newest} \subseteq Nat /\ newest <= reads
    /\ \A s \in Syncs : sync[s].stage = "read" => sync[s].at \in Nat /\ sync[s].at <= reads
NewestRead ==
    /\ \A s \in Syncs : sync[s].stage = "read" /\ sync[s].at = reads /\ AllRead => sync[s].wanted = required
    /\ newest < reads => \E s \in Syncs : sync[s].stage = "read" /\ sync[s].at = reads
LockWants ==
    \A s \in Syncs : sync[s].stage = "locked" =>
        /\ running \subseteq sync[s].wanted \cup sync[s].left
        /\ Applied => sync[s].wanted = required
LeftAsWanted ==
    Applied /\ "raised" \notin amiss /\ ReadsOf({"locked"}) = {} =>
        running \subseteq required /\ required \ running \subseteq ended
RequiredInv == ReadTypes /\ NewestRead /\ LockWants /\ LeftAsWanted

\* Every step keeps the relation of what was read, applied and runs.
LEMMA RequiredStep ==
    ASSUME ForgottenInv, RequiredInv, [ProtocolServersNext]_protocolServersVars
    PROVE  RequiredInv'
  <1> USE DEF ForgottenInv, ForgottenTypes, RequiredInv, serverTasks
  <1>1. ASSUME NEW s \in Syncs, NEW now \in SUBSET Listener, ChangeDevices(s, now)
        PROVE  RequiredInv'
    <2>1. ~AllRead' /\ ~Applied'
      BY <1>1 DEF ChangeDevices, Changed, AllRead, ReadsOf, Applied
    <2>2. sync[s].stage = "none" /\ \A q \in Syncs : sync'[q] = IF q = s THEN Changed ELSE sync[q]
      BY <1>1 DEF ChangeDevices, NoSync
    <2>3. QED
      BY <1>1, <2>1, <2>2 DEF ChangeDevices, Changed, ReadTypes, NewestRead, LockWants, LeftAsWanted
  <1>2. ASSUME NEW s \in Syncs, ReadRequired(s)
        PROVE  RequiredInv'
    <2>1. /\ reads' = reads + 1 /\ UNCHANGED <<newest, required, running>>
          /\ sync[s].stage = "changed"
          /\ \A q \in Syncs : sync'[q] = IF q = s THEN HasRead(required, reads + 1) ELSE sync[q]
      BY <1>2 DEF ReadRequired, Changed
    <2>2. ~Applied'
      BY <2>1 DEF Applied, ReadTypes
    <2>3. QED
      BY <2>1, <2>2 DEF HasRead, ReadTypes, NewestRead, LockWants, LeftAsWanted
  <1>3. ASSUME NEW s \in Syncs, TakeLock(s)
        PROVE  RequiredInv'
    <2>1. /\ sync[s].stage = "read" /\ \A q \in Syncs : sync[q].stage # "locked"
          /\ \A q \in Syncs : sync'[q] = IF q = s THEN HasLock(sync[s], UnwantedNow(sync[s]), {}) ELSE sync[q]
          /\ UNCHANGED <<required, running, reads>>
      BY <1>3 DEF TakeLock, Locked
    <2>2. \/ sync[s].at < newest /\ newest' = newest /\ "older" \in amiss'
          \/ ~(sync[s].at < newest) /\ newest' = sync[s].at /\ "older" \notin amiss'
      BY <1>3 DEF TakeLock
    <2>3. AllRead' <=> AllRead
      BY <2>1 DEF AllRead, ReadsOf, HasLock
    <2>4. ReadTypes' /\ NewestRead'
      BY <2>1, <2>2, <2>3 DEF HasLock, ReadTypes, NewestRead
    <2>5. LockWants'
      BY <2>1, <2>2, <2>3 DEF HasLock, UnwantedNow, ReadTypes, NewestRead, LockWants, Applied
    <2>6. LeftAsWanted'
      BY <2>1 DEF LeftAsWanted, ReadsOf, HasLock
    <2>7. QED
      BY <2>4, <2>5, <2>6
  <1>4. ASSUME NEW s \in Syncs, NEW l \in Listener, StopListener(s, l)
        PROVE  RequiredInv'
    <2>1. /\ sync[s].stage = "locked" /\ running' = running \ {l}
          /\ \A q \in Syncs : sync'[q] = IF q = s
                 THEN HasLock(sync[s], sync[s].left \ {l}, IF task[l] = "none" THEN {} ELSE {l}) ELSE sync[q]
          /\ UNCHANGED <<required, reads, newest, amiss>>
      BY <1>4 DEF StopListener
    <2>2. \A q \in Syncs : sync'[q].stage = sync[q].stage
      BY <2>1 DEF HasLock
    <2>3. (Applied' <=> Applied) /\ (AllRead' <=> AllRead)
      BY <2>1, <2>2 DEF Applied, AllRead, ReadsOf
    <2>4. ReadTypes' /\ NewestRead'
      BY <2>1, <2>2, <2>3 DEF ReadTypes, NewestRead
    <2>5. LockWants'
      BY <2>1, <2>2, <2>3 DEF LockWants, HasLock, OneHasLock
    <2>6. LeftAsWanted'
      BY <2>1, <2>2 DEF LeftAsWanted, ReadsOf
    <2>7. QED
      BY <2>4, <2>5, <2>6
  <1>5. ASSUME NEW s \in Syncs, NEW l \in Listener, StopRaises(s, l)
        PROVE  RequiredInv'
    <2>1. /\ sync[s].stage = "locked" /\ \A q \in Syncs : sync'[q] = IF q = s THEN NoSync ELSE sync[q]
          /\ "raised" \in amiss' /\ ("older" \in amiss' <=> "older" \in amiss)
          /\ UNCHANGED <<required, running, reads, newest>>
      BY <1>5 DEF StopRaises
    <2>2. (Applied' <=> Applied) /\ (AllRead' <=> AllRead)
      BY <2>1 DEF Applied, AllRead, ReadsOf, NoSync
    <2>3. QED
      BY <2>1, <2>2 DEF NoSync, ReadTypes, NewestRead, LockWants, LeftAsWanted
  <1>6. ASSUME NEW s \in Syncs, ListenerClosed(s)
        PROVE  RequiredInv'
    <2>1. /\ sync[s].stage = "locked" /\ sync'[s].stage = "locked"
          /\ sync'[s].wanted = sync[s].wanted /\ sync'[s].left = sync[s].left
          /\ \A q \in Syncs \ {s} : sync'[q] = sync[q]
          /\ UNCHANGED <<required, running, reads, newest, ended, amiss>>
      BY <1>6 DEF ListenerClosed, LockRecord
    <2>2. \A q \in Syncs : sync'[q].stage = sync[q].stage
      BY <2>1
    <2>3. (Applied' <=> Applied) /\ (AllRead' <=> AllRead)
      BY <2>1, <2>2 DEF Applied, AllRead, ReadsOf
    <2>4. ReadTypes' /\ NewestRead'
      BY <2>1, <2>2, <2>3 DEF ReadTypes, NewestRead
    <2>5. LockWants'
      BY <2>1, <2>2, <2>3 DEF LockWants
    <2>6. LeftAsWanted'
      BY <2>1, <2>2 DEF LeftAsWanted, ReadsOf
    <2>7. QED
      BY <2>4, <2>5, <2>6
  <1>7. ASSUME NEW s \in Syncs, StartMissing(s)
        PROVE  RequiredInv'
    <2>1. /\ sync[s].stage = "locked" /\ sync[s].left = {} /\ running' = running \cup Missing(sync[s].wanted)
          /\ \A q \in Syncs : sync'[q] = IF q = s THEN NoSync ELSE sync[q]
          /\ UNCHANGED <<required, reads, newest>>
      BY <1>7 DEF StartMissing
    <2>2. "older" \in amiss' <=> "older" \in amiss
      BY <1>7 DEF StartMissing
    <2>3. (Applied' <=> Applied) /\ (AllRead' <=> AllRead)
      BY <2>1, <2>2 DEF Applied, AllRead, ReadsOf, NoSync
    <2>4. \A q \in Syncs : sync'[q].stage # "locked"
      BY <2>1 DEF OneHasLock, NoSync
    <2>5. running' = sync[s].wanted
      BY <2>1 DEF LockWants, Missing
    <2>6. Applied' => running' = required'
      BY <2>1, <2>3, <2>5 DEF LockWants
    <2>7. QED
      BY <2>1, <2>3, <2>4, <2>6 DEF NoSync, ReadTypes, NewestRead, LockWants, LeftAsWanted
  <1>8. ASSUME NEW l \in Listener, LogTaskResult(l)
        PROVE  RequiredInv'
    <2>1. /\ running' = running \ {l} /\ ended' = ended \cup (IF l \in running THEN {l} ELSE {})
          /\ UNCHANGED <<sync, required, reads, newest, amiss>>
      BY <1>8 DEF LogTaskResult, EntryRemoved
    <2>2. QED
      BY <2>1 DEF ReadTypes, NewestRead, LockWants, LeftAsWanted, Applied, AllRead, ReadsOf
  <1>9. ASSUME NEW l \in Listener, Bound(l) \/ BindFails(l) \/ Connect(l) \/ HangUp(l)
        PROVE  RequiredInv'
    BY <1>9 DEF Bound, BindFails, Connect, HangUp, ReadTypes, NewestRead, LockWants, LeftAsWanted, Applied, AllRead, ReadsOf
  <1>10. CASE UNCHANGED protocolServersVars
    BY <1>10 DEF protocolServersVars, ReadTypes, NewestRead, LockWants, LeftAsWanted, Applied, AllRead, ReadsOf
  <1>11. QED
    BY <1>1, <1>2, <1>3, <1>4, <1>5, <1>6, <1>7, <1>8, <1>9, <1>10 DEF ProtocolServersNext, SyncStep

\* Once no request is under way just the required listeners run, but for ports that could not
\* be bound and the three ways in which a request goes amiss (core/gateway.py:335).
THEOREM RequiredAreRun == ProtocolServersSpec => []OnlyRequiredRun
  <1>1. ProtocolServersInit => ForgottenInv
    BY DEF ProtocolServersInit, ForgottenInv, ForgottenTypes, OneHasLock, EndedAreDown, NoListenerForgotten, Changed, NoSync
  <1>2. ProtocolServersInit => RequiredInv
    BY DEF ProtocolServersInit, RequiredInv, ReadTypes, NewestRead, LockWants, LeftAsWanted, Applied, AllRead, ReadsOf,
       Changed, NoSync
  <1>3. ForgottenInv /\ [ProtocolServersNext]_protocolServersVars => ForgottenInv'
    BY ForgottenStep
  <1>4. ForgottenInv /\ RequiredInv /\ [ProtocolServersNext]_protocolServersVars => RequiredInv'
    BY RequiredStep
  <1>5. RequiredInv => OnlyRequiredRun
    BY DEF RequiredInv, ReadTypes, NewestRead, LeftAsWanted, Applied, AllRead, ReadsOf, OnlyRequiredRun, AtRest, NoSync
  <1>6. QED
    BY <1>1, <1>2, <1>3, <1>4, <1>5, PTL DEF ProtocolServersSpec

-----------------------------------------------------------------------------
(* NoWakeIsLost and OldCredentialsOnlyByRace for any number of requests,   *)
(* positions and restarts.  A wake-up stays set until a cycle is about to  *)
(* read; and beside the cache the old credentials can be in a cycle that   *)
(* authenticates, before or after the update commits.                      *)
WakeInv == unread => wake \/ pollPhase = "reading"
Updating == ask.kind = "update"
CredentialsInv ==
    /\ account = [active |-> account.active, credentials |-> account.credentials]
    /\ cycle = [floor |-> cycle.floor, with |-> cycle.with, batch |-> cycle.batch]
    /\ cached # 0 /\ (Updating \/ cached # account.credentials) => authRaced
    /\ pollPhase = "authenticating" /\ (Updating \/ cycle.with # account.credentials) => authRaced
PollInv == WakeInv /\ CredentialsInv

\* Every step of the task, of a request and of the provider keeps both.
LEMMA PollInvStep ==
    ASSUME PollInv, [IntegrationEngineNext]_integrationEngineVars
    PROVE  PollInv'
  <1> USE DEF PollInv, WakeInv, CredentialsInv, Updating, pollMemory, pollRows, pollHistory
  <1>1. ASSUME NEW new \in Credentials, UpdateAccount(new)
        PROVE  PollInv'
    BY <1>1 DEF UpdateAccount, Evicted, NoAsk
  <1>2. CASE Seed
    BY <1>2 DEF Seed
  <1>3. CASE BeginCycle
    BY <1>3 DEF BeginCycle, NewCycle
  <1>4. CASE ReadAccounts
    BY <1>4 DEF ReadAccounts
  <1>5. CASE LoadAccount
    BY <1>5 DEF LoadAccount
  <1>6. CASE AccountGone
    BY <1>6 DEF AccountGone
  <1>7. CASE FetchPositions
    BY <1>7 DEF FetchPositions
  <1>8. CASE ProcessPosition
    BY <1>8 DEF ProcessPosition
  <1>9. CASE EndCycle
    BY <1>9 DEF EndCycle
  <1>10. CASE Authenticated
    BY <1>10 DEF Authenticated
  <1>11. CASE NotAuthenticated
    BY <1>11 DEF NotAuthenticated
  <1>12. CASE FetchFails
    BY <1>12 DEF FetchFails
  <1>13. CASE BecomesDue
    BY <1>13 DEF BecomesDue
  <1>14. CASE UpdateCommits
    BY <1>14 DEF UpdateCommits, NoAsk
  <1>15. CASE DeleteAccount
    BY <1>15 DEF DeleteAccount, NoAsk
  <1>16. CASE EditDevice
    BY <1>16 DEF EditDevice, NoAsk
  <1>17. CASE WakeEngine
    BY <1>17 DEF WakeEngine, NoAsk
  <1>18. CASE PositionRecorded
    BY <1>18 DEF PositionRecorded
  <1>19. CASE CredentialsChange
    BY <1>19 DEF CredentialsChange
  <1>20. CASE RestartPolling
    BY <1>20 DEF RestartPolling, NoAsk, NewCycle
  <1>21. CASE UNCHANGED integrationEngineVars
    BY <1>21 DEF integrationEngineVars
  <1>22. QED
    BY <1>1, <1>2, <1>3, <1>4, <1>5, <1>6, <1>7, <1>8, <1>9, <1>10, <1>11, <1>12, <1>13, <1>14,
       <1>15, <1>16, <1>17, <1>18, <1>19, <1>20, <1>21 DEF IntegrationEngineNext, PollStep

-----------------------------------------------------------------------------
(* OnlyFailuresMissing and OnlyTheSeedAgain.  What was handled has no gap, *)
(* and neither has what is still to be handled: an answer begins at or     *)
(* before the position that follows what was handled.  As long as the      *)
(* provider has no cursor the floor alone keeps stored positions away,     *)
(* which is why it must not be dropped before.                             *)
Handled == Stored \cup failed
PositionTypes ==
    /\ times \in [Polled -> Nat] /\ failed \subseteq Polled /\ recorded \in 0..MaxPosition
    /\ {floor, cursor, cycle.floor} \subseteq 0..MaxPosition
    /\ cycle = [floor |-> cycle.floor, with |-> cycle.with, batch |-> cycle.batch]
    /\ cycle.batch \in Seq(Polled)
Consecutive(b) == \A i \in 1..Len(b) : b[i] = b[1] + i - 1
NoGaps ==
    /\ \A p \in Handled : 1..p \subseteq Handled
    /\ 1..floor \subseteq Handled /\ 1..cursor \subseteq Handled /\ 1..cycle.floor \subseteq Handled
    /\ Consecutive(cycle.batch)
    /\ cycle.batch # <<>> => 1..(cycle.batch[1] - 1) \subseteq Handled
\* Nothing after n is stored, and n only if it was seeded.
KeepsAway(n) == Stored \subseteq 1..n /\ Stored \cap {n} \subseteq seeded
OnceEach ==
    ~dropped =>
        /\ OnlyTheSeedAgain
        /\ cursor # 0 => Stored \subseteq 1..cursor
        /\ cursor = 0 /\ pollPhase # "starting" => KeepsAway(floor)
        /\ cursor = 0 /\ pollPhase \in {"loading", "authenticating", "fetching"} => KeepsAway(cycle.floor)
        /\ cursor = 0 /\ pollPhase = "processing" /\ cycle.batch # <<>> => KeepsAway(cycle.batch[1])
PositionsInv == PositionTypes /\ NoGaps /\ OnceEach

\* The rest of an answer follows the position that was taken from it.
LEMMA RestFollows ==
    ASSUME NEW b \in Seq(Polled), b # <<>>, Consecutive(b)
    PROVE  /\ Head(b) = b[1] /\ b[1] \in Polled /\ Tail(b) \in Seq(Polled)
           /\ Consecutive(Tail(b)) /\ (Tail(b) # <<>> => Tail(b)[1] = b[1] + 1)
  <1>1. Len(b) \in Nat /\ Len(b) >= 1 /\ Head(b) = b[1] /\ b[1] \in Polled
    OBVIOUS
  <1>2. Tail(b) \in Seq(Polled) /\ Len(Tail(b)) = Len(b) - 1
    OBVIOUS
  <1>3. b[1] \in Int
    BY <1>1 DEF Polled
  <1>4. ASSUME NEW i \in 1..Len(Tail(b))
        PROVE  Tail(b)[i] = b[1] + i
    <2>1. i \in Int /\ i + 1 \in 1..Len(b)
      BY <1>1, <1>2
    <2>2. Tail(b)[i] = b[i + 1]
      BY <1>2
    <2>3. b[i + 1] = b[1] + (i + 1) - 1
      BY <2>1 DEF Consecutive
    <2>4. QED
      BY <1>3, <2>1, <2>2, <2>3
  <1>5. Tail(b) # <<>> => 1 \in 1..Len(Tail(b))
    BY <1>1, <1>2
  <1>6. Tail(b) # <<>> => Tail(b)[1] = b[1] + 1
    BY <1>4, <1>5
  <1>7. ASSUME NEW i \in 1..Len(Tail(b))
        PROVE  Tail(b)[i] = Tail(b)[1] + i - 1
    <2>1. 1 \in 1..Len(Tail(b)) /\ i \in Int
      BY <1>1, <1>2
    <2>2. Tail(b)[1] = b[1] + 1 /\ Tail(b)[i] = b[1] + i
      BY <1>4, <2>1
    <2>3. QED
      BY <1>3, <2>1, <2>2
  <1>8. QED
    BY <1>1, <1>2, <1>6, <1>7 DEF Consecutive

\* The length of an answer is the number of its positions.
LEMMA SameLength ==
    ASSUME NEW m \in Nat, NEW n \in Nat, 1..m = 1..n
    PROVE  m = n
  <1>1. CASE m < n
    BY <1>1
  <1>2. CASE n < m
    BY <1>2
  <1>3. QED
    BY <1>1, <1>2

\* A function on 1..n is a sequence.
LEMMA FunctionIsSequence ==
    ASSUME NEW S, NEW n \in Nat, NEW f \in [1..n -> S]
    PROVE  f \in Seq(S)
  BY SeqDef

\* An answer has the positions from the one that was asked for.
LEMMA AnswerFollows ==
    ASSUME NEW a \in Nat \ {0}, NEW r \in 0..MaxPosition, NEW b, b = [i \in 1..(r - a + 1) |-> a + i - 1]
    PROVE  b \in Seq(Polled) /\ Consecutive(b) /\ (b # <<>> => b[1] = a)
  <1> USE IntegrationEngineAssumption
  <1>1. PICK n \in Nat : 1..(r - a + 1) = 1..n /\ (n > 0 => n = r - a + 1)
    <2>1. CASE r < a
      <3>1. 1..(r - a + 1) = 1..0
        BY <2>1
      <3>2. QED
        BY <3>1
    <2>2. CASE r >= a
      <3>1. r - a + 1 \in Nat
        BY <2>2
      <3>2. QED
        BY <3>1
    <2>3. QED
      BY <2>1, <2>2
  <1>2. b = [i \in 1..n |-> a + i - 1]
    BY <1>1
  <1>3. \A i \in 1..n : a + i - 1 \in Polled
    BY <1>1 DEF Polled
  <1>4. b \in Seq(Polled) /\ Len(b) = n
    <2>1. b \in [1..n -> Polled] /\ DOMAIN b = 1..n
      BY <1>2, <1>3
    <2>2. b \in Seq(Polled)
      <3>1. n \in Nat
        BY <1>1
      <3>2. QED
        BY <2>1, <3>1, FunctionIsSequence, Zenon
    <2>3. Len(b) \in Nat /\ DOMAIN b = 1..Len(b)
      BY <2>2, LenProperties
    <2>4. 1..Len(b) = 1..n
      BY <2>1, <2>3
    <2>5. Len(b) = n
      BY <2>3, <2>4, SameLength
    <2>6. QED
      BY <2>2, <2>5
  <1>5. \A i \in 1..n : b[i] = a + i - 1
    BY <1>2
  <1>6. b # <<>> => n > 0
    BY <1>2, <1>4
  <1>7. n > 0 => b[1] = a
    BY <1>5
  <1>8. Consecutive(b)
    <2>1. \A i \in 1..n : n > 0
      OBVIOUS
    <2>2. \A i \in 1..n : b[i] = a + i - 1 /\ b[1] = a
      BY <1>5, <1>7, <2>1
    <2>3. QED
      BY <1>4, <2>2 DEF Consecutive
  <1>9. QED
    BY <1>4, <1>6, <1>7, <1>8

\* A step that leaves what was handled and the floors alone keeps them, whether it goes on with
\* the answer or begins a new cycle.
LEMMA PositionsKept ==
    ASSUME PositionsInv, recorded' \in 0..MaxPosition,
           UNCHANGED <<times, failed, seeded, floor, cursor, dropped>>,
           \/ cycle' = [floor |-> cycle.floor, with |-> cycle'.with, batch |-> cycle.batch]
           \/ cycle' = NewCycle /\ pollPhase' = "reading",
           \/ pollPhase' = pollPhase
           \/ pollPhase # "starting" /\ pollPhase' \in {"asleep", "reading"}
           \/ pollPhase \in {"loading", "authenticating"} /\ pollPhase' \in {"authenticating", "fetching"}
    PROVE  PositionsInv'
  <1> USE DEF PositionsInv, PositionTypes
  <1>1. \/ cycle'.floor = cycle.floor /\ cycle'.batch = cycle.batch
        \/ cycle' = NewCycle /\ pollPhase' = "reading"
    OBVIOUS
  <1>2. PositionTypes'
    <2>0. cycle' = [floor |-> cycle'.floor, with |-> cycle'.with, batch |-> cycle'.batch]
      BY DEF NewCycle
    <2>1. CASE cycle'.floor = cycle.floor /\ cycle'.batch = cycle.batch
      BY <2>0, <2>1
    <2>2. CASE cycle' = NewCycle
      <3>1. cycle'.floor = 0 /\ cycle'.batch = <<>>
        BY <2>2 DEF NewCycle
      <3>2. cycle'.batch \in Seq(Polled) /\ 0 \in 0..MaxPosition
        BY <3>1, IntegrationEngineAssumption
      <3>3. QED
        BY <2>0, <3>1, <3>2
    <2>3. QED
      BY <1>1, <2>1, <2>2
  <1>3. Stored' = Stored /\ Handled' = Handled
    BY DEF Stored, Handled
  <1>4. NoGaps'
    BY <1>1, <1>3 DEF NoGaps, Consecutive, NewCycle
  <1>5. ASSUME ~dropped'
        PROVE  /\ OnlyTheSeedAgain'
               /\ cursor' # 0 => Stored' \subseteq 1..cursor'
               /\ cursor' = 0 /\ pollPhase' # "starting" => KeepsAway(floor)'
    BY <1>3, <1>5 DEF OnceEach, OnlyTheSeedAgain, KeepsAway
  <1>6. ASSUME ~dropped', cursor' = 0, pollPhase' \in {"loading", "authenticating", "fetching"}
        PROVE  KeepsAway(cycle.floor)'
    BY <1>1, <1>3, <1>6 DEF OnceEach, KeepsAway
  <1>7. ASSUME ~dropped', cursor' = 0, pollPhase' = "processing", cycle'.batch # <<>>
        PROVE  KeepsAway(cycle.batch[1])'
    BY <1>1, <1>3, <1>7 DEF OnceEach, KeepsAway
  <1>8. QED
    BY <1>2, <1>4, <1>5, <1>6, <1>7 DEF OnceEach

\* The steps of the task, the requests and the provider keep what was handled without a gap.
LEMMA PositionsStep ==
    ASSUME PositionsInv, [IntegrationEngineNext]_integrationEngineVars
    PROVE  PositionsInv'
  <1> USE IntegrationEngineAssumption DEF PositionsInv, PositionTypes, pollMemory, pollRows, pollHistory
  <1>1. CASE Seed
    <2>1. Stored' = Stored /\ Handled' = Handled
      BY <1>1 DEF Seed, Stored, Handled
    <2>2. floor' \in 0..MaxPosition /\ Stored \subseteq 1..floor' /\ Stored \cap {floor'} \subseteq seeded'
      BY <1>1 DEF Seed, Newest, Stored, Polled
    <2>3. 1..floor' \subseteq Handled
      BY <1>1 DEF Seed, Newest, NoGaps, Handled
    <2>4. PositionTypes' /\ NoGaps'
      BY <1>1, <2>1, <2>2, <2>3 DEF Seed, NoGaps, Consecutive
    <2>5. OnceEach'
      BY <1>1, <2>1, <2>2 DEF Seed, OnceEach, OnlyTheSeedAgain, KeepsAway
    <2>6. QED
      BY <2>4, <2>5
  <1>2. CASE BeginCycle
    BY <1>2, PositionsKept DEF BeginCycle
  <1>3. CASE ReadAccounts
    <2>1. Stored' = Stored /\ Handled' = Handled
      BY <1>3 DEF ReadAccounts, Stored, Handled
    <2>2. cycle'.floor = floor /\ cycle'.batch = cycle.batch /\ cycle'.with = cycle.with
      BY <1>3 DEF ReadAccounts
    <2>3. PositionTypes'
      BY <1>3 DEF ReadAccounts
    <2>4. NoGaps'
      BY <1>3, <2>1, <2>2 DEF ReadAccounts, NoGaps, Consecutive
    <2>5. OnceEach'
      BY <1>3, <2>1, <2>2 DEF ReadAccounts, OnceEach, OnlyTheSeedAgain, KeepsAway
    <2>6. QED
      BY <2>3, <2>4, <2>5
  <1>4. CASE LoadAccount
    BY <1>4, PositionsKept DEF LoadAccount
  <1>5. CASE AccountGone
    BY <1>5, PositionsKept DEF AccountGone
  <1>10. CASE Authenticated
    BY <1>10, PositionsKept DEF Authenticated
  <1>11. CASE NotAuthenticated
    BY <1>11, PositionsKept DEF NotAuthenticated
  <1>12. CASE FetchFails
    BY <1>12, PositionsKept DEF FetchFails
  <1>9. CASE EndCycle
    BY <1>9, PositionsKept DEF EndCycle
  <1>13. CASE BecomesDue \/ UpdateCommits \/ DeleteAccount \/ WakeEngine \/ CredentialsChange
    BY <1>13, PositionsKept DEF BecomesDue, UpdateCommits, DeleteAccount, WakeEngine, CredentialsChange
  <1>14. ASSUME NEW new \in Credentials, UpdateAccount(new)
         PROVE  PositionsInv'
    BY <1>14, PositionsKept DEF UpdateAccount
  <1>15. CASE PositionRecorded
    BY <1>15, PositionsKept DEF PositionRecorded
  <1>16. CASE FetchPositions
    <2>1. From \in Nat \ {0}
      BY DEF From, Larger
    <2>3. /\ cycle'.floor = cycle.floor /\ cycle'.with = cycle.with
          /\ cycle'.batch = [i \in 1..(recorded - From + 1) |-> From + i - 1]
          /\ cycle' = [floor |-> cycle.floor, with |-> cycle.with, batch |-> cycle'.batch]
      BY <1>16 DEF FetchPositions
    <2>4. /\ cycle'.batch \in Seq(Polled) /\ Consecutive(cycle'.batch)
          /\ cycle'.batch # <<>> => cycle'.batch[1] = From
      BY <2>1, <2>3, AnswerFollows
    <2>5. Stored' = Stored /\ Handled' = Handled
      BY <1>16 DEF FetchPositions, Stored, Handled
    <2>6. 1..(From - 1) \subseteq Handled
      BY DEF From, Larger, NoGaps
    <2>7. PositionTypes' /\ NoGaps'
      BY <1>16, <2>3, <2>4, <2>5, <2>6 DEF FetchPositions, NoGaps
    <2>8. ASSUME ~dropped, cursor = 0
          PROVE  KeepsAway(From)
      BY <1>16, <2>8 DEF FetchPositions, OnceEach, KeepsAway, From, Larger, Stored, Polled
    <2>9. OnceEach'
      BY <1>16, <2>3, <2>4, <2>5, <2>8 DEF FetchPositions, OnceEach, OnlyTheSeedAgain, KeepsAway
    <2>10. QED
      BY <2>7, <2>9
  <1>17. CASE ProcessPosition
    <2> DEFINE p == Head(cycle.batch)
    <2>1. /\ cycle' = [floor |-> cycle.floor, with |-> cycle.with, batch |-> Tail(cycle.batch)]
          /\ cycle.batch # <<>> /\ pollPhase = "processing" /\ pollPhase' = pollPhase
          /\ UNCHANGED <<recorded, seeded, dropped>>
      BY <1>17 DEF ProcessPosition
    <2>2. /\ p = cycle.batch[1] /\ p \in Polled /\ Tail(cycle.batch) \in Seq(Polled)
          /\ Consecutive(Tail(cycle.batch)) /\ (Tail(cycle.batch) # <<>> => Tail(cycle.batch)[1] = p + 1)
      BY <2>1, RestFollows DEF NoGaps
    <2>3. Tail(cycle.batch) # <<>> => Tail(cycle.batch)[1] - 1 = p
      <3>1. p \in Int
        BY <2>2 DEF Polled
      <3> HIDE DEF p
      <3>2. (p + 1) - 1 = p
        BY <3>1
      <3>3. QED
        BY <2>2, <3>2
    <2>4. CASE ~Fresh(p)
      <3>1. UNCHANGED <<cursor, times, failed, floor>>
        BY <1>17, <2>4 DEF ProcessPosition
      <3>2. Stored' = Stored /\ Handled' = Handled
        BY <3>1 DEF Stored, Handled
      <3>3. 1..p \subseteq Handled /\ cursor # 0
        <4> HIDE DEF p
        <4>1. cursor # 0 /\ p <= cursor /\ p \in Nat /\ cursor \in Nat
          <5>1. p \in Polled /\ cursor \in 0..MaxPosition
            BY <2>2
          <5>2. QED
            BY <2>4, <5>1 DEF Fresh, Polled
        <4>2. 1..p \subseteq 1..cursor /\ 1..cursor \subseteq Handled
          BY <4>1 DEF NoGaps
        <4>3. QED
          BY <4>1, <4>2
      <3>4. PositionTypes'
        BY <2>1, <2>2, <3>1
      <3>7. NoGaps'
        BY <2>1, <2>2, <2>3, <3>1, <3>2, <3>3 DEF NoGaps, Polled
      <3>5. OnceEach'
        BY <2>1, <3>1, <3>2, <3>3 DEF OnceEach, OnlyTheSeedAgain, KeepsAway
      <3>6. QED
        BY <3>4, <3>5, <3>7
    <2>5. CASE Fresh(p)
      <3>1. /\ cursor' = p /\ floor' = Larger(floor, p)
            /\ \/ times' = [times EXCEPT ![p] = @ + 1] /\ failed' = failed
               \/ times' = times /\ failed' = failed \cup {p}
        BY <1>17, <2>5 DEF ProcessPosition
      <3>2. Handled' = Handled \cup {p} /\ Stored \subseteq Stored' /\ Stored' \subseteq Stored \cup {p}
        <4>1. CASE times' = [times EXCEPT ![p] = @ + 1] /\ failed' = failed
          <5>1. \A q \in Polled : times'[q] = (IF q = p THEN times[p] + 1 ELSE times[q]) /\ times[q] \in Nat
            BY <4>1
          <5>2. Stored' = Stored \cup {p}
            <6> HIDE DEF p
            <6>1. p \in Polled /\ times'[p] > 0
              BY <2>2, <5>1
            <6>2. \A q \in Polled : q # p => times'[q] = times[q]
              BY <5>1
            <6>3. QED
              BY <6>1, <6>2 DEF Stored
          <5>3. QED
            BY <4>1, <5>2 DEF Handled
        <4>2. CASE times' = times /\ failed' = failed \cup {p}
          BY <4>2 DEF Stored, Handled
        <4>3. QED
          BY <3>1, <4>1, <4>2
      <3>3. 1..(p - 1) \subseteq Handled
        BY <2>1, <2>2 DEF NoGaps
      <3>4. PositionTypes'
        <4> HIDE DEF p
        <4>1. p \in 0..MaxPosition /\ floor' \in 0..MaxPosition
          <5>1. p \in 0..MaxPosition
            BY <2>2 DEF Polled
          <5>2. QED
            BY <3>1, <5>1 DEF Larger
        <4>2. times' \in [Polled -> Nat] /\ failed' \subseteq Polled
          <5>1. times \in [Polled -> Nat] /\ failed \subseteq Polled /\ p \in Polled
            BY <2>2
          <5>2. CASE times' = [times EXCEPT ![p] = @ + 1] /\ failed' = failed
            <6>1. times[p] + 1 \in Nat
              BY <5>1
            <6>2. QED
              BY <5>1, <5>2, <6>1, Zenon
          <5>3. CASE times' = times /\ failed' = failed \cup {p}
            BY <5>1, <5>3, Zenon
          <5>4. QED
            BY <3>1, <5>2, <5>3, Zenon
        <4>3. cycle'.floor = cycle.floor /\ cycle'.batch = Tail(cycle.batch) /\ cycle'.with = cycle.with
          BY <2>1
        <4>4. cursor' \in 0..MaxPosition /\ cycle'.floor \in 0..MaxPosition
          BY <3>1, <4>1, <4>3
        <4>5. cycle' = [floor |-> cycle'.floor, with |-> cycle'.with, batch |-> cycle'.batch]
          BY <2>1, <4>3
        <4>6. recorded' \in 0..MaxPosition /\ cycle'.batch \in Seq(Polled)
          BY <2>1, <2>2, <4>3
        <4>7. QED
          BY <4>1, <4>2, <4>4, <4>5, <4>6
      <3>5. 1..p \subseteq Handled'
        <4> HIDE DEF p
        <4>1. p \in Nat
          BY <2>2 DEF Polled
        <4>2. \A q \in 1..p : q = p \/ q \in 1..(p - 1)
          BY <4>1
        <4>3. QED
          BY <3>2, <3>3, <4>2
      <3>6. NoGaps'
        <4>1. \A q \in Handled' : 1..q \subseteq Handled'
          BY <3>2, <3>5 DEF NoGaps
        <4>2. 1..floor' \subseteq Handled' /\ 1..cursor' \subseteq Handled' /\ 1..cycle'.floor \subseteq Handled'
          BY <2>1, <3>1, <3>2, <3>5 DEF NoGaps, Larger
        <4>3. cycle'.batch # <<>> => 1..(cycle'.batch[1] - 1) \subseteq Handled'
          BY <2>1, <2>3, <3>5
        <4>4. QED
          BY <2>1, <2>2, <4>1, <4>2, <4>3 DEF NoGaps
      <3>7. OnceEach'
        <4>0. dropped' = dropped /\ cursor' = p /\ p # 0
          BY <2>1, <2>2, <3>1 DEF Polled
        <4>1. SUFFICES ASSUME ~dropped
                       PROVE  OnlyTheSeedAgain' /\ Stored' \subseteq 1..p
          BY <4>0 DEF OnceEach
        <4>2. Stored \subseteq 1..p /\ (p \in Stored => p \in seeded)
          <5>1. CASE cursor = 0
            BY <2>1, <2>2, <4>1, <5>1 DEF OnceEach, KeepsAway
          <5>2. CASE cursor # 0
            <6>1. p > cursor /\ p \in Nat /\ cursor \in Nat
              BY <2>2, <2>5, <5>2 DEF Fresh, Polled
            <6>2. Stored \subseteq 1..cursor
              BY <4>1, <5>2 DEF OnceEach
            <6> HIDE DEF p
            <6>3. 1..cursor \subseteq 1..p /\ p \notin 1..cursor
              BY <6>1
            <6>4. QED
              BY <6>2, <6>3
          <5>3. QED
            BY <5>1, <5>2
        <4>3. Stored' \subseteq 1..p
          <5>1. p \in Nat /\ p > 0
            BY <2>2 DEF Polled
          <5> HIDE DEF p
          <5>2. p \in 1..p
            BY <5>1
          <5>3. QED
            BY <3>2, <4>2, <5>2
        <4>4. p \notin Stored => times[p] = 0
          BY <2>2 DEF Stored
        <4>5. OnlyTheSeedAgain'
          <5>1. SUFFICES ASSUME NEW q \in Polled, times'[q] > 1
                         PROVE  q \in seeded
            BY <2>1 DEF OnlyTheSeedAgain
          <5>2. CASE q = p /\ times'[p] = times[p] + 1
            BY <2>2, <4>2, <4>4, <5>1, <5>2
          <5>3. CASE times'[q] = times[q]
            BY <4>1, <5>1, <5>3 DEF OnceEach, OnlyTheSeedAgain
          <5>4. QED
            BY <2>2, <3>1, <5>2, <5>3
        <4>6. QED
          BY <4>3, <4>5
      <3>8. QED
        BY <3>4, <3>6, <3>7
    <2>6. QED
      BY <2>4, <2>5
  <1>18. CASE EditDevice
    <2>1. Stored' = Stored /\ Handled' = Handled
      BY <1>18 DEF EditDevice, Stored, Handled
    <2>2. PositionTypes' /\ NoGaps'
      BY <1>18, <2>1 DEF EditDevice, NoGaps, Consecutive
    <2>3. OnceEach'
      BY <1>18, <2>1 DEF EditDevice, OnceEach, OnlyTheSeedAgain, KeepsAway
    <2>4. QED
      BY <2>2, <2>3
  <1>19. CASE RestartPolling
    <2>1. Stored' = Stored /\ Handled' = Handled
      BY <1>19 DEF RestartPolling, Stored, Handled
    <2>2. PositionTypes' /\ NoGaps'
      BY <1>19, <2>1 DEF RestartPolling, NoGaps, Consecutive, NewCycle
    <2>3. OnceEach'
      BY <1>19, <2>1 DEF RestartPolling, OnceEach, OnlyTheSeedAgain, KeepsAway
    <2>4. QED
      BY <2>2, <2>3
  <1>20. CASE UNCHANGED integrationEngineVars
    BY <1>20, PositionsKept DEF integrationEngineVars
  <1>21. QED
    BY <1>1, <1>2, <1>3, <1>4, <1>5, <1>9, <1>10, <1>11, <1>12, <1>13, <1>14, <1>15, <1>16, <1>17,
       <1>18, <1>19, <1>20 DEF IntegrationEngineNext, PollStep

\* No wake-up is lost, an evicted context comes back only by a race, nothing is missing but
\* what failed, and nothing is processed twice but what was seeded (integrations/engine.py,
\* integrations/traccar.py), whatever the order of the steps and their number.
THEOREM PollingIsSound == IntegrationEngineSpec => []IntegrationEngineSound
  <1>1. IntegrationEngineInit => PollInv
    BY DEF IntegrationEngineInit, PollInv, WakeInv, CredentialsInv, Updating, NoAsk, NewCycle
  <1>2. IntegrationEngineInit => PositionsInv
    <2> SUFFICES ASSUME IntegrationEngineInit
                 PROVE  PositionsInv
      OBVIOUS
    <2> USE IntegrationEngineAssumption DEF IntegrationEngineInit
    <2>1. Stored = {} /\ Handled = {}
      BY DEF Stored, Handled
    <2>2. PositionTypes
      BY EmptySeq DEF PositionTypes, NewCycle
    <2>3. NoGaps
      BY <2>1, EmptySeq DEF NoGaps, Consecutive, NewCycle
    <2>4. OnceEach
      BY <2>1 DEF OnceEach, OnlyTheSeedAgain, KeepsAway, NewCycle
    <2>5. QED
      BY <2>2, <2>3, <2>4 DEF PositionsInv
  <1>3. PollInv /\ [IntegrationEngineNext]_integrationEngineVars => PollInv'
    BY PollInvStep
  <1>4. PositionsInv /\ [IntegrationEngineNext]_integrationEngineVars => PositionsInv'
    BY PositionsStep
  <1>5. PollInv /\ PositionsInv => IntegrationEngineSound
    <2>1. PollInv => NoWakeIsLost /\ OldCredentialsOnlyByRace
      BY DEF PollInv, WakeInv, CredentialsInv, Updating, NoWakeIsLost, OldCredentialsOnlyByRace, NoAsk
    <2>2. PositionsInv => OnlyFailuresMissing
      BY DEF PositionsInv, NoGaps, OnlyFailuresMissing, Handled, Larger
    <2>3. PositionsInv => OnlyTheSeedAgain
      BY DEF PositionsInv, OnceEach, OnlyTheSeedAgain
    <2>4. QED
      BY <2>1, <2>2, <2>3 DEF IntegrationEngineSound
  <1>6. QED
    BY <1>1, <1>2, <1>3, <1>4, <1>5, PTL DEF IntegrationEngineSpec

-----------------------------------------------------------------------------
(* A dwell is one stay *)

Dwelling == [age : Int, arrivedSent : BOOLEAN]
StayInv == dwell \in [Stops -> Dwelling] /\ DwellIsOneStay

\* What is kept of the dwells is of one stop.
LEMMA KeptOne ==
    ASSUME StayInv, NEW s \in Stops \cup {0}
    PROVE  /\ Kept(s) \in [Stops -> Dwelling]
           /\ \A q \in Stops : q # s => Kept(s)[q] = NoDwell
  BY DEF StayInv, Kept, Begun, NoDwell, Entered, Dwelling

RouteMoves == RouteProgressNext \/ RestartRoutes \/ UNCHANGED <<dwell, last>>

\* Every step keeps the dwell a single stay.
LEMMA StayStep == StayInv /\ RouteMoves => StayInv'
  <1> SUFFICES ASSUME StayInv, RouteMoves PROVE StayInv'
    OBVIOUS
  <1> NoneDwelling \in [Stops -> Dwelling]
    BY DEF NoneDwelling, NoDwell, Dwelling
  <1>1. ASSUME UNCHANGED dwell, UNCHANGED last PROVE StayInv'
    BY <1>1 DEF StayInv, DwellIsOneStay
  <1>2. ASSUME dwell' = NoneDwelling PROVE StayInv'
    BY <1>2 DEF StayInv, DwellIsOneStay, NoneDwelling
  <1>3. ASSUME NEW s \in Stops, last' = s, dwell' \in [Stops -> Dwelling],
               \A q \in Stops : q # s => dwell'[q] = NoDwell
        PROVE  StayInv'
    BY <1>3 DEF StayInv, DwellIsOneStay
  <1>4. CASE UNCHANGED <<dwell, last>>
    BY <1>1, <1>4
  <1>5. CASE \E p \in Places : Move(p)
    BY <1>1, <1>5 DEF Move
  <1>6. CASE Tick
    <2>1. dwell' \in [Stops -> Dwelling]
      BY <1>6 DEF Tick, Older, StayInv, Dwelling
    <2>2. \A s \in Stops : dwell[s] = NoDwell => dwell'[s] = NoDwell
      BY <1>6 DEF Tick, Older, NoDwell
    <2>3. \A s \in Stops : dwell[s] # NoDwell => last = s
      BY DEF StayInv, DwellIsOneStay
    <2>4. last' = last
      BY <1>6 DEF Tick
    <2>5. \A s \in Stops : dwell'[s] # NoDwell => last' = s
      BY <2>2, <2>3, <2>4
    <2> QED BY <2>1, <2>5 DEF StayInv, DwellIsOneStay
  <1>7. CASE LoadRoute \/ CommitProgress \/ Rollback
    BY <1>1, <1>7 DEF LoadRoute, CommitProgress, Rollback
  <1>8. CASE PositionOutside
    BY <1>8, KeptOne DEF PositionOutside, StayInv, DwellIsOneStay, Stops
  <1>9. ASSUME NEW s \in Stops, Arrive(s) \/ StayAtStop(s) \/ CompleteStop(s) PROVE StayInv'
    <2>1. last' = s
      BY <1>9 DEF Arrive, StayAtStop, CompleteStop
    <2>2. Kept(s) \in [Stops -> Dwelling] /\ \A q \in Stops : q # s => Kept(s)[q] = NoDwell
      BY KeptOne
    <2>3. CASE Arrive(s)
      <3>1. dwell' = [Kept(s) EXCEPT ![s].arrivedSent = TRUE]
        BY <2>3 DEF Arrive
      <3>2. dwell' \in [Stops -> Dwelling]
        BY <2>2, <3>1 DEF Dwelling
      <3>3. \A q \in Stops : q # s => dwell'[q] = NoDwell
        BY <2>2, <3>1
      <3> QED BY <1>3, <2>1, <3>2, <3>3
    <2>4. CASE StayAtStop(s)
      <3>1. dwell' = Kept(s)
        BY <2>4 DEF StayAtStop
      <3> QED BY <1>3, <2>1, <2>2, <3>1
    <2>5. CASE CompleteStop(s)
      <3>1. NoDwell \in Dwelling
        BY DEF NoDwell, Dwelling
      <3> QED BY <1>3, <2>1, <2>2, <2>5, <3>1 DEF CompleteStop
    <2> QED BY <1>9, <2>3, <2>4, <2>5
  <1>10. CASE Operate
    <2>1. ASSUME NEW r, Ask(r) PROVE StayInv'
      BY <1>1, <2>1 DEF Ask
    <2>2. CASE WriteStatus \/ WriteStop \/ DeleteRoute
      BY <1>1, <2>2 DEF WriteStatus, WriteStop, DeleteRoute
    <2>3. CASE WriteStops
      BY <1>1, <1>2, <2>3 DEF WriteStops
    <2> QED BY <1>10, <2>1, <2>2, <2>3 DEF Operate, AskStatus, AskStop, AskStops, WriteRequest
  <1>11. CASE RestartRoutes
    BY <1>2, <1>11 DEF RestartRoutes
  <1> QED
    BY <1>4, <1>5, <1>6, <1>7, <1>8, <1>9, <1>10, <1>11 DEF RouteMoves, RouteProgressNext, Process

\* What is kept in memory of a dwell is never older than the present stay, in
\* any interleaving of positions, requests of operators, failures and restarts
\* (services/route_progress.py).
THEOREM DwellsAreOneStay == ServerSpec => []DwellIsOneStay
  <1>1. ServerInit => StayInv
    BY DEF ServerInit, RouteProgressInit, StayInv, DwellIsOneStay, NoneDwelling, NoDwell, Dwelling
  <1>2. [ServerNext]_serverVars => RouteMoves
    BY DEF ServerNext, RouteStep, ScheduleStep, TakeTrigger, Restart, RouteMoves, serverVars, routeVars
  <1> QED
    BY <1>1, <1>2, StayStep, PTL DEF ServerSpec, StayInv

-----------------------------------------------------------------------------
(* A schedule and the copies of it that runs hold, by the races there were *)

RowSafe(x, n) ==
    x.exists =>
        /\ x.trigger = "time" /\ x.next = NoNext => n >= 2
        /\ x.trigger = "event" /\ x.next # NoNext => n >= 1
CopySafe(c, x, n) ==
    /\ c.trigger # x.trigger => n >= 1
    /\ c.trigger = "event" /\ c.next # NoNext => n >= 1 /\ (x.trigger = "time" => n >= 2)

RunnersTypeOK ==
    /\ schedule \in [Schedules -> ScheduleRow] /\ kept \in [Schedules -> Nat] /\ raced \in [Schedules -> Nat]
    /\ todo \in [Runners -> Seq(Schedules)] /\ run \in [Runners -> Run \cup {NoRun}]
RaceInv ==
    /\ RunnersTypeOK /\ RunsAreOwned
    /\ \A s \in Schedules : RowSafe(schedule[s], raced[s])
    /\ \A r \in Runners : run[r] # NoRun =>
         /\ run[r] \in Run
         /\ CopySafe(run[r].copy, schedule[run[r].of], raced[run[r].of])

Rewritten(x, c, k) == [x EXCEPT !.next = IF k = c.next THEN @ ELSE k]

\* The write of next_run at the end of a run keeps what is said of the row and of every copy.
LEMMA WrittenSafe ==
    ASSUME NEW x \in ScheduleRow, NEW c \in ScheduleRow, NEW n \in Nat, RowSafe(x, n), CopySafe(c, x, n),
           NEW k \in NextOf(c.trigger)
    PROVE  /\ Rewritten(x, c, k) \in ScheduleRow /\ RowSafe(Rewritten(x, c, k), n)
           /\ Rewritten(x, c, k).exists = x.exists
           /\ \A d \in ScheduleRow : CopySafe(d, x, n) => CopySafe(d, Rewritten(x, c, k), n)
  <1> DEFINE y == Rewritten(x, c, k)
  <1> USE ReportSchedulerAssumption DEF ReportSchedulerAssumption, Rewritten
  <1>1. k \in NoNext..MaxWait /\ (c.trigger = "time" => k # NoNext) /\ (c.trigger = "event" => k = NoNext)
    BY DEF NextOf, NoNext, ScheduleRow
  <1>2. y \in ScheduleRow /\ y.trigger = x.trigger /\ y.exists = x.exists /\ (y.next = x.next \/ y.next = k)
    BY <1>1 DEF ScheduleRow
  <1>3. y.next = (IF k = c.next THEN x.next ELSE k)
    BY DEF ScheduleRow
  <1>4. RowSafe(y, n)
    BY <1>1, <1>2, <1>3 DEF RowSafe, CopySafe, ScheduleRow
  <1> QED BY <1>2, <1>4 DEF CopySafe

\* So does a tick.
LEMMA SoonerSafe ==
    ASSUME NEW x \in ScheduleRow, NEW c \in ScheduleRow, NEW n \in Nat
    PROVE  /\ Sooner(x) \in ScheduleRow /\ Sooner(x).exists = x.exists
           /\ RowSafe(x, n) => RowSafe(Sooner(x), n)
           /\ CopySafe(c, x, n) => CopySafe(Sooner(c), Sooner(x), n)
  <1> USE ReportSchedulerAssumption DEF ReportSchedulerAssumption
  <1>1. ASSUME NEW z \in ScheduleRow
        PROVE  /\ Sooner(z) \in ScheduleRow /\ Sooner(z).exists = z.exists /\ Sooner(z).trigger = z.trigger
               /\ (Sooner(z).next = NoNext <=> z.next = NoNext)
    BY DEF Sooner, ScheduleRow, NoNext
  <1>2. /\ Sooner(x).trigger = x.trigger /\ (Sooner(x).next = NoNext <=> x.next = NoNext)
        /\ Sooner(c).trigger = c.trigger /\ (Sooner(c).next = NoNext <=> c.next = NoNext)
    BY <1>1
  <1> QED BY <1>1, <1>2 DEF RowSafe, CopySafe

\* An edit costs a race.
LEMMA EditedSafe ==
    ASSUME NEW x, NEW y, NEW c, NEW n \in Nat, CopySafe(c, x, n)
    PROVE  CopySafe(c, y, n + 1)
  BY DEF CopySafe

\* What a runner is to run is a sequence of schedules.
LEMMA ListsAreSequences ==
    ASSUME NEW S \in SUBSET Schedules, NEW list \in SetToSeqs(S)
    PROVE  list \in Seq(Schedules)
  <1>1. IsFiniteSet(S)
    BY FS_Subset, ReportSchedulerAssumption DEF ReportSchedulerAssumption
  <1>2. Cardinality(S) \in Nat
    BY <1>1, FS_CardinalityType
  <1>3. list \in [1..Cardinality(S) -> Schedules]
    BY DEF SetToSeqs
  <1> QED BY <1>2, <1>3

\* No race has happened at the start.
LEMMA RaceInit == SchedulesInit => RaceInv
  <1> SUFFICES ASSUME SchedulesInit PROVE RaceInv
    OBVIOUS
  <1> USE ReportSchedulerAssumption DEF ReportSchedulerAssumption
  <1>1. RunnersTypeOK
    <2>1. schedule \in [Schedules -> ScheduleRow]
      <3> DEFINE timed == [exists |-> TRUE, active |-> TRUE, trigger |-> "time", next |-> MaxWait]
                 event == [exists |-> TRUE, active |-> TRUE, trigger |-> "event", next |-> NoNext]
      <3>1. MaxWait \in Nat
        OBVIOUS
      <3>2. MaxWait \in NoNext..MaxWait /\ NoNext \in NoNext..MaxWait
        BY <3>1 DEF NoNext
      <3>3. timed \in ScheduleRow /\ event \in ScheduleRow
        BY <3>2 DEF ScheduleRow
      <3>4. schedule \in [Schedules -> {timed, event}]
        BY DEF SchedulesInit
      <3> HIDE DEF timed, event
      <3> QED BY <3>3, <3>4
    <2>2. todo \in [Runners -> Seq(Schedules)] /\ run \in [Runners -> Run \cup {NoRun}]
      BY DEF SchedulesInit
    <2> QED BY <2>1, <2>2 DEF SchedulesInit, RunnersTypeOK
  <1>2. RunsAreOwned /\ \A s \in Schedules : RowSafe(schedule[s], raced[s])
    BY DEF SchedulesInit, RunsAreOwned, RowSafe, NoNext
  <1> QED BY <1>1, <1>2 DEF SchedulesInit, RaceInv

\* Every step keeps what is said of the rows and copies by the races there were.
LEMMA RaceStep == RaceInv /\ (SchedulesNext \/ (\E t \in Tasks : Trigger(t)) \/ RestartSchedules
                              \/ UNCHANGED scheduleVars) => RaceInv'
  <1> SUFFICES ASSUME RaceInv,
                      SchedulesNext \/ (\E t \in Tasks : Trigger(t)) \/ RestartSchedules
                      \/ UNCHANGED scheduleVars
               PROVE  RaceInv'
    OBVIOUS
  <1> USE DEF RunnersTypeOK
  <1>0. CASE UNCHANGED scheduleVars
    BY <1>0 DEF scheduleVars, RaceInv, RunsAreOwned
  \* Only the lists change.
  <1>1. ASSUME UNCHANGED <<schedule, kept, run, raced>>, todo' \in [Runners -> Seq(Schedules)]
        PROVE  RaceInv'
    BY <1>1 DEF RaceInv, RunsAreOwned
  <1>2. CASE FindDue
    <2>1. PICK list \in SetToSeqs({s \in Schedules : Due(s)}) : todo' = [todo EXCEPT ![Periodic] = list]
      BY <1>2 DEF FindDue
    <2>2. list \in Seq(Schedules)
      BY ListsAreSequences
    <2> QED BY <1>1, <1>2, <2>1, <2>2 DEF FindDue, RaceInv
  <1>3. ASSUME NEW t \in Tasks, Trigger(t) PROVE RaceInv'
    <2>1. PICK list \in SetToSeqs({s \in Schedules : Matches(s)}) : todo' = [todo EXCEPT ![t] = list]
      BY <1>3 DEF Trigger
    <2>2. list \in Seq(Schedules)
      BY ListsAreSequences
    <2> QED BY <1>1, <1>3, <2>1, <2>2 DEF Trigger, RaceInv
  <1>4. CASE RestartSchedules
    BY <1>4 DEF RestartSchedules, RaceInv, RunsAreOwned
  <1>5. ASSUME NEW r \in Runners, StartRun(r) PROVE RaceInv'
    <2> DEFINE s == Head(todo[r])
    <2>1. s \in Schedules /\ todo' \in [Runners -> Seq(Schedules)]
      <3>1. todo[r] \in Seq(Schedules) /\ todo[r] # <<>>
        BY <1>5 DEF StartRun, RaceInv
      <3>2. Head(todo[r]) \in Schedules /\ Tail(todo[r]) \in Seq(Schedules)
        BY <3>1
      <3> QED BY <1>5, <3>2 DEF StartRun, RaceInv
    <2>2. CASE ~schedule[s].exists
      BY <1>1, <1>5, <2>1, <2>2 DEF StartRun
    <2>3. CASE schedule[s].exists
      <3> DEFINE new == [of |-> s, copy |-> schedule[s]]
      <3>1. new \in Run
        BY <2>1 DEF Run, RaceInv
      <3>2. run' = [run EXCEPT ![r] = new]
        BY <1>5, <2>3 DEF StartRun
      <3>3. CopySafe(schedule[s], schedule[s], raced[s])
        BY <2>1, <2>3 DEF RaceInv, RowSafe, CopySafe
      <3>4. ASSUME NEW q \in Runners, run'[q] # NoRun
            PROVE  run'[q] \in Run /\ CopySafe(run'[q].copy, schedule[run'[q].of], raced[run'[q].of])
        <4>1. CASE q = r
          <5>1. run'[q] = new /\ new.of = s /\ new.copy = schedule[s]
            BY <3>2, <4>1 DEF RaceInv
          <5> QED BY <3>1, <3>3, <5>1
        <4>2. CASE q # r
          BY <3>2, <3>4, <4>2 DEF RaceInv
        <4> QED BY <4>1, <4>2
      <3>5. run' \in [Runners -> Run \cup {NoRun}]
        BY <3>1, <3>2 DEF RaceInv
      <3>6. UNCHANGED <<schedule, kept, raced>>
        BY <1>5 DEF StartRun
      <3> QED BY <2>1, <3>4, <3>5, <3>6 DEF RaceInv, RunsAreOwned
    <2> QED BY <2>2, <2>3
  <1>6. ASSUME NEW r \in Runners, FinishRun(r) PROVE RaceInv'
    <2> DEFINE s == run[r].of
               c == run[r].copy
    <2>1. run[r] # NoRun /\ s \in Schedules /\ c \in ScheduleRow /\ schedule[s] \in ScheduleRow /\ schedule[s].exists
          /\ raced[s] \in Nat /\ RowSafe(schedule[s], raced[s]) /\ CopySafe(c, schedule[s], raced[s])
      BY <1>6 DEF FinishRun, RaceInv, Run
    <2>2. PICK k \in NextOf(c.trigger) : schedule' = [schedule EXCEPT ![s] = Rewritten(schedule[s], c, k)]
      BY <1>6 DEF FinishRun, Written, Rewritten
    <2> DEFINE y == Rewritten(schedule[s], c, k)
    <2>3. /\ y \in ScheduleRow /\ RowSafe(y, raced[s]) /\ y.exists = schedule[s].exists
          /\ \A d \in ScheduleRow : CopySafe(d, schedule[s], raced[s]) => CopySafe(d, y, raced[s])
      BY <2>1, WrittenSafe
    <2>4. run' = [run EXCEPT ![r] = NoRun] /\ UNCHANGED <<todo, raced>>
      BY <1>6 DEF FinishRun
    <2>5. kept' = [kept EXCEPT ![s] = IF @ = Keep THEN Keep ELSE @ + 1]
      BY <1>6 DEF FinishRun
    <2>6. schedule' = [schedule EXCEPT ![s] = y]
      BY <2>2
    <2>7. RunnersTypeOK'
      <3>1. kept' \in [Schedules -> Nat]
        <4>1. Keep \in Nat
          BY ReportSchedulerAssumption DEF ReportSchedulerAssumption
        <4> QED BY <2>1, <2>5, <4>1 DEF RaceInv
      <3> QED BY <2>3, <2>4, <2>6, <3>1 DEF RaceInv
    <2>8. RunsAreOwned'
      BY <2>1, <2>3, <2>5, <2>6 DEF RaceInv, RunsAreOwned
    <2>9. \A q \in Schedules : RowSafe(schedule'[q], raced'[q])
      BY <2>1, <2>3, <2>4, <2>6 DEF RaceInv
    <2>10. ASSUME NEW q \in Runners, run'[q] # NoRun
           PROVE  run'[q] \in Run /\ CopySafe(run'[q].copy, schedule'[run'[q].of], raced'[run'[q].of])
      <3>1. q # r /\ run'[q] = run[q]
        BY <2>4, <2>10 DEF RaceInv
      <3>2. run[q] \in Run /\ CopySafe(run[q].copy, schedule[run[q].of], raced[run[q].of])
        BY <2>10, <3>1 DEF RaceInv
      <3>3. run[q].copy \in ScheduleRow /\ run[q].of \in Schedules
        BY <3>2 DEF Run
      <3>4. CASE run[q].of = s
        BY <2>1, <2>3, <2>4, <2>6, <3>1, <3>2, <3>3, <3>4 DEF RaceInv
      <3>5. CASE run[q].of # s
        BY <2>4, <2>6, <3>1, <3>2, <3>3, <3>5 DEF RaceInv
      <3> QED BY <3>4, <3>5
    <2> QED BY <2>7, <2>8, <2>9, <2>10 DEF RaceInv
  <1>7. ASSUME NEW r \in Runners, FailRun(r) PROVE RaceInv'
    <2>1. todo' = [todo EXCEPT ![r] = <<>>] /\ run' = [run EXCEPT ![r] = NoRun]
          /\ UNCHANGED <<schedule, kept, raced>>
      BY <1>7 DEF FailRun
    <2>2. RunnersTypeOK' /\ RunsAreOwned'
      <3>1. <<>> \in Seq(Schedules)
        OBVIOUS
      <3>2. todo' \in [Runners -> Seq(Schedules)] /\ run' \in [Runners -> Run \cup {NoRun}]
        BY <2>1, <3>1 DEF RaceInv
      <3>3. RunsAreOwned'
        BY <2>1 DEF RaceInv, RunsAreOwned
      <3>4. UNCHANGED <<schedule, kept, raced>>
        BY <2>1
      <3>5. schedule \in [Schedules -> ScheduleRow] /\ kept \in [Schedules -> Nat] /\ raced \in [Schedules -> Nat]
        BY DEF RaceInv
      <3>6. RunnersTypeOK'
        BY <3>2, <3>4, <3>5
      <3> QED BY <3>3, <3>6
    <2>3. \A q \in Runners : run'[q] = run[q] \/ run'[q] = NoRun
      BY <2>1 DEF RaceInv
    <2> QED BY <2>1, <2>2, <2>3 DEF RaceInv
  \* An edit: the copies that runs hold of the schedule differ by one race more.
  <1>8. ASSUME NEW s \in Schedules, NEW y \in ScheduleRow, Edit(s, y), RowSafe(y, raced[s]),
               (y.exists /\ kept' = kept) \/ kept' = [kept EXCEPT ![s] = 0]
        PROVE  RaceInv'
    <2>1. schedule' = [schedule EXCEPT ![s] = y] /\ UNCHANGED <<todo, run>>
      BY <1>8 DEF Edit
    <2>2. raced' = [raced EXCEPT ![s] = IF \E r \in Runners : run[r].of = s THEN @ + 1 ELSE @]
      BY <1>8 DEF Edit
    <2>3. raced' \in [Schedules -> Nat] /\ raced'[s] >= raced[s] /\ raced[s] \in Nat /\ raced'[s] \in Nat
      BY <2>2 DEF RaceInv
    <2>4. RunnersTypeOK' /\ RunsAreOwned'
      <3>1. kept' \in [Schedules -> Nat]
        BY <1>8 DEF RaceInv
      <3>2. schedule' \in [Schedules -> ScheduleRow]
        BY <1>8, <2>1 DEF RaceInv
      <3>3. todo' \in [Runners -> Seq(Schedules)] /\ run' \in [Runners -> Run \cup {NoRun}]
        BY <2>1 DEF RaceInv
      <3>4. RunsAreOwned'
        BY <1>8, <2>1 DEF RaceInv, RunsAreOwned
      <3> QED BY <2>3, <3>1, <3>2, <3>3, <3>4
    <2>5. \A q \in Schedules : RowSafe(schedule'[q], raced'[q])
      <3>1. RowSafe(y, raced'[s])
        BY <1>8, <2>3 DEF RowSafe
      <3> QED BY <2>1, <2>2, <3>1 DEF RaceInv
    <2>6. ASSUME NEW q \in Runners, run'[q] # NoRun
          PROVE  run'[q] \in Run /\ CopySafe(run'[q].copy, schedule'[run'[q].of], raced'[run'[q].of])
      <3>1. run'[q] = run[q] /\ run[q] \in Run
            /\ CopySafe(run[q].copy, schedule[run[q].of], raced[run[q].of])
        BY <2>1, <2>6 DEF RaceInv
      <3>2. CASE run[q].of = s
        <4>1. raced'[s] = raced[s] + 1 /\ schedule'[s] = y
          BY <2>1, <2>2, <3>2 DEF RaceInv
        <4>2. CopySafe(run[q].copy, y, raced[s] + 1)
          BY <2>3, <3>1, <3>2, EditedSafe
        <4> QED BY <3>1, <3>2, <4>1, <4>2
      <3>3. CASE run[q].of # s
        <4>1. run[q].of \in Schedules
          BY <3>1 DEF Run
        <4> QED BY <2>1, <2>2, <3>1, <3>3, <4>1 DEF RaceInv
      <3> QED BY <3>2, <3>3
    <2> QED BY <2>4, <2>5, <2>6 DEF RaceInv
  <1>9. ASSUME NEW s \in Schedules, Own(s) PROVE RaceInv'
    <2> USE ReportSchedulerAssumption DEF ReportSchedulerAssumption
    <2>0. schedule[s] \in ScheduleRow /\ raced[s] \in Nat /\ RowSafe(schedule[s], raced[s])
      BY DEF RaceInv
    <2>1. CASE ToggleActive(s)
      <3> DEFINE y == [schedule[s] EXCEPT !.active = ~@]
      <3>1. y \in ScheduleRow /\ y.exists = schedule[s].exists /\ y.trigger = schedule[s].trigger
            /\ y.next = schedule[s].next
        BY <2>0 DEF ScheduleRow
      <3>2. Edit(s, y) /\ kept' = kept /\ schedule[s].exists
        BY <2>1 DEF ToggleActive, Edit
      <3>3. RowSafe(y, raced[s])
        BY <2>0, <3>1 DEF RowSafe
      <3> HIDE DEF y
      <3> QED BY <1>8, <3>1, <3>2, <3>3
    <2>2. CASE Delete(s)
      <3> DEFINE y == [schedule[s] EXCEPT !.exists = FALSE]
      <3>1. y \in ScheduleRow /\ y.trigger = schedule[s].trigger /\ y.next = schedule[s].next
        BY <2>0 DEF ScheduleRow
      <3>2. Edit(s, y) /\ kept' = [kept EXCEPT ![s] = 0]
        BY <2>2 DEF Delete
      <3>3. RowSafe(y, raced[s])
        BY <2>0, <3>1 DEF RowSafe
      <3> HIDE DEF y
      <3> QED BY <1>8, <3>1, <3>2, <3>3
    <2>3. ASSUME NEW t \in {"time", "event"}, EditTiming(s, t) PROVE RaceInv'
      <3>1. PICK n \in NextOf(t) : Edit(s, Timed(s, t, n))
        BY <2>3 DEF EditTiming
      <3> DEFINE y == Timed(s, t, n)
      <3>2. n \in NoNext..MaxWait /\ (t = "time" => n # NoNext) /\ (t = "event" => n = NoNext)
        BY DEF NextOf, NoNext
      <3>3. y \in ScheduleRow /\ y.exists = schedule[s].exists /\ y.trigger = t /\ y.next = n
        BY <2>0, <3>2 DEF Timed, ScheduleRow
      <3>4. kept' = kept /\ schedule[s].exists
        BY <2>3, <3>1 DEF EditTiming, Edit
      <3>5. RowSafe(y, raced[s])
        BY <3>2, <3>3 DEF RowSafe
      <3> HIDE DEF y
      <3>6. Edit(s, y)
        BY <3>1 DEF y
      <3> QED BY <1>8, <3>3, <3>4, <3>5, <3>6
    <2> QED BY <1>9, <2>1, <2>2, <2>3 DEF Own
  <1>10. CASE TickSchedules
    <2>1. schedule' = [s \in Schedules |-> Sooner(schedule[s])] /\ UNCHANGED <<kept, todo, raced>>
      BY <1>10 DEF TickSchedules
    <2>2. run' = [r \in Runners |-> IF run[r] = NoRun THEN NoRun ELSE [run[r] EXCEPT !.copy = Sooner(@)]]
      BY <1>10 DEF TickSchedules
    <2>3. \A s \in Schedules : /\ schedule'[s] \in ScheduleRow /\ schedule'[s].exists = schedule[s].exists
                               /\ RowSafe(schedule'[s], raced[s])
      BY <2>1, SoonerSafe DEF RaceInv
    <2>4. ASSUME NEW q \in Runners, run'[q] # NoRun
          PROVE  run'[q] \in Run /\ CopySafe(run'[q].copy, schedule'[run'[q].of], raced'[run'[q].of])
      <3>1. run[q] # NoRun /\ run'[q] = [run[q] EXCEPT !.copy = Sooner(@)]
        BY <2>2, <2>4
      <3>2. run[q] \in Run /\ run[q].of \in Schedules /\ run[q].copy \in ScheduleRow
            /\ CopySafe(run[q].copy, schedule[run[q].of], raced[run[q].of])
        BY <3>1 DEF RaceInv, Run
      <3>3. Sooner(run[q].copy) \in ScheduleRow
            /\ CopySafe(Sooner(run[q].copy), Sooner(schedule[run[q].of]), raced[run[q].of])
        BY <3>2, SoonerSafe DEF RaceInv
      <3>4. run'[q] \in Run /\ run'[q].of = run[q].of /\ run'[q].copy = Sooner(run[q].copy)
        BY <3>1, <3>2, <3>3 DEF Run
      <3> QED BY <2>1, <3>2, <3>3, <3>4
    <2>5. run' \in [Runners -> Run \cup {NoRun}]
      BY <2>2, <2>4
    <2>6. RunnersTypeOK' /\ RunsAreOwned'
      BY <2>1, <2>3, <2>5 DEF RaceInv, RunsAreOwned
    <2> QED BY <2>1, <2>3, <2>4, <2>6 DEF RaceInv
  <1> QED
    BY <1>0, <1>2, <1>3, <1>4, <1>5, <1>6, <1>7, <1>9, <1>10 DEF SchedulesNext, Advance

\* Only two edits that were stored during runs can leave a schedule by time
\* without its next run, and no run is stored of a deleted schedule, for any
\* number of schedules, triggered tasks and requests (core/schedule_runner.py).
THEOREM RacesAreBounded == ServerSpec => [](OneRaceIsHarmless /\ RunsAreOwned)
  <1>1. ServerInit => RaceInv
    BY RaceInit DEF ServerInit
  <1>2. [ServerNext]_serverVars => SchedulesNext \/ (\E t \in Tasks : Trigger(t)) \/ RestartSchedules
                                   \/ UNCHANGED scheduleVars
    BY DEF ServerNext, RouteStep, ScheduleStep, TakeTrigger, Restart, serverVars
  <1>3. RaceInv => OneRaceIsHarmless /\ RunsAreOwned
    <2> SUFFICES ASSUME RaceInv, NEW s \in Schedules, schedule[s].exists, schedule[s].trigger = "time",
                        raced[s] < 2
                 PROVE  schedule[s].next # NoNext
      BY DEF RaceInv, OneRaceIsHarmless
    <2> QED BY DEF RaceInv, RunnersTypeOK, RowSafe
  <1> QED
    BY <1>1, <1>2, <1>3, RaceStep, PTL DEF ServerSpec

-----------------------------------------------------------------------------
(* No completion is reported twice *)

\* A task will still run, or is running, a schedule.
Listed(t, s) == \E i \in 1..Len(todo[t]) : todo[t][i] = s
Runs(t, s) == run[t] # NoRun /\ run[t].of = s
Waiting(s) == {t \in Tasks : Listed(t, s) \/ Runs(t, s)}

OnceTypeOK ==
    /\ RunnersTypeOK /\ stored \in [Schedules -> Nat] /\ toTrigger \in Nat /\ completions \in Nat
\* A task has each schedule at most once.
EachOnce ==
    \A t \in Tasks :
        /\ \A i, j \in 1..Len(todo[t]) : todo[t][i] = todo[t][j] => i = j
        /\ \A s \in Schedules : ~(Runs(t, s) /\ Listed(t, s))
OnceInv ==
    /\ OnceTypeOK /\ EachOnce
    /\ \A s \in Schedules : stored[s] + Cardinality(Waiting(s)) + toTrigger <= completions

\* Finitely many tasks wait.
LEMMA WaitingIsFinite ==
    ASSUME NEW s
    PROVE  IsFiniteSet(Waiting(s)) /\ Cardinality(Waiting(s)) \in Nat
  <1>1. IsFiniteSet(Waiting(s))
    BY FS_Subset, ReportSchedulerAssumption DEF ReportSchedulerAssumption, Waiting
  <1> QED BY <1>1, FS_CardinalityType

\* Nothing is added to what the tasks have, stored apart.
LEMMA FewerWait ==
    ASSUME OnceInv, NEW s \in Schedules, Waiting(s)' \subseteq Waiting(s)
    PROVE  Cardinality(Waiting(s)') \in Nat /\ Cardinality(Waiting(s)') <= Cardinality(Waiting(s))
  <1>1. IsFiniteSet(Waiting(s)) /\ Cardinality(Waiting(s)) \in Nat
    BY WaitingIsFinite
  <1>2. IsFiniteSet(Waiting(s)') /\ Cardinality(Waiting(s)') <= Cardinality(Waiting(s))
    BY <1>1, FS_Subset
  <1> QED BY <1>2, FS_CardinalityType

\* The arithmetic of the account: less waits, and no fewer completions are left.
LEMMA Budget ==
    ASSUME NEW a \in Nat, NEW w \in Nat, NEW n \in Nat, NEW c \in Nat, a + w + n <= c,
           NEW v \in Nat, NEW m \in Nat, NEW d \in Nat, v <= w, d - m >= c - n
    PROVE  a + v + m <= d
  OBVIOUS

\* A completion counts on both sides.
LEMMA CountedBoth ==
    ASSUME NEW c \in Nat, NEW n \in Nat, NEW m \in Nat, m >= n
    PROVE  c + (m - n) \in Nat /\ (c + (m - n)) - m >= c - n
  OBVIOUS

\* The account is kept by a step after which no more tasks wait for a schedule.
LEMMA FewerKeepOnce ==
    ASSUME OnceInv, OnceTypeOK', EachOnce', UNCHANGED stored,
           completions' - toTrigger' >= completions - toTrigger,
           \A s \in Schedules : Waiting(s)' \subseteq Waiting(s)
    PROVE  OnceInv'
  <1>1. ASSUME NEW s \in Schedules PROVE stored'[s] + Cardinality(Waiting(s)') + toTrigger' <= completions'
    <2>1. Cardinality(Waiting(s)') \in Nat /\ Cardinality(Waiting(s)') <= Cardinality(Waiting(s))
      BY FewerWait
    <2>2. Cardinality(Waiting(s)) \in Nat /\ stored[s] \in Nat /\ toTrigger \in Nat /\ completions \in Nat
          /\ toTrigger' \in Nat /\ completions' \in Nat
      BY WaitingIsFinite DEF OnceInv, OnceTypeOK
    <2>3. stored[s] + Cardinality(Waiting(s)) + toTrigger <= completions
      BY DEF OnceInv
    <2>4. stored'[s] = stored[s]
      OBVIOUS
    <2>5. completions' - toTrigger' >= completions - toTrigger
      OBVIOUS
    <2> QED BY <2>1, <2>2, <2>3, <2>4, <2>5, Budget
  <1> QED BY <1>1 DEF OnceInv

\* The tasks have what they had, or less.
LEMMA OnceKept ==
    ASSUME OnceInv, OnceTypeOK', UNCHANGED stored,
           completions' - toTrigger' >= completions - toTrigger,
           \A t \in Tasks : /\ todo'[t] = todo[t] \/ todo'[t] = <<>>
                            /\ run'[t] # NoRun => run[t] # NoRun /\ run'[t].of = run[t].of
    PROVE  OnceInv'
  <1>1. \A t \in Tasks, s \in Schedules : (Listed(t, s)' => Listed(t, s)) /\ (Runs(t, s)' => Runs(t, s))
    BY DEF Listed, Runs
  <1>2. EachOnce'
    <2>1. ASSUME NEW t \in Tasks
          PROVE  \A i, j \in 1..Len(todo'[t]) : todo'[t][i] = todo'[t][j] => i = j
      BY DEF OnceInv, EachOnce
    <2>2. ASSUME NEW t \in Tasks, NEW s \in Schedules PROVE ~(Runs(t, s)' /\ Listed(t, s)')
      BY <1>1 DEF OnceInv, EachOnce
    <2> QED BY <2>1, <2>2 DEF EachOnce
  <1>3. \A s \in Schedules : Waiting(s)' \subseteq Waiting(s)
    BY <1>1 DEF Waiting
  <1> QED BY <1>2, <1>3, FewerKeepOnce

\* The start of a run takes the schedule from the list of its task.
LEMMA OnceStart ==
    ASSUME OnceInv, RunnersTypeOK', NEW r \in Tasks, StartRun(r), UNCHANGED <<completions, toTrigger>>
    PROVE  OnceInv'
  <1>1. OnceTypeOK' /\ UNCHANGED stored
    BY DEF StartRun, OnceInv, OnceTypeOK
  <1>2. todo[r] \in Seq(Schedules) /\ todo[r] # <<>> /\ r \in Runners /\ run[r] = NoRun
    BY DEF StartRun, OnceInv, OnceTypeOK, RunnersTypeOK, Runners
  <1>3. /\ Len(todo[r]) \in Nat \ {0} /\ Head(todo[r]) = todo[r][1]
        /\ Len(Tail(todo[r])) = Len(todo[r]) - 1
        /\ \A i \in 1..Len(Tail(todo[r])) : Tail(todo[r])[i] = todo[r][i + 1]
    BY <1>2
  <1>4. todo' = [todo EXCEPT ![r] = Tail(@)] /\ todo'[r] = Tail(todo[r])
    BY <1>2 DEF StartRun, OnceInv, OnceTypeOK, RunnersTypeOK
  <1>5. \A t \in Tasks : t # r => todo'[t] = todo[t] /\ run'[t] = run[t]
    BY <1>4 DEF StartRun, OnceInv, OnceTypeOK, RunnersTypeOK, Runners
  <1>6. run'[r] = NoRun \/ run'[r].of = Head(todo[r])
    BY <1>2 DEF StartRun, OnceInv, OnceTypeOK, RunnersTypeOK
  <1>7. \A s \in Schedules : (Listed(r, s)' => Listed(r, s)) /\ (Runs(r, s)' => Listed(r, s))
    <2>1. \A i \in 1..Len(Tail(todo[r])) : i + 1 \in 1..Len(todo[r])
      BY <1>3
    <2>2. \A s \in Schedules : Listed(r, s)' => Listed(r, s)
      BY <1>3, <1>4, <2>1 DEF Listed
    <2>3. 1 \in 1..Len(todo[r])
      BY <1>3
    <2>4. \A s \in Schedules : Runs(r, s)' => Listed(r, s)
      BY <1>3, <1>6, <2>3 DEF Listed, Runs
    <2> QED BY <2>2, <2>4
  <1>8. EachOnce'
    <2>1. ASSUME NEW t \in Tasks
          PROVE  \A i, j \in 1..Len(todo'[t]) : todo'[t][i] = todo'[t][j] => i = j
      BY <1>3, <1>4, <1>5 DEF OnceInv, EachOnce
    <2>2. ASSUME NEW s \in Schedules, Runs(r, s)', Listed(r, s)' PROVE FALSE
      <3>1. PICK i \in 1..Len(Tail(todo[r])) : Tail(todo[r])[i] = s
        BY <1>4, <2>2 DEF Listed
      <3>2. todo[r][i + 1] = s /\ todo[r][1] = s /\ i + 1 \in 1..Len(todo[r]) /\ 1 \in 1..Len(todo[r])
        BY <1>3, <1>6, <2>2, <3>1 DEF Runs
      <3>3. i + 1 = 1
        BY <3>2 DEF OnceInv, EachOnce
      <3> QED BY <3>1, <3>3
    <2>3. ASSUME NEW t \in Tasks, t # r, NEW s \in Schedules PROVE ~(Runs(t, s)' /\ Listed(t, s)')
      BY <1>5, <2>3 DEF OnceInv, EachOnce, Listed, Runs
    <2> QED BY <2>1, <2>2, <2>3 DEF EachOnce
  <1>9. ASSUME NEW s \in Schedules, NEW t \in Waiting(s)' PROVE t \in Waiting(s)
    <2>1. CASE t = r BY <1>7, <2>1 DEF Waiting
    <2>2. CASE t # r BY <1>5, <2>2 DEF Waiting, Listed, Runs
    <2> QED BY <2>1, <2>2
  <1>10. completions' - toTrigger' >= completions - toTrigger
    BY DEF OnceInv, OnceTypeOK
  <1> QED BY <1>1, <1>8, <1>9, <1>10, FewerKeepOnce

\* The end of a run moves it from the waiting ones to the stored.
LEMMA OnceFinish ==
    ASSUME OnceInv, RunnersTypeOK', NEW r \in Tasks, FinishRun(r), run[r] \in Run,
           UNCHANGED <<completions, toTrigger>>
    PROVE  OnceInv'
  <1> DEFINE f == run[r].of
  <1>1. f \in Schedules /\ r # Periodic /\ r \in Runners
    BY ReportSchedulerAssumption DEF Run, ReportSchedulerAssumption, Runners
  <1>2. stored' = [stored EXCEPT ![f] = @ + 1] /\ run' = [run EXCEPT ![r] = NoRun] /\ todo' = todo
        /\ run[r] # NoRun
    BY <1>1 DEF FinishRun
  <1>3. OnceTypeOK'
    BY <1>1, <1>2 DEF OnceInv, OnceTypeOK
  <1>4. run'[r] = NoRun /\ \A t \in Tasks : t # r => run'[t] = run[t]
    BY <1>1, <1>2 DEF OnceInv, OnceTypeOK, RunnersTypeOK, Runners
  <1>5. \A t \in Tasks, s \in Schedules : (Listed(t, s)' <=> Listed(t, s)) /\ (Runs(t, s)' => Runs(t, s))
    BY <1>2, <1>4 DEF Listed, Runs
  <1>6. EachOnce'
    BY <1>2, <1>5 DEF OnceInv, EachOnce
  <1>7. ASSUME NEW s \in Schedules, s = f PROVE r \in Waiting(s) /\ r \notin Waiting(s)'
    <2>1. Runs(r, s) /\ ~Runs(r, s)'
      BY <1>2, <1>4, <1>7 DEF Runs
    <2>2. ~Listed(r, s)
      BY <2>1 DEF OnceInv, EachOnce
    <2> QED BY <1>5, <2>1, <2>2 DEF Waiting
  <1>8. \A s \in Schedules : Waiting(s)' \subseteq Waiting(s)
    BY <1>5 DEF Waiting
  <1>9. ASSUME NEW s \in Schedules PROVE stored'[s] + Cardinality(Waiting(s)') + toTrigger' <= completions'
    <2>1. /\ Cardinality(Waiting(s)') \in Nat /\ Cardinality(Waiting(s)') <= Cardinality(Waiting(s))
          /\ Cardinality(Waiting(s)) \in Nat /\ stored[s] \in Nat /\ toTrigger \in Nat /\ completions \in Nat
          /\ stored[s] + Cardinality(Waiting(s)) + toTrigger <= completions
      BY <1>8, FewerWait, WaitingIsFinite DEF OnceInv, OnceTypeOK
    <2>2. CASE s # f
      <3>1. stored'[s] = stored[s]
        BY <1>2, <2>2 DEF OnceInv, OnceTypeOK
      <3> QED BY <2>1, <3>1
    <2>3. CASE s = f
      <3>1. Waiting(s)' \subseteq Waiting(s) \ {r}
        BY <1>7, <1>8, <2>3
      <3>2. IsFiniteSet(Waiting(s) \ {r}) /\ Cardinality(Waiting(s) \ {r}) = Cardinality(Waiting(s)) - 1
        BY <1>7, <2>3, WaitingIsFinite, FS_RemoveElement
      <3>3. Cardinality(Waiting(s)') <= Cardinality(Waiting(s)) - 1
        BY <3>1, <3>2, FS_Subset
      <3>4. stored'[s] = stored[s] + 1
        BY <1>2, <2>3 DEF OnceInv, OnceTypeOK
      <3> QED BY <2>1, <3>3, <3>4
    <2> QED BY <2>2, <2>3
  <1> QED BY <1>3, <1>6, <1>9 DEF OnceInv

\* A task that begins takes a completion and waits for each schedule once.
LEMMA OnceTake ==
    ASSUME OnceInv, RunnersTypeOK', NEW r \in Tasks, TakeTrigger(r)
    PROVE  OnceInv'
  <1>1. toTrigger' = toTrigger - 1 /\ toTrigger > 0 /\ UNCHANGED <<completions, stored, run>>
        /\ todo[r] = <<>> /\ run[r] = NoRun /\ r \in Runners
    BY DEF TakeTrigger, Trigger, IdleRunner, Runners
  <1>2. OnceTypeOK'
    BY <1>1 DEF OnceInv, OnceTypeOK
  <1>3. PICK list \in SetToSeqs({s \in Schedules : Matches(s)}) : todo' = [todo EXCEPT ![r] = list]
    BY DEF TakeTrigger, Trigger
  <1>4. todo'[r] = list /\ \A t \in Tasks : t # r => todo'[t] = todo[t]
    BY <1>1, <1>3 DEF OnceInv, OnceTypeOK, RunnersTypeOK, Runners
  <1>5. \A i, j \in 1..Len(list) : list[i] = list[j] => i = j
    <2> DEFINE S == {s \in Schedules : Matches(s)}
    <2>1. IsFiniteSet(S)
      BY FS_Subset, ReportSchedulerAssumption DEF ReportSchedulerAssumption
    <2>2. Cardinality(S) \in Nat
      BY <2>1, FS_CardinalityType
    <2>3. list \in [1..Cardinality(S) -> S] /\ \A i, j \in 1..Cardinality(S) : i # j => list[i] # list[j]
      BY <1>3 DEF SetToSeqs
    <2> HIDE DEF S
    <2>4. Len(list) = Cardinality(S)
      BY <2>2, <2>3
    <2> QED BY <2>3, <2>4
  <1>6. EachOnce'
    <2>1. ASSUME NEW t \in Tasks
          PROVE  \A i, j \in 1..Len(todo'[t]) : todo'[t][i] = todo'[t][j] => i = j
      BY <1>4, <1>5 DEF OnceInv, EachOnce
    <2>2. ASSUME NEW t \in Tasks, NEW s \in Schedules PROVE ~(Runs(t, s)' /\ Listed(t, s)')
      BY <1>1, <1>4 DEF OnceInv, EachOnce, Runs, Listed
    <2> QED BY <2>1, <2>2 DEF EachOnce
  <1>7. ASSUME NEW s \in Schedules PROVE stored'[s] + Cardinality(Waiting(s)') + toTrigger' <= completions'
    <2>1. Waiting(s)' \subseteq Waiting(s) \cup {r}
      BY <1>1, <1>4 DEF Waiting, Listed, Runs
    <2>2. IsFiniteSet(Waiting(s)) /\ Cardinality(Waiting(s)) \in Nat
      BY WaitingIsFinite
    <2>3. IsFiniteSet(Waiting(s) \cup {r}) /\ Cardinality(Waiting(s) \cup {r}) <= Cardinality(Waiting(s)) + 1
      <3>1. IsFiniteSet(Waiting(s) \cup {r})
            /\ Cardinality(Waiting(s) \cup {r})
                 = IF r \in Waiting(s) THEN Cardinality(Waiting(s)) ELSE Cardinality(Waiting(s)) + 1
        BY <2>2, FS_AddElement
      <3> QED BY <2>2, <3>1
    <2>4. IsFiniteSet(Waiting(s)') /\ Cardinality(Waiting(s)') <= Cardinality(Waiting(s) \cup {r})
      BY <2>1, <2>3, FS_Subset
    <2>5. Cardinality(Waiting(s)') \in Nat /\ Cardinality(Waiting(s) \cup {r}) \in Nat
      BY <2>3, <2>4, FS_CardinalityType
    <2>6. /\ stored[s] \in Nat /\ toTrigger \in Nat /\ completions \in Nat
          /\ stored[s] + Cardinality(Waiting(s)) + toTrigger <= completions
      BY DEF OnceInv, OnceTypeOK
    <2>7. stored'[s] = stored[s] /\ completions' = completions /\ toTrigger' = toTrigger - 1
      BY <1>1
    <2>8. Cardinality(Waiting(s)') <= Cardinality(Waiting(s)) + 1
      BY <2>2, <2>3, <2>4, <2>5
    <2> QED BY <2>2, <2>5, <2>6, <2>7, <2>8
  <1> QED BY <1>2, <1>6, <1>7 DEF OnceInv

\* A position adds as many tasks as it stores completions.
LEMMA TriggersAreCompletions ==
    ASSUME toTrigger \in Nat, RouteProgressNext
    PROVE  toTrigger' \in Nat /\ toTrigger' >= toTrigger
  <1>1. CASE CommitProgress
    BY <1>1 DEF CommitProgress
  <1>2. CASE toTrigger' = toTrigger
    BY <1>2
  <1>3. \/ CommitProgress \/ toTrigger' = toTrigger
    <2>1. \A r : Ask(r) => toTrigger' = toTrigger
      BY DEF Ask
    <2>2. Operate => toTrigger' = toTrigger
      BY <2>1 DEF Operate, AskStatus, AskStop, AskStops, WriteRequest, WriteStatus, WriteStop,
                  WriteStops, DeleteRoute
    <2>3. Process => CommitProgress \/ toTrigger' = toTrigger
      BY DEF Process, LoadRoute, PositionOutside, Arrive, StayAtStop, CompleteStop
    <2>4. Rollback \/ Tick \/ (\E p \in Places : Move(p)) => toTrigger' = toTrigger
      BY DEF Rollback, Tick, Move
    <2> QED BY <2>2, <2>3, <2>4 DEF RouteProgressNext
  <1> QED BY <1>1, <1>2, <1>3

\* Every step keeps the account of completions, lists and runs.
LEMMA OnceStep == RaceInv /\ RaceInv' /\ OnceInv /\ [ServerNext]_serverVars => OnceInv'
  <1> SUFFICES ASSUME RaceInv, RaceInv', OnceInv, [ServerNext]_serverVars PROVE OnceInv'
    OBVIOUS
  <1>0. RunnersTypeOK /\ RunnersTypeOK' /\ toTrigger \in Nat /\ completions \in Nat
        /\ stored \in [Schedules -> Nat]
    BY DEF RaceInv, OnceInv, OnceTypeOK
  <1>1. CASE UNCHANGED serverVars
    <2>1. UNCHANGED <<todo, run, stored, completions, toTrigger>>
      BY <1>1 DEF serverVars, scheduleVars, routeVars
    <2>2. OnceTypeOK'
      BY <1>0, <2>1 DEF OnceTypeOK
    <2>3. completions' - toTrigger' >= completions - toTrigger
      BY <1>0, <2>1
    <2> QED BY <2>1, <2>2, <2>3, OnceKept
  <1>2. CASE RouteStep
    <2>1. UNCHANGED <<todo, run, stored>>
      BY <1>2 DEF RouteStep, scheduleVars
    <2>2. toTrigger' \in Nat /\ toTrigger' >= toTrigger
      BY <1>0, <1>2, TriggersAreCompletions DEF RouteStep
    <2>3. completions' \in Nat /\ completions' - toTrigger' >= completions - toTrigger
      <3>1. completions' = completions + (toTrigger' - toTrigger)
        BY <1>2 DEF RouteStep
      <3> QED BY <1>0, <2>2, <3>1, CountedBoth
    <2>4. OnceTypeOK'
      BY <1>0, <2>1, <2>2, <2>3 DEF OnceTypeOK
    <2> QED BY <2>1, <2>3, <2>4, OnceKept
  <1>3. CASE Restart
    <2>1. toTrigger' = 0 /\ UNCHANGED <<completions, stored>>
          /\ todo' = [r \in Runners |-> <<>>] /\ run' = [r \in Runners |-> NoRun]
      BY <1>3 DEF Restart, RestartRoutes, RestartSchedules
    <2>2. OnceTypeOK'
      BY <1>0, <2>1 DEF OnceTypeOK
    <2>3. completions' - toTrigger' >= completions - toTrigger
      BY <1>0, <2>1
    <2>4. \A t \in Tasks : todo'[t] = <<>> /\ run'[t] = NoRun
      BY <2>1 DEF Runners
    <2> QED BY <2>1, <2>2, <2>3, <2>4, OnceKept
  <1>4. ASSUME NEW t \in Tasks, TakeTrigger(t) PROVE OnceInv'
    BY <1>0, <1>4, OnceTake
  <1>5. CASE ScheduleStep
    <2>0. UNCHANGED <<toTrigger, completions>>
      BY <1>5 DEF ScheduleStep, routeVars
    <2>1. completions' - toTrigger' >= completions - toTrigger
      BY <1>0, <2>0
    <2>2. ASSUME UNCHANGED stored,
                 \A t \in Tasks : /\ todo'[t] = todo[t] \/ todo'[t] = <<>>
                                  /\ run'[t] # NoRun => run[t] # NoRun /\ run'[t].of = run[t].of
          PROVE  OnceInv'
      <3>1. OnceTypeOK'
        BY <1>0, <2>0, <2>2 DEF OnceTypeOK
      <3> QED BY <2>1, <2>2, <3>1, OnceKept
    <2>3. CASE FindDue
      <3>1. UNCHANGED <<stored, run>> /\ \A t \in Tasks : todo'[t] = todo[t]
        BY <1>0, <2>3, ReportSchedulerAssumption DEF FindDue, RunnersTypeOK, Runners, ReportSchedulerAssumption
      <3> QED BY <2>2, <3>1
    <2>4. CASE TickSchedules
      <3>1. UNCHANGED <<stored, todo>>
        BY <2>4 DEF TickSchedules
      <3>2. ASSUME NEW t \in Tasks, run'[t] # NoRun
            PROVE  run[t] # NoRun /\ run'[t].of = run[t].of
        <4>1. t \in Runners
          BY DEF Runners
        <4>2. run[t] # NoRun /\ run'[t] = [run[t] EXCEPT !.copy = Sooner(@)]
          BY <2>4, <3>2, <4>1 DEF TickSchedules
        <4>3. run[t] \in Run
          BY <1>0, <4>1, <4>2 DEF RunnersTypeOK
        <4> QED BY <4>2, <4>3 DEF Run
      <3> QED BY <2>2, <3>1, <3>2
    <2>5. ASSUME NEW r \in Tasks, StartRun(r) PROVE OnceInv'
      BY <1>0, <2>0, <2>5, OnceStart
    <2>6. ASSUME NEW r \in Tasks, FinishRun(r) PROVE OnceInv'
      <3>1. run[r] \in Run
        BY <1>0, <2>6 DEF FinishRun, RunnersTypeOK, Runners
      <3> QED BY <1>0, <2>0, <2>6, <3>1, OnceFinish
    <2>7. CASE StartRun(Periodic) \/ FinishRun(Periodic)
      <3>1. \A t \in Tasks : t # Periodic
        BY ReportSchedulerAssumption DEF ReportSchedulerAssumption
      <3>2. UNCHANGED stored /\ \A t \in Tasks : todo'[t] = todo[t] /\ run'[t] = run[t]
        <4>1. CASE StartRun(Periodic)
          BY <1>0, <3>1, <4>1 DEF StartRun, RunnersTypeOK, Runners
        <4>2. CASE FinishRun(Periodic)
          BY <1>0, <3>1, <4>2 DEF FinishRun, RunnersTypeOK, Runners
        <4> QED BY <2>7, <4>1, <4>2
      <3> QED BY <2>2, <3>2
    <2>8. ASSUME NEW r \in Runners, FailRun(r) PROVE OnceInv'
      <3>1. UNCHANGED stored /\ todo' = [todo EXCEPT ![r] = <<>>] /\ run' = [run EXCEPT ![r] = NoRun]
        BY <2>8 DEF FailRun
      <3>2. \A t \in Tasks : /\ todo'[t] = todo[t] \/ todo'[t] = <<>>
                             /\ run'[t] = run[t] \/ run'[t] = NoRun
        BY <1>0, <3>1 DEF RunnersTypeOK, Runners
      <3> QED BY <2>2, <3>1, <3>2
    <2>9. ASSUME NEW s \in Schedules, Own(s) PROVE OnceInv'
      <3>1. UNCHANGED <<todo, run, stored>>
        BY <2>9 DEF Own, ToggleActive, Delete, EditTiming, Edit
      <3> QED BY <2>2, <3>1
    <2> QED
      BY <1>5, <2>3, <2>4, <2>5, <2>6, <2>7, <2>8, <2>9 DEF ScheduleStep, SchedulesNext, Advance, Runners
  <1> QED
    BY <1>1, <1>2, <1>3, <1>4, <1>5 DEF ServerNext

\* However often the tasks, the edits, the failures and the restarts interleave,
\* no schedule is run for more completions than the route had
\* (services/route_progress.py, core/schedule_runner.py).
THEOREM NothingReportedTwice == ServerSpec => []NoReportTwice
  <1>1. ServerInit => RaceInv /\ OnceInv
    <2> SUFFICES ASSUME ServerInit PROVE RaceInv /\ OnceInv
      OBVIOUS
    <2>1. RaceInv
      BY RaceInit DEF ServerInit
    <2>2. /\ toTrigger = 0 /\ completions = 0 /\ stored = [s \in Schedules |-> 0]
          /\ todo = [r \in Runners |-> <<>>] /\ run = [r \in Runners |-> NoRun]
      BY DEF ServerInit, RouteProgressInit, SchedulesInit
    <2>3. OnceTypeOK
      BY <2>1, <2>2 DEF OnceTypeOK, RaceInv
    <2>4. \A t \in Tasks, s \in Schedules : ~Listed(t, s) /\ ~Runs(t, s)
      BY <2>2 DEF Listed, Runs, Runners
    <2>5. EachOnce
      BY <2>2, <2>4 DEF EachOnce, Runners
    <2>6. ASSUME NEW s \in Schedules PROVE stored[s] + Cardinality(Waiting(s)) + toTrigger <= completions
      <3>1. Waiting(s) = {}
        BY <2>4 DEF Waiting
      <3>2. Cardinality(Waiting(s)) = 0
        BY <3>1, FS_EmptySet
      <3> QED BY <2>2, <3>2
    <2> QED BY <2>1, <2>3, <2>5, <2>6 DEF OnceInv
  <1>2. RaceInv /\ [ServerNext]_serverVars => RaceInv'
    BY RaceStep DEF ServerNext, RouteStep, ScheduleStep, TakeTrigger, Restart, serverVars
  <1>3. OnceInv => NoReportTwice
    <2> SUFFICES ASSUME OnceInv, NEW s \in Schedules PROVE stored[s] <= completions
      BY DEF NoReportTwice
    <2>1. Cardinality(Waiting(s)) \in Nat
      BY WaitingIsFinite
    <2> QED BY <2>1 DEF OnceInv, OnceTypeOK
  <1> QED
    BY <1>1, <1>2, <1>3, OnceStep, PTL DEF ServerSpec

-----------------------------------------------------------------------------
(* Types of the route *)

\* What a position writes into its copy leaves a transaction.
LEMMA SessionTypes ==
    ASSUME NEW v \in InSession, NEW s \in Stops, NEW to \in StopStatus, NEW status \in RouteStatus,
           NEW phase0 \in {"arrived", "written"}
    PROVE  /\ v.copy \in Route /\ v.copy.status \in RouteStatus /\ v.copy.stops \in [Stops -> StopStatus]
           /\ v.stop \in 0..NStops /\ v.phase \in {"loaded", "arrived", "written"}
           /\ [v EXCEPT !.phase = phase0] \in InSession
           /\ [v EXCEPT !.gone = TRUE] \in InSession
           /\ [v EXCEPT !.phase = phase0, !.copy.stops[s] = to] \in InSession
           /\ [v EXCEPT !.phase = phase0, !.copy.stops[s] = to, !.copy.status = status] \in InSession
  BY DEF InSession, Route

\* What is written into a route leaves a route.
LEMMA RouteTypes ==
    ASSUME NEW r \in Route
    PROVE  /\ r.status \in RouteStatus /\ r.stops \in [Stops -> StopStatus]
           /\ \A s, to \in StopStatus : [r EXCEPT !.stops[s] = to] \in Route
           /\ \A status \in RouteStatus : [r EXCEPT !.status = status] \in Route
           /\ \A s, status \in RouteStatus, to \in StopStatus : [r EXCEPT !.stops[s] = to, !.status = status] \in Route
           /\ \A stops \in [Stops -> StopStatus] : [r EXCEPT !.stops = stops] \in Route
  BY DEF Route

\* A set of stops has a first one.
LEMMA FirstStop ==
    ASSUME NEW S \in SUBSET Stops, S # {}
    PROVE  \E s \in S : \A q \in S : s <= q
  <1> USE RouteProgressAssumption DEF RouteProgressAssumption
  <1> DEFINE T == {1..s : s \in S}
  <1>1. IsFiniteSet(Stops)
    BY FS_Interval DEF Stops
  <1>2. /\ IsWellFoundedOn(StrictSubsetOrdering(Stops), FiniteSubsetsOf(Stops))
        /\ FiniteSubsetsOf(Stops) = SUBSET Stops
    BY <1>1, FS_StrictSubsetOrderingWellFounded, FS_FiniteSubsetsOfFinite
  <1>3. T \subseteq SUBSET Stops /\ T # {}
    <2>1. ASSUME NEW s \in S PROVE 1..s \subseteq Stops
      BY DEF Stops
    <2>2. PICK s0 \in S : TRUE
      OBVIOUS
    <2>3. 1..s0 \in T
      OBVIOUS
    <2>4. ASSUME NEW I \in T PROVE I \in SUBSET Stops
      <3>1. PICK s \in S : I = 1..s
        BY <2>4
      <3> QED BY <2>1, <3>1
    <2> HIDE DEF T
    <2> QED BY <2>3, <2>4
  <1>4. PICK I \in T : \A J \in T : ~(<<J, I>> \in StrictSubsetOrdering(Stops))
    <2> HIDE DEF T
    <2> QED BY <1>2, <1>3, WFMin
  <1>5. PICK s \in S : I = 1..s
    OBVIOUS
  <1>6. ASSUME NEW q \in S PROVE s <= q
    <2>1. s \in Nat /\ q \in Nat /\ q >= 1 /\ s >= 1
      BY DEF Stops
    <2>2. SUFFICES ASSUME q < s PROVE FALSE
      BY <2>1
    <2>3. 1..q \in T /\ 1..q \subseteq 1..s /\ 1..q # 1..s
      <3>1. s \in 1..s /\ s \notin 1..q
        BY <2>1, <2>2
      <3> QED BY <2>1, <2>2, <3>1
    <2>4. <<1..q, 1..s>> \in StrictSubsetOrdering(Stops)
      BY <1>3, <1>5, <2>3 DEF StrictSubsetOrdering
    <2> QED BY <1>4, <1>5, <2>3, <2>4
  <1> QED BY <1>6

\* Every step of the route keeps its types, one case per step.
LEMMA RouteTypeStep ==
    ASSUME RouteProgressTypeOK, RouteProgressNext
    PROVE  RouteProgressTypeOK'
  <1> USE RouteProgressAssumption DEF RouteProgressAssumption, RouteProgressTypeOK
  <1>0. /\ Idle = Idle /\ NoDwell \in Dwelling /\ Entered \in Dwelling /\ NoneDwelling \in [Stops -> Dwelling]
        /\ dwell \in [Stops -> Dwelling]
    BY DEF NoDwell, Entered, NoneDwelling, Dwelling
  <1>1. \A s \in Stops \cup {0} : Kept(s) \in [Stops -> Dwelling]
    BY <1>0 DEF Kept, Begun
  <1>2. CASE \E p \in Places : Move(p)
    BY <1>2 DEF Move
  <1>3. CASE Tick
    <2>1. dwell' \in [Stops -> Dwelling]
      BY <1>0, <1>3 DEF Tick, Older, Dwelling
    <2> QED BY <1>3, <2>1 DEF Tick, Dwelling
  <1>4. CASE LoadRoute
    <2>1. PointAtPosition(route, where) \in 0..NStops
      <3>1. OpenAt(route, where) \subseteq Stops
        BY DEF OpenAt
      <3>2. CASE OpenAt(route, where) = {}
        BY <3>2 DEF PointAtPosition
      <3>3. CASE OpenAt(route, where) # {}
        <4>1. \E s \in OpenAt(route, where) : \A q \in OpenAt(route, where) : s <= q
          BY <3>1, <3>3, FirstStop
        <4>2. PointAtPosition(route, where) \in OpenAt(route, where)
          BY <3>3, <4>1 DEF PointAtPosition
        <4> QED BY <3>1, <4>2 DEF Stops
      <3> QED BY <3>2, <3>3
    <2> QED BY <1>4, <2>1 DEF LoadRoute, InSession
  <1>5. CASE PositionOutside
    BY <1>1, <1>5 DEF PositionOutside, Dwelling
  <1>6. ASSUME NEW s \in Stops, Arrive(s) PROVE RouteProgressTypeOK'
    <2>1. dwell' \in [Stops -> Dwelling]
      <3>1. dwell' = [Kept(s) EXCEPT ![s].arrivedSent = TRUE] /\ Kept(s) \in [Stops -> Dwelling]
        BY <1>1, <1>6 DEF Arrive
      <3> QED BY <3>1 DEF Dwelling
    <2>2. session' = Idle \/ session' \in InSession
      <3>1. session \in InSession
        BY <1>6 DEF Arrive
      <3>2. [session EXCEPT !.phase = "arrived", !.copy.stops[s] = "arrived"] \in InSession
        BY <3>1, SessionTypes DEF StopStatus, RouteStatus
      <3> QED BY <1>6, <3>2 DEF Arrive
    <2> QED BY <1>6, <2>1, <2>2 DEF Arrive, Dwelling, Stops
  <1>7. ASSUME NEW s \in Stops, StayAtStop(s) PROVE RouteProgressTypeOK'
    <2>1. session' = Idle \/ session' \in InSession
      <3>1. session \in InSession
        BY <1>7 DEF StayAtStop, AtStop
      <3>2. [session EXCEPT !.phase = "written"] \in InSession
        BY <3>1 DEF InSession
      <3> QED BY <1>7, <3>2 DEF StayAtStop
    <2> QED BY <1>1, <1>7, <2>1 DEF StayAtStop, Dwelling, Stops
  <1>8. ASSUME NEW s \in Stops, CompleteStop(s) PROVE RouteProgressTypeOK'
    <2>1. dwell' \in [Stops -> Dwelling]
      BY <1>0, <1>1, <1>8 DEF CompleteStop
    <2>2. session' = Idle \/ session' \in InSession
      <3>1. session \in InSession
        BY <1>8 DEF CompleteStop, AtStop
      <3> DEFINE status == IF s = NStops THEN "completed" ELSE session.copy.status
      <3>2. status \in RouteStatus
        BY <3>1, SessionTypes DEF RouteStatus, StopStatus
      <3>3. [session EXCEPT !.phase = "written", !.copy.stops[s] = "completed", !.copy.status = status] \in InSession
        <4>1. "completed" \in StopStatus
          BY DEF StopStatus
        <4> HIDE DEF status
        <4> QED BY <3>1, <3>2, <4>1, SessionTypes
      <3> QED BY <1>8, <3>3 DEF CompleteStop
    <2> QED BY <1>8, <2>1, <2>2 DEF CompleteStop, Dwelling, Stops
  <1>9. CASE CommitProgress
    <2>1. session \in InSession
      BY <1>9 DEF CommitProgress
    <2> DEFINE status == IF session.copy.status = "completed" THEN "completed" ELSE route.status
    <2>2. route' = [status |-> status,
                    stops |-> [route.stops EXCEPT ![session.stop] = session.copy.stops[session.stop]]]
      BY <1>9 DEF CommitProgress, Route
    <2>3. session.copy.stops \in [Stops -> StopStatus]
      BY <2>1 DEF InSession, Route
    <2>4. route' \in Route
      BY <2>2, <2>3 DEF Route, RouteStatus
    <2>5. toTrigger' \in Nat
      BY <1>9 DEF CommitProgress
    <2> QED BY <1>9, <2>4, <2>5 DEF CommitProgress
  <1>10. CASE Rollback
    BY <1>10 DEF Rollback
  <1>11. ASSUME NEW r \in Request, Ask(r) PROVE RouteProgressTypeOK'
    BY <1>11 DEF Ask
  <1>12. CASE WriteStatus
    <2>1. request \in Request /\ request.to \in RouteStatus
      BY <1>12 DEF WriteStatus, Request, NoRequest
    <2>2. route' \in Route
      BY <1>12, <2>1 DEF WriteStatus, Route, StopStatus
    <2> QED BY <1>12, <2>2 DEF WriteStatus
  <1>13. CASE WriteStop
    <2>1. request \in Request /\ request.to \in StopStatus
      BY <1>13 DEF WriteStop, Request, NoRequest
    <2>2. route' \in Route
      BY <1>13, <2>1, RouteTypes DEF WriteStop
    <2> QED BY <1>13, <2>2 DEF WriteStop
  <1>14. CASE WriteStops
    <2>1. route' \in Route
      BY <1>14 DEF WriteStops, Route, StopStatus
    <2>2. session' = Idle \/ session' \in InSession
      BY <1>14 DEF WriteStops, InSession
    <2> QED BY <1>0, <1>14, <2>1, <2>2 DEF WriteStops, Dwelling
  <1>15. CASE DeleteRoute
    <2>1. route' \in Route
      BY <1>15 DEF DeleteRoute, Route, RouteStatus
    <2>2. session' = Idle \/ session' \in InSession
      BY <1>15 DEF DeleteRoute, InSession
    <2> QED BY <1>15, <2>1, <2>2 DEF DeleteRoute
  <1>16. CASE Operate
    <2>1. ASSUME NEW to \in RouteStatus \ {"deleted"}, AskStatus(to) PROVE RouteProgressTypeOK'
      <3>1. [kind |-> "status", to |-> to, copy |-> route] \in Request
        BY DEF Request
      <3> QED BY <1>11, <2>1, <3>1 DEF AskStatus
    <2>2. ASSUME NEW s \in Stops, NEW to \in StopStatus, AskStop(s, to) PROVE RouteProgressTypeOK'
      <3>1. [kind |-> "stop", stop |-> s, to |-> to, copy |-> route] \in Request
        BY DEF Request
      <3> QED BY <1>11, <2>2, <3>1 DEF AskStop
    <2>3. CASE AskStops
      <3>1. [kind |-> "stops"] \in Request
        BY DEF Request
      <3> QED BY <1>11, <2>3, <3>1 DEF AskStops
    <2> QED BY <1>12, <1>13, <1>14, <1>15, <1>16, <2>1, <2>2, <2>3 DEF Operate, WriteRequest
  <1> QED
    BY <1>2, <1>3, <1>4, <1>5, <1>6, <1>7, <1>8, <1>9, <1>10, <1>16 DEF RouteProgressNext, Process

-----------------------------------------------------------------------------
(* Types of the schedules, of the route with them, and of the listeners *)

SchedulesLimits == kept \in [Schedules -> 0..Keep] /\ edits \in 0..MaxEdits /\ failures \in 0..MaxFailures

\* Every step keeps the stored runs, the edits and the failures within their bounds.
LEMMA LimitsStep ==
    ASSUME RaceInv, SchedulesLimits,
           SchedulesNext \/ (\E t \in Tasks : Trigger(t)) \/ RestartSchedules \/ UNCHANGED scheduleVars
    PROVE  SchedulesLimits'
  <1> USE ReportSchedulerAssumption DEF ReportSchedulerAssumption, SchedulesLimits
  <1>1. CASE FindDue \/ TickSchedules \/ (\E t \in Tasks : Trigger(t)) \/ RestartSchedules \/ UNCHANGED scheduleVars
    BY <1>1 DEF FindDue, TickSchedules, Trigger, RestartSchedules, scheduleVars
  <1>2. ASSUME NEW r \in Runners, StartRun(r) PROVE SchedulesLimits'
    BY <1>2 DEF StartRun
  <1>3. ASSUME NEW r \in Runners, FinishRun(r) PROVE SchedulesLimits'
    <2>1. kept' = [kept EXCEPT ![run[r].of] = IF @ = Keep THEN Keep ELSE @ + 1] /\ UNCHANGED <<edits, failures>>
      BY <1>3 DEF FinishRun
    <2>2. Keep \in Nat
      OBVIOUS
    <2>3. \A n \in 0..Keep : (IF n = Keep THEN Keep ELSE n + 1) \in 0..Keep
      BY <2>2
    <2> QED BY <2>1, <2>3
  <1>4. ASSUME NEW r \in Runners, FailRun(r) PROVE SchedulesLimits'
    <2>1. failures' = failures \/ (failures < MaxFailures /\ failures' = failures + 1)
      BY <1>4 DEF FailRun
    <2>2. failures' \in 0..MaxFailures
      BY <2>1
    <2> QED BY <1>4, <2>2 DEF FailRun
  <1>5. ASSUME NEW s \in Schedules, NEW y, Edit(s, y), kept' \in {kept, [kept EXCEPT ![s] = 0]}
        PROVE  SchedulesLimits'
    <2>1. edits' \in 0..MaxEdits /\ failures' = failures
      BY <1>5 DEF Edit
    <2>2. kept' \in [Schedules -> 0..Keep]
      BY <1>5
    <2> QED BY <2>1, <2>2
  <1>6. ASSUME NEW s \in Schedules, Own(s) PROVE SchedulesLimits'
    <2>1. CASE ToggleActive(s)
      BY <1>5, <2>1 DEF ToggleActive
    <2>2. CASE Delete(s)
      BY <1>5, <2>2 DEF Delete
    <2>3. CASE \E t \in {"time", "event"} : EditTiming(s, t)
      BY <1>5, <2>3 DEF EditTiming
    <2> QED BY <1>6, <2>1, <2>2, <2>3 DEF Own
  <1> QED BY <1>1, <1>2, <1>3, <1>4, <1>6 DEF SchedulesNext, Advance

SchedulesTypes == RaceInv /\ SchedulesLimits /\ stored \in [Schedules -> Nat]

\* With the bounds the invariant of the races says all of SchedulesTypeOK.
LEMMA SchedulesTyped ==
    ASSUME SchedulesTypes
    PROVE  SchedulesTypeOK
  BY DEF SchedulesTypes, RaceInv, RunnersTypeOK, SchedulesLimits, SchedulesTypeOK

\* What holds in every state of the route with its reports.
ReportsInv ==
    /\ RouteProgressTypeOK /\ StayInv /\ RaceInv /\ OnceInv /\ SchedulesLimits
    /\ restarts \in 0..MaxRestarts

\* Every step of the server keeps it.
LEMMA ReportsStep ==
    ASSUME ReportsInv, [ServerNext]_serverVars
    PROVE  ReportsInv'
  <1> USE DEF ReportsInv
  <1>1. RaceInv' /\ SchedulesLimits'
    BY RaceStep, LimitsStep DEF ServerNext, RouteStep, ScheduleStep, TakeTrigger, Restart, serverVars
  <1>2. OnceInv'
    BY <1>1, OnceStep
  <1>3. StayInv'
    BY StayStep DEF ServerNext, RouteStep, ScheduleStep, TakeTrigger, Restart, RouteMoves, serverVars, routeVars
  <1>4. restarts' \in 0..MaxRestarts
    BY RouteReportsAssumption DEF ServerNext, RouteStep, ScheduleStep, TakeTrigger, Restart, serverVars,
       RouteReportsAssumption
  <1>5. RouteProgressTypeOK'
    <2> USE RouteProgressAssumption DEF RouteProgressAssumption
    <2>1. CASE RouteStep
      BY <2>1, RouteTypeStep DEF RouteStep
    <2>2. CASE ScheduleStep \/ UNCHANGED serverVars
      BY <2>2 DEF ScheduleStep, serverVars, routeVars, RouteProgressTypeOK
    <2>3. CASE \E t \in Tasks : TakeTrigger(t)
      BY <2>3 DEF TakeTrigger, RouteProgressTypeOK
    <2>4. CASE Restart
      <3>1. NoneDwelling \in [Stops -> [age : Int, arrivedSent : BOOLEAN]]
        BY DEF NoneDwelling, NoDwell
      <3> QED BY <2>4, <3>1 DEF Restart, RestartRoutes, RouteProgressTypeOK
    <2> QED BY <2>1, <2>2, <2>3, <2>4 DEF ServerNext
  <1> QED BY <1>1, <1>2, <1>3, <1>4, <1>5

\* It says all that is promised of the route and its reports.
LEMMA ReportsSound ==
    ASSUME ReportsInv
    PROVE  ServerTypeOK /\ DwellIsOneStay /\ OneRaceIsHarmless /\ RunsAreOwned /\ NoReportTwice
  <1> USE DEF ReportsInv
  <1>1. ServerTypeOK
    BY SchedulesTyped DEF SchedulesTypes, OnceInv, OnceTypeOK, ServerTypeOK
  <1>2. DwellIsOneStay /\ RunsAreOwned
    BY DEF StayInv, RaceInv
  <1>3. OneRaceIsHarmless
    BY DEF RaceInv, RunnersTypeOK, RowSafe, OneRaceIsHarmless
  <1>4. ASSUME NEW s \in Schedules PROVE stored[s] <= completions
    <2>1. Cardinality(Waiting(s)) \in Nat
      BY WaitingIsFinite
    <2> QED BY <2>1 DEF OnceInv, OnceTypeOK
  <1> QED BY <1>1, <1>2, <1>3, <1>4 DEF NoReportTwice

-----------------------------------------------------------------------------
ListenerLimits ==
    /\ ended \subseteq Listener /\ connected \subseteq Tcp
    /\ \A s \in Syncs : sync[s].stage \in {"none", "changed", "read", "locked"}
    /\ amiss \subseteq {"older", "raised", "crossed"}
    /\ changes \in 0..MaxChanges /\ bindErrors \in 0..MaxBindErrors
ListenersInv == ForgottenInv /\ RequiredInv /\ ListenerLimits

\* Every step of the listeners keeps their invariant and their bounds.
LEMMA ListenersStep ==
    ASSUME ListenersInv, [ProtocolServersNext]_protocolServersVars
    PROVE  ListenersInv'
  <1> USE ProtocolServersAssumption DEF ProtocolServersAssumption, ListenersInv, serverTasks
  <1>0. ForgottenInv' /\ RequiredInv'
    BY ForgottenStep, RequiredStep
  <1>1. \A q \in Syncs : sync[q].stage \in {"none", "changed", "read", "locked"}
    BY DEF ListenerLimits
  <1>2. running \subseteq Listener /\ DOMAIN sync = Syncs
    BY DEF ForgottenInv, ForgottenTypes
  <1>3. ASSUME NEW s \in Syncs, NEW now \in SUBSET Listener, ChangeDevices(s, now) PROVE ListenerLimits'
    BY <1>1, <1>2, <1>3 DEF ChangeDevices, Changed, ListenerLimits
  <1>4. ASSUME NEW s \in Syncs, ReadRequired(s) \/ TakeLock(s) PROVE ListenerLimits'
    BY <1>1, <1>2, <1>4 DEF ReadRequired, TakeLock, HasRead, HasLock, ListenerLimits
  <1>5. ASSUME NEW s \in Syncs, NEW l \in Listener, StopListener(s, l) PROVE ListenerLimits'
    BY <1>1, <1>2, <1>5 DEF StopListener, HasLock, ListenerLimits
  <1>6. ASSUME NEW s \in Syncs, NEW l \in Listener, StopRaises(s, l) PROVE ListenerLimits'
    BY <1>1, <1>2, <1>6 DEF StopRaises, NoSync, ListenerLimits
  <1>7. ASSUME NEW s \in Syncs, ListenerClosed(s) PROVE ListenerLimits'
    <2>1. sync[s] \in LockRecord
      BY <1>7 DEF ListenerClosed, ForgottenInv, ForgottenTypes
    <2>2. \A q \in Syncs : sync'[q].stage = sync[q].stage
      BY <1>2, <1>7, <2>1 DEF ListenerClosed, LockRecord
    <2> QED BY <1>1, <1>7, <2>2 DEF ListenerClosed, ListenerLimits
  <1>8. ASSUME NEW s \in Syncs, StartMissing(s) PROVE ListenerLimits'
    BY <1>1, <1>2, <1>8 DEF StartMissing, NoSync, ListenerLimits
  <1>9. ASSUME NEW l \in Listener, Bound(l) \/ BindFails(l) \/ LogTaskResult(l) \/ Connect(l) \/ HangUp(l)
        PROVE  ListenerLimits'
    <2>1. UNCHANGED <<sync, amiss, changes>>
      BY <1>9 DEF Bound, BindFails, LogTaskResult, Connect, HangUp
    <2>2. ended' \subseteq Listener
      BY <1>2, <1>9 DEF Bound, BindFails, LogTaskResult, Connect, HangUp, ListenerLimits
    <2>3. connected' \subseteq Tcp
      BY <1>9 DEF Bound, BindFails, LogTaskResult, Connect, HangUp, ListenerLimits
    <2>4. bindErrors' \in 0..MaxBindErrors
      BY <1>9 DEF Bound, BindFails, LogTaskResult, Connect, HangUp, ListenerLimits
    <2> QED BY <2>1, <2>2, <2>3, <2>4 DEF ListenerLimits
  <1>10. CASE UNCHANGED protocolServersVars
    <2>1. UNCHANGED <<ended, connected, sync, amiss, changes, bindErrors>>
      BY <1>10 DEF protocolServersVars
    <2>2. ended' = ended /\ connected' = connected /\ sync' = sync
      BY <2>1
    <2>3. amiss' = amiss /\ changes' = changes /\ bindErrors' = bindErrors
      BY <2>1
    <2> QED BY <1>0, <2>2, <2>3 DEF ListenerLimits
  <1> QED
    BY <1>0, <1>3, <1>4, <1>5, <1>6, <1>7, <1>8, <1>9, <1>10 DEF ProtocolServersNext, SyncStep

\* It says all that is promised of the listeners; one request at most has the lock.
LEMMA ListenersSound ==
    ASSUME ListenersInv
    PROVE  ProtocolServersTypeOK /\ OnlyRequiredRun /\ NoListenerForgotten
  <1> USE DEF ListenersInv, ForgottenInv, RequiredInv
  <1>1. Cardinality(Locked) <= 1
    <2>1. CASE Locked = {}
      BY <2>1, FS_EmptySet
    <2>2. CASE Locked # {}
      <3>1. PICK s \in Locked : TRUE
        BY <2>2
      <3>2. Locked = {s}
        BY <3>1 DEF OneHasLock, Locked
      <3> QED BY <3>2, FS_Singleton
    <2> QED BY <2>1, <2>2
  <1>2. ProtocolServersTypeOK
    <2>1. newest \in 0..reads
      BY DEF ReadTypes
    <2> QED BY <1>1, <2>1 DEF ProtocolServersTypeOK, ListenerLimits, ForgottenTypes
  <1>3. OnlyRequiredRun
    BY DEF ReadTypes, NewestRead, LeftAsWanted, Applied, AllRead, ReadsOf, OnlyRequiredRun, AtRest, NoSync
  <1> QED BY <1>2, <1>3

-----------------------------------------------------------------------------
(* Types of the polling.  A position is stored once between two restarts:  *)
(* only what lies beyond the cursor is, and the cursor moves to it.        *)
AskType == {NoAsk} \cup [kind : {"update"}, new : Credentials] \cup [kind : {"wake"}]
PollTypes ==
    /\ account \in [active : BOOLEAN, credentials : Credentials] /\ valid \in Credentials
    /\ ask \in AskType
    /\ wake \in BOOLEAN /\ due \in BOOLEAN /\ unread \in BOOLEAN /\ authRaced \in BOOLEAN /\ dropped \in BOOLEAN
    /\ pollPhase \in {"starting", "reading", "loading", "authenticating", "fetching", "processing", "asleep"}
    /\ cached \in 0..MaxCredentials /\ cycle.with \in 0..MaxCredentials
    /\ seeded \subseteq Polled /\ asks \in 0..MaxAsks /\ pollRestarts \in 0..MaxPollRestarts
    /\ Cardinality(failed) <= MaxStoreErrors
OncePerLife ==
    \A p \in Polled : times[p] <= IF p <= cursor THEN pollRestarts + 1 ELSE pollRestarts
PollingInv == PollInv /\ PositionsInv /\ PollTypes /\ OncePerLife

\* Every step keeps it, the restart by counting one more.
LEMMA OncePerLifeStep ==
    ASSUME PositionsInv, PollTypes, OncePerLife, [IntegrationEngineNext]_integrationEngineVars
    PROVE  OncePerLife'
  <1> USE DEF pollMemory, pollRows, pollHistory
  <1>0. /\ times \in [Polled -> Nat] /\ cursor \in 0..MaxPosition /\ pollRestarts \in Nat /\ MaxPosition \in Nat
        /\ cycle.batch \in Seq(Polled)
    BY IntegrationEngineAssumption DEF PositionsInv, PositionTypes, PollTypes
  <1>1. ASSUME UNCHANGED <<times, cursor, pollRestarts>> PROVE OncePerLife'
    BY <1>1 DEF OncePerLife
  <1>2. CASE ProcessPosition
    <2> DEFINE p == Head(cycle.batch)
    <2>1. p \in Polled /\ p \in Nat /\ pollRestarts' = pollRestarts
      BY <1>0, <1>2 DEF ProcessPosition, Polled
    <2>2. CASE ~Fresh(p)
      BY <1>1, <1>2, <2>2 DEF ProcessPosition
    <2>3. CASE Fresh(p)
      <3>1. cursor' = p /\ p > cursor /\ (times' = [times EXCEPT ![p] = @ + 1] \/ times' = times)
        BY <1>2, <2>3 DEF ProcessPosition, Fresh
      <3>2. ASSUME NEW q \in Polled
            PROVE  times'[q] <= IF q <= cursor' THEN pollRestarts' + 1 ELSE pollRestarts'
        <4>1. q \in Nat /\ times[q] \in Nat /\ times[q] <= IF q <= cursor THEN pollRestarts + 1 ELSE pollRestarts
          BY <1>0 DEF OncePerLife, Polled
        <4>2. times'[q] = times[q] \/ (q = p /\ times'[q] = times[q] + 1)
          BY <1>0, <2>1, <3>1
        <4> QED BY <1>0, <2>1, <3>1, <4>1, <4>2
      <3> QED BY <3>2 DEF OncePerLife
    <2> QED BY <2>2, <2>3
  <1>3. CASE RestartPolling
    <2>1. times' = times /\ cursor' = 0 /\ pollRestarts' = pollRestarts + 1
      BY <1>3 DEF RestartPolling
    <2>2. ASSUME NEW q \in Polled
          PROVE  times'[q] <= IF q <= cursor' THEN pollRestarts' + 1 ELSE pollRestarts'
      BY <1>0, <2>1 DEF OncePerLife
    <2> QED BY <2>2 DEF OncePerLife
  <1>4. CASE Seed \/ BeginCycle \/ ReadAccounts \/ LoadAccount \/ AccountGone \/ FetchPositions \/ EndCycle
    BY <1>1, <1>4 DEF Seed, BeginCycle, ReadAccounts, LoadAccount, AccountGone, FetchPositions, EndCycle
  <1>5. CASE Authenticated \/ NotAuthenticated \/ FetchFails \/ BecomesDue \/ UpdateCommits
    BY <1>1, <1>5 DEF Authenticated, NotAuthenticated, FetchFails, BecomesDue, UpdateCommits
  <1>6. CASE (\E new \in Credentials : UpdateAccount(new)) \/ DeleteAccount \/ EditDevice \/ WakeEngine
    BY <1>1, <1>6 DEF UpdateAccount, DeleteAccount, EditDevice, WakeEngine
  <1>7. CASE PositionRecorded \/ CredentialsChange \/ UNCHANGED integrationEngineVars
    BY <1>1, <1>7 DEF PositionRecorded, CredentialsChange, integrationEngineVars
  <1> QED
    BY <1>2, <1>3, <1>4, <1>5, <1>6, <1>7 DEF IntegrationEngineNext, PollStep

\* Every step of the polling keeps its types.
LEMMA PollTypeStep ==
    ASSUME PositionsInv, PollTypes, [IntegrationEngineNext]_integrationEngineVars
    PROVE  PollTypes'
  <1> USE IntegrationEngineAssumption, CredentialsAssumption
      DEF PollTypes, pollMemory, pollRows, pollHistory
  <1>0. /\ Credentials \subseteq 0..MaxCredentials /\ Stored \subseteq Polled /\ Newest \subseteq Polled
        /\ cycle = [floor |-> cycle.floor, with |-> cycle.with, batch |-> cycle.batch]
        /\ NoAsk \in AskType /\ Evicted \in 0..MaxCredentials
    <2>1. Credentials \subseteq 0..MaxCredentials /\ Evicted \in 0..MaxCredentials
      BY DEF Credentials, Evicted
    <2>2. Stored \subseteq Polled
      BY DEF Stored
    <2>3. Newest \subseteq Polled
      BY DEF Newest, Stored
    <2>4. cycle = [floor |-> cycle.floor, with |-> cycle.with, batch |-> cycle.batch]
      BY DEF PositionsInv, PositionTypes
    <2>5. NoAsk \in AskType
      BY DEF AskType
    <2>6. QED
      BY <2>1, <2>2, <2>3, <2>4, <2>5
  <1>1. CASE Seed
    BY <1>0, <1>1 DEF Seed
  <1>2. CASE BeginCycle
    <2>1. cycle'.with = 0
      BY <1>2 DEF BeginCycle, NewCycle
    <2>2. wake' \in BOOLEAN /\ pollPhase' = "reading"
      BY <1>2 DEF BeginCycle
    <2>3. UNCHANGED <<account, valid, ask, cached, due, unread, authRaced, seeded, dropped, asks, pollRestarts, failed>>
      BY <1>2 DEF BeginCycle
    <2> QED BY <2>1, <2>2, <2>3
  <1>3. CASE ReadAccounts
    <2>1. cycle'.with = cycle.with
      BY <1>0, <1>3 DEF ReadAccounts
    <2> QED BY <1>3, <2>1 DEF ReadAccounts
  <1>4. CASE LoadAccount
    <2>1. cycle'.with \in 0..MaxCredentials
      BY <1>0, <1>4 DEF LoadAccount
    <2>2. authRaced' \in BOOLEAN
      BY <1>4 DEF LoadAccount
    <2> QED BY <1>4, <2>1, <2>2 DEF LoadAccount
  <1>5. CASE AccountGone \/ EndCycle \/ NotAuthenticated \/ Authenticated \/ BecomesDue
    BY <1>5 DEF AccountGone, EndCycle, NotAuthenticated, Authenticated, BecomesDue
  <1>6. CASE FetchPositions
    <2>1. cycle'.with = cycle.with
      BY <1>0, <1>6 DEF FetchPositions
    <2> QED BY <1>6, <2>1 DEF FetchPositions
  <1>7. CASE FetchFails
    <2>1. cached' \in 0..MaxCredentials
      BY <1>7 DEF FetchFails
    <2> QED BY <1>7, <2>1 DEF FetchFails
  <1>8. CASE ProcessPosition
    <2>1. cycle'.with = cycle.with
      BY <1>0, <1>8 DEF ProcessPosition
    <2>2. Cardinality(failed') <= MaxStoreErrors
      BY <1>8 DEF ProcessPosition
    <2>3. due' \in BOOLEAN
      BY <1>8 DEF ProcessPosition
    <2>4. UNCHANGED <<account, valid, ask, wake, pollPhase, cached, unread, authRaced, seeded, dropped, asks, pollRestarts>>
      BY <1>8 DEF ProcessPosition
    <2> QED BY <2>1, <2>2, <2>3, <2>4
  <1>9. ASSUME NEW new \in Credentials, UpdateAccount(new) PROVE PollTypes'
    <2>1. ask' \in AskType
      BY <1>9 DEF UpdateAccount, AskType
    <2>2. authRaced' \in BOOLEAN
      BY <1>9 DEF UpdateAccount
    <2> QED BY <1>0, <1>9, <2>1, <2>2 DEF UpdateAccount
  <1>10. CASE UpdateCommits
    <2>1. ask.new \in Credentials
      BY <1>10 DEF UpdateCommits, AskType, NoAsk
    <2> QED BY <1>0, <1>10, <2>1 DEF UpdateCommits
  <1>11. CASE DeleteAccount
    <2>1. account' \in [active : BOOLEAN, credentials : Credentials]
      BY <1>11 DEF DeleteAccount
    <2>2. ask' \in AskType
      BY <1>11 DEF DeleteAccount, AskType
    <2> QED BY <1>11, <2>1, <2>2 DEF DeleteAccount
  <1>12. CASE EditDevice
    <2>1. ask' \in AskType
      BY <1>12 DEF EditDevice, AskType
    <2>2. dropped' \in BOOLEAN
      BY <1>12 DEF EditDevice
    <2> QED BY <1>12, <2>1, <2>2 DEF EditDevice
  <1>13. CASE WakeEngine
    BY <1>0, <1>13 DEF WakeEngine
  <1>14. CASE PositionRecorded
    BY <1>14 DEF PositionRecorded
  <1>15. CASE CredentialsChange
    <2>1. valid' \in Credentials
      BY <1>15 DEF CredentialsChange, Credentials
    <2> QED BY <1>15, <2>1 DEF CredentialsChange
  <1>16. CASE RestartPolling
    <2>1. cycle'.with = 0 /\ pollRestarts' \in 0..MaxPollRestarts
      BY <1>16 DEF RestartPolling, NewCycle
    <2>2. ask' \in AskType /\ cached' = 0 /\ pollPhase' = "starting"
      BY <1>0, <1>16 DEF RestartPolling
    <2>3. wake' \in BOOLEAN /\ due' \in BOOLEAN /\ unread' \in BOOLEAN /\ authRaced' \in BOOLEAN
      BY <1>16 DEF RestartPolling
    <2>4. UNCHANGED <<account, valid, seeded, asks, failed, dropped>>
      BY <1>16 DEF RestartPolling
    <2> QED BY <2>1, <2>2, <2>3, <2>4
  <1>17. CASE UNCHANGED integrationEngineVars
    BY <1>17 DEF integrationEngineVars
  <1> QED
    BY <1>1, <1>2, <1>3, <1>4, <1>5, <1>6, <1>7, <1>8, <1>9, <1>10, <1>11, <1>12, <1>13, <1>14, <1>15, <1>16, <1>17
       DEF IntegrationEngineNext, PollStep

\* A position is stored no more often than IntegrationEngineTypeOK allows.
LEMMA PollingTyped ==
    ASSUME PollingInv
    PROVE  IntegrationEngineTypeOK
  <1> USE IntegrationEngineAssumption DEF PollingInv, PositionsInv, PositionTypes, PollTypes
  <1>1. \A p \in Polled : times[p] \in 0..(2 + pollRestarts)
    <2>1. pollRestarts \in Nat /\ \A p \in Polled : times[p] \in Nat
      OBVIOUS
    <2> SUFFICES ASSUME NEW p \in Polled PROVE times[p] \in 0..(2 + pollRestarts)
      OBVIOUS
    <2>2. times[p] <= pollRestarts + 1
      BY <2>1 DEF OncePerLife
    <2>3. times[p] \in Nat /\ pollRestarts \in Nat
      BY <2>1
    <2> HIDE DEF PollingInv, PositionsInv, PositionTypes, PollTypes
    <2> QED BY <2>2, <2>3
  <1>2. times \in [Polled -> 0..(2 + pollRestarts)]
    BY <1>1
  <1>3. ask.kind \in {"none", "update", "wake"}
    BY DEF AskType, NoAsk
  <1>4. {wake, due, unread, authRaced, dropped} \subseteq BOOLEAN
    OBVIOUS
  <1> QED BY <1>2, <1>3, <1>4 DEF IntegrationEngineTypeOK

-----------------------------------------------------------------------------
(* The server as it is model-checked: each part from its initial states *)

\* The places of the vehicle that the initial states of MCServer use.
PlacesNeeded == {} \in Places /\ {NStops} \in Places

\* Without schedules there are no races.
LEMMA NoSchedulesRaced ==
    ASSUME WithoutSchedules
    PROVE  RaceInv /\ SchedulesLimits
  <1> USE ReportSchedulerAssumption DEF ReportSchedulerAssumption, WithoutSchedules
  <1>1. \A s \in Schedules : schedule[s] \in ScheduleRow /\ ~schedule[s].exists
    BY DEF NoSchedules, ScheduleRow, NoNext
  <1>2. schedule \in [Schedules -> ScheduleRow]
    BY <1>1 DEF NoSchedules
  <1>3. RunnersTypeOK /\ SchedulesLimits
    BY <1>2 DEF RunnersTypeOK, SchedulesLimits
  <1>4. RunsAreOwned /\ \A s \in Schedules : RowSafe(schedule[s], raced[s])
    BY <1>1 DEF RunsAreOwned, RowSafe
  <1> QED BY <1>3, <1>4 DEF RaceInv

\* Nor are there with the schedules that the initial states have.
LEMMA SomeSchedulesRaced ==
    ASSUME SchedulesInit
    PROVE  RaceInv /\ SchedulesLimits
  <1>1. SchedulesLimits
    BY ReportSchedulerAssumption DEF ReportSchedulerAssumption, SchedulesInit, SchedulesLimits
  <1> QED BY <1>1, RaceInit

\* While nothing runs every completion is still to be triggered.
LEMMA NothingRunsYet ==
    ASSUME SchedulesInit \/ WithoutSchedules, RaceInv,
           completions \in Nat, toTrigger \in Nat, toTrigger <= completions
    PROVE  OnceInv
  <1>1. /\ stored = [s \in Schedules |-> 0]
        /\ todo = [r \in Runners |-> <<>>] /\ run = [r \in Runners |-> NoRun]
    BY DEF SchedulesInit, WithoutSchedules
  <1>2. OnceTypeOK
    BY <1>1 DEF OnceTypeOK, RaceInv
  <1>3. \A t \in Tasks, s \in Schedules : ~Listed(t, s) /\ ~Runs(t, s)
    BY <1>1 DEF Listed, Runs, Runners
  <1>4. EachOnce
    BY <1>1, <1>3 DEF EachOnce, Runners
  <1>5. ASSUME NEW s \in Schedules PROVE stored[s] + Cardinality(Waiting(s)) + toTrigger <= completions
    <2>1. Cardinality(Waiting(s)) = 0
      BY <1>3, FS_EmptySet DEF Waiting
    <2> QED BY <1>1, <2>1
  <1> QED BY <1>2, <1>4, <1>5 DEF OnceInv

\* A route that is well typed, with nothing kept of it in memory.
NewRoute ==
    /\ route \in Route /\ where \in Places /\ dwell = NoneDwelling /\ session = Idle /\ request = NoRequest
    /\ last = 0 /\ rollbacks = 0 /\ requests \in {0, MaxRequests}

\* Such a route is well typed and nobody dwells.
LEMMA NewRouteTyped ==
    ASSUME NewRoute, toTrigger \in Nat
    PROVE  RouteProgressTypeOK /\ StayInv
  <1> USE RouteProgressAssumption DEF RouteProgressAssumption, NewRoute
  <1>1. NoDwell \in Dwelling
    BY DEF NoDwell, Dwelling
  <1>2. dwell \in [Stops -> Dwelling] /\ DwellIsOneStay
    BY <1>1 DEF NoneDwelling, DwellIsOneStay
  <1> QED BY <1>2 DEF RouteProgressTypeOK, StayInv, Dwelling

\* The initial states of the route and its reports.
LEMMA ServerInitially ==
    ASSUME PlacesNeeded, MCInit
    PROVE  ReportsInv
  <1> USE RouteReportsAssumption DEF RouteReportsAssumption
  <1>1. /\ OnTheRoad \/ AtTheEnd \/ AfterTheEnd
           \/ (RouteGone /\ WithoutSchedules /\ completions = 0 /\ toTrigger = 0)
        /\ restarts = 0
    BY DEF MCInit, OnTheRoad, AtTheEnd, AfterTheEnd, RouteGone
  <1>2. NewRoute
    <2>1. CASE OnTheRoad
      BY <2>1 DEF OnTheRoad, RouteProgressInit, NewRoute, Route, RouteStatus, StopStatus
    <2>2. CASE AtTheEnd
      <3>1. route \in Route
        BY <2>2 DEF AtTheEnd, Route, RouteStatus, StopStatus
      <3> QED BY <2>2, <3>1 DEF AtTheEnd, NewRoute, PlacesNeeded
    <2>3. CASE RouteGone
      BY <2>3 DEF RouteGone, NewRoute, PlacesNeeded, Route, RouteStatus, StopStatus
    <2> QED BY <1>1, <2>1, <2>2, <2>3 DEF AfterTheEnd
  <1>3. completions \in Nat /\ toTrigger \in Nat /\ toTrigger <= completions
    BY <1>1 DEF OnTheRoad, AtTheEnd, AfterTheEnd, RouteProgressInit
  <1>4. SchedulesInit \/ WithoutSchedules
    BY <1>1 DEF OnTheRoad, AtTheEnd, AfterTheEnd
  <1>5. RaceInv /\ SchedulesLimits
    BY <1>4, NoSchedulesRaced, SomeSchedulesRaced
  <1>6. OnceInv
    BY <1>3, <1>4, <1>5, NothingRunsYet
  <1> QED BY <1>1, <1>2, <1>3, <1>5, <1>6, NewRouteTyped DEF ReportsInv

\* The initial states of the listeners.
LEMMA ListenersInitially ==
    ASSUME ProtocolServersInit
    PROVE  ListenersInv
  <1> USE ProtocolServersAssumption DEF ProtocolServersAssumption, ProtocolServersInit, Changed, NoSync
  <1>1. ForgottenInv
    BY DEF ForgottenInv, ForgottenTypes, OneHasLock, EndedAreDown, NoListenerForgotten
  <1>2. RequiredInv
    BY DEF RequiredInv, ReadTypes, NewestRead, LockWants, LeftAsWanted, Applied, AllRead, ReadsOf
  <1>3. ListenerLimits
    BY DEF ListenerLimits
  <1> QED BY <1>1, <1>2, <1>3 DEF ListenersInv

\* The initial states of the polling.
LEMMA PollingInitially ==
    ASSUME IntegrationEngineInit
    PROVE  PollingInv
  <1> USE IntegrationEngineAssumption, CredentialsAssumption DEF IntegrationEngineInit
  <1>1. PollInv
    BY DEF PollInv, WakeInv, CredentialsInv, Updating, NoAsk, NewCycle
  <1>2. PositionsInv
    <2>1. Stored = {} /\ Handled = {}
      BY DEF Stored, Handled
    <2>2. PositionTypes
      BY EmptySeq DEF PositionTypes, NewCycle
    <2>3. NoGaps
      BY <2>1, EmptySeq DEF NoGaps, Consecutive, NewCycle
    <2>4. OnceEach
      BY <2>1 DEF OnceEach, OnlyTheSeedAgain, KeepsAway, NewCycle
    <2> QED BY <2>2, <2>3, <2>4 DEF PositionsInv
  <1>3. PollTypes
    <2>1. 1 \in Credentials /\ cycle.with = 0
      BY DEF Credentials, NewCycle
    <2>2. Cardinality(failed) = 0
      BY FS_EmptySet
    <2>3. ask \in AskType
      BY DEF AskType
    <2>4. account \in [active : BOOLEAN, credentials : Credentials]
      BY <2>1
    <2>5. wake \in BOOLEAN /\ due \in BOOLEAN /\ unread \in BOOLEAN /\ authRaced \in BOOLEAN /\ dropped \in BOOLEAN
      OBVIOUS
    <2>6. valid \in Credentials /\ pollPhase = "starting" /\ cached = 0 /\ seeded = {} /\ asks = 0 /\ pollRestarts = 0
      BY <2>1
    <2> HIDE DEF IntegrationEngineInit
    <2> QED BY <2>1, <2>2, <2>3, <2>4, <2>5, <2>6 DEF PollTypes
  <1>4. OncePerLife
    BY DEF OncePerLife
  <1> QED BY <1>1, <1>2, <1>3, <1>4 DEF PollingInv

\* The invariant of the polling says all that is promised of it.
LEMMA PollingSound ==
    ASSUME PollingInv
    PROVE  IntegrationEngineTypeOK /\ IntegrationEngineSound
  <1> USE DEF PollingInv
  <1>1. NoWakeIsLost /\ OldCredentialsOnlyByRace
    BY DEF PollInv, WakeInv, CredentialsInv, Updating, NoWakeIsLost, OldCredentialsOnlyByRace, NoAsk
  <1>2. OnlyFailuresMissing
    BY DEF PositionsInv, NoGaps, OnlyFailuresMissing, Handled, Larger
  <1>3. OnlyTheSeedAgain
    BY DEF PositionsInv, OnceEach, OnlyTheSeedAgain
  <1> QED BY <1>1, <1>2, <1>3, PollingTyped DEF IntegrationEngineSound

\* The server in each of its parts does what is promised of it (ServerSound):
\* dwells, schedules and reports, the listeners, and the polling, for any
\* numbers of stops, schedules, tasks, listeners, requests, positions,
\* failures and restarts (services/route_progress.py, core/schedule_runner.py,
\* core/gateway.py, integrations/engine.py).
THEOREM ServerIsSound ==
    ASSUME PlacesNeeded
    PROVE  MCSpec => []ServerSound
  <1> DEFINE Inv == ReportsInv /\ ListenersInv /\ PollingInv
  <1>1. MCInit => Inv
    BY ServerInitially, ListenersInitially, PollingInitially DEF MCInit
  <1>2. Inv /\ [MCNext]_MCVars => Inv'
    <2> SUFFICES ASSUME Inv, [MCNext]_MCVars PROVE Inv'
      OBVIOUS
    <2>1. /\ [ServerNext]_serverVars /\ [ProtocolServersNext]_protocolServersVars
          /\ [IntegrationEngineNext]_integrationEngineVars
      BY DEF MCNext, MCVars, RoutePart, ListenersPart, PollingPart
    <2>2. PollingInv'
      BY <2>1, PollInvStep, PositionsStep, PollTypeStep, OncePerLifeStep DEF PollingInv
    <2> QED BY <2>1, <2>2, ReportsStep, ListenersStep
  <1>3. Inv => ServerSound
    BY ReportsSound, ListenersSound, PollingSound DEF ServerSound
  <1> QED
    BY <1>1, <1>2, <1>3, PTL DEF MCSpec

-----------------------------------------------------------------------------
(* The alert state of a device: types *)

\* What auto-assignment does to a row leaves a row, with the latches it had.
LEMMA ClearedIsRow ==
    ASSUME NEW v \in Row
    PROVE  Cleared(v) \in Row /\ Cleared(v).latched = v.latched /\ Cleared(v).driver = NoDriver
           /\ Cleared(v).trip = v.trip
  BY DEF Cleared, Row, NoAssignment, Assignment

\* An arriving or leaving driver leaves a row, with the latches it had.
LEMMA OnEventIsRow ==
    ASSUME NEW v \in Row, NEW e
    PROVE  OnEvent(e, v) \in Row /\ OnEvent(e, v).latched = v.latched /\ OnEvent(e, v) \in {v, Cleared(v)}
  BY ClearedIsRow DEF OnEvent

\* The assignment rules leave a row, with the latches it had.
LEMMA AssignedIsRow ==
    ASSUME NEW v \in Row, NEW d \in Driver, settings \in [Driver -> Settings]
    PROVE  Assigned(d, v) \in Row /\ Assigned(d, v).latched = v.latched /\ Assigned(d, v).driver = d
           /\ Assigned(d, v).assignment.auto = d
  <1>1. settings[d].mode \in Mode /\ settings[d].clear \in Clear
    BY AlertStateAssumption
  <1> DEFINE a == [auto |-> d, mode |-> settings[d].mode,
                   clear |-> IF settings[d].mode = "continuous" THEN "rule_stops" ELSE settings[d].clear]
  <1>2. a \in Assignment
    BY <1>1 DEF Assignment, Clear
  <1>3. a.auto = d
    OBVIOUS
  <1>4. Assigned(d, v) = [v EXCEPT !.driver = d, !.assignment = a]
    BY DEF Assigned
  <1> HIDE DEF a
  <1>5. QED
    BY <1>2, <1>3, <1>4 DEF Row

\* The trip logic changes the driver and its record only where it clears them.
LEMMA AfterTripLogicIsRow ==
    ASSUME NEW v \in Row, NEW p \in Position
    PROVE  /\ AfterTripLogic(p, v) \in Row /\ AfterTripLogic(p, v).latched = v.latched
           /\ AfterTripLogic(p, v).driver \in {v.driver, NoDriver}
           /\ AfterTripLogic(p, v).driver = v.driver => AfterTripLogic(p, v).assignment = v.assignment
                                                        \/ v.driver = NoDriver
  <1>1. CASE p.ignition = "on"
    <2>1. AfterTripLogic(p, v) = [v EXCEPT !.trip = v.trip \/ ~p.debounced]
      BY <1>1 DEF AfterTripLogic
    <2>2. (v.trip \/ ~p.debounced) \in BOOLEAN
      OBVIOUS
    <2>3. QED
      BY <2>1, <2>2 DEF Row
  <1>2. CASE p.ignition = "off" /\ v.trip
    <2> DEFINE x == [OnEvent("ignition_off", v) EXCEPT !.trip = FALSE]
               w == OnEvent("trip_end", x)
    <2>1. /\ x \in Row /\ x.latched = v.latched /\ x.driver \in {v.driver, NoDriver}
          /\ x.driver = v.driver => x.assignment = v.assignment \/ v.driver = NoDriver
      BY OnEventIsRow, ClearedIsRow DEF Row
    <2>2. w \in Row /\ w.latched = x.latched /\ w \in {x, Cleared(x)} /\ Cleared(x).driver = NoDriver
      BY <2>1, OnEventIsRow, ClearedIsRow
    <2>3. AfterTripLogic(p, v) = IF AutoClear THEN [w EXCEPT !.driver = NoDriver] ELSE w
      BY <1>2 DEF AfterTripLogic
    <2> HIDE DEF x, w
    <2>4. QED
      BY <2>1, <2>2, <2>3 DEF Row
  <1>3. CASE p.ignition # "on" /\ ~(p.ignition = "off" /\ v.trip)
    BY <1>3 DEF AfterTripLogic
  <1>4. QED
    BY <1>1, <1>2, <1>3

\* An evaluation of the rules leaves a row and raises known alerts.
LEMMA EvaluatedIsRow ==
    ASSUME NEW v \in Row, NEW p \in Position, settings \in [Driver -> Settings], NEW w \in Evaluated(p, v)
    PROVE  /\ w \in Row /\ w.latched = v.latched
           /\ w.driver \in {v.driver, NoDriver} \/ (w.driver = w.assignment.auto /\ v.driver = NoDriver)
           /\ w = v \/ w = Cleared(v) \/ w.driver = w.assignment.auto
           /\ w = Cleared(v) => w.driver = NoDriver
  <1>1. CASE w = v
    BY <1>1, ClearedIsRow
  <1>2. CASE w = Cleared(v)
    BY <1>2, ClearedIsRow
  <1>3. CASE v.driver = NoDriver /\ \E d \in p.matches : w = Assigned(d, v)
    <2>1. PICK d \in Driver : w = Assigned(d, v)
      BY <1>3 DEF Position
    <2>2. w.driver = d /\ w.assignment.auto = d /\ w \in Row /\ w.latched = v.latched /\ d # NoDriver
      BY <2>1, AssignedIsRow, AlertStateAssumption
    <2>3. w # Cleared(v)
      BY <2>2, ClearedIsRow
    <2>4. QED
      BY <1>3, <2>2, <2>3
  <1>4. QED
    BY <1>1, <1>2, <1>3 DEF Evaluated

\* What a commit leaves: the latches as it read them or as they are.
LEMMA CommitEffect ==
    ASSUME TypeOK, NEW h \in Handler, Commit(h)
    PROVE  /\ row' \in Row /\ row'.latched \in {row.latched, copy[h].latched}
           /\ phase[h] = "loaded" /\ phase' = [phase EXCEPT ![h] = "committed"]
           /\ heard' = "recent" /\ UNCHANGED <<settings, pos, copy, alerts, sweepVars>>
  <1> USE DEF TypeOK
  <1> DEFINE v == copy[h]
             t == AfterTripLogic(pos[h], v)
  <1>1. v \in Row /\ pos[h] \in Position /\ t \in Row /\ t.latched = v.latched
    BY AfterTripLogicIsRow
  <1>2. PICK w \in Evaluated(pos[h], t) :
          LET states == w.assignment # v.assignment \/ Stamps(pos[h], t) IN
          row' = [driver |-> IF w.driver = v.driver THEN row.driver ELSE w.driver,
                  trip |-> IF w.trip = v.trip THEN row.trip ELSE w.trip,
                  assignment |-> IF states THEN w.assignment ELSE row.assignment,
                  latched |-> IF states THEN w.latched ELSE row.latched]
    BY DEF Commit
  <1> HIDE DEF v, t
  <1>3. w \in Row /\ w.latched = v.latched
    BY <1>1, <1>2, EvaluatedIsRow
  <1>4. row' \in Row /\ row'.latched \in {row.latched, v.latched}
    BY <1>2, <1>3 DEF Row
  <1>5. QED
    BY <1>4 DEF Commit, v

\* What an evaluation does: the handler holds the new latches and the alerts, the row waits for the save.
LEMMA EvaluateEffect ==
    ASSUME TypeOK, NEW h \in Handler, NEW on, Evaluate(h, on)
    PROVE  /\ copy' = [copy EXCEPT ![h] = copy'[h]] /\ copy'[h] \in Row
           /\ copy'[h].latched = Latched(pos[h], row, on) /\ copy'[h].assignment = row.assignment
           /\ alerts' = [alerts EXCEPT ![h] = Fired(pos[h], row, on)]
           /\ Fired(pos[h], row, on) \subseteq Latch \ {"offline"}
  <1> USE DEF TypeOK
  <1>1. Holding(pos[h], row, on) \subseteq Latch \ {"offline"}
    BY DEF Holding, Violations, Latch, ZoneLatch
  <1>2. Latched(pos[h], row, on) \in SUBSET Latch
    BY <1>1 DEF Latched, Row
  <1>3. copy'[h] = [row EXCEPT !.latched = Latched(pos[h], row, on)]
    BY DEF Evaluate
  <1>4. copy' = [copy EXCEPT ![h] = copy'[h]]
    BY <1>3 DEF Evaluate
  <1>5. alerts' = [alerts EXCEPT ![h] = Fired(pos[h], row, on)] /\ Fired(pos[h], row, on) \subseteq Latch \ {"offline"}
    BY <1>1 DEF Evaluate, Fired
  <1>6. QED
    BY <1>2, <1>3, <1>4, <1>5 DEF Row

\* Every step keeps the types.
LEMMA TypeStep ==
    ASSUME TypeOK, [Next]_vars
    PROVE  TypeOK'
  <1> USE DEF TypeOK
  <1>1. NewRow \in Row /\ NoPosition \in Position /\ NoSweep \in [row : Row, heard : Heard]
    BY DEF NewRow, Row, NoAssignment, Assignment, NoPosition, Position, NoSweep, Heard
  <1>2. ASSUME NEW h \in Handler, Load(h) PROVE TypeOK'
    BY <1>2, AlertStateAssumption DEF Load
  <1>3. ASSUME NEW h \in Handler, Commit(h) PROVE TypeOK'
    BY <1>3, CommitEffect DEF Heard, sweepVars
  <1>4. ASSUME NEW h \in Handler, NEW on, Evaluate(h, on) PROVE TypeOK'
    <2>1. copy' \in [Handler -> Row] /\ alerts' \in [Handler -> SUBSET Latch]
      BY <1>4, EvaluateEffect
    <2>2. QED
      BY <1>4, <2>1 DEF Evaluate, sweepVars
  <1>5. ASSUME NEW h \in Handler, Save(h) PROVE TypeOK'
    <2>1. row' \in Row
      BY <1>5 DEF Save, Row
    <2>2. QED
      BY <1>5, <2>1 DEF Save, sweepVars
  <1>6. ASSUME NEW h \in Handler, Dispatch(h) \/ Fail(h) PROVE TypeOK'
    BY <1>1, <1>6 DEF Dispatch, Fail, Forget, sweepVars
  <1>7. ASSUME SweepRead PROVE TypeOK'
    BY <1>7 DEF SweepRead, handlerVars
  <1>8. ASSUME SweepSave PROVE TypeOK'
    <2>1. SweepLatched \in SUBSET Latch /\ sweep.row.assignment \in Assignment
      BY DEF SweepLatched, Row, Latch
    <2>2. row' \in Row
      BY <1>8, <2>1 DEF SweepSave, Row
    <2>3. QED
      BY <1>1, <1>8, <2>2 DEF SweepSave, handlerVars
  <1>9. ASSUME SweepDispatch \/ SweepSkip PROVE TypeOK'
    BY <1>1, <1>9 DEF SweepDispatch, SweepSkip, SweepEnds, handlerVars
  <1>10. ASSUME NEW d \in Driver \cup {NoDriver}, AssignDriver(d) PROVE TypeOK'
    <2>1. row' \in Row
      BY <1>10 DEF AssignDriver, Row
    <2>2. QED
      BY <1>10, <2>1 DEF AssignDriver, handlerVars, sweepVars
  <1>11. ASSUME NEW d \in Driver, EditDriver(d) PROVE TypeOK'
    BY <1>11 DEF EditDriver, handlerVars, sweepVars
  <1>12. ASSUME Silence PROVE TypeOK'
    BY <1>12 DEF Silence, handlerVars, sweepVars, Heard
  <1>13. ASSUME Crash PROVE TypeOK'
    BY <1>1, <1>13 DEF Crash, SweepEnds
  <1>14. CASE UNCHANGED vars
    BY <1>14 DEF vars, handlerVars, sweepVars
  <1>15. QED
    BY <1>2, <1>3, <1>4, <1>5, <1>6, <1>7, <1>8, <1>9, <1>10, <1>11, <1>12, <1>13, <1>14
    DEF Next, Work, EvaluateActive, Sweep

\* A device without positions is well typed.
LEMMA InitiallyTyped ==
    ASSUME Init
    PROVE  TypeOK
  BY DEF Init, TypeOK, NewRow, Row, NoAssignment, Assignment, NoPosition, Position, NoSweep, Heard

\* TypeOK of AlertState: whatever the handlers of positions, the offline
\* sweep, operators and faults write into the one state row (database.py,
\* auto_assign.py, alert_engine.py, main.py, drivers.py), it stays a row of that shape.
THEOREM AlertTypeCorrect == Spec => []TypeOK
  <1>1. Init => TypeOK
    BY InitiallyTyped
  <1>2. TypeOK /\ [Next]_vars => TypeOK'
    BY TypeStep
  <1>3. QED
    BY <1>1, <1>2, PTL DEF Spec

-----------------------------------------------------------------------------
(* The record *)

\* The record adds no step and takes none away.
LEMMA RecordedSteps ==
    ASSUME HistoryNext
    PROVE  Next
  <1>1. ASSUME NEW h \in Handler, RecordCommit(h) PROVE Next
    BY <1>1 DEF RecordCommit, Next, Work
  <1>2. ASSUME NEW h \in Handler, RecordDispatch(h) PROVE Next
    BY <1>2 DEF RecordDispatch, Next, Work
  <1>3. ASSUME NEW h \in Handler, NEW off \in SUBSET Scheduled, RecordEvaluate(h, Rows \ off) PROVE Next
    BY <1>3 DEF RecordEvaluate, Next, Work, EvaluateActive
  <1>4. CASE RecordSweepDispatch \/ RecordSilence
    BY <1>4 DEF RecordSweepDispatch, RecordSilence, Next, Sweep
  <1>5. ASSUME NEW d \in Driver \cup {NoDriver}, RecordAssignDriver(d) PROVE Next
    BY <1>5 DEF RecordAssignDriver, Next
  <1>6. CASE RecordLoss \/ Unrecorded
    BY <1>6 DEF RecordLoss, Unrecorded, Next, Work, Sweep
  <1>7. QED
    BY <1>1, <1>2, <1>3, <1>4, <1>5, <1>6 DEF HistoryNext

\* The types of the record.
RecordTypeOK ==
    /\ raised \in [Latch -> Nat] /\ condition \in [Latch -> BOOLEAN]
    /\ lost \in BOOLEAN

\* Every step keeps the types of the record.
LEMMA RecordTypeStep ==
    ASSUME RecordTypeOK, TypeOK, [HistoryNext]_historyVars
    PROVE  RecordTypeOK'
  <1> USE DEF RecordTypeOK
  <1>1. ASSUME NEW S PROVE Count(S) \in [Latch -> Nat]
    BY DEF Count
  <1>2. ASSUME NEW h \in Handler, RecordCommit(h) PROVE RecordTypeOK'
    BY <1>2 DEF RecordCommit
  <1>3. ASSUME NEW h \in Handler, RecordDispatch(h) PROVE RecordTypeOK'
    BY <1>1, <1>3 DEF RecordDispatch
  <1>4. ASSUME NEW h \in Handler, NEW on, RecordEvaluate(h, on) PROVE RecordTypeOK'
    <2>1. pos[h] \in Position
      BY DEF TypeOK
    <2>2. condition' = Condition(pos[h], row) /\ lost' \in BOOLEAN
          /\ raised' = [k \in Latch |-> IF condition'[k] THEN raised[k] ELSE 0]
      BY <1>4 DEF RecordEvaluate
    <2>3. condition["no_driver"] \in BOOLEAN
      BY DEF Latch
    <2>4. Condition(pos[h], row) \in [Latch -> BOOLEAN]
      BY <2>1, <2>3 DEF Condition, Position
    <2>5. QED
      BY <2>2, <2>4
  <1>5. CASE RecordSweepDispatch
    BY <1>1, <1>5 DEF RecordSweepDispatch
  <1>6. CASE RecordSilence
    <2>1. ("offline" \in Rows) \in BOOLEAN
      OBVIOUS
    <2>2. /\ condition' = [condition EXCEPT !["offline"] = "offline" \in Rows]
          /\ raised' = [raised EXCEPT !["offline"] = 0] /\ lost' = lost
      BY <1>6 DEF RecordSilence
    <2>3. condition' \in [Latch -> BOOLEAN]
      BY <2>1, <2>2
    <2>4. QED
      BY <2>2, <2>3
  <1>7. ASSUME NEW d, RecordAssignDriver(d) PROVE RecordTypeOK'
    BY <1>7 DEF RecordAssignDriver, alertRecord
  <1>8. CASE RecordLoss \/ Unrecorded
    BY <1>8 DEF RecordLoss, Unrecorded, alertRecord
  <1>9. CASE UNCHANGED historyVars
    BY <1>9 DEF historyVars, alertRecord
  <1>10. QED
    BY <1>2, <1>3, <1>4, <1>5, <1>6, <1>7, <1>8, <1>9 DEF HistoryNext

-----------------------------------------------------------------------------
(* OfflineOncePerSilence, for any number of handlers.  A round that read   *)
(* the silence before the device came back may still report it after, but  *)
(* only once, and while the silence lasts nobody overwrites the latch: the *)
(* handlers have at most loaded the row.                                   *)
OfflineInv ==
    /\ \A h \in Handler : "offline" \notin alerts[h]
    /\ raised["offline"] \in {0, 1}
    /\ round = "saved" => raised["offline"] = 0 /\ sweep.heard = "old"
    /\ heard # "old" /\ round = "read" /\ sweep.heard = "old" => raised["offline"] = 0
    /\ heard = "old" =>
          /\ \A h \in Handler : phase[h] \in {"idle", "loaded"}
          /\ raised["offline"] = 1 \/ round = "saved" => "offline" \in row.latched
          /\ round = "read" => sweep.heard = "old" /\ (raised["offline"] = 1 => "offline" \in sweep.row.latched)
SilenceInv == TypeOK /\ RecordTypeOK /\ OfflineInv

\* Every step keeps the invariant of the silence, one case per step.
LEMMA OfflineStep ==
    ASSUME SilenceInv, HistoryNext, TypeOK', RecordTypeOK'
    PROVE  OfflineInv'
  <1> USE DEF SilenceInv, OfflineInv
  <1>0. "offline" \in Latch /\ \A h \in Handler : alerts[h] \subseteq Latch
    BY DEF Latch, TypeOK
  <1>1. ASSUME NEW h \in Handler, RecordCommit(h) PROVE OfflineInv'
    <2>1. heard' = "recent" /\ UNCHANGED <<alerts, round, sweep>>
      BY <1>1, CommitEffect DEF RecordCommit, sweepVars
    <2>2. raised'["offline"] = 0
      BY <1>0, <1>1 DEF RecordCommit, RecordTypeOK
    <2>3. QED
      BY <2>1, <2>2
  <1>2. ASSUME NEW h \in Handler, RecordDispatch(h) PROVE OfflineInv'
    <2>1. phase[h] = "saved" /\ alerts' = [alerts EXCEPT ![h] = {}] /\ UNCHANGED <<heard, round, sweep>>
      BY <1>2 DEF RecordDispatch, Dispatch, Forget, sweepVars
    <2>2. raised'["offline"] = raised["offline"]
      BY <1>0, <1>2 DEF RecordDispatch, Count
    <2>3. heard # "old"
      BY <2>1
    <2>4. \A g \in Handler : "offline" \notin alerts'[g]
      BY <2>1 DEF TypeOK
    <2>5. QED
      BY <2>1, <2>2, <2>3, <2>4
  <1>3. ASSUME NEW h \in Handler, NEW on, RecordEvaluate(h, on) PROVE OfflineInv'
    <2>1. phase[h] = "committed" /\ UNCHANGED <<heard, round, sweep>>
      BY <1>3 DEF RecordEvaluate, Evaluate, sweepVars
    <2>2. alerts' = [alerts EXCEPT ![h] = Fired(pos[h], row, on)] /\ Fired(pos[h], row, on) \subseteq Latch \ {"offline"}
      BY <1>3, EvaluateEffect DEF RecordEvaluate
    <2>3. \A g \in Handler : "offline" \notin alerts'[g]
      BY <2>2 DEF TypeOK
    <2>4. raised'["offline"] \in {0, raised["offline"]}
      BY <1>0, <1>3 DEF RecordEvaluate
    <2>5. heard # "old"
      BY <2>1
    <2>6. QED
      BY <2>1, <2>3, <2>4, <2>5
  <1>4. CASE RecordSweepDispatch
    <2>1. round = "saved" /\ round' = "idle" /\ UNCHANGED <<row, heard, phase, alerts>>
      BY <1>4 DEF RecordSweepDispatch, SweepDispatch, SweepEnds, handlerVars
    <2>2. raised'["offline"] = 1
      BY <1>0, <1>4, <2>1 DEF RecordSweepDispatch, Count, RecordTypeOK
    <2>3. QED
      BY <2>1, <2>2
  <1>5. CASE RecordSilence
    <2>1. /\ \A h \in Handler : phase[h] = "idle"
          /\ round = "idle" /\ UNCHANGED <<row, phase, alerts, round, sweep>>
      BY <1>5 DEF RecordSilence, Silence, handlerVars, sweepVars
    <2>2. raised'["offline"] = 0
      BY <1>0, <1>5 DEF RecordSilence, RecordTypeOK
    <2>3. QED
      BY <2>1, <2>2
  <1>6. ASSUME NEW d, RecordAssignDriver(d) PROVE OfflineInv'
    <2>1. row'.latched = row.latched /\ UNCHANGED <<heard, phase, alerts, round, sweep, raised>>
      BY <1>6 DEF RecordAssignDriver, AssignDriver, handlerVars, sweepVars, alertRecord, TypeOK, Row
    <2>2. QED
      BY <2>1
  <1>7. ASSUME SweepSkip, UNCHANGED raised PROVE OfflineInv'
    <2>1. round' = "idle" /\ UNCHANGED <<row, heard, phase, alerts>>
      BY <1>7 DEF SweepSkip, SweepEnds, handlerVars
    <2>2. QED
      BY <1>7, <2>1
  <1>8. ASSUME Crash, UNCHANGED raised PROVE OfflineInv'
    <2>1. /\ round' = "idle" /\ UNCHANGED <<row, heard>>
          /\ \A h \in Handler : phase'[h] = "idle" /\ alerts'[h] = {}
      BY <1>8 DEF Crash, SweepEnds
    <2>2. QED
      BY <1>8, <2>1
  <1>9. ASSUME NEW h \in Handler, Fail(h), UNCHANGED raised PROVE OfflineInv'
    <2>1. /\ UNCHANGED <<row, heard, round, sweep>>
          /\ \A g \in Handler : phase'[g] \in {"idle", phase[g]} /\ alerts'[g] \in {{}, alerts[g]}
      BY <1>9 DEF Fail, Forget, TypeOK, sweepVars
    <2>2. QED
      BY <1>9, <2>1
  <1>10. ASSUME NEW h \in Handler, Load(h), UNCHANGED raised PROVE OfflineInv'
    <2>1. /\ UNCHANGED <<row, heard, round, sweep, alerts>>
          /\ \A g \in Handler : phase'[g] \in {"loaded", phase[g]}
      BY <1>10 DEF Load, TypeOK
    <2>2. QED
      BY <1>10, <2>1
  <1>11. ASSUME NEW h \in Handler, Save(h), UNCHANGED raised PROVE OfflineInv'
    <2>1. phase[h] = "evaluated" /\ UNCHANGED <<heard, round, sweep, alerts>>
      BY <1>11 DEF Save, sweepVars
    <2>2. QED
      BY <1>11, <2>1
  <1>12. ASSUME SweepRead, UNCHANGED raised PROVE OfflineInv'
    <2>1. round = "idle" /\ round' = "read" /\ sweep' = [row |-> row, heard |-> heard] /\ UNCHANGED <<row, heard, phase, alerts>>
      BY <1>12 DEF SweepRead, handlerVars
    <2>2. QED
      BY <1>12, <2>1
  <1>13. ASSUME SweepSave, UNCHANGED raised PROVE OfflineInv'
    <2>1. round = "read" /\ row'.latched = SweepLatched /\ UNCHANGED <<heard, phase, alerts>>
      BY <1>13 DEF SweepSave, handlerVars, TypeOK, Row
    <2>2. CASE SweepFires
      <3>1. round' = "saved" /\ sweep' = sweep /\ sweep.heard = "old" /\ "offline" \notin sweep.row.latched
        BY <1>13, <2>2 DEF SweepSave, SweepFires
      <3>2. "offline" \in row'.latched
        BY <2>1, <3>1 DEF SweepLatched
      <3>3. raised["offline"] = 0
        BY <2>1, <3>1
      <3>4. QED
        BY <1>13, <2>1, <3>1, <3>2, <3>3
    <2>3. CASE ~SweepFires
      <3>1. round' = "idle"
        BY <1>13, <2>3 DEF SweepSave
      <3>2. heard = "old" => "offline" \in row'.latched
        BY <2>1 DEF SweepLatched
      <3>3. QED
        BY <1>13, <2>1, <3>1, <3>2
    <2>4. QED
      BY <2>2, <2>3
  <1>14. ASSUME NEW d \in Driver, EditDriver(d), UNCHANGED raised PROVE OfflineInv'
    BY <1>14 DEF EditDriver, handlerVars, sweepVars
  <1>15. CASE RecordLoss
    BY <1>7, <1>8, <1>9, <1>15 DEF RecordLoss, alertRecord
  <1>16. CASE Unrecorded
    BY <1>10, <1>11, <1>12, <1>13, <1>14, <1>16 DEF Unrecorded, alertRecord
  <1>17. QED
    BY <1>1, <1>2, <1>3, <1>4, <1>5, <1>6, <1>15, <1>16 DEF HistoryNext

\* Every recorded step keeps both kinds of types.
LEMMA HistoryTypeStep ==
    ASSUME TypeOK, RecordTypeOK, [HistoryNext]_historyVars
    PROVE  TypeOK' /\ RecordTypeOK'
  <1>1. [Next]_vars
    BY RecordedSteps DEF historyVars
  <1>2. QED
    BY <1>1, TypeStep, RecordTypeStep

\* The record starts well typed.
LEMMA HistoryInitiallyTyped ==
    ASSUME HistoryInit
    PROVE  TypeOK /\ RecordTypeOK
  <1>1. TypeOK
    BY InitiallyTyped DEF HistoryInit
  <1>2. QED
    BY <1>1 DEF HistoryInit, RecordTypeOK

\* The offline sweep (offline.py) raises at most one alert in a silence of the
\* device, with any number of handlers of positions, any rows configured and
\* any faults: nobody but the sweep touches the offline latch meanwhile.
THEOREM SilenceReportedOnce == HistorySpec => []OfflineOncePerSilence
  <1>1. HistoryInit => SilenceInv
    BY HistoryInitiallyTyped DEF HistoryInit, Init, SilenceInv, OfflineInv, Latch
  <1>2. SilenceInv /\ [HistoryNext]_historyVars => SilenceInv'
    <2> SUFFICES ASSUME SilenceInv, [HistoryNext]_historyVars PROVE SilenceInv'
      OBVIOUS
    <2>1. TypeOK' /\ RecordTypeOK'
      BY HistoryTypeStep DEF SilenceInv
    <2>2. CASE HistoryNext
      BY <2>1, <2>2, OfflineStep DEF SilenceInv
    <2>3. CASE UNCHANGED historyVars
      BY <2>1, <2>3 DEF SilenceInv, OfflineInv, historyVars, vars, alertRecord, handlerVars, sweepVars
    <2>4. QED
      BY <2>2, <2>3
  <1>3. SilenceInv => OfflineOncePerSilence
    BY DEF SilenceInv, OfflineInv, OfflineOncePerSilence
  <1>4. QED
    BY <1>1, <1>2, <1>3, PTL DEF HistorySpec

-----------------------------------------------------------------------------
(* One handler and no offline row: nobody writes the column between the    *)
(* read and the write of the handler, so its copy is current.              *)
OneHandler == \A h, g \in Handler : h = g
Undisturbed == OneHandler /\ "offline" \notin Rows
CopyIsCurrent ==
    /\ round = "idle"
    /\ \A h \in Handler :
          /\ phase[h] \in {"loaded", "evaluated"} => copy[h].assignment = row.assignment
          /\ phase[h] = "loaded" => copy[h].latched = row.latched

\* The commit of the only handler: the latches stay, and the driver that the rules leave is recorded.
LEMMA UndisturbedCommit ==
    ASSUME TypeOK, CopyIsCurrent, NEW h \in Handler, Commit(h)
    PROVE  /\ row'.latched = row.latched
           /\ \E w \in Row : /\ row'.assignment = w.assignment
                             /\ row'.driver = IF w.driver = copy[h].driver THEN row.driver ELSE w.driver
                             /\ w.driver = copy[h].driver =>
                                   w.assignment = copy[h].assignment \/ w.driver = w.assignment.auto \/ w.driver = NoDriver
                             /\ w.driver # copy[h].driver => w.driver = NoDriver \/ w.driver = w.assignment.auto
  <1> DEFINE v == copy[h]
             t == AfterTripLogic(pos[h], v)
  <1>0. v \in Row /\ pos[h] \in Position /\ settings \in [Driver -> Settings]
    BY DEF TypeOK
  <1>1. /\ t \in Row /\ t.latched = v.latched
        /\ t.driver \in {v.driver, NoDriver}
        /\ t.driver = v.driver => t.assignment = v.assignment \/ v.driver = NoDriver
    BY <1>0, AfterTripLogicIsRow
  <1>2. v.assignment = row.assignment /\ v.latched = row.latched
    BY DEF Commit, CopyIsCurrent
  <1>3. PICK w \in Evaluated(pos[h], t) :
          LET states == w.assignment # v.assignment \/ Stamps(pos[h], t) IN
          row' = [driver |-> IF w.driver = v.driver THEN row.driver ELSE w.driver,
                  trip |-> IF w.trip = v.trip THEN row.trip ELSE w.trip,
                  assignment |-> IF states THEN w.assignment ELSE row.assignment,
                  latched |-> IF states THEN w.latched ELSE row.latched]
    BY DEF Commit
  <1> HIDE DEF v, t
  <1>4. /\ w \in Row /\ w.latched = t.latched
        /\ w = t \/ w = Cleared(t) \/ w.driver = w.assignment.auto
        /\ w = Cleared(t) => w.driver = NoDriver
    <2>1. w \in Evaluated(pos[h], t)
      BY <1>3
    <2>2. QED
      BY <1>0, <1>1, <2>1, EvaluatedIsRow
  <1>5. /\ row'.latched = row.latched /\ row'.assignment = w.assignment
        /\ row'.driver = IF w.driver = v.driver THEN row.driver ELSE w.driver
    <2> DEFINE states == w.assignment # v.assignment \/ Stamps(pos[h], t)
    <2>1. /\ row'.latched = IF states THEN w.latched ELSE row.latched
          /\ row'.assignment = IF states THEN w.assignment ELSE row.assignment
          /\ row'.driver = IF w.driver = v.driver THEN row.driver ELSE w.driver
      BY <1>3
    <2>2. QED
      BY <1>1, <1>2, <1>4, <2>1
  <1>6. /\ w.driver = v.driver => w.assignment = v.assignment \/ w.driver = w.assignment.auto \/ w.driver = NoDriver
        /\ w.driver # v.driver => w.driver = NoDriver \/ w.driver = w.assignment.auto
    BY <1>1, <1>4
  <1>7. QED
    BY <1>4, <1>5, <1>6 DEF v

\* Every step keeps the only handler's copy current.
LEMMA CurrentStep ==
    ASSUME Undisturbed, TypeOK, CopyIsCurrent, [Next]_vars
    PROVE  CopyIsCurrent'
  <1> USE DEF CopyIsCurrent
  <1>1. ASSUME NEW h \in Handler, Load(h) PROVE CopyIsCurrent'
    BY <1>1 DEF Load, TypeOK
  <1>2. ASSUME NEW h \in Handler, Commit(h) PROVE CopyIsCurrent'
    <2>1. round' = round /\ phase'[h] = "committed"
      BY <1>2, CommitEffect DEF sweepVars, TypeOK
    <2>2. QED
      BY <2>1 DEF Undisturbed, OneHandler
  <1>3. ASSUME NEW h \in Handler, NEW on, Evaluate(h, on) PROVE CopyIsCurrent'
    <2>1. round' = round /\ phase'[h] = "evaluated" /\ row' = row
      BY <1>3 DEF Evaluate, sweepVars, TypeOK
    <2>2. copy'[h].assignment = row.assignment
      BY <1>3, EvaluateEffect
    <2>3. QED
      BY <2>1, <2>2 DEF Undisturbed, OneHandler
  <1>4. ASSUME NEW h \in Handler, Save(h) PROVE CopyIsCurrent'
    <2>1. round' = round /\ phase'[h] = "saved"
      BY <1>4 DEF Save, sweepVars, TypeOK
    <2>2. QED
      BY <2>1 DEF Undisturbed, OneHandler
  <1>5. ASSUME NEW h \in Handler, Dispatch(h) \/ Fail(h) PROVE CopyIsCurrent'
    <2>1. round' = round /\ phase'[h] = "idle"
      BY <1>5 DEF Dispatch, Fail, Forget, sweepVars, TypeOK
    <2>2. QED
      BY <2>1 DEF Undisturbed, OneHandler
  <1>6. ~SweepRead /\ ~SweepSave /\ ~SweepDispatch /\ ~SweepSkip
    <2>1. ~SweepSkip
      BY AlertStateAssumption DEF SweepSkip, Undisturbed
    <2>2. QED
      BY <2>1 DEF SweepRead, SweepSave, SweepDispatch, Undisturbed
  <1>7. ASSUME NEW d, AssignDriver(d) PROVE CopyIsCurrent'
    <2>1. row'.assignment = row.assignment /\ row'.latched = row.latched /\ UNCHANGED <<round, phase, copy>>
      BY <1>7 DEF AssignDriver, handlerVars, sweepVars, TypeOK, Row
    <2>2. QED
      BY <2>1
  <1>8. ASSUME NEW d \in Driver, EditDriver(d) PROVE CopyIsCurrent'
    BY <1>8 DEF EditDriver, handlerVars, sweepVars
  <1>9. CASE Silence
    BY <1>9 DEF Silence, handlerVars, sweepVars
  <1>10. CASE Crash
    BY <1>10 DEF Crash, SweepEnds
  <1>11. CASE UNCHANGED vars
    BY <1>11 DEF vars, handlerVars, sweepVars
  <1>12. QED
    BY <1>1, <1>2, <1>3, <1>4, <1>5, <1>6, <1>7, <1>8, <1>9, <1>10, <1>11 DEF Next, Work, EvaluateActive, Sweep

\* What holds of an undisturbed device in every state of the record.
HistoryBase == TypeOK /\ RecordTypeOK /\ CopyIsCurrent

\* Every recorded step keeps types and the current copy.
LEMMA BaseStep ==
    ASSUME Undisturbed, HistoryBase, [HistoryNext]_historyVars
    PROVE  HistoryBase'
  <1>1. [Next]_vars
    BY RecordedSteps DEF historyVars
  <1>2. QED
    BY <1>1, HistoryTypeStep, CurrentStep DEF HistoryBase

\* They hold at the start.
LEMMA BaseInitially ==
    ASSUME HistoryInit
    PROVE  HistoryBase
  BY HistoryInitiallyTyped DEF HistoryInit, Init, HistoryBase, CopyIsCurrent

-----------------------------------------------------------------------------
(* OwnAssignmentRecognized *)
OwnInv ==
    /\ HistoryBase /\ OwnAssignmentRecognized
    /\ origin = "rule" => row.driver # NoDriver
    /\ \A h \in Handler : phase[h] = "loaded" /\ origin = "rule" => copy[h].driver = row.driver

\* Every step keeps the driver that the rules assigned on record.
LEMMA OwnStep ==
    ASSUME Undisturbed, OwnInv, [HistoryNext]_historyVars
    PROVE  OwnInv'
  <1> USE DEF OwnInv, OwnAssignmentRecognized
  <1>0. HistoryBase' /\ TypeOK /\ CopyIsCurrent
    BY BaseStep DEF HistoryBase
  <1>1. ASSUME NEW h \in Handler, RecordCommit(h) PROVE OwnInv'
    <2>1. Commit(h) /\ phase[h] = "loaded" /\ phase'[h] = "committed"
      BY <1>0, <1>1, CommitEffect DEF RecordCommit, TypeOK
    <2>2. PICK w \in Row :
             /\ row'.assignment = w.assignment
             /\ row'.driver = IF w.driver = copy[h].driver THEN row.driver ELSE w.driver
             /\ w.driver = copy[h].driver =>
                   w.assignment = copy[h].assignment \/ w.driver = w.assignment.auto \/ w.driver = NoDriver
             /\ w.driver # copy[h].driver => w.driver = NoDriver \/ w.driver = w.assignment.auto
      BY <1>0, <2>1, UndisturbedCommit
    <2>3. copy[h].assignment = row.assignment
      BY <1>0, <2>1 DEF CopyIsCurrent
    <2>4. origin' = IF row'.driver = row.driver THEN origin ELSE IF row'.driver = NoDriver THEN "nobody" ELSE "rule"
      BY <1>1 DEF RecordCommit
    <2>5. origin' = "rule" => row'.driver # NoDriver /\ row'.driver = row'.assignment.auto
      <3>1. CASE row'.driver = row.driver
        BY <2>1, <2>2, <2>3, <2>4, <3>1
      <3>2. CASE row'.driver # row.driver
        BY <2>2, <2>4, <3>2
      <3>3. QED
        BY <3>1, <3>2
    <2>6. QED
      BY <1>0, <2>1, <2>5 DEF Undisturbed, OneHandler
  <1>2. ASSUME NEW h \in Handler, RecordDispatch(h) PROVE OwnInv'
    <2>1. UNCHANGED <<row, origin>> /\ phase'[h] = "idle"
      BY <1>0, <1>2 DEF RecordDispatch, Dispatch, Forget, TypeOK
    <2>2. QED
      BY <1>0, <2>1 DEF Undisturbed, OneHandler
  <1>3. ASSUME NEW h \in Handler, NEW on, RecordEvaluate(h, on) PROVE OwnInv'
    <2>1. UNCHANGED <<row, origin>> /\ phase'[h] = "evaluated"
      BY <1>0, <1>3 DEF RecordEvaluate, Evaluate, TypeOK
    <2>2. QED
      BY <1>0, <2>1 DEF Undisturbed, OneHandler
  <1>4. CASE RecordSweepDispatch \/ RecordSilence
    BY <1>0, <1>4 DEF RecordSweepDispatch, RecordSilence, SweepDispatch, Silence, handlerVars
  <1>5. ASSUME NEW d, RecordAssignDriver(d) PROVE OwnInv'
    BY <1>0, <1>5 DEF RecordAssignDriver
  <1>6. CASE RecordLoss
    <2>1. UNCHANGED <<row, origin>> /\ \A g \in Handler : phase'[g] = "idle" \/ (phase'[g] = phase[g] /\ copy'[g] = copy[g])
      BY <1>0, <1>6 DEF RecordLoss, SweepSkip, Crash, Fail, Forget, handlerVars, TypeOK
    <2>2. QED
      BY <1>0, <2>1
  <1>7. CASE Unrecorded
    <2>1. ASSUME NEW h \in Handler, Load(h) PROVE OwnInv'
      <3>1. UNCHANGED <<row, origin>> /\ copy'[h] = row
        BY <1>0, <1>7, <2>1 DEF Unrecorded, Load, TypeOK
      <3>2. QED
        BY <1>0, <3>1 DEF Undisturbed, OneHandler
    <2>2. ASSUME NEW h \in Handler, Save(h) PROVE OwnInv'
      <3>1. phase[h] = "evaluated" /\ phase'[h] = "saved" /\ origin' = origin
            /\ row'.driver = row.driver /\ row'.assignment = copy[h].assignment
        BY <1>0, <1>7, <2>2 DEF Unrecorded, Save, TypeOK, Row
      <3>2. copy[h].assignment = row.assignment
        BY <1>0, <3>1 DEF CopyIsCurrent
      <3>3. QED
        BY <1>0, <3>1, <3>2 DEF Undisturbed, OneHandler
    <2>3. ~SweepRead /\ ~SweepSave
      BY <1>0 DEF SweepRead, SweepSave, Undisturbed, CopyIsCurrent
    <2>4. ASSUME NEW d \in Driver, EditDriver(d) PROVE OwnInv'
      BY <1>0, <1>7, <2>4 DEF Unrecorded, EditDriver, handlerVars
    <2>5. QED
      BY <1>7, <2>1, <2>2, <2>3, <2>4 DEF Unrecorded
  <1>8. CASE UNCHANGED historyVars
    BY <1>0, <1>8 DEF historyVars, vars, handlerVars
  <1>9. QED
    BY <1>1, <1>2, <1>3, <1>4, <1>5, <1>6, <1>7, <1>8 DEF HistoryNext

\* While positions are handled one at a time and no offline row is swept, a
\* driver that auto-assignment put in is on record as its own, so that it is
\* also released by it (auto_assign.py); operators and faults may step in.
THEOREM OwnDriverRecognized ==
    ASSUME Undisturbed
    PROVE  HistorySpec => []OwnAssignmentRecognized
  <1>1. HistoryInit => OwnInv
    BY BaseInitially DEF HistoryInit, Init, OwnInv, OwnAssignmentRecognized
  <1>2. OwnInv /\ [HistoryNext]_historyVars => OwnInv'
    BY OwnStep
  <1>3. OwnInv => OwnAssignmentRecognized
    BY DEF OwnInv
  <1>4. QED
    BY <1>1, <1>2, <1>3, PTL DEF HistorySpec

-----------------------------------------------------------------------------
(* The episodes of one alert k, of a row that is configured.  The latch in *)
(* the column, the alert raised and the condition go together, except      *)
(* between the evaluation and the dispatch and after something was lost.   *)
Pending(h, k) == phase[h] \in {"evaluated", "saved"} /\ k \in alerts[h]
EpisodeInv(k) ==
    /\ raised[k] \in {0, 1}
    /\ raised[k] = 1 => condition[k] /\ k \in row.latched
    /\ \A h \in Handler :
          /\ phase[h] = "evaluated" /\ (raised[k] = 1 \/ k \in alerts[h]) => k \in copy[h].latched
          /\ phase[h] = "saved" /\ k \in alerts[h] => k \in row.latched
          /\ Pending(h, k) => condition[k] /\ raised[k] = 0
    /\ ~lost =>
          /\ \A h \in Handler : (IF phase[h] = "evaluated" THEN k \in copy[h].latched ELSE k \in row.latched) => condition[k]
          /\ condition[k] => raised[k] = 1 \/ \E h \in Handler : Pending(h, k)
RowOf(k) == IF k \in ZoneLatch THEN "geofence" ELSE "no_driver"
\* A step of AlertEpisode.
EpisodeStep(k) ==
    /\ \/ ~condition[k] /\ condition'[k] /\ raised'[k] = raised[k]
       \/ condition[k] /\ raised[k] = 0 /\ raised'[k] = 1 /\ condition'[k] = condition[k]
       \/ condition[k] /\ (raised[k] = 1 \/ lost) /\ ~condition'[k] /\ raised'[k] = 0
       \/ condition'[k] = condition[k] /\ raised'[k] = raised[k]
    /\ lost => lost'

\* An evaluation keeps the invariant of an episode and is one of its steps.
LEMMA EpisodeEvaluate ==
    ASSUME Undisturbed, HistoryBase, NEW k \in Latch \ {"offline"}, RowOf(k) \in Rows, EpisodeInv(k),
           NEW h \in Handler, NEW off \in SUBSET Scheduled, RecordEvaluate(h, Rows \ off), HistoryBase'
    PROVE  EpisodeInv(k)' /\ EpisodeStep(k)
  <1> USE DEF HistoryBase, TypeOK, RecordTypeOK, EpisodeInv, Pending
  <1> DEFINE on == Rows \ off
             p == pos[h]
  <1>1. /\ phase[h] = "committed" /\ phase'[h] = "evaluated" /\ row' = row
        /\ condition' = Condition(p, row) /\ raised'[k] = IF condition'[k] THEN raised[k] ELSE 0
        /\ lost' = (lost \/ on # Rows)
    BY DEF RecordEvaluate, Evaluate
  <1>2. /\ copy'[h].latched = Latched(p, row, on) /\ alerts'[h] = Fired(p, row, on)
    BY EvaluateEffect DEF RecordEvaluate
  <1>3. \A g \in Handler : g = h
    BY DEF Undisturbed, OneHandler
  <1>4. p \in Position /\ row.latched \subseteq Latch
    BY DEF Row
  <1> DEFINE holds == k \in Holding(p, row, on)
             ends == k \in Ended(p, row, on)
  <1>5. /\ holds => condition'[k] /\ ~ends
        /\ ends => ~condition'[k]
        /\ on = Rows => (condition'[k] <=> holds \/ (~ends /\ condition[k]))
    <2>1. CASE k \in ZoneLatch
      <3>1. condition'[k] <=> k \in Violations(p)
        BY <1>1, <1>4, <2>1 DEF Condition, Violations, ZoneLatch, Position, Latch
      <3>2. holds <=> "geofence" \in on /\ k \in Violations(p)
        BY <2>1 DEF Holding, ZoneLatch
      <3>3. ends <=> "geofence" \in on /\ k \notin Violations(p)
        BY <2>1 DEF Ended, ZoneLatch
      <3>4. on = Rows => "geofence" \in on
        BY <2>1 DEF RowOf
      <3>5. QED
        BY <3>1, <3>2, <3>3, <3>4
    <2>2. CASE k = "no_driver"
      <3>1. condition'[k] = IF p.ignition = "off" THEN FALSE ELSE IF p.moving THEN row.driver = NoDriver ELSE condition[k]
        BY <1>1, <1>4, <2>2 DEF Condition, Position, Latch
      <3>2. holds <=> "no_driver" \in on /\ p.ignition # "off" /\ p.moving /\ row.driver = NoDriver
        BY <2>2 DEF Holding, Violations
      <3>3. ends <=> "no_driver" \in on /\ (p.ignition = "off" \/ (p.moving /\ row.driver # NoDriver))
        BY <2>2 DEF Ended, ZoneLatch
      <3>4. on = Rows => "no_driver" \in on
        BY <2>2 DEF RowOf, ZoneLatch
      <3>5. QED
        BY <3>1, <3>2, <3>3, <3>4
    <2>3. QED
      BY <2>1, <2>2 DEF Latch
  <1>6. k \in copy'[h].latched <=> (k \in row.latched \/ holds) /\ ~ends
    BY <1>2 DEF Latched
  <1>7. k \in alerts'[h] <=> holds /\ k \notin row.latched
    BY <1>2 DEF Fired
  <1>8. /\ raised[k] \in {0, 1} /\ raised[k] = 1 => condition[k] /\ k \in row.latched
        /\ ~lost => (k \in row.latched => condition[k]) /\ (condition[k] => raised[k] = 1)
    BY <1>1, <1>3
  <1>9. condition[k] \in BOOLEAN /\ condition'[k] \in BOOLEAN /\ lost \in BOOLEAN /\ lost' \in BOOLEAN
    OBVIOUS
  <1> HIDE DEF holds, ends
  <1>10. EpisodeInv(k)'
    <2>1. raised'[k] \in {0, 1} /\ (raised'[k] = 1 => condition'[k] /\ k \in row'.latched)
      BY <1>1, <1>8
    <2>2. (raised'[k] = 1 \/ k \in alerts'[h]) => k \in copy'[h].latched
      BY <1>1, <1>5, <1>6, <1>7, <1>8
    <2>3. k \in alerts'[h] => condition'[k] /\ raised'[k] = 0
      BY <1>1, <1>5, <1>7, <1>8
    <2>4. ~lost' => (k \in copy'[h].latched => condition'[k]) /\ (condition'[k] => raised'[k] = 1 \/ k \in alerts'[h])
      BY <1>1, <1>5, <1>6, <1>7, <1>8
    <2>5. QED
      BY <1>1, <1>3, <2>1, <2>2, <2>3, <2>4
  <1>11. EpisodeStep(k)
    BY <1>1, <1>8, <1>9 DEF EpisodeStep
  <1>12. QED
    BY <1>10, <1>11

\* So does every other step.
LEMMA EpisodeOther ==
    ASSUME Undisturbed, HistoryBase, NEW k \in Latch \ {"offline"}, EpisodeInv(k), [HistoryNext]_historyVars,
           \A h \in Handler : \A off \in SUBSET Scheduled : ~RecordEvaluate(h, Rows \ off)
    PROVE  EpisodeInv(k)' /\ EpisodeStep(k)
  <1> USE DEF EpisodeInv
  <1>0. /\ TypeOK /\ RecordTypeOK /\ CopyIsCurrent /\ condition[k] \in BOOLEAN /\ raised[k] \in {0, 1}
        /\ \A g, h \in Handler : g = h
        /\ k \in Latch /\ k # "offline"
    BY DEF HistoryBase, RecordTypeOK, Undisturbed, OneHandler
  <1> DEFINE Same == condition'[k] = condition[k] /\ raised'[k] = raised[k] /\ (lost => lost')
  <1>1. Same => EpisodeStep(k)
    BY DEF EpisodeStep
  <1>2. ASSUME NEW h \in Handler, RecordCommit(h) PROVE EpisodeInv(k)' /\ EpisodeStep(k)
    <2>1. phase[h] = "loaded" /\ phase'[h] = "committed" /\ row'.latched = row.latched /\ lost' = lost
      BY <1>0, <1>2, CommitEffect, UndisturbedCommit DEF RecordCommit, TypeOK
    <2>2. condition'[k] = condition[k] /\ raised'[k] = raised[k]
      BY <1>0, <1>2 DEF RecordCommit, RecordTypeOK
    <2>3. EpisodeInv(k)'
      BY <1>0, <2>1, <2>2 DEF Pending
    <2>4. QED
      BY <1>1, <2>1, <2>2, <2>3
  <1>3. ASSUME NEW h \in Handler, RecordDispatch(h) PROVE EpisodeInv(k)' /\ EpisodeStep(k)
    <2>1. phase[h] = "saved" /\ phase'[h] = "idle" /\ alerts'[h] = {} /\ UNCHANGED <<row, lost, condition>>
      BY <1>0, <1>3 DEF RecordDispatch, Dispatch, Forget, TypeOK
    <2>2. raised'[k] = IF k \in alerts[h] /\ raised[k] < 2 THEN raised[k] + 1 ELSE raised[k]
      BY <1>0, <1>3 DEF RecordDispatch, Count
    <2>3. CASE k \in alerts[h]
      <3>1. condition[k] /\ raised[k] = 0 /\ k \in row.latched /\ raised'[k] = 1
        BY <2>1, <2>2, <2>3 DEF Pending
      <3>2. EpisodeInv(k)'
        BY <1>0, <2>1, <3>1 DEF Pending
      <3>3. QED
        BY <2>1, <3>1, <3>2 DEF EpisodeStep
    <2>4. CASE k \notin alerts[h]
      <3>1. raised'[k] = raised[k] /\ condition'[k] = condition[k]
        BY <2>1, <2>2, <2>4
      <3>2. EpisodeInv(k)'
        BY <1>0, <2>1, <2>4, <3>1 DEF Pending
      <3>3. QED
        BY <1>1, <2>1, <3>1, <3>2
    <2>5. QED
      BY <2>3, <2>4
  <1>4. ~RecordSweepDispatch
    BY <1>0 DEF RecordSweepDispatch, SweepDispatch, CopyIsCurrent
  <1>5. CASE RecordSilence
    <2>1. UNCHANGED <<row, lost, phase, copy, alerts>>
      BY <1>5 DEF RecordSilence, Silence, handlerVars
    <2>2. condition'[k] = condition[k] /\ raised'[k] = raised[k]
      BY <1>0, <1>5 DEF RecordSilence, RecordTypeOK
    <2>3. EpisodeInv(k)'
      BY <2>1, <2>2 DEF Pending
    <2>4. QED
      BY <1>1, <2>1, <2>2, <2>3
  <1>6. ASSUME NEW d, RecordAssignDriver(d) PROVE EpisodeInv(k)' /\ EpisodeStep(k)
    <2>1. UNCHANGED <<lost, phase, copy, alerts, condition, raised>> /\ row'.latched = row.latched
      BY <1>0, <1>6 DEF RecordAssignDriver, AssignDriver, handlerVars, alertRecord, TypeOK, Row
    <2>2. EpisodeInv(k)'
      BY <2>1 DEF Pending
    <2>3. QED
      BY <1>1, <2>1, <2>2
  <1>7. CASE RecordLoss
    <2>1. UNCHANGED <<row, condition, raised>> /\ lost' = TRUE
      BY <1>7 DEF RecordLoss, alertRecord, SweepSkip, Crash, Fail
    <2>2. \A g \in Handler : phase'[g] = "idle" \/ (phase'[g] = phase[g] /\ copy'[g] = copy[g] /\ alerts'[g] = alerts[g])
      BY <1>0, <1>7 DEF RecordLoss, SweepSkip, Crash, Fail, Forget, handlerVars, TypeOK
    <2>3. EpisodeInv(k)'
      BY <2>1, <2>2 DEF Pending
    <2>4. QED
      BY <1>1, <2>1, <2>3
  <1>8. CASE Unrecorded
    <2>1. UNCHANGED <<condition, raised, lost>>
      BY <1>8 DEF Unrecorded, alertRecord
    <2>2. ASSUME NEW h \in Handler, Load(h) PROVE EpisodeInv(k)'
      <3>1. UNCHANGED <<row, alerts>> /\ phase[h] = "idle" /\ phase'[h] = "loaded"
        BY <1>0, <2>2 DEF Load, TypeOK
      <3>2. QED
        BY <1>0, <2>1, <3>1 DEF Pending
    <2>3. ASSUME NEW h \in Handler, Save(h) PROVE EpisodeInv(k)'
      <3>1. phase[h] = "evaluated" /\ phase'[h] = "saved" /\ UNCHANGED alerts /\ row'.latched = copy[h].latched
        BY <1>0, <2>3 DEF Save, TypeOK, Row
      <3>2. QED
        BY <1>0, <2>1, <3>1 DEF Pending
    <2>4. ~SweepRead /\ ~SweepSave
      BY <1>0 DEF SweepRead, SweepSave, Undisturbed, CopyIsCurrent
    <2>5. ASSUME NEW d \in Driver, EditDriver(d) PROVE EpisodeInv(k)'
      BY <2>1, <2>5 DEF EditDriver, handlerVars, Pending
    <2>6. EpisodeInv(k)'
      BY <1>8, <2>2, <2>3, <2>4, <2>5 DEF Unrecorded
    <2>7. QED
      BY <1>1, <2>1, <2>6
  <1>9. CASE UNCHANGED historyVars
    <2>1. UNCHANGED <<condition, raised, lost, row, phase, copy, alerts>>
      BY <1>9 DEF historyVars, vars, handlerVars, alertRecord
    <2>2. EpisodeInv(k)'
      BY <2>1 DEF Pending
    <2>3. QED
      BY <1>1, <2>1, <2>2
  <1>10. QED
    BY <1>2, <1>3, <1>4, <1>5, <1>6, <1>7, <1>8, <1>9 DEF HistoryNext

\* So does any step at all.
LEMMA EpisodesKept ==
    ASSUME Undisturbed, HistoryBase, NEW k \in Latch \ {"offline"}, RowOf(k) \in Rows, EpisodeInv(k),
           [HistoryNext]_historyVars
    PROVE  EpisodeInv(k)' /\ EpisodeStep(k)
  <1>1. HistoryBase'
    BY BaseStep
  <1>2. CASE \E h \in Handler : \E off \in SUBSET Scheduled : RecordEvaluate(h, Rows \ off)
    BY <1>1, <1>2, EpisodeEvaluate
  <1>3. QED
    BY <1>2, EpisodeOther

\* No episode has begun at the start.
LEMMA EpisodesInitially ==
    ASSUME HistoryInit, NEW k \in Latch
    PROVE  EpisodeInv(k) /\ condition[k] = FALSE /\ raised[k] = 0 /\ lost = FALSE
  <1>1. raised[k] = 0 /\ condition[k] = FALSE /\ lost = FALSE /\ row.latched = {}
        /\ \A h \in Handler : phase[h] = "idle"
    BY DEF HistoryInit, Init, NewRow
  <1>2. QED
    BY <1>1 DEF EpisodeInv, Pending

\* The rows of the alerts whose episodes are stated.
LEMMA NamedLatches == {"enter", "exit", "no_driver"} \subseteq Latch \ {"offline"}
                      /\ RowOf("enter") = "geofence" /\ RowOf("exit") = "geofence" /\ RowOf("no_driver") = "no_driver"
  BY DEF Latch, ZoneLatch, RowOf

\* The zone alerts of AlertHistory implement AlertEpisode: each stay inside (or
\* outside) the zone raises its alert once, and at most once after a fault or a
\* pause of the row, for positions handled one at a time (alert_engine.py, the save
\* before the dispatch).
THEOREM ZoneAlertsFollowEpisodes ==
    ASSUME Undisturbed, "geofence" \in Rows
    PROVE  HistorySpec => ZoneEpisodes
  <1> DEFINE Inv == HistoryBase /\ EpisodeInv("enter") /\ EpisodeInv("exit")
  <1>1. HistoryInit => Inv /\ Enter!Init /\ Exit!Init
    BY BaseInitially, EpisodesInitially, NamedLatches DEF Enter!Init, Exit!Init
  <1>2. Inv /\ [HistoryNext]_historyVars => Inv' /\ EpisodeStep("enter") /\ EpisodeStep("exit")
    BY BaseStep, EpisodesKept, NamedLatches
  <1>3. EpisodeStep("enter") => [Enter!Next]_Enter!vars
    BY DEF EpisodeStep, Enter!Next, Enter!vars, Enter!Begin, Enter!Raise, Enter!End, Enter!Lose
  <1>4. EpisodeStep("exit") => [Exit!Next]_Exit!vars
    BY DEF EpisodeStep, Exit!Next, Exit!vars, Exit!Begin, Exit!Raise, Exit!End, Exit!Lose
  <1>5. QED
    BY <1>1, <1>2, <1>3, <1>4, PTL DEF HistorySpec, ZoneEpisodes, Enter!Spec, Exit!Spec

\* The same of the alert on moving without a driver, whose condition also
\* depends on what auto-assignment and operators do to the row.
THEOREM DriverAlertsFollowEpisodes ==
    ASSUME Undisturbed, "no_driver" \in Rows
    PROVE  HistorySpec => NoDriverEpisodes
  <1> DEFINE Inv == HistoryBase /\ EpisodeInv("no_driver")
  <1>1. HistoryInit => Inv /\ WithoutDriver!Init
    BY BaseInitially, EpisodesInitially, NamedLatches DEF WithoutDriver!Init
  <1>2. Inv /\ [HistoryNext]_historyVars => Inv' /\ EpisodeStep("no_driver")
    BY BaseStep, EpisodesKept, NamedLatches
  <1>3. EpisodeStep("no_driver") => [WithoutDriver!Next]_WithoutDriver!vars
    BY DEF EpisodeStep, WithoutDriver!Next, WithoutDriver!vars, WithoutDriver!Begin, WithoutDriver!Raise,
           WithoutDriver!End, WithoutDriver!Lose
  <1>4. QED
    BY <1>1, <1>2, <1>3, PTL DEF HistorySpec, NoDriverEpisodes, WithoutDriver!Spec
=============================================================================
