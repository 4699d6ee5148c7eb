-------------------------- MODULE IntegrationEngine --------------------------
(***************************************************************************)
(* The task that polls a provider for one account and one device, with its *)
(* memory: the authentication it caches, the time up to which the device   *)
(* was seen and the provider's cursor.  Requests change the account and    *)
(* the device while a cycle awaits the database or the provider, and wake  *)
(* the task.  Positions are numbered in the order of their times, and so   *)
(* are the credentials.                                                    *)
(***************************************************************************)
EXTENDS Integers, Sequences, FiniteSets

CONSTANTS
    MaxPosition,    \* bound: positions that the provider records
    MaxCredentials, \* bound: changes of the credentials
    MaxAsks,        \* bound: requests
    MaxStoreErrors, \* bound: positions whose processing fails
    MaxPollRestarts \* bound: restarts of the server

ASSUME IntegrationEngineAssumption ==
    {MaxPosition, MaxCredentials, MaxAsks, MaxStoreErrors, MaxPollRestarts} \subseteq Nat
\* There are credentials to begin with.
ASSUME CredentialsAssumption == MaxCredentials # 0

Polled == 1..MaxPosition
Credentials == 1..MaxCredentials

VARIABLES
    account,        \* the row of the account: whether it is active, its credentials
    valid,          \* the credentials that the provider accepts
    recorded,       \* the last position that the provider has recorded
    times,          \* how often each position was stored
    ask,            \* the request under way
    wake, pollPhase,    \* the event that wakes the task; where the task is
    cycle,          \* what a cycle has read: floor, credentials or context, positions to process
    cached,         \* _auth_cache: the credentials of the context, 0 for none
    due,            \* _is_due
    floor, cursor,  \* _last_seen_db and the provider's _last_seen, 0 for none
    \* history: a request has woken the task and its commit was not read since; an
    \* authentication was under way or begun beside a change of the credentials; positions
    \* that failed; floors read from the database; a floor was dropped before a cursor was there
    unread, authRaced, failed, seeded, dropped,
    asks, pollRestarts  \* what the bounds have used

pollMemory == <<wake, pollPhase, cycle, cached, due, floor, cursor>>
pollRows == <<account, valid, recorded, times>>
pollHistory == <<unread, authRaced, failed, seeded, dropped>>
integrationEngineVars == <<pollRows, ask, pollMemory, pollHistory, asks, pollRestarts>>

NoAsk == [kind |-> "none"]
NewCycle == [floor |-> 0, with |-> 0, batch |-> <<>>]
Larger(a, b) == IF a > b THEN a ELSE b
Stored == {p \in Polled : times[p] > 0}
Newest == {p \in Stored : \A q \in Stored : q <= p}

IntegrationEngineTypeOK ==
    /\ account \in [active : BOOLEAN, credentials : Credentials] /\ valid \in Credentials
    /\ recorded \in 0..MaxPosition /\ times \in [Polled -> 0..(2 + pollRestarts)]
    /\ ask.kind \in {"none", "update", "wake"} /\ {wake, due, unread, authRaced, dropped} \subseteq BOOLEAN
    /\ pollPhase \in {"starting", "reading", "loading", "authenticating", "fetching", "processing", "asleep"}
    /\ cached \in 0..MaxCredentials /\ {floor, cursor, cycle.floor} \subseteq 0..MaxPosition
    /\ failed \cup seeded \subseteq Polled /\ asks \in 0..MaxAsks /\ pollRestarts \in 0..MaxPollRestarts
    /\ Cardinality(failed) <= MaxStoreErrors

IntegrationEngineInit ==
    /\ account \in [active : BOOLEAN, credentials : {1}] /\ valid = 1 /\ recorded = 0
    /\ times = [p \in Polled |-> 0] /\ ask = NoAsk /\ wake = FALSE /\ pollPhase = "starting"
    /\ cycle = NewCycle /\ cached = 0 /\ due = TRUE /\ floor = 0 /\ cursor = 0
    /\ unread = FALSE /\ authRaced = FALSE /\ failed = {} /\ seeded = {} /\ dropped = FALSE
    /\ asks = 0 /\ pollRestarts = 0

-----------------------------------------------------------------------------
(* The task. *)
\* _init_last_seen: the newest stored position.
Seed ==
    /\ pollPhase = "starting" /\ pollPhase' = "asleep"
    /\ floor' \in (IF Stored = {} THEN {0} ELSE Newest) /\ seeded' = seeded \cup Newest
    /\ UNCHANGED <<pollRows, ask, wake, cycle, cached, due, cursor, unread, authRaced, failed, dropped, asks, pollRestarts>>

\* The task was woken, or its time is over: the event is cleared before anything is read.
BeginCycle ==
    /\ pollPhase = "asleep" /\ pollPhase' = "reading" /\ wake' = FALSE /\ cycle' = NewCycle
    /\ UNCHANGED <<pollRows, ask, cached, due, floor, cursor, pollHistory, asks, pollRestarts>>

\* The active accounts and their devices that are due.
ReadAccounts ==
    /\ pollPhase = "reading" /\ unread' = FALSE
    /\ pollPhase' = IF account.active /\ due THEN "loading" ELSE "asleep"
    /\ cycle' = [cycle EXCEPT !.floor = floor]
    /\ UNCHANGED <<pollRows, ask, wake, cached, due, floor, cursor, authRaced, failed, seeded, dropped, asks, pollRestarts>>

\* The account's row again, and a context that is cached; without one the provider is asked.
LoadAccount ==
    /\ pollPhase = "loading" /\ account.active
    /\ pollPhase' = IF cached # 0 THEN "fetching" ELSE "authenticating"
    /\ cycle' = [cycle EXCEPT !.with = IF cached # 0 THEN cached ELSE account.credentials]
    /\ authRaced' = (authRaced \/ (cached = 0 /\ ask.kind = "update"))
    /\ UNCHANGED <<pollRows, ask, wake, cached, due, floor, cursor, unread, failed, seeded, dropped, asks, pollRestarts>>
AccountGone ==
    /\ pollPhase = "loading" /\ ~account.active
    /\ pollPhase' = "asleep" /\ due' = FALSE
    /\ UNCHANGED <<pollRows, ask, wake, cycle, cached, floor, cursor, pollHistory, asks, pollRestarts>>

Authenticated ==
    /\ pollPhase = "authenticating" /\ cycle.with = valid
    /\ pollPhase' = "fetching" /\ cached' = cycle.with
    /\ UNCHANGED <<pollRows, ask, wake, cycle, due, floor, cursor, pollHistory, asks, pollRestarts>>
\* The credentials are refused, or the provider does not answer.
NotAuthenticated ==
    /\ pollPhase = "authenticating" /\ pollPhase' = "asleep" /\ due' = FALSE
    /\ UNCHANGED <<pollRows, ask, wake, cycle, cached, floor, cursor, pollHistory, asks, pollRestarts>>

\* What the provider is asked for: from the later of its own cursor and the floor of the
\* cycle, that position included.
From == Larger(1, Larger(cursor, cycle.floor))
\* The provider's session may outlive the credentials it was begun with.
FetchPositions ==
    /\ pollPhase = "fetching" /\ pollPhase' = "processing"
    /\ cycle' = [cycle EXCEPT !.batch = [i \in 1..(recorded - From + 1) |-> From + i - 1]]
    /\ UNCHANGED <<pollRows, ask, wake, cached, due, floor, cursor, pollHistory, asks, pollRestarts>>
\* A refused or failed request counts as an empty answer, unless the provider says that its
\* session has ended.
FetchFails ==
    /\ pollPhase = "fetching" /\ pollPhase' = "asleep" /\ due' = FALSE
    /\ cached' \in (IF cycle.with = valid THEN {cached} ELSE {0, cached})
    /\ UNCHANGED <<pollRows, ask, wake, cycle, floor, cursor, pollHistory, asks, pollRestarts>>

Fresh(p) == p > cursor
\* The cursor moves before the position is processed; process_position_callback keeps its
\* errors to itself, and the floor moves all the same.
ProcessPosition ==
    /\ pollPhase = "processing" /\ cycle.batch # <<>>
    /\ cycle' = [cycle EXCEPT !.batch = Tail(@)]
    /\ LET p == Head(cycle.batch) IN
       IF ~Fresh(p) THEN UNCHANGED <<cursor, times, failed, floor, due>>
       ELSE /\ cursor' = p /\ floor' = Larger(floor, p) /\ due' = FALSE
            /\ \/ times' = [times EXCEPT ![p] = @ + 1] /\ UNCHANGED failed
               \/ /\ failed' = failed \cup {p} /\ Cardinality(failed') <= MaxStoreErrors /\ UNCHANGED times
    /\ UNCHANGED <<account, valid, recorded, ask, wake, pollPhase, cached, unread, authRaced, seeded, dropped, asks, pollRestarts>>
EndCycle ==
    /\ pollPhase = "processing" /\ cycle.batch = <<>>
    /\ pollPhase' = "asleep" /\ due' = FALSE
    /\ UNCHANGED <<pollRows, ask, wake, cycle, cached, floor, cursor, pollHistory, asks, pollRestarts>>

BecomesDue ==
    /\ ~due /\ due' = TRUE
    /\ UNCHANGED <<pollRows, ask, wake, pollPhase, cycle, cached, floor, cursor, pollHistory, asks, pollRestarts>>

-----------------------------------------------------------------------------
(* The requests and the provider. *)
Evicted == 0
\* create_account with a label that exists: the row is updated, the context evicted and the
\* task woken before the commit.
UpdateAccount(new) ==
    /\ ask = NoAsk /\ asks < MaxAsks /\ asks' = asks + 1
    /\ ask' = [kind |-> "update", new |-> new]
    /\ cached' = Evicted /\ wake' = TRUE
    /\ authRaced' = (pollPhase = "authenticating")
    /\ UNCHANGED <<pollRows, pollPhase, cycle, due, floor, cursor, unread, failed, seeded, dropped, pollRestarts>>
UpdateCommits ==
    /\ ask.kind = "update" /\ ask' = NoAsk
    /\ account' = [active |-> TRUE, credentials |-> ask.new]
    /\ UNCHANGED <<valid, recorded, times, pollMemory, pollHistory, asks, pollRestarts>>

\* delete_account commits and then wakes the task.
DeleteAccount ==
    /\ ask = NoAsk /\ asks < MaxAsks /\ asks' = asks + 1 /\ ask' = [kind |-> "wake"]
    /\ account' = [account EXCEPT !.active = FALSE]
    /\ UNCHANGED <<valid, recorded, times, pollMemory, pollHistory, pollRestarts>>

\* update_device commits, drops what the engine keeps of the device and then wakes the task.
EditDevice ==
    /\ ask = NoAsk /\ asks < MaxAsks /\ asks' = asks + 1 /\ ask' = [kind |-> "wake"]
    /\ floor' = 0 /\ due' = TRUE /\ dropped' = (dropped \/ (cursor = 0 /\ Stored # {}))
    /\ UNCHANGED <<pollRows, wake, pollPhase, cycle, cached, cursor, unread, authRaced, failed, seeded, pollRestarts>>
WakeEngine ==
    /\ ask.kind = "wake" /\ ask' = NoAsk
    /\ wake' = TRUE /\ unread' = TRUE
    /\ UNCHANGED <<pollRows, pollPhase, cycle, cached, due, floor, cursor, authRaced, failed, seeded, dropped, asks, pollRestarts>>

PositionRecorded ==
    /\ recorded < MaxPosition /\ recorded' = recorded + 1
    /\ UNCHANGED <<account, valid, times, ask, pollMemory, pollHistory, asks, pollRestarts>>
CredentialsChange ==
    /\ valid < MaxCredentials /\ valid' = valid + 1
    /\ UNCHANGED <<account, recorded, times, ask, pollMemory, pollHistory, asks, pollRestarts>>

\* The memory is lost, and so is a transaction under way.
RestartPolling ==
    /\ pollRestarts < MaxPollRestarts /\ pollRestarts' = pollRestarts + 1
    /\ ask' = NoAsk /\ wake' = FALSE /\ pollPhase' = "starting" /\ cycle' = NewCycle /\ cached' = 0
    /\ due' = TRUE /\ floor' = 0 /\ cursor' = 0 /\ unread' = FALSE /\ authRaced' = FALSE
    /\ UNCHANGED <<pollRows, failed, seeded, dropped, asks>>

PollStep ==
    \/ Seed \/ BeginCycle \/ ReadAccounts \/ LoadAccount \/ AccountGone \/ FetchPositions
    \/ ProcessPosition \/ EndCycle
IntegrationEngineNext ==
    \/ PollStep \/ Authenticated \/ NotAuthenticated \/ FetchFails \/ BecomesDue
    \/ (\E new \in Credentials : UpdateAccount(new)) \/ UpdateCommits
    \/ DeleteAccount \/ EditDevice \/ WakeEngine
    \/ PositionRecorded \/ CredentialsChange \/ RestartPolling

-----------------------------------------------------------------------------
\* No wake-up is lost: a task that sleeps, with the event not set, has read the account and
\* the device after every change whose request has woken it after its commit.
NoWakeIsLost == pollPhase = "asleep" /\ ~wake => ~unread

\* A change of the credentials evicts the context of the old ones; they are used again only
\* if an authentication was under way, or the credentials were read before the commit.
OldCredentialsOnlyByRace ==
    ask = NoAsk /\ cached \notin {0, account.credentials} => authRaced

\* Up to the floor nothing is missing but what failed.
OnlyFailuresMissing == 1..Larger(floor, cursor) \subseteq Stored \cup failed

\* "Seeded from DB on startup so restarts don't reprocess old positions"
\* (integrations/engine.py:56): only the position that was the newest one at a restart is
\* processed again, or more when the device was edited before the first poll had an answer.
OnlyTheSeedAgain == \A p \in Polled : times[p] > 1 => p \in seeded \/ dropped

IntegrationEngineSound ==
    NoWakeIsLost /\ OldCredentialsOnlyByRace /\ OnlyFailuresMissing /\ OnlyTheSeedAgain

IntegrationEngineSpec == IntegrationEngineInit /\ [][IntegrationEngineNext]_integrationEngineVars

=============================================================================
