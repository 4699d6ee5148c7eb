-------------------------- MODULE CommandLifecycle --------------------------
(***************************************************************************)
(* What the command queue promises of a row, whatever its handlers, the    *)
(* network and the operators do.  A row is created pending.  It becomes    *)
(* "sent" only through a claim taken while it was pending and "acked" only *)
(* through a claim taken while it was sent; a claim may be used late, after *)
(* the row has been cancelled or acked, but nobody takes a claim on a row   *)
(* that is finished, and no row becomes pending again.                     *)
(***************************************************************************)
CONSTANT Command

VARIABLES
    status,  \* status of each row
    toSend,  \* rows some task has read as pending and may yet mark sent
    toAck    \* rows some task has read as sent and may yet mark acked

vars == <<status, toSend, toAck>>

Init ==
    /\ status = [c \in Command |-> "absent"]
    /\ toSend = {}
    /\ toAck = {}

Create(c) ==
    /\ status[c] = "absent"
    /\ status' = [status EXCEPT ![c] = "pending"]
    /\ UNCHANGED <<toSend, toAck>>

Cancel(c) ==
    /\ status[c] \in {"pending", "sent"}
    /\ status' = [status EXCEPT ![c] = "canceled"]
    /\ UNCHANGED <<toSend, toAck>>

Delete(c) ==
    /\ status[c] \notin {"absent", "deleted"}
    /\ status' = [status EXCEPT ![c] = "deleted"]
    /\ UNCHANGED <<toSend, toAck>>

ClaimToSend ==
    /\ toSend' \in {toSend \cup S : S \in SUBSET {c \in Command : status[c] = "pending"}}
    /\ UNCHANGED <<status, toAck>>

ClaimToAck(c) ==
    /\ status[c] = "sent"
    /\ toAck' = toAck \cup {c}
    /\ UNCHANGED <<status, toSend>>

\* The claim is spent, unless another task holds one on the same row.
Send(c) ==
    /\ c \in toSend
    /\ status' = [status EXCEPT ![c] = IF @ = "deleted" THEN @ ELSE "sent"]
    /\ toSend' \in {toSend, toSend \ {c}}
    /\ UNCHANGED toAck

Ack(c) ==
    /\ c \in toAck
    /\ status' = [status EXCEPT ![c] = IF @ = "deleted" THEN @ ELSE "acked"]
    /\ toAck' \in {toAck, toAck \ {c}}
    /\ UNCHANGED toSend

\* Claims are given up: a failed write, a database error, a restart.
GiveUp ==
    /\ toSend' \in SUBSET toSend
    /\ toAck' \in SUBSET toAck
    /\ UNCHANGED status

Next ==
    \/ ClaimToSend \/ GiveUp
    \/ \E c \in Command :
          Create(c) \/ Cancel(c) \/ Delete(c) \/ ClaimToAck(c) \/ Send(c) \/ Ack(c)

Spec == Init /\ [][Next]_vars
=============================================================================
