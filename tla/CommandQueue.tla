---------------------------- MODULE CommandQueue ----------------------------
(***************************************************************************)
(* What the durable command rail promises to the operator who submits a    *)
(* runtime command (table runtime_commands, packages/runtime/src/store.ts).*)
(* Commands are claimed in the order of their requested_at, a command is   *)
(* begun at most once whatever happens to the worker process, and a        *)
(* terminal command is never pending or running again.                     *)
(*                                                                         *)
(* This is the abstract specification; RuntimeWorker implements it.        *)
(***************************************************************************)
EXTENDS Naturals

CONSTANT Commands       \* the identifiers the control plane may hand out

VARIABLES
    clock,              \* the database clock, as a counter of insertions
    requestedAt,        \* requestedAt[c]: runtime_commands.requested_at, 0 before the insert
    status,             \* status[c]: runtime_commands.status, "absent" before the insert
    attempts            \* attempts[c]: how many times some worker began to execute c

queueVars == <<clock, requestedAt, status, attempts>>

Terminal == {"completed", "failed"}
CommandStatus == {"absent", "pending", "running"} \cup Terminal

QueueTypeOK ==
    /\ clock \in Nat
    /\ requestedAt \in [Commands -> Nat]
    /\ status \in [Commands -> CommandStatus]
    /\ attempts \in [Commands -> Nat]

QueueInit ==
    /\ clock = 0
    /\ requestedAt = [c \in Commands |-> 0]
    /\ status = [c \in Commands |-> "absent"]
    /\ attempts = [c \in Commands |-> 0]

\* Two ways to get the SELECT of a claim wrong: no ORDER BY, and reclaiming a
\* command some process left running.
AnyPending(c) == status[c] = "pending"
AnyUnfinished(c) ==
    /\ status[c] \in {"pending", "running"}
    /\ \A d \in Commands : status[d] = "pending" => requestedAt[c] <= requestedAt[d]

(***************************************************************************)
(* c is the row "ORDER BY requested_at LIMIT 1" returns among the pending  *)
(* ones.                                                                   *)
(***************************************************************************)
OldestPending(c) ==
    /\ status[c] = "pending"
    /\ \A d \in Commands : status[d] = "pending" => requestedAt[c] <= requestedAt[d]

-----------------------------------------------------------------------------

Submit(c) ==
    /\ status[c] = "absent"
    /\ clock' = clock + 1
    /\ requestedAt' = [requestedAt EXCEPT ![c] = clock + 1]
    /\ status' = [status EXCEPT ![c] = "pending"]
    /\ UNCHANGED attempts

Claim(c) ==
    /\ OldestPending(c)
    /\ status' = [status EXCEPT ![c] = "running"]
    /\ UNCHANGED <<clock, requestedAt, attempts>>

\* A worker starts the operation of a command it has claimed.
Begin(c) ==
    /\ status[c] = "running"
    /\ attempts[c] = 0
    /\ attempts' = [attempts EXCEPT ![c] = 1]
    /\ UNCHANGED <<clock, requestedAt, status>>

Complete(c) ==
    /\ status[c] = "running"
    /\ attempts[c] = 1
    /\ status' = [status EXCEPT ![c] = "completed"]
    /\ UNCHANGED <<clock, requestedAt, attempts>>

(***************************************************************************)
(* The catch block of the worker also covers what it does after it has     *)
(* marked the command completed, so a completed command may still fail.    *)
(***************************************************************************)
Fail(c) ==
    /\ status[c] \in {"running", "completed"}
    /\ attempts[c] = 1
    /\ status' = [status EXCEPT ![c] = "failed"]
    /\ UNCHANGED <<clock, requestedAt, attempts>>

QueueNext ==
    \E c \in Commands : Submit(c) \/ Claim(c) \/ Begin(c) \/ Complete(c) \/ Fail(c)

QueueSpec == QueueInit /\ [][QueueNext]_queueVars
=============================================================================
