----------------------------- MODULE CarryAction -----------------------------
(***************************************************************************)
(* Carry actions from recommendation to orders: approveCarryAction of the  *)
(* control plane, which approves and enqueues in one request of several    *)
(* queries; executeCarryAction in the worker, with its connector check and *)
(* its guardrails; OrderExecutor.submitIntent over RuntimeOrderStore, the  *)
(* store that checks no transition; and the simulated venue, whose index   *)
(* of client order ids lives in the worker's memory.                       *)
(*                                                                         *)
(* A multi-leg plan is never created: the legs are numbered from 0, while  *)
(* createMultiLegPlan demands 1..n, and its error is ignored.              *)
(***************************************************************************)
EXTENDS Integers, Sequences, FiniteSets, FiniteSetsExt

CONSTANTS Sessions,       \* clients of the API, each awaiting its answers
          RoleOf,         \* [Sessions -> Roles]
          Actions,        \* carry actions of one evaluation
          Plan,           \* [Actions -> what the planner wrote]
          MaxNotional,    \* maxSingleActionNotionalUsd
          MaxConcurrent,  \* maxConcurrentExecutions
          MaxCommands, MaxToggles, MaxFaults

Roles == {"viewer", "operator", "admin"}

ASSUME BoundsAssumption ==
  MaxConcurrent \in Nat /\ MaxCommands \in Nat /\ MaxToggles \in Nat /\ MaxFaults \in Nat

ASSUME RoleAssumption == RoleOf \in [Sessions -> Roles]

(* An action without orders is below the minimum size, or a reduction of   *)
(* nothing: blockedReasons makes neither executable.                       *)
ASSUME PlanAssumption ==
  /\ Plan \in [Actions -> [executable : BOOLEAN, required : {"operator", "admin"}, live : BOOLEAN,
                           orders : Seq([size : Nat, price : Nat])]]
  /\ \A a \in Actions : Plan[a].executable => Plan[a].orders # <<>>

VARIABLES status,      \* carry_actions.status
          approver,    \* history: role of the last approval
          command,     \* execute_carry_action commands, oldest first
          order,       \* orders.status of every planned order
          venue,       \* [index, placed]: the adapter's index; orders it ever accepted
          guard,       \* [kill, approved]: guardrail row and the connector's promotion
          session,     \* per session, what its handler is about to do
          worker,      \* what the worker is about to do; placed: history, this
                       \* execution has placed an order
          toggles,     \* changes of guard so far
          past         \* history: faults, abandoned actions, misrecorded orders,
                       \* phantom orders (recorded as submitted, never sent),
                       \* executions that placed orders since guard was closed

vars == <<status, approver, command, order, venue, guard, session, worker, toggles, past>>

Slots(a)   == DOMAIN Plan[a].orders
Orders     == UNION {{<<a, i>> : i \in Slots(a)} : a \in Actions}
Idle       == [pc |-> "idle", cmd |-> 0, i |-> 0, placed |-> FALSE]

Init ==
  /\ status = [a \in Actions |-> "recommended"]
  /\ approver = [a \in Actions |-> "none"]
  /\ command = <<>>
  /\ order = [o \in Orders |-> "none"]
  /\ venue = [index |-> {}, placed |-> [o \in Orders |-> 0]]
  /\ guard = [kill |-> FALSE, approved |-> TRUE]
  /\ session = [s \in Sessions |-> [pc |-> "idle", action |-> "none"]]
  /\ worker = Idle
  /\ toggles = 0
  /\ past = [faults |-> 0, abandoned |-> {}, misrecorded |-> {}, phantom |-> {}, since |-> {}]

-----------------------------------------------------------------------------
(***************************************************************************)
(* approveCarryAction.                                                     *)
(***************************************************************************)
CanSatisfyApprovalRequirement(role, required) ==
  role = "admin" \/ (role = "operator" /\ required = "operator")

AtStep(s, pc, a) == session' = [session EXCEPT ![s] = [pc |-> pc, action |-> a]]

(* mutant: the role is not checked *)
ApproveAnyRole(s, a) ==
  /\ session[s].pc = "idle"
  /\ Plan[a].executable
  /\ status[a] = "recommended"
  /\ AtStep(s, "approve", a)
  /\ UNCHANGED <<status, approver, command, order, venue, guard, worker, toggles, past>>

(* mutant: the command is inserted before the approval is written *)
ApproveLate(s, a) ==
  /\ session[s].pc = "idle"
  /\ Plan[a].executable
  /\ CanSatisfyApprovalRequirement(RoleOf[s], Plan[a].required)
  /\ status[a] = "recommended"
  /\ AtStep(s, "insert", a)
  /\ UNCHANGED <<status, approver, command, order, venue, guard, worker, toggles, past>>

ApproveRead(s, a) ==
  /\ session[s].pc = "idle"
  /\ Plan[a].executable
  /\ CanSatisfyApprovalRequirement(RoleOf[s], Plan[a].required)
  /\ status[a] = "recommended"
  /\ AtStep(s, "approve", a)
  /\ UNCHANGED <<status, approver, command, order, venue, guard, worker, toggles, past>>

ApproveWrite(s) ==
  /\ session[s].pc = "approve"
  /\ status' = [status EXCEPT ![session[s].action] = "approved"]
  /\ approver' = [approver EXCEPT ![session[s].action] = RoleOf[s]]
  /\ AtStep(s, "insert", session[s].action)
  /\ UNCHANGED <<command, order, venue, guard, worker, toggles, past>>

ApproveInsert(s) ==
  /\ session[s].pc = "insert"
  /\ Len(command) < MaxCommands
  /\ command' = Append(command, [action |-> session[s].action, status |-> "pending",
                                 execution |-> "none", reason |-> "none", effects |-> 0])
  /\ AtStep(s, "queue", session[s].action)
  /\ UNCHANGED <<status, approver, order, venue, guard, worker, toggles, past>>

ApproveQueue(s) ==
  /\ session[s].pc = "queue"
  /\ status' = [status EXCEPT ![session[s].action] = "queued"]
  /\ AtStep(s, "idle", "none")
  /\ UNCHANGED <<approver, command, order, venue, guard, worker, toggles, past>>

-----------------------------------------------------------------------------
(***************************************************************************)
(* What else changes the world: the guardrail's kill switch, and the       *)
(* connector's promotion being suspended or approved again.                *)
(***************************************************************************)
TriggerKillSwitch ==
  /\ toggles < MaxToggles /\ toggles' = toggles + 1
  /\ guard' = [guard EXCEPT !.kill = TRUE]
  /\ past' = [past EXCEPT !.since = {}]
  /\ UNCHANGED <<status, approver, command, order, venue, session, worker>>

ResetKillSwitch ==
  /\ toggles < MaxToggles /\ toggles' = toggles + 1
  /\ guard' = [guard EXCEPT !.kill = FALSE]
  /\ UNCHANGED <<status, approver, command, order, venue, session, worker, past>>

ConnectorSuspended ==
  /\ toggles < MaxToggles /\ toggles' = toggles + 1
  /\ guard' = [guard EXCEPT !.approved = FALSE]
  /\ past' = [past EXCEPT !.since = {}]
  /\ UNCHANGED <<status, approver, command, order, venue, session, worker>>

ConnectorApproved ==
  /\ toggles < MaxToggles /\ toggles' = toggles + 1
  /\ guard' = [guard EXCEPT !.approved = TRUE]
  /\ UNCHANGED <<status, approver, command, order, venue, session, worker, past>>

-----------------------------------------------------------------------------
(***************************************************************************)
(* executeCarryAction up to its orders.                                    *)
(***************************************************************************)
Current == command[worker.cmd].action
WorkerAt(pc) == worker' = [worker EXCEPT !.pc = pc]
SetCommand(c, st, execution, reason) ==
  command' = [command EXCEPT ![c].status = st, ![c].execution = execution, ![c].reason = reason]
SetStatus(st) == status' = [status EXCEPT ![Current] = st]

OldestPending(c) ==
  /\ worker.pc = "idle"
  /\ command[c].status = "pending"
  /\ \A d \in DOMAIN command : command[d].status = "pending" => c <= d

NotExecutable(c) ==
  /\ OldestPending(c)
  /\ status[command[c].action] \notin {"queued", "approved"}
  /\ SetCommand(c, "failed", "none", "status")
  /\ UNCHANGED <<status, approver, order, venue, guard, session, worker, toggles, past>>

ExecuteCreate(c) ==
  /\ OldestPending(c)
  /\ status[command[c].action] \in {"queued", "approved"}
  /\ SetCommand(c, "running", "executing", "none")
  /\ worker' = [pc |-> "mark", cmd |-> c, i |-> 0, placed |-> FALSE]
  /\ UNCHANGED <<status, approver, order, venue, guard, session, toggles, past>>

ExecuteMark ==
  /\ worker.pc = "mark"
  /\ SetStatus("executing")
  /\ WorkerAt("connector")
  /\ UNCHANGED <<approver, command, order, venue, guard, session, toggles, past>>

Notional(a) == MapThenSumSet(LAMBDA i : Plan[a].orders[i].size * Plan[a].orders[i].price, Slots(a))

Executing == {a \in Actions : status[a] = "executing"}

(* The checks in their order, each with the reason it gives; the action    *)
(* counts itself among those executing.                                    *)
Refusal ==
  CASE worker.pc = "connector" /\ Plan[Current].live /\ ~guard.approved -> "connector"
    [] worker.pc = "guard" /\ guard.kill -> "kill_switch"
    [] worker.pc = "guard" /\ Notional(Current) > MaxNotional -> "notional"
    [] worker.pc = "count" /\ Cardinality(Executing) >= MaxConcurrent -> "concurrency"
    [] OTHER -> "none"

Checks == <<"connector", "guard", "count", "step">>
AfterCheck == Checks[1 + CHOOSE k \in 1..3 : Checks[k] = worker.pc]

(* mutant: the kill switch is not read *)
PassUnlessLimit ==
  /\ worker.pc \in {"connector", "guard", "count"}
  /\ Refusal \in {"none", "kill_switch"}
  /\ worker' = [worker EXCEPT !.pc = AfterCheck, !.i = 1]
  /\ UNCHANGED <<status, approver, command, order, venue, guard, session, toggles, past>>

PassCheck ==
  /\ worker.pc \in {"connector", "guard", "count"}
  /\ Refusal = "none"
  /\ worker' = [worker EXCEPT !.pc = AfterCheck, !.i = 1]
  /\ UNCHANGED <<status, approver, command, order, venue, guard, session, toggles, past>>

FailCheck ==
  /\ worker.pc \in {"connector", "guard", "count"}
  /\ Refusal # "none"
  /\ SetCommand(worker.cmd, "running", "failed", Refusal)
  /\ WorkerAt("fail_action")
  /\ UNCHANGED <<status, approver, order, venue, guard, session, toggles, past>>

-----------------------------------------------------------------------------
(***************************************************************************)
(* The orders, one after the other.                                        *)
(***************************************************************************)
Slot == <<Current, worker.i>>

(* mutants: one order too many, one too few *)
OneMoreOrder ==
  IF worker.i <= Len(Plan[Current].orders)
  THEN worker' = [worker EXCEPT !.pc = "step", !.i = @ + 1]
  ELSE worker' = [worker EXCEPT !.pc = "complete_execution", !.i = 0]
LastOrderSkipped ==
  IF worker.i + 1 < Len(Plan[Current].orders)
  THEN worker' = [worker EXCEPT !.pc = "step", !.i = @ + 1]
  ELSE worker' = [worker EXCEPT !.pc = "complete_execution", !.i = 0]

NextOrder ==
  IF worker.i < Len(Plan[Current].orders)
  THEN worker' = [worker EXCEPT !.pc = "step", !.i = @ + 1]
  ELSE worker' = [worker EXCEPT !.pc = "complete_execution", !.i = 0]

(* submitIntent returns an order that is neither pending nor failed. *)
KnownOrder ==
  /\ worker.pc = "step"
  /\ order[Slot] \in {"submitted", "filled"}
  /\ NextOrder
  /\ UNCHANGED <<status, approver, command, order, venue, guard, session, toggles, past>>

SaveOrder ==
  /\ worker.pc = "step"
  /\ order[Slot] \notin {"submitted", "filled"}
  /\ order' = [order EXCEPT ![Slot] = IF @ = "none" THEN "pending" ELSE @]
  /\ WorkerAt("submit")
  /\ UNCHANGED <<status, approver, command, venue, guard, session, toggles, past>>

MarkSubmitted ==
  /\ worker.pc = "submit"
  /\ order' = [order EXCEPT ![Slot] = "submitted"]
  /\ WorkerAt("place")
  /\ UNCHANGED <<status, approver, command, venue, guard, session, toggles, past>>

Since == IF guard.kill \/ (Plan[Current].live /\ ~guard.approved)
         THEN past.since \cup {worker.cmd} ELSE past.since

(* mutant: the adapter does not look the client order id up *)
PlaceBlindly ==
  /\ worker.pc = "place"
  /\ venue' = [index |-> venue.index \cup {Slot}, placed |-> [venue.placed EXCEPT ![Slot] = @ + 1]]
  /\ command' = [command EXCEPT ![worker.cmd].effects = IF worker.placed THEN @ ELSE @ + 1]
  /\ past' = [past EXCEPT !.since = Since]
  /\ worker' = [worker EXCEPT !.pc = "record", !.placed = TRUE]
  /\ UNCHANGED <<status, approver, order, guard, session, toggles>>

(* placeOrder of the simulated adapter: a client order id it knows is      *)
(* answered from the index.                                                *)
PlaceOrder ==
  /\ worker.pc = "place"
  /\ venue' = [index  |-> venue.index \cup {Slot},
               placed |-> [venue.placed EXCEPT ![Slot] = IF Slot \in venue.index THEN @ ELSE @ + 1]]
  /\ command' = [command EXCEPT ![worker.cmd].effects = IF worker.placed THEN @ ELSE @ + 1]
  /\ past' = [past EXCEPT !.since = Since]
  /\ worker' = [worker EXCEPT !.pc = "record", !.placed = TRUE]
  /\ UNCHANGED <<status, approver, order, guard, session, toggles>>

(* updateStatus with what the venue answered: filled, or still open. *)
RecordAnswer ==
  /\ worker.pc = "record"
  /\ \E answer \in {"filled", "submitted"} : order' = [order EXCEPT ![Slot] = answer]
  /\ WorkerAt("persist")
  /\ UNCHANGED <<status, approver, command, venue, guard, session, toggles, past>>

(* The catch block of submitIntent: the placement, the store or the audit  *)
(* threw; the order becomes failed, whatever it was, and is returned.      *)
RecordFailure ==
  /\ worker.pc \in {"submit", "place", "record", "persist"}
  /\ order' = [order EXCEPT ![Slot] = "failed"]
  /\ past' = [past EXCEPT !.misrecorded = IF venue.placed[Slot] > 0 THEN @ \cup {Slot} ELSE @]
  /\ WorkerAt("persist_failed")
  /\ UNCHANGED <<status, approver, command, venue, guard, session, toggles>>

(* persistExecutionRecord and updateCarryExecutionStep. *)
PersistStep ==
  /\ worker.pc \in {"persist", "persist_failed"}
  /\ NextOrder
  /\ UNCHANGED <<status, approver, command, order, venue, guard, session, toggles, past>>

(* An exception outside submitIntent's own try block, while the record is  *)
(* looked up or saved or the step written: the step, the execution and the *)
(* action become failed.                                                   *)
StepThrows ==
  /\ worker.pc \in {"step", "persist", "persist_failed"}
  /\ SetCommand(worker.cmd, "running", "failed", "exception")
  /\ WorkerAt("fail_action")
  /\ UNCHANGED <<status, approver, order, venue, guard, session, toggles, past>>

(* The catch block of submitIntent writes, and that write throws as well:  *)
(* the order keeps the status it had, 'submitted' although it was never    *)
(* sent if the placement was what threw, and the execution and the action  *)
(* become failed as above.                                                 *)
FailureNotRecorded ==
  /\ past.faults < MaxFaults
  /\ worker.pc \in {"submit", "place", "record"}
  /\ SetCommand(worker.cmd, "running", "failed", "exception")
  /\ past' = [past EXCEPT !.faults = @ + 1,
                          !.phantom = IF worker.pc = "place" THEN @ \cup {Slot} ELSE @]
  /\ WorkerAt("fail_action")
  /\ UNCHANGED <<status, approver, order, venue, guard, session, toggles>>

-----------------------------------------------------------------------------
(***************************************************************************)
(* The end of an execution.                                                *)
(***************************************************************************)
CompleteExecution ==
  /\ worker.pc = "complete_execution"
  /\ SetCommand(worker.cmd, "running", "completed", "none")
  /\ WorkerAt("complete_action")
  /\ UNCHANGED <<status, approver, order, venue, guard, session, toggles, past>>

CompleteAction ==
  /\ worker.pc = "complete_action"
  /\ SetStatus("completed")
  /\ WorkerAt("refresh")
  /\ UNCHANGED <<approver, command, order, venue, guard, session, toggles, past>>

(* refreshVenueTruthInventory, refreshInternalDerivativeState, the audit,  *)
(* and completeRuntimeCommand.                                             *)
Finish ==
  /\ worker.pc = "refresh"
  /\ SetCommand(worker.cmd, "completed", command[worker.cmd].execution, "none")
  /\ worker' = Idle
  /\ UNCHANGED <<status, approver, order, venue, guard, session, toggles, past>>

(* mutant: the action keeps its status *)
FailActionForgets ==
  /\ worker.pc = "fail_action"
  /\ WorkerAt("fail_command")
  /\ UNCHANGED <<status, approver, command, order, venue, guard, session, toggles, past>>

FailAction ==
  /\ worker.pc = "fail_action"
  /\ SetStatus("failed")
  /\ WorkerAt("fail_command")
  /\ UNCHANGED <<approver, command, order, venue, guard, session, toggles, past>>

FailCommand ==
  /\ worker.pc = "fail_command"
  /\ SetCommand(worker.cmd, "failed", command[worker.cmd].execution, command[worker.cmd].reason)
  /\ worker' = Idle
  /\ UNCHANGED <<status, approver, order, venue, guard, session, toggles, past>>

(* Most of executeCarryAction is outside its try block, and the catch      *)
(* blocks themselves write: an exception there fails the command and       *)
(* leaves execution and action as they are.                                *)
Abandon ==
  /\ past.faults < MaxFaults
  /\ worker.pc \notin {"idle", "fail_command"}
  /\ past' = [past EXCEPT !.faults = @ + 1, !.abandoned = @ \cup {Current}]
  /\ WorkerAt("fail_command")
  /\ UNCHANGED <<status, approver, command, order, venue, guard, session, toggles>>

(* The process dies; the next one's adapter knows no client order id. *)
Crash ==
  /\ past.faults < MaxFaults
  /\ past' = [past EXCEPT !.faults = @ + 1,
                          !.abandoned = IF worker.cmd = 0 THEN @ ELSE @ \cup {Current}]
  /\ worker' = Idle
  /\ venue' = [venue EXCEPT !.index = {}]
  /\ UNCHANGED <<status, approver, command, order, guard, session, toggles>>

-----------------------------------------------------------------------------
SessionStep(s) ==
  \/ \E a \in Actions : ApproveRead(s, a)
  \/ ApproveWrite(s) \/ ApproveInsert(s) \/ ApproveQueue(s)

ExecutionStep ==
  \/ \E c \in DOMAIN command : NotExecutable(c) \/ ExecuteCreate(c)
  \/ ExecuteMark \/ PassCheck \/ FailCheck
  \/ KnownOrder \/ SaveOrder \/ MarkSubmitted \/ PlaceOrder \/ RecordAnswer
  \/ RecordFailure \/ PersistStep \/ StepThrows \/ FailureNotRecorded
  \/ CompleteExecution \/ CompleteAction \/ Finish \/ FailAction \/ FailCommand

Next ==
  \/ \E s \in Sessions : SessionStep(s)
  \/ TriggerKillSwitch \/ ResetKillSwitch \/ ConnectorSuspended \/ ConnectorApproved
  \/ ExecutionStep
  \/ Abandon \/ Crash

Spec == Init /\ [][Next]_vars

-----------------------------------------------------------------------------
(***************************************************************************)
(* Properties.                                                             *)
(***************************************************************************)
(* Every row, handler and step has one of the values the code can give it. *)
TypeOK ==
  /\ \A a \in Actions :
       status[a] \in {"recommended", "approved", "queued", "executing", "completed", "failed"}
  /\ \A o \in Orders : order[o] \in {"none", "pending", "submitted", "filled", "failed"}
  /\ Len(command) <= MaxCommands
  /\ \A s \in Sessions : session[s].pc \in {"idle", "approve", "insert", "queue"}
  /\ worker.cmd \in 0..Len(command)
  /\ worker.cmd # 0 => worker.i \in 0..Len(Plan[Current].orders)

Approval == INSTANCE ApprovedExecution WITH
  granted <- {a \in Actions : status[a] # "recommended"},
  orders  <- [c \in DOMAIN command |-> command[c].action],
  effects <- [c \in DOMAIN command |-> command[c].effects]

(* Two approvals at once, late 'queued' writes, failures and crashes: a    *)
(* command is inserted only for an approved action, and places orders in   *)
(* at most one execution.                                                  *)
ImplementsApproval == Approval!ApprovalSpec

(* An order reaches a live venue only with an admin's approval. *)
LiveNeedsAdmin ==
  \A c \in DOMAIN command :
    command[c].effects > 0 /\ Plan[command[c].action].required = "admin"
      => approver[command[c].action] = "admin"

(* A planned order is placed a second time only if it had been recorded as *)
(* failed after the venue took it and the process died since: the order's  *)
(* id, its record and the adapter's index see to that.                     *)
PlacedOnce ==
  \A o \in Orders :
    venue.placed[o] > 1 => o \in past.misrecorded /\ past.faults > 0

(* A completed execution has dealt with every planned order: the venue has *)
(* it, or the failure is on record, or another execution of the action is  *)
(* at it now or was abandoned.  Or an earlier execution could write neither*)
(* order nor failure: it left a record of an order submitted that was never*)
(* sent, which submitIntent hands to every later execution as done.        *)
CompletedCoversPlan ==
  \A c \in DOMAIN command :
    command[c].execution = "completed" =>
      \A i \in Slots(command[c].action) :
        LET o == <<command[c].action, i>>
        IN \/ venue.placed[o] > 0
           \/ order[o] = "failed"
           \/ o \in past.phantom
           \/ command[c].action \in past.abandoned
           \/ worker.cmd # 0 /\ Current = command[c].action

(* Once the kill switch is on, or the connector suspended, only the        *)
(* execution that had passed its check still places orders.                *)
ClosedGateHolds == Cardinality(past.since) <= 1

(* With room for two, the concurrency limit refuses an execution only      *)
(* because an abandoned one was left executing: the worker runs one        *)
(* command at a time and every handled failure closes its row.             *)
ConcurrencyOnlyByOrphans ==
  (\E c \in DOMAIN command : command[c].reason = "concurrency") =>
    MaxConcurrent < 2 \/ past.abandoned # {}

(* Carry orders are controlled: the properties above together, over every  *)
(* step of executeCarryAction and of the approvals beside it (runtime.ts,  *)
(* control-plane.ts).                                                      *)
OrdersAreControlled ==
  /\ TypeOK
  /\ LiveNeedsAdmin
  /\ CompletedCoversPlan
  /\ ClosedGateHolds
  /\ ConcurrencyOnlyByOrphans
=============================================================================
