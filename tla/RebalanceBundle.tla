--------------------------- MODULE RebalanceBundle ---------------------------
(***************************************************************************)
(* One rebalance proposal, the child actions its execution creates, the    *)
(* bundle row derived from them and the recovery requests of operators:    *)
(* approveRebalanceProposal, rejectRebalanceProposal, approveCarryAction   *)
(* and requestRebalanceBundleRecoveryAction of the control plane, and      *)
(* executeRebalanceProposal and executeCarryAction in the worker.          *)
(*                                                                         *)
(* Every handler is a sequence of queries.  syncRebalanceBundleForProposal *)
(* reads the graph and then writes the row; its read is part of the step   *)
(* before it, its write is a step of its own.  The n-th execution of the   *)
(* proposal creates the children <<"carry", n>> and <<"budget", n>>; the   *)
(* orders of a carry child are those of module CarryAction, here only that *)
(* the venue was reached and whether a step row says so.                   *)
(***************************************************************************)
EXTENDS BundleRules

CONSTANTS Sessions,      \* clients of the API
          RoleOf,        \* [Sessions -> {"viewer", "operator", "admin"}]
          Required,      \* approvalRequirement of the proposal and its children
          MaxRequests, MaxCommands, MaxRuns, MaxFaults

VARIABLES proposal,    \* allocator_rebalance_proposals.status
          runs,        \* executions of the proposal created so far
          child,       \* the carry and treasury actions linked to the proposal
          bundle,      \* the derived columns of the bundle row
          recovery,    \* the recovery requests, oldest first
          command,     \* execution commands, oldest first
          session,     \* per session, what its handler is about to do
          worker,      \* what the worker is about to do
          requests,    \* requests made so far
          past         \* history, see Init

vars == <<proposal, runs, child, bundle, recovery, command, session, worker, requests, past>>

Proposal == <<"proposal", 0>>
Targets  == {Proposal} \cup ({"carry", "budget"} \X (Nat \ {0}))

NoView    == Derived("none", "none", "none", "none")
IdleActor == [pc |-> "idle", of |-> <<"none", 0>>, snap |-> NoView, next |-> "none",
              rec |-> 0, cmd |-> 0, i |-> 0]

ChildRow(sleeve, status, executions, executable) ==
  [sleeve |-> sleeve, status |-> status, executable |-> executable,
   executions |-> executions, progress |-> FALSE]

(* A proposal that has just been made, or one that is executed and whose   *)
(* carry child is still to be approved, or has failed short of any venue.  *)
Fresh ==
  /\ proposal = "proposed"
  /\ runs = 0
  /\ child = << >>

Executed(status, executions) ==
  /\ proposal = "completed"
  /\ runs = 1
  /\ child = [k \in {<<"carry", 1>>, <<"budget", 1>>} |->
                IF k[1] = "carry" THEN ChildRow("carry", status, executions, TRUE)
                ELSE ChildRow("budget", "completed", <<"completed">>, TRUE)]

Init ==
  /\ Fresh \/ Executed("recommended", <<>>) \/ Executed("failed", <<"failed">>)
  /\ bundle = Snapshot(proposal, child)
  /\ recovery = <<>>
  /\ command = <<>>
  /\ session = [s \in Sessions |-> IdleActor]
  /\ worker = IdleActor
  /\ requests = 0
  /\ past = [contested  |-> {},       \* targets of two requests at the same time
             overtaken  |-> {},       \* commands taken before their target was marked queued
             unrecorded |-> {},       \* children that reached a venue and no row says so
             lost       |-> {},       \* why the bundle row may be behind
             rejected   |-> FALSE,    \* a rejection was written
             reached    |-> {},       \* children an execution of which reached a venue
             twice      |-> {},       \* children two executions of which did
             thrown     |-> {},       \* commands failed by an exception outside every try block
             died       |-> {},       \* commands the worker was at when the process died
             faults     |-> 0]

-----------------------------------------------------------------------------
(***************************************************************************)
(* The steps handlers have in common.                                      *)
(***************************************************************************)
CanSatisfyApprovalRequirement(role, required) ==
  role = "admin" \/ (role = "operator" /\ required = "operator")

StatusOf(t) == IF t = Proposal THEN proposal ELSE child[t].status

SetChild(k, st) == child' = [child EXCEPT ![k].status = st]

(* An actor that awaits the bundle's sync: the graph is read now. *)
Synced(actor, next) ==
  [actor EXCEPT !.pc = "sync", !.snap = Snapshot(proposal', child'), !.next = next]

Request(s, t) ==
  /\ session[s].pc = "idle"
  /\ requests < MaxRequests
  /\ requests' = requests + 1
  /\ past' = [past EXCEPT !.contested = IF \E z \in Sessions : session[z].of = t
                                        THEN @ \cup {t} ELSE @]

(* A handler writes its target's status, whatever it is by now. *)
Overwrite(actor, st) ==
  IF actor.of = Proposal
  THEN proposal' = st /\ UNCHANGED child
  ELSE SetChild(actor.of, st) /\ UNCHANGED proposal

SyncRow(actor) ==
  /\ actor.pc = "sync"
  /\ bundle' = actor.snap
  /\ past' = [past EXCEPT !.lost = IF actor.snap = Snapshot(proposal, child)
                                   THEN {} ELSE {"late_write"}]

SessionSync(s) ==
  /\ SyncRow(session[s])
  /\ session' = [session EXCEPT ![s] = IF @.next = "idle" THEN IdleActor
                                       ELSE [@ EXCEPT !.pc = session[s].next, !.snap = NoView,
                                                      !.next = "none"]]
  /\ UNCHANGED <<proposal, runs, child, recovery, command, worker, requests>>

(* getRebalanceBundle: looking at a bundle writes its row. *)
ReadBundle(s) ==
  /\ Request(s, <<"bundle", 0>>)
  /\ UNCHANGED <<proposal, runs, child, bundle, recovery, command, worker>>
  /\ session' = [session EXCEPT ![s] = Synced(@, "idle")]

-----------------------------------------------------------------------------
(***************************************************************************)
(* approveRebalanceProposal, approveCarryAction, rejectRebalanceProposal.  *)
(***************************************************************************)
Approvable(t) ==
  \/ t = Proposal /\ proposal = "proposed"
  \/ t \in DOMAIN child /\ t[1] = "carry" /\ child[t].executable
       /\ child[t].status = "recommended"

ApproveRead(s, t) ==
  /\ Request(s, t)
  /\ CanSatisfyApprovalRequirement(RoleOf[s], Required)
  /\ Approvable(t)
  /\ session' = [session EXCEPT ![s] = [@ EXCEPT !.pc = "approve", !.of = t]]
  /\ UNCHANGED <<proposal, runs, child, bundle, recovery, command, worker>>

(* The store's write for a proposal also syncs the bundle. *)
ApproveWrite(s) ==
  /\ session[s].pc = "approve"
  /\ Overwrite(session[s], "approved")
  /\ session' = [session EXCEPT ![s] =
                   IF @.of = Proposal THEN Synced(@, "insert")
                   ELSE [@ EXCEPT !.pc = "insert"]]
  /\ UNCHANGED <<runs, bundle, recovery, command, worker, requests, past>>

InsertCommand(s) ==
  /\ session[s].pc = "insert"
  /\ Len(command) < MaxCommands
  /\ command' = Append(command, [of |-> session[s].of, rec |-> session[s].rec,
                                 status |-> "pending"])
  /\ session' = [session EXCEPT ![s] = [@ EXCEPT !.pc = "queue", !.cmd = Len(command) + 1]]
  /\ UNCHANGED <<proposal, runs, child, bundle, recovery, worker, requests, past>>

QueueWrite(s) ==
  /\ session[s].pc = "queue"
  /\ Overwrite(session[s], "queued")
  /\ session' = [session EXCEPT ![s] = IF @.rec = 0 THEN Synced(@, "idle")
                                       ELSE [@ EXCEPT !.pc = "recovery_queued"]]
  /\ UNCHANGED <<runs, bundle, recovery, command, worker, requests, past>>

(* mutant: a proposal is rejected from any status *)
RejectAnyStatus(s) ==
  /\ Request(s, Proposal)
  /\ CanSatisfyApprovalRequirement(RoleOf[s], Required)
  /\ session' = [session EXCEPT ![s] = [@ EXCEPT !.pc = "reject", !.of = Proposal]]
  /\ UNCHANGED <<proposal, runs, child, bundle, recovery, command, worker>>

RejectRead(s) ==
  /\ Request(s, Proposal)
  /\ CanSatisfyApprovalRequirement(RoleOf[s], Required)
  /\ proposal = "proposed"
  /\ session' = [session EXCEPT ![s] = [@ EXCEPT !.pc = "reject", !.of = Proposal]]
  /\ UNCHANGED <<proposal, runs, child, bundle, recovery, command, worker>>

RejectWrite(s) ==
  /\ session[s].pc = "reject"
  /\ proposal' = "rejected"
  /\ past' = [past EXCEPT !.rejected = TRUE]
  /\ UNCHANGED child
  /\ session' = [session EXCEPT ![s] = Synced(@, "idle")]
  /\ UNCHANGED <<runs, bundle, recovery, command, worker, requests>>

-----------------------------------------------------------------------------
(***************************************************************************)
(* requestRebalanceBundleRecoveryAction.  The bundle is synced, and the    *)
(* candidate judged by the graph that sync has read; the request becomes a *)
(* row in any case.  The candidate of the proposal itself is never         *)
(* eligible.                                                               *)
(***************************************************************************)
CandidateEligible(t, ready) ==
  t # Proposal /\ Eligible(Snapshot(proposal, child).status, ready, child[t])

RecoverRead(s, t) ==
  /\ t \in {Proposal} \cup DOMAIN child
  /\ CanSatisfyApprovalRequirement(RoleOf[s], Required)
  /\ UNCHANGED <<proposal, runs, child, bundle, recovery, command, worker>>
  /\ Request(s, t)
  /\ \E ready \in BOOLEAN :
       session' = [session EXCEPT ![s] =
                     Synced([@ EXCEPT !.of = t],
                            IF CandidateEligible(t, ready) THEN "recover" ELSE "refuse")]

RefuseRecovery(s) ==
  /\ session[s].pc = "refuse"
  /\ recovery' = Append(recovery, [of |-> session[s].of, status |-> "blocked"])
  /\ UNCHANGED <<proposal, runs, child, bundle, command, worker, requests, past>>
  /\ session' = [session EXCEPT ![s] = Synced(@, "idle")]

StartRecovery(s) ==
  /\ session[s].pc = "recover"
  /\ recovery' = Append(recovery, [of |-> session[s].of, status |-> "requested"])
  /\ session' = [session EXCEPT ![s] = [@ EXCEPT !.pc = "reread", !.rec = Len(recovery) + 1]]
  /\ UNCHANGED <<proposal, runs, child, bundle, command, worker, requests, past>>

(* The child is read again, but only to see whether it needs an approval. *)
RereadChild(s) ==
  /\ session[s].pc = "reread"
  /\ session' = [session EXCEPT ![s] =
                   [@ EXCEPT !.pc = IF StatusOf(session[s].of) = "recommended"
                                    THEN "approve" ELSE "insert"]]
  /\ UNCHANGED <<proposal, runs, child, bundle, recovery, command, worker, requests, past>>

(* mutant: a status the table does not have *)
RecoveryRunning(s) ==
  /\ session[s].pc = "recovery_queued"
  /\ recovery' = [recovery EXCEPT ![session[s].rec].status = "running"]
  /\ UNCHANGED <<proposal, runs, child, bundle, command, worker, requests, past>>
  /\ session' = [session EXCEPT ![s] = Synced(@, "idle")]

RecoveryQueued(s) ==
  /\ session[s].pc = "recovery_queued"
  /\ recovery' = [recovery EXCEPT ![session[s].rec].status = "queued"]
  /\ UNCHANGED <<proposal, runs, child, bundle, command, worker, requests, past>>
  /\ session' = [session EXCEPT ![s] = Synced(@, "idle")]

(* The catch block: the command may be there, or the child queued. *)
RecoveryThrows(s) ==
  /\ session[s].pc \in {"reread", "insert", "queue", "recovery_queued"}
  /\ session[s].rec # 0
  /\ past.faults < MaxFaults
  /\ past' = [past EXCEPT !.faults = @ + 1]
  /\ recovery' = [recovery EXCEPT ![session[s].rec].status = "failed"]
  /\ UNCHANGED <<proposal, runs, child, bundle, command, worker, requests>>
  /\ session' = [session EXCEPT ![s] = Synced(@, "idle")]

-----------------------------------------------------------------------------
(***************************************************************************)
(* The worker takes a command; then the recovery row of a requeued child   *)
(* becomes executing.                                                      *)
(***************************************************************************)
WorkerAt(pc) == worker' = [worker EXCEPT !.pc = pc]
(* mutant: the recovery request is not followed *)
SetRecoveryNever(r, st) == UNCHANGED recovery
SetRecovery(r, st) == recovery' = IF r = 0 THEN recovery ELSE [recovery EXCEPT ![r].status = st]

MarkedQueued(c) == \A s \in Sessions :
  session[s].cmd = c => session[s].pc \notin {"queue", "recovery_queued"}

TakeCommand(c) ==
  /\ worker.pc = "idle"
  /\ command[c].status = "pending"
  /\ \A d \in DOMAIN command : command[d].status = "pending" => c <= d
  /\ command' = [command EXCEPT ![c].status = "running"]
  /\ worker' = [IdleActor EXCEPT !.pc = "begin", !.of = command[c].of, !.cmd = c,
                                 !.rec = command[c].rec]
  /\ past' = [past EXCEPT !.overtaken = IF MarkedQueued(c) THEN @ ELSE @ \cup {c}]
  /\ UNCHANGED <<proposal, runs, child, bundle, recovery, session, requests>>

BeginCommand ==
  /\ worker.pc = "begin"
  /\ SetRecovery(worker.rec, "executing")
  /\ WorkerAt("start")
  /\ UNCHANGED <<proposal, runs, child, bundle, command, session, requests, past>>

(* mutant: only approved, not queued, targets are executed *)
ExecutableIfApproved == worker.pc = "start" /\ StatusOf(worker.of) = "approved"

Executable == worker.pc = "start" /\ StatusOf(worker.of) \in {"queued", "approved"}

NotExecutable ==
  /\ worker.pc = "start"
  /\ ~Executable
  /\ WorkerAt("fail_command")
  /\ UNCHANGED <<proposal, runs, child, bundle, recovery, command, session, requests, past>>

WorkerSync ==
  /\ SyncRow(worker)
  /\ worker' = [worker EXCEPT !.pc = worker.next, !.snap = NoView, !.next = "none"]
  /\ UNCHANGED <<proposal, runs, child, recovery, command, session, requests>>

EndCommand(st, next) ==
  /\ command' = [command EXCEPT ![worker.cmd].status = st]
  /\ WorkerAt(next)
  /\ UNCHANGED <<proposal, runs, child, bundle, recovery, session, requests, past>>

(* completeRuntimeCommand, or failRuntimeCommand in the catch block.  The  *)
(* worker's status and an event are written before the recovery row is.    *)
FinishCommand == worker.pc = "finish" /\ EndCommand("completed", "recovery_completed")
FailCommand   == worker.pc = "fail_command" /\ EndCommand("failed", "recovery_failed")

EndRecovery(st) ==
  /\ SetRecovery(worker.rec, st)
  /\ worker' = IdleActor
  /\ UNCHANGED <<proposal, runs, child, bundle, command, session, requests, past>>

FinishRecovery == worker.pc = "recovery_completed" /\ EndRecovery("completed")
FailRecovery   == worker.pc = "recovery_failed" /\ EndRecovery("failed")

-----------------------------------------------------------------------------
(***************************************************************************)
(* executeRebalanceProposal.  None of it is in a try block.                *)
(***************************************************************************)
StartProposal ==
  /\ Executable /\ worker.of = Proposal
  /\ runs < MaxRuns
  /\ runs' = runs + 1
  /\ WorkerAt("mark_proposal")
  /\ UNCHANGED <<proposal, child, bundle, recovery, command, session, requests, past>>

MarkProposal ==
  /\ worker.pc = "mark_proposal"
  /\ proposal' = "executing"
  /\ UNCHANGED <<runs, child, bundle, recovery, command, session, requests, past>>
  /\ worker' = Synced(worker, "create_carry")

NewChild(sleeve, executable) ==
  child' = [k \in DOMAIN child \cup {<<sleeve, runs>>} |->
              IF k = <<sleeve, runs>> THEN ChildRow(sleeve, "recommended", <<>>, executable)
              ELSE child[k]]

(* runCarryEvaluation, or the reduction intents: what the planner makes of *)
(* the carry delta is executable or not; a zero delta makes no child.      *)
CreateCarry ==
  /\ worker.pc = "create_carry"
  /\ \/ \E executable \in BOOLEAN : NewChild("carry", executable)
     \/ UNCHANGED child
  /\ worker' = [worker EXCEPT !.pc = "create_budget", !.i = 1]
  /\ UNCHANGED <<proposal, runs, bundle, recovery, command, session, requests, past>>

CreateBudget ==
  /\ worker.pc = "create_budget"
  /\ NewChild("budget", TRUE)
  /\ WorkerAt("budget")
  /\ UNCHANGED <<proposal, runs, bundle, recovery, command, session, requests, past>>

NoBudget ==
  /\ worker.pc = "create_budget"
  /\ WorkerAt("complete_proposal")
  /\ UNCHANGED <<proposal, runs, child, bundle, recovery, command, session, requests, past>>

(* The worker approves, queues, starts and completes the budget action. *)
BudgetWrites == <<"approved", "queued", "executing", "create_execution", "complete_execution",
                  "completed">>

BudgetStep ==
  /\ worker.pc = "budget"
  /\ LET k == <<"budget", runs>>
         w == BudgetWrites[worker.i]
     IN child' = [child EXCEPT ![k] =
                    CASE w = "create_execution"   -> [@ EXCEPT !.executions = <<"executing">>]
                      [] w = "complete_execution" -> [@ EXCEPT !.executions = <<"completed">>]
                      [] OTHER                    -> [@ EXCEPT !.status = w]]
  /\ worker' = [worker EXCEPT !.pc = IF worker.i = Len(BudgetWrites)
                                     THEN "complete_proposal" ELSE "budget",
                              !.i = @ + 1]
  /\ UNCHANGED <<proposal, runs, bundle, recovery, command, session, requests, past>>

(* applyRebalanceCurrent and the execution row, which no handler here      *)
(* reads, then completeRebalanceProposal.                                  *)
CompleteProposal ==
  /\ worker.pc = "complete_proposal"
  /\ proposal' = "completed"
  /\ UNCHANGED <<runs, child, bundle, recovery, command, session, requests, past>>
  /\ worker' = Synced(worker, "finish")

-----------------------------------------------------------------------------
(***************************************************************************)
(* executeCarryAction of a linked child.                                   *)
(***************************************************************************)
Kid == worker.of
LastExecution(k, st) == [k EXCEPT !.executions[Len(k.executions)] = st]

StartChild ==
  /\ Executable /\ worker.of # Proposal
  /\ child' = [child EXCEPT ![Kid].executions = Append(@, "executing")]
  /\ WorkerAt("mark_child")
  /\ UNCHANGED <<proposal, runs, bundle, recovery, command, session, requests, past>>

MarkChild ==
  /\ worker.pc = "mark_child"
  /\ SetChild(Kid, "executing")
  /\ WorkerAt("checks")
  /\ UNCHANGED <<proposal, runs, bundle, recovery, command, session, requests, past>>

ExecutionFails(next) ==
  /\ child' = [child EXCEPT ![Kid] = LastExecution(@, "failed")]
  /\ WorkerAt(next)
  /\ UNCHANGED <<proposal, runs, bundle, recovery, command, session, requests>>

(* The connector check fails and syncs; a guardrail fails and does not. *)
ConnectorRefuses == worker.pc = "checks" /\ ExecutionFails("fail_child") /\ UNCHANGED past
GuardrailRefuses == worker.pc = "checks" /\ ExecutionFails("fail_child_unsynced") /\ UNCHANGED past

Reached(k) == [past EXCEPT !.reached = @ \cup {k},
                           !.twice = IF k \in past.reached THEN @ \cup {k} ELSE @]

(* An order is placed and its step row shows it. *)
PlaceOrders ==
  /\ worker.pc = "checks"
  /\ child' = [child EXCEPT ![Kid].progress = TRUE]
  /\ past' = Reached(Kid)
  /\ WorkerAt("placed")
  /\ UNCHANGED <<proposal, runs, bundle, recovery, command, session, requests>>

(* An order is placed, the step row could not be written, and the catch    *)
(* block writes the step as failed.                                        *)
PlaceUnrecorded ==
  /\ worker.pc = "checks"
  /\ past.faults < MaxFaults
  /\ past' = [Reached(Kid) EXCEPT !.faults = @ + 1, !.unrecorded = @ \cup {Kid}]
  /\ child' = [child EXCEPT ![Kid] = LastExecution(@, "failed")]
  /\ WorkerAt("fail_child")
  /\ UNCHANGED <<proposal, runs, bundle, recovery, command, session, requests>>

LaterOrderFails == worker.pc = "placed" /\ ExecutionFails("fail_child") /\ UNCHANGED past

(* mutant: the bundle is not synced after a failure *)
FailChildQuietly ==
  /\ worker.pc = "fail_child"
  /\ SetChild(Kid, "failed")
  /\ WorkerAt("fail_command")
  /\ UNCHANGED <<proposal, runs, bundle, recovery, command, session, requests, past>>

FailChild ==
  /\ worker.pc = "fail_child"
  /\ SetChild(Kid, "failed")
  /\ UNCHANGED <<proposal, runs, bundle, recovery, command, session, requests, past>>
  /\ worker' = Synced(worker, "fail_command")

FailChildUnsynced ==
  /\ worker.pc = "fail_child_unsynced"
  /\ SetChild(Kid, "failed")
  /\ past' = [past EXCEPT !.lost = @ \cup {"guardrail"}]
  /\ WorkerAt("fail_command")
  /\ UNCHANGED <<proposal, runs, bundle, recovery, command, session, requests>>

ExecutionCompletes ==
  /\ worker.pc = "placed"
  /\ child' = [child EXCEPT ![Kid] = LastExecution(@, "completed")]
  /\ WorkerAt("complete_child")
  /\ UNCHANGED <<proposal, runs, bundle, recovery, command, session, requests, past>>

CompleteChild ==
  /\ worker.pc = "complete_child"
  /\ SetChild(Kid, "completed")
  /\ UNCHANGED <<proposal, runs, bundle, recovery, command, session, requests, past>>
  /\ worker' = Synced(worker, "finish")

(* An exception outside the try blocks of the executions: the command      *)
(* fails, even if it was completed before, and the rows stay.              *)
Abandon ==
  /\ worker.pc \notin {"idle", "begin", "fail_command", "recovery_failed"}
  /\ past.faults < MaxFaults
  /\ past' = [past EXCEPT !.faults = @ + 1, !.lost = @ \cup {"fault"},
                          !.thrown = @ \cup {worker.cmd}]
  /\ WorkerAt("fail_command")
  /\ UNCHANGED <<proposal, runs, child, bundle, recovery, command, session, requests>>

(* The process dies: nothing takes a running command up again, and nothing *)
(* writes the recovery row of an ended one.                                *)
Crash ==
  /\ worker.pc # "idle"
  /\ past.faults < MaxFaults
  /\ past' = [past EXCEPT !.faults = @ + 1, !.lost = @ \cup {"fault"},
                          !.died = @ \cup {worker.cmd}]
  /\ worker' = IdleActor
  /\ UNCHANGED <<proposal, runs, child, bundle, recovery, command, session, requests>>

-----------------------------------------------------------------------------
SessionStep(s) ==
  \/ SessionSync(s) \/ ReadBundle(s)
  \/ \E t \in {Proposal} \cup DOMAIN child : ApproveRead(s, t) \/ RecoverRead(s, t)
  \/ ApproveWrite(s) \/ InsertCommand(s) \/ QueueWrite(s)
  \/ RejectRead(s) \/ RejectWrite(s)
  \/ RefuseRecovery(s) \/ StartRecovery(s) \/ RereadChild(s) \/ RecoveryQueued(s)
  \/ RecoveryThrows(s)

WorkerStep ==
  \/ \E c \in DOMAIN command : TakeCommand(c)
  \/ BeginCommand \/ NotExecutable \/ WorkerSync
  \/ FinishCommand \/ FailCommand \/ FinishRecovery \/ FailRecovery
  \/ StartProposal \/ MarkProposal \/ CreateCarry \/ CreateBudget \/ NoBudget \/ BudgetStep
  \/ CompleteProposal
  \/ StartChild \/ MarkChild \/ ConnectorRefuses \/ GuardrailRefuses \/ PlaceOrders
  \/ PlaceUnrecorded \/ LaterOrderFails \/ FailChild \/ FailChildUnsynced
  \/ ExecutionCompletes \/ CompleteChild
  \/ Abandon \/ Crash

Next == (\E s \in Sessions : SessionStep(s)) \/ WorkerStep

Spec == Init /\ [][Next]_vars

-----------------------------------------------------------------------------
(***************************************************************************)
(* Properties.                                                             *)
(***************************************************************************)
NoTarget == <<"none", 0>>
Children == {"carry", "budget"} \X (Nat \ {0})

Row == [sleeve : {"carry", "budget"}, status : ActionStatuses, executable : BOOLEAN,
        executions : Seq({"executing", "completed", "failed"}), progress : BOOLEAN]
View ==
  [status : {"none", "rejected", "proposed", "queued", "executing", "completed"}
              \cup ActionableBundleStatuses,
   completion : {"none", "open", "finalized"},
   outcome : {"none", "pending", "partial_application", "safe_complete", "failed", "blocked",
              "rejected"},
   recommendation : {"none", "operator_review_required", "wait_for_inflight_children",
                     "inspect_child_failures", "unresolved_partial_application",
                     "no_action_needed"}]
Recovery == [of : Targets,
             status : {"requested", "blocked", "queued", "executing", "completed", "failed"}]
Command == [of : Targets, rec : Nat, status : {"pending", "running", "completed", "failed"}]

Actor(steps) ==
  [pc : steps, of : Targets \cup {NoTarget}, snap : View,
   next : steps \cup {"none"}, rec : Nat, cmd : Nat, i : Nat]
SessionSteps ==
  {"idle", "sync", "approve", "insert", "queue", "reject", "refuse", "recover", "reread",
   "recovery_queued"}
WorkerSteps ==
  {"idle", "sync", "begin", "start", "finish", "fail_command", "mark_proposal", "create_carry",
   "create_budget", "budget", "complete_proposal", "mark_child", "checks", "placed",
   "fail_child", "fail_child_unsynced", "complete_child",
   "recovery_completed", "recovery_failed"}

History ==
  [contested : SUBSET Targets, overtaken : SUBSET Nat, unrecorded : SUBSET Targets,
   reached : SUBSET Targets, twice : SUBSET Targets, thrown : SUBSET Nat, died : SUBSET Nat,
   lost : SUBSET {"late_write", "guardrail", "fault"}, rejected : BOOLEAN, faults : Nat]

(* Every row and handler has one of the values the code can give it. *)
TypeOK ==
  /\ proposal \in {"proposed", "approved", "queued", "executing", "completed", "rejected"}
  /\ runs \in Nat
  /\ DOMAIN child \subseteq Children
  /\ \A k \in DOMAIN child : child[k] \in Row
  /\ bundle \in View
  /\ recovery \in Seq(Recovery)
  /\ command \in Seq(Command)
  /\ session \in [Sessions -> Actor(SessionSteps)]
  /\ worker \in Actor(WorkerSteps)
  /\ requests \in Nat
  /\ past \in History

(* A rejected proposal is executed, or an executed one rejected, only when *)
(* an approval and a rejection had both read it as proposed; likewise two  *)
(* executions need two approvals that read it so.                          *)
RejectionHolds ==
  /\ past.rejected /\ runs > 0 => Proposal \in past.contested
  /\ runs > 1 => Proposal \in past.contested

(* No child reaches a venue in two executions unless two requests had read *)
(* the same status of it, or its first order left no trace in a row:       *)
(* completed, in-flight and partly placed children are never requeued.     *)
ChildAppliedOnce ==
  past.twice \subseteq past.contested \cup past.unrecorded

(* Commands the worker took before their request had marked the target     *)
(* queued, or that a fault ended.                                          *)
Excused == past.overtaken \cup past.thrown \cup past.died

(* A carry child is queued only with a command to take it up, unless the   *)
(* worker was faster than the request that queued it, or a fault ended the *)
(* command that had been taken: a queued child can be neither approved nor *)
(* requeued.                                                               *)
QueuedChildHasCommand ==
  \A k \in DOMAIN child :
    k[1] = "carry" /\ child[k].status = "queued" =>
      \/ \E c \in DOMAIN command : command[c].of = k /\ command[c].status \in {"pending", "running"}
      \/ \E c \in Excused : command[c].of = k

(* A recovery request ends as its command did, as soon as the worker has   *)
(* left the command, unless the worker was faster than the request that    *)
(* marks it queued, or the process died at that command.                   *)
RecoveryFollowsCommand ==
  \A c \in DOMAIN command :
    command[c].rec # 0 /\ command[c].status \in {"completed", "failed"} =>
      \/ recovery[command[c].rec].status = command[c].status
      \/ worker.cmd = c
      \/ c \in past.overtaken \cup past.died

(* The action the rebalance execution itself carries out can never be      *)
(* requeued: it is completed before the proposal is, and until then the    *)
(* bundle is not actionable.                                               *)
BudgetNeverRequeued ==
  \A r \in DOMAIN recovery : recovery[r].of[1] = "budget" => recovery[r].status = "blocked"

(* With every handler at rest the bundle row is what the rows say, unless  *)
(* two syncs crossed, a guardrail refused an execution, or one was lost.   *)
RowIsDerived ==
  (worker.pc = "idle" /\ \A s \in Sessions : session[s].pc = "idle")
    => bundle = Snapshot(proposal, child) \/ past.lost # {}

-----------------------------------------------------------------------------
(***************************************************************************)
(* The inductive invariant.                                                *)
(***************************************************************************)
CarryChild(k) == k \in DOMAIN child /\ k[1] = "carry"

(* A request to requeue a child that was found eligible. *)
Requeueing(me) ==
  me.pc \in {"recover", "reread", "recovery_queued"} \/ (me.pc = "sync" /\ me.next = "recover")

(* What a handler of the API holds on to.  A recovery request belongs to   *)
(* one handler, and to no command before the handler inserts it.           *)
SessionInv ==
  \A s \in Sessions :
    LET me == session[s]
    IN /\ me.pc = "idle" => me = IdleActor
       /\ me.pc = "sync" => me.next \in {"idle", "insert", "recover", "refuse"}
       /\ me.pc = "sync" /\ me.next = "insert" => me.of = Proposal /\ me.rec = 0
       /\ me.of \in {NoTarget, Proposal} \cup DOMAIN child
       /\ me.pc \in {"approve", "insert", "queue"} => me.of = Proposal \/ CarryChild(me.of)
       /\ me.pc = "reject" => me.of = Proposal
       /\ me.pc = "refuse" \/ me.next = "refuse" => me.of \in Targets
       /\ Requeueing(me) => CarryChild(me.of)
       /\ me.pc \in {"reread", "recovery_queued"} => me.rec # 0
       /\ me.rec # 0 => me.rec \in DOMAIN recovery /\ recovery[me.rec].of = me.of
                         /\ CarryChild(me.of)
       /\ me.rec # 0 /\ me.pc \in {"reread", "approve", "insert"} =>
            \A c \in DOMAIN command : command[c].rec # me.rec
       /\ me.pc \in {"queue", "recovery_queued"} =>
            /\ me.cmd \in DOMAIN command
            /\ command[me.cmd].of = me.of
            /\ command[me.cmd].rec = me.rec
            /\ command[me.cmd].status = "pending" \/ me.cmd \in past.overtaken
       /\ \A z \in Sessions \ {s} : me.rec # 0 => session[z].rec # me.rec

CommandInv ==
  \A c \in DOMAIN command :
    /\ command[c].of = Proposal => command[c].rec = 0
    /\ command[c].of # Proposal => CarryChild(command[c].of)
    /\ command[c].rec # 0 => command[c].rec \in DOMAIN recovery
                             /\ recovery[command[c].rec].of = command[c].of
    /\ \A d \in DOMAIN command : command[c].rec # 0 /\ d # c => command[d].rec # command[c].rec

ProposalSteps == {"mark_proposal", "create_carry", "create_budget", "budget", "complete_proposal"}
AboutToCreate == worker.pc = "sync" /\ worker.next = "create_carry"
ChildSteps ==
  {"mark_child", "checks", "placed", "fail_child", "fail_child_unsynced", "complete_child"}

(* The status of the command the worker is at.  One that was completed may *)
(* still fail.                                                             *)
StatusAt(pc) ==
  CASE pc = "recovery_completed" -> {"completed"}
    [] pc = "recovery_failed"    -> {"failed"}
    [] pc = "fail_command"       -> {"running", "completed"}
    [] OTHER                     -> {"running"}

(* The worker holds a running command, and children are numbered by the    *)
(* executions of the proposal.                                             *)
WorkerInv ==
  /\ worker.pc = "idle" => worker = IdleActor
  /\ worker.pc # "idle" =>
       /\ worker.cmd \in DOMAIN command
       /\ command[worker.cmd].status \in StatusAt(worker.pc)
       /\ command[worker.cmd].of = worker.of
       /\ command[worker.cmd].rec = worker.rec
  /\ worker.pc = "sync" => worker.next \in {"create_carry", "finish", "fail_command"}
  /\ worker.pc \in ProposalSteps \/ AboutToCreate => worker.of = Proposal
  /\ worker.pc \in ChildSteps => CarryChild(worker.of)
  /\ \A k \in DOMAIN child : k[2] <= runs
  /\ worker.pc \in {"mark_proposal", "create_carry"} \/ AboutToCreate =>
       runs > 0 /\ \A k \in DOMAIN child : k[2] < runs
  /\ worker.pc = "create_budget" =>
       runs > 0 /\ worker.i = 1 /\ \A k \in DOMAIN child : k[2] < runs \/ k[1] = "carry"
  /\ worker.pc = "budget" => worker.i \in 1..Len(BudgetWrites) /\ <<"budget", runs>> \in DOMAIN child

HistoryInv ==
  /\ past.contested \subseteq {Proposal} \cup DOMAIN child
  /\ past.reached \subseteq DOMAIN child
  /\ Excused \subseteq DOMAIN command

(* A budget action is never left in a state from which it could be         *)
(* requeued, wherever its execution stops.                                 *)
BudgetInv ==
  \A k \in DOMAIN child :
    k[1] = "budget" =>
      /\ child[k].executable
      /\ child[k].executions \in {<<>>, <<"executing">>, <<"completed">>}
      /\ child[k].status \in {"recommended", "approved", "queued", "executing", "completed"}
      /\ child[k].status = "completed" => child[k].executions = <<"completed">>
      /\ worker.pc = "budget" /\ k = <<"budget", runs>> =>
           IF worker.i = Len(BudgetWrites) THEN child[k].executions = <<"completed">>
           ELSE child[k].status # "completed"

(* A row that is behind will be written again: by a request, each of which *)
(* ends with a sync, or by the worker, unless that is lost.                *)
RowInv ==
  \/ bundle = Snapshot(proposal, child)
  \/ past.lost # {}
  \/ \E s \in Sessions : session[s].pc # "idle"
  \/ worker.pc \notin {"idle", "begin", "start", "finish", "fail_command",
                       "recovery_completed", "recovery_failed", "mark_proposal"}

CommandsOf(t) == {c \in DOMAIN command : command[c].of = t}
Waiting(t)    == {c \in CommandsOf(t) : command[c].status = "pending"}
WorkerIs(t, steps) == worker.of = t /\ worker.pc \in steps

AboutToInsert(me) == me.pc = "insert" \/ (me.pc = "sync" /\ me.next = "insert")

(* Uncontested, a proposal is decided once and executed once. *)
ProposalInv ==
  Proposal \notin past.contested =>
    /\ \A s, z \in Sessions : session[s].of = Proposal /\ session[z].of = Proposal => s = z
    /\ proposal = "proposed" => runs = 0 /\ ~past.rejected /\ CommandsOf(Proposal) = {}
    /\ \A s \in Sessions :
         session[s].of = Proposal =>
           /\ session[s].pc \in {"approve", "reject"} => proposal = "proposed"
           /\ AboutToInsert(session[s]) =>
                proposal # "proposed" /\ runs = 0 /\ ~past.rejected /\ CommandsOf(Proposal) = {}
    /\ past.rejected => runs = 0 /\ CommandsOf(Proposal) = {}
    /\ \A c, d \in CommandsOf(Proposal) : c = d
    /\ Waiting(Proposal) # {} \/ WorkerIs(Proposal, {"begin", "start"}) => runs = 0
    /\ runs <= 1

Armed(k) == child[k].status \in {"approved", "queued"}

(* A request that has judged child k and not yet inserted its command. *)
Early(me, k) ==
  /\ me.of = k
  /\ \/ me.pc \in {"approve", "insert", "recover", "reread"}
     \/ me.pc = "sync" /\ me.next = "recover"

(* Uncontested, child k is executed on one approval or one requeueing at a *)
(* time: the worker is not before its orders while a request is about to   *)
(* insert a command, and commands left over find the child not executable. *)
UncontestedInv(k) ==
  /\ \A s, z \in Sessions : session[s].of = k /\ session[z].of = k => s = z
  /\ child[k].status = "recommended" =>
       /\ CommandsOf(k) = {} /\ child[k].executions = <<>> /\ k \notin past.reached
       /\ \A s \in Sessions : session[s].of = k =>
            session[s].pc \in {"approve", "refuse"}
              \/ (session[s].pc = "sync" /\ session[s].next # "recover")
  /\ child[k].status = "approved" => ~SeqHas(child[k].executions, "failed")
  /\ WorkerIs(k, {"mark_child"}) => Armed(k)
  /\ WorkerIs(k, ChildSteps \ {"mark_child"}) => child[k].status \in {"executing", "queued"}
  /\ WorkerIs(k, {"checks"}) /\ child[k].status = "queued" => Waiting(k) = {}
  /\ \A s \in Sessions :
       /\ session[s].of = k /\ session[s].pc = "approve" => child[k].status = "recommended"
       /\ Early(session[s], k) =>
            /\ child[k].status \in {"recommended", "approved", "failed"}
            /\ ~WorkerIs(k, {"mark_child", "checks"})
            /\ Armed(k) => Waiting(k) = {} /\ ~WorkerIs(k, {"begin", "start"})
       /\ session[s].of = k /\ session[s].pc = "queue" /\ child[k].status # "failed" =>
            /\ Waiting(k) \subseteq {session[s].cmd}
            /\ WorkerIs(k, {"begin", "start", "mark_child", "checks"}) => worker.cmd = session[s].cmd

(* A child that reached a venue will not reach it again. *)
ReachedInv(k) ==
  k \in past.reached =>
    /\ child[k].progress
    /\ \A s \in Sessions : ~Early(session[s], k)
    /\ ~WorkerIs(k, {"mark_child", "checks"})
    /\ (Armed(k) \/ \E s \in Sessions : session[s].of = k /\ session[s].pc = "queue") =>
         Waiting(k) = {} /\ ~WorkerIs(k, {"begin", "start"})

(* What holds of a carry child: what is said above, and that it is queued  *)
(* only where its command is still to come, or the request was overtaken.  *)
CarryInv(k) ==
  /\ k \notin past.contested => UncontestedInv(k)
  /\ k \notin past.contested \cup past.unrecorded => ReachedInv(k)
  /\ child[k].status = "queued" =>
       \/ Waiting(k) # {} \/ WorkerIs(k, {"begin", "start", "mark_child"})
       \/ \E c \in Excused : command[c].of = k

ChildInv == \A k \in DOMAIN child : k[1] = "carry" => CarryInv(k)

BundleInv ==
  /\ TypeOK /\ SessionInv /\ CommandInv /\ WorkerInv /\ HistoryInv /\ BudgetInv /\ RowInv
  /\ ProposalInv /\ ChildInv
  /\ ChildAppliedOnce /\ BudgetNeverRequeued /\ RecoveryFollowsCommand
=============================================================================
