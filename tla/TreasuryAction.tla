--------------------------- MODULE TreasuryAction ---------------------------
(***************************************************************************)
(* Treasury actions from recommendation to venue: API handlers of the      *)
(* control plane (approve, enqueue), each a read followed by unconditional *)
(* writes; the worker's executeTreasuryAction; the venue adapters, whose   *)
(* simulated allocations live in the worker's memory; and the row          *)
(* treasury_current, which keeps the sleeve's cash.                        *)
(*                                                                         *)
(* Rows that no operator touches are inert, so a model tracks MaxActions   *)
(* of the recommended actions and operators enqueue MaxCommands commands.  *)
(***************************************************************************)
EXTENDS TreasuryPolicy

CONSTANTS Sessions,        \* clients of the API, each awaiting its answers
          RoleOf,          \* [Sessions -> {"viewer", "operator", "admin"}]
          VenueConfig,     \* the configured venues, as a sequence of snapshots
          Capabilities,    \* [venue ids -> capability records]
          Policy,          \* the treasury policy
          Mode,            \* executionMode and liveExecutionEnabled
          Liquidity,       \* liquidityReserve of the portfolio tracker
          MaxActions, MaxCommands, MaxFaults

(* A venue's snapshot, as its adapter and its configuration give it. *)
Snapshot(ids) ==
  [id : ids, tier : {"instant", "same_day", "delayed"}, apr : Int, healthy : BOOLEAN,
   capacity : Nat, allocation : Nat, withdrawable : Nat]

ASSUME BoundsAssumption == MaxActions \in Nat /\ MaxCommands \in Nat /\ MaxFaults \in Nat

ASSUME RoleAssumption == RoleOf \in [Sessions -> {"viewer", "operator", "admin"}]

ASSUME VenueAssumption ==
  /\ VenueConfig \in Seq(Snapshot(STRING))
  /\ \A i \in DOMAIN VenueConfig : VenueConfig[i].withdrawable <= VenueConfig[i].allocation

ASSUME PolicyAssumption ==
  /\ Liquidity \in Int
  /\ Policy.minReserve \in Int /\ Policy.reserveFloorPct \in Int
  /\ Policy.maxPctPerVenue \in Int /\ Policy.minDeployable \in Nat

VARIABLES action,      \* treasury_actions, a sequence of rows
          command,     \* execute_treasury_action commands, oldest first
          cash,        \* treasury_current.cashBalanceUsd, or -1 before a row exists
          venue,       \* per venue, allocation and withdrawable in the adapter
          session,     \* per session, what its handler is about to do
          worker,      \* what the worker is about to do
          moved,       \* history: net amount the venues have received
          faults,      \* history: crashes and uncaught exceptions so far
          stranded     \* history: commands given up where no statement closes their rows

vars == <<action, command, cash, venue, session, worker, moved, faults, stranded>>

ActionIds  == 1..MaxActions
VenueIds   == {VenueConfig[i].id : i \in DOMAIN VenueConfig}
Status     == {"recommended", "approved", "queued", "executing", "completed", "failed"}

NoRec == [type |-> "none", venue |-> "none", amount |-> 0, reason |-> "none"]

Initially(field) ==
  [v \in VenueIds |-> VenueConfig[CHOOSE i \in DOMAIN VenueConfig : VenueConfig[i].id = v][field]]

Init ==
  /\ action = <<>>
  /\ command = <<>>
  /\ cash = -1
  /\ venue = [allocation |-> Initially("allocation"), withdrawable |-> Initially("withdrawable")]
  /\ session = [s \in Sessions |-> [pc |-> "idle", id |-> 0]]
  /\ worker = [pc |-> "idle", cmd |-> 0, idle |-> 0]
  /\ moved = 0
  /\ faults = 0
  /\ stranded = {}

-----------------------------------------------------------------------------
(***************************************************************************)
(* Evaluation.                                                             *)
(***************************************************************************)
Snapshots ==
  [i \in DOMAIN VenueConfig |->
     [VenueConfig[i] EXCEPT !.allocation = venue.allocation[VenueConfig[i].id],
                            !.withdrawable = venue.withdrawable[VenueConfig[i].id]]]

Planned(rec, evaluation) ==
  LET cap == Capabilities[rec.venue]
  IN [rec        |-> rec,
      status     |-> "recommended",
      executable |-> BlockedReasons(rec, evaluation, Policy, cap, Mode) = {},
      required   |-> ApprovalRequirement(cap.mode),
      approver   |-> "none"]

(* persistTreasuryEvaluation: a row per intent, and the cash evaluated. *)
Persist(idle) ==
  LET evaluation == Evaluate(idle, Snapshots, Policy)
      kept == Min({MaxActions - Len(action), Len(evaluation.recs)})
  IN /\ action' = action \o [i \in 1..kept |-> Planned(evaluation.recs[i], evaluation)]
     /\ cash' = ToFixed(idle)

(* runTreasuryEvaluation by a cycle or a run_treasury_evaluation command. *)
RunTreasuryEvaluation ==
  /\ worker.pc = "idle"
  /\ Persist(IF cash = -1 THEN Liquidity ELSE cash)
  /\ UNCHANGED <<command, venue, session, worker, moved, faults, stranded>>

(* A rebalance leaves a budget action of no venue, which is executable. *)
CreateTreasuryAction ==
  /\ Len(action) < MaxActions
  /\ action' = Append(action, [rec |-> NoRec, status |-> "recommended", executable |-> TRUE,
                               required |-> "operator", approver |-> "none"])
  /\ UNCHANGED <<command, cash, venue, session, worker, moved, faults, stranded>>

-----------------------------------------------------------------------------
(***************************************************************************)
(* The control plane's handlers.                                           *)
(***************************************************************************)
CanSatisfyApprovalRequirement(role, required) ==
  role = "admin" \/ (role = "operator" /\ required = "operator")

Enabled(s, a) ==
  /\ session[s].pc = "idle"
  /\ action[a].executable
  /\ CanSatisfyApprovalRequirement(RoleOf[s], action[a].required)

AtStep(s, pc, id) == session' = [session EXCEPT ![s] = [pc |-> pc, id |-> id]]

(* mutant: the role is not checked *)
ApproveAnyRole(s, a) ==
  /\ session[s].pc = "idle" /\ action[a].executable
  /\ AtStep(s, "approve", a)
  /\ UNCHANGED <<action, command, cash, venue, worker, moved, faults, stranded>>

(* approveTreasuryAction checks readiness and role, never the status. *)
ApproveRead(s, a) ==
  /\ Enabled(s, a)
  /\ AtStep(s, "approve", a)
  /\ UNCHANGED <<action, command, cash, venue, worker, moved, faults, stranded>>

ApproveWrite(s) ==
  /\ session[s].pc = "approve"
  /\ action' = [action EXCEPT ![session[s].id].status = "approved",
                              ![session[s].id].approver = RoleOf[s]]
  /\ AtStep(s, "idle", 0)
  /\ UNCHANGED <<command, cash, venue, worker, moved, faults, stranded>>

(* mutant: the status is not checked *)
EnqueueUnapproved(s, a) ==
  /\ Enabled(s, a)
  /\ AtStep(s, "insert", a)
  /\ UNCHANGED <<action, command, cash, venue, worker, moved, faults, stranded>>

EnqueueRead(s, a) ==
  /\ Enabled(s, a)
  /\ action[a].status = "approved"
  /\ AtStep(s, "insert", a)
  /\ UNCHANGED <<action, command, cash, venue, worker, moved, faults, stranded>>

EnqueueInsert(s) ==
  /\ session[s].pc = "insert"
  /\ Len(command) < MaxCommands
  /\ command' = Append(command, [id |-> session[s].id, status |-> "pending",
                                 execution |-> "none", effects |-> 0])
  /\ AtStep(s, "queue", session[s].id)
  /\ UNCHANGED <<action, cash, venue, worker, moved, faults, stranded>>

(* queueTreasuryActionExecution overwrites whatever the worker wrote since. *)
EnqueueWrite(s) ==
  /\ session[s].pc = "queue"
  /\ action' = [action EXCEPT ![session[s].id].status = "queued"]
  /\ AtStep(s, "idle", 0)
  /\ UNCHANGED <<command, cash, venue, worker, moved, faults, stranded>>

-----------------------------------------------------------------------------
(***************************************************************************)
(* executeTreasuryAction in the worker, which runs one command at a time,  *)
(* the oldest first.                                                       *)
(***************************************************************************)
Current == command[worker.cmd].id
WorkerAt(pc) == worker' = [worker EXCEPT !.pc = pc]
SetCommand(c, status, execution) ==
  command' = [command EXCEPT ![c].status = status, ![c].execution = execution]
SetAction(status) == action' = [action EXCEPT ![Current].status = status]

OldestPending(c) ==
  /\ worker.pc = "idle"
  /\ command[c].status = "pending"
  /\ \A d \in DOMAIN command : command[d].status = "pending" => c <= d

(* The status check of the first lines throws. *)
NotExecutable(c) ==
  /\ OldestPending(c)
  /\ action[command[c].id].status \notin {"queued", "approved"}
  /\ SetCommand(c, "failed", "none")
  /\ UNCHANGED <<action, cash, venue, session, worker, moved, faults, stranded>>

Executable(c) ==
  /\ OldestPending(c)
  /\ action[command[c].id].status \in {"queued", "approved"}

(* A budget action has an execution without a venue. *)
ExecuteBudget(c) ==
  /\ Executable(c)
  /\ action[command[c].id].rec.type = "none"
  /\ SetCommand(c, "running", "executing")
  /\ worker' = [pc |-> "complete_execution", cmd |-> c, idle |-> 0]
  /\ UNCHANGED <<action, cash, venue, session, moved, faults, stranded>>

(* The action is planned again, on fresh snapshots, against the liquidity  *)
(* of the portfolio tracker and not against treasury_current.              *)
Replanned(c) == Evaluate(Liquidity, Snapshots, Policy)

(* mutant: the plan is not made again before execution *)
NeverBlocked(c) == FALSE

StillBlocked(c) ==
  LET rec == action[command[c].id].rec
  IN BlockedReasons(rec, Replanned(c), Policy, Capabilities[rec.venue], Mode) # {}

(* The execution is created failed; failTreasuryAction follows. *)
ExecuteBlocked(c) ==
  /\ Executable(c)
  /\ action[command[c].id].rec.type # "none"
  /\ StillBlocked(c)
  /\ SetCommand(c, "running", "failed")
  /\ worker' = [pc |-> "fail_action", cmd |-> c, idle |-> 0]
  /\ UNCHANGED <<action, cash, venue, session, moved, faults, stranded>>

ExecuteCreate(c) ==
  /\ Executable(c)
  /\ action[command[c].id].rec.type # "none"
  /\ ~StillBlocked(c)
  /\ SetCommand(c, "running", "executing")
  /\ worker' = [pc |-> "mark", cmd |-> c,
                idle |-> Effects(action[command[c].id].rec, Replanned(c)).idle]
  /\ UNCHANGED <<action, cash, venue, session, moved, faults, stranded>>

ExecuteMark ==
  /\ worker.pc = "mark"
  /\ SetAction("executing")
  /\ WorkerAt("venue")
  /\ UNCHANGED <<command, cash, venue, session, moved, faults, stranded>>

(* mutant: a call that throws is taken for one that worked *)
VenueMayNotMove ==
  /\ worker.pc = "venue"
  /\ WorkerAt("cash")
  /\ UNCHANGED <<action, command, cash, venue, session, moved, faults, stranded>>

(* mutant: a deposit counts as withdrawable and not as allocated *)
CreditsWithdrawableOnly ==
  LET rec  == action[Current].rec
      sign == IF rec.type = "deposit" THEN 1 ELSE -1
  IN /\ worker.pc = "venue"
     /\ venue' = [venue EXCEPT !.withdrawable[rec.venue] = AtLeastZero(@ + sign * rec.amount)]
     /\ moved' = moved + sign * rec.amount
     /\ command' = [command EXCEPT ![worker.cmd].effects = @ + 1]
     /\ WorkerAt("cash")
     /\ UNCHANGED <<action, cash, session, faults, stranded>>

(* SimulatedTreasuryVenueAdapter.executeTreasuryAction *)
VenueMoves ==
  LET rec  == action[Current].rec
      sign == IF rec.type = "deposit" THEN 1 ELSE -1
      add(f) == [f EXCEPT ![rec.venue] = AtLeastZero(@ + sign * rec.amount)]
  IN /\ worker.pc = "venue"
     /\ rec.amount > 0
     /\ rec.type = "deposit" \/ rec.amount <= venue.withdrawable[rec.venue]
     /\ venue' = [allocation |-> add(venue.allocation), withdrawable |-> add(venue.withdrawable)]
     /\ moved' = moved + sign * rec.amount
     /\ command' = [command EXCEPT ![worker.cmd].effects = @ + 1]
     /\ WorkerAt("cash")
     /\ UNCHANGED <<action, cash, session, faults, stranded>>

SetTreasuryCashBalance ==
  /\ worker.pc = "cash"
  /\ cash' = worker.idle
  /\ WorkerAt("follow_up")
  /\ UNCHANGED <<action, command, venue, session, moved, faults, stranded>>

FollowUpEvaluation ==
  /\ worker.pc = "follow_up"
  /\ Persist(worker.idle)
  /\ WorkerAt("complete_execution")
  /\ UNCHANGED <<command, venue, session, moved, faults, stranded>>

CompleteExecution ==
  /\ worker.pc = "complete_execution"
  /\ SetCommand(worker.cmd, "running", "completed")
  /\ WorkerAt("complete_action")
  /\ UNCHANGED <<action, cash, venue, session, moved, faults, stranded>>

CompleteAction ==
  /\ worker.pc = "complete_action"
  /\ SetAction("completed")
  /\ WorkerAt("audit")
  /\ UNCHANGED <<command, cash, venue, session, moved, faults, stranded>>

(* The audit event, and completeRuntimeCommand in the worker. *)
Finish ==
  /\ worker.pc = "audit"
  /\ SetCommand(worker.cmd, "completed", command[worker.cmd].execution)
  /\ worker' = [pc |-> "idle", cmd |-> 0, idle |-> 0]
  /\ UNCHANGED <<action, cash, venue, session, moved, faults, stranded>>

Try == {"venue", "cash", "follow_up", "complete_execution", "complete_action", "audit"}

(* Anything in the try block may throw: the venue's call, a query, the     *)
(* audit.                                                                  *)
Throw ==
  /\ worker.pc \in Try
  /\ action[Current].rec.type # "none"
  /\ WorkerAt("fail_execution")
  /\ UNCHANGED <<action, command, cash, venue, session, moved, faults, stranded>>

(* So may markTreasuryActionExecuting before it, the statements of a budget*)
(* action, which has no try block, and those of the catch block: the worker*)
(* fails the command, and nothing closes the rows.                         *)
ThrowUncaught ==
  /\ \/ worker.pc \in {"mark", "fail_execution", "fail_action"}
     \/ worker.pc \in Try /\ action[Current].rec.type = "none"
  /\ faults < MaxFaults
  /\ faults' = faults + 1
  /\ stranded' = stranded \cup {worker.cmd}
  /\ WorkerAt("fail_command")
  /\ UNCHANGED <<action, command, cash, venue, session, moved>>

FailExecution ==
  /\ worker.pc = "fail_execution"
  /\ SetCommand(worker.cmd, "running", "failed")
  /\ WorkerAt("fail_action")
  /\ UNCHANGED <<action, cash, venue, session, moved, faults, stranded>>

(* mutant: the action keeps its status *)
FailActionForgets ==
  /\ worker.pc = "fail_action"
  /\ WorkerAt("fail_command")
  /\ UNCHANGED <<action, command, cash, venue, session, moved, faults, stranded>>

FailAction ==
  /\ worker.pc = "fail_action"
  /\ SetAction("failed")
  /\ WorkerAt("fail_command")
  /\ UNCHANGED <<command, cash, venue, session, moved, faults, stranded>>

FailCommand ==
  /\ worker.pc = "fail_command"
  /\ SetCommand(worker.cmd, "failed", command[worker.cmd].execution)
  /\ worker' = [pc |-> "idle", cmd |-> 0, idle |-> 0]
  /\ UNCHANGED <<action, cash, venue, session, moved, faults, stranded>>

(* A process that dies leaves its command running for ever; the adapters   *)
(* of the next process start from their configuration.                     *)
Crash ==
  /\ faults < MaxFaults
  /\ faults' = faults + 1
  /\ worker' = [pc |-> "idle", cmd |-> 0, idle |-> 0]
  /\ venue' = [allocation |-> Initially("allocation"), withdrawable |-> Initially("withdrawable")]
  /\ stranded' = stranded \cup ({worker.cmd} \ {0})
  /\ UNCHANGED <<action, command, cash, session, moved>>

-----------------------------------------------------------------------------
SessionStep(s) ==
  \/ \E a \in DOMAIN action : ApproveRead(s, a) \/ EnqueueRead(s, a)
  \/ ApproveWrite(s)
  \/ EnqueueInsert(s)
  \/ EnqueueWrite(s)

ExecutionStep ==
  \/ \E c \in DOMAIN command :
       NotExecutable(c) \/ ExecuteBudget(c) \/ ExecuteBlocked(c) \/ ExecuteCreate(c)
  \/ ExecuteMark \/ VenueMoves \/ SetTreasuryCashBalance \/ FollowUpEvaluation
  \/ CompleteExecution \/ CompleteAction \/ Finish
  \/ Throw \/ ThrowUncaught \/ FailExecution \/ FailAction \/ FailCommand

Next ==
  \/ RunTreasuryEvaluation \/ CreateTreasuryAction
  \/ \E s \in Sessions : SessionStep(s)
  \/ ExecutionStep
  \/ Crash

Spec == Init /\ [][Next]_vars

-----------------------------------------------------------------------------
(***************************************************************************)
(* Properties.                                                             *)
(***************************************************************************)
Reasons == {"venue_ineligible", "venue_concentration", "reserve_shortfall", "surplus_deployable"}

Row == [rec : [type : {"none", "deposit", "redeem"}, venue : VenueIds \cup {"none"},
               amount : Nat, reason : Reasons \cup {"none"}],
        status : Status, executable : BOOLEAN,
        required : {"operator", "admin"}, approver : {"none", "viewer", "operator", "admin"}]

(* Every row, handler and step has one of the values the code can give it. *)
TypeOK ==
  /\ Len(action) <= MaxActions /\ \A a \in DOMAIN action : action[a] \in Row
  /\ Len(command) <= MaxCommands
  /\ \A c \in DOMAIN command :
       /\ command[c].id \in DOMAIN action
       /\ command[c].status \in {"pending", "running", "completed", "failed"}
       /\ command[c].execution \in {"none", "executing", "completed", "failed"}
  /\ \A v \in VenueIds : 0 <= venue.withdrawable[v] /\ venue.withdrawable[v] <= venue.allocation[v]
  /\ \A s \in Sessions : session[s].pc \in {"idle", "approve", "insert", "queue"}
  /\ worker.pc \in Try \cup {"idle", "mark", "fail_execution", "fail_action", "fail_command"}

Approval == INSTANCE ApprovedExecution WITH
  Actions <- ActionIds,
  granted <- {a \in DOMAIN action : action[a].status # "recommended"},
  orders  <- [c \in DOMAIN command |-> command[c].id],
  effects <- [c \in DOMAIN command |-> command[c].effects]

(* Whatever handlers, worker and crashes interleave to, a venue is touched *)
(* at most once per inserted command and a command is inserted only for an *)
(* action somebody approved.                                               *)
ImplementsApproval == Approval!ApprovalSpec

(* Money moved at a live venue has the approval of an admin, although      *)
(* approve, enqueue and the re-planning before execution are three         *)
(* requests of three actors.                                               *)
LiveNeedsAdmin ==
  \A c \in DOMAIN command :
    LET row == action[command[c].id]
    IN command[c].effects > 0 /\ Capabilities[row.rec.venue].mode = "live"
         => row.approver = "admin"

(* An execution recorded as completed did move the money.  (The converse   *)
(* is false: one recorded as failed may have moved it too.)                *)
CompletedMoved ==
  \A c \in DOMAIN command :
    command[c].execution = "completed" /\ action[command[c].id].rec.type # "none"
      => command[c].effects = 1

(* No row is left behind by an exception of the try block: an action or an *)
(* execution that says executing is the worker's current one, or that of a *)
(* command whose process died, or which met an exception outside the try   *)
(* block or in the catch block itself.                                     *)
NoOrphans ==
  /\ \A c \in DOMAIN command : command[c].execution = "executing" => c \in stranded \cup {worker.cmd}
  /\ \A a \in DOMAIN action :
       action[a].status = "executing" =>
         \E c \in stranded \cup {worker.cmd} : c # 0 /\ command[c].id = a

(* An approval may be old when its command runs, and several may be        *)
(* waiting: a deposit is made only if the venue's share, on the books as   *)
(* they are then, stays within the cap.                                    *)
DepositWithinCap ==
  [][\A v \in VenueIds :
       venue'.allocation[v] > venue.allocation[v] /\ faults' = faults =>
         100 * venue'.allocation[v] <=
           Policy.maxPctPerVenue * ToFixed(ReserveStatus(Liquidity, Snapshots, Policy).total)]_vars

(* Treasury funds are controlled: what moved at a live venue was approved  *)
(* by an admin, what says completed moved, and no exception that is caught *)
(* leaves a row executing, over every step of executeTreasuryAction and of *)
(* the requests beside it (runtime.ts, control-plane.ts).                  *)
FundsAreControlled == TypeOK /\ LiveNeedsAdmin /\ CompletedMoved /\ NoOrphans
=============================================================================
