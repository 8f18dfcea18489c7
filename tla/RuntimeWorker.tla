--------------------------- MODULE RuntimeWorker ---------------------------
(***************************************************************************)
(* The runtime worker process, the durable command queue it drains, the    *)
(* row runtime_state it shares with the control plane, and the operator's  *)
(* kill switch.                                                            *)
(*                                                                         *)
(* Sources: packages/runtime/src/worker.ts (RuntimeWorker),                *)
(* packages/runtime/src/runtime.ts (start, runCycle, rebuildProjections,   *)
(* close), packages/runtime/src/store.ts (the queries they issue) and      *)
(* packages/runtime/src/control-plane.ts (enqueueCommand, kill switch).    *)
(*                                                                         *)
(* Every await of the code is a point where another process may run, so a  *)
(* handler is a chain of actions, one per query that reads or writes state *)
(* another process can see; pc[w] names the next one.  Queries that touch  *)
(* different rows and that nobody observes together are one action.        *)
(***************************************************************************)
EXTENDS Naturals, FiniteSets

CONSTANTS
    Workers,            \* worker processes connected to the database
    Commands,           \* command identifiers
    CycleCommands,      \* commands of type run_cycle
    RebuildCommands,    \* commands of type rebuild_projections
    CarryCommands,      \* commands of type execute_carry_action
    NoCommand,          \* null
    ReplayLimit,        \* RUNTIME_SIMULATION_REPLAY_LIMIT: fills a rebuild replays, 0 for all
    MaxRuns,            \* bound: strategy runs created
    MaxOrders,          \* bound: orders filled by the venues
    MaxToggles,         \* bound: operator calls of kill switch and resume
    MaxCrashes          \* bound: process deaths (crash, rejected tick, failed boot)

ASSUME CommandsAssumption ==
    /\ CycleCommands \subseteq Commands
    /\ RebuildCommands \subseteq Commands
    /\ CarryCommands \subseteq Commands
    /\ CycleCommands \cap RebuildCommands = {}
    /\ CarryCommands \cap (CycleCommands \cup RebuildCommands) = {}
    /\ NoCommand \notin Commands

ASSUME ReplayAssumption == ReplayLimit \in Nat

ASSUME BoundsAssumption ==
    /\ MaxRuns \in Nat
    /\ MaxOrders \in Nat
    /\ MaxToggles \in Nat
    /\ MaxCrashes \in Nat

VARIABLES
    \* table runtime_commands
    clock, requestedAt, status, attempts,
    result,             \* result[c]: the runId stored by completeRuntimeCommand, 0 if none
    \* row runtime_state
    halted, lifecycle, projection,
    \* table strategy_runs
    runStatus,          \* runStatus[r], r in 1..MaxRuns
    \* table runtime_mismatches, the keys runtime_command_failure:<commandId>
    failureRecorded,
    \* row runtime_worker_state
    row,                \* [lifecycle, scheduler, command]
    \* worker processes
    pc, cmd, run, seenHalted, stopping,
    \* the venues and the projections built from them
    fills,              \* fills[o]: rows of table fills, for orders from o in OrderSource
    adapter,            \* adapter[w][o]: filled orders in the memory of w's simulated adapters
    projected,          \* projected[o]: those the table positions accounts for
    \* history
    haltStarts,         \* haltStarts[w]: runs w created since the kill switch was last pulled
    toggles, crashes,
    unrecorded          \* commands whose worker died after failRuntimeCommand, before upsertMismatch

commandVars == <<clock, requestedAt, status, attempts, result>>
stateVars == <<halted, lifecycle, projection>>
processVars == <<pc, cmd, run, seenHalted, stopping>>
historyVars == <<haltStarts, toggles, crashes, unrecorded>>
venueVars == <<fills, adapter, projected>>
vars == <<commandVars, stateVars, runStatus, failureRecorded, row, processVars,
          venueVars, historyVars>>

Runs == 1..MaxRuns
Queue == INSTANCE CommandQueue

RunStatus == {"none", "running", "completed", "failed"}
Lifecycle == {"starting", "ready", "paused", "degraded", "stopped"}
Projection == {"stale", "rebuilding", "fresh"}
OrderSource == {"cycle", "carry"}
NoOrders == [o \in OrderSource |-> 0]
Total(f) == f["cycle"] + f["carry"]
WorkerRow == [lifecycle : {"starting", "ready", "degraded", "stopping", "stopped"},
              scheduler : {"idle", "waiting", "running", "paused"},
              command : Commands \cup {NoCommand}]

\* Steps of a strategy cycle that run inside its try block.
CycleTry == {"cycle_execute", "cycle_persist", "cycle_snapshot", "cycle_complete",
             "cycle_fresh", "cycle_reconcile"}
\* All steps of a strategy cycle.
CycleSteps == CycleTry \cup {"cycle_read", "cycle_create", "cycle_mark", "cycle_fail",
                             "cycle_degrade"}
RebuildSteps == {"rebuild_mark", "rebuild_sync", "rebuild_read", "rebuild_write",
                 "rebuild_reconcile"}
BootSteps == {"boot_read", "boot_write", "boot_row"}
PC == CycleSteps \cup RebuildSteps \cup BootSteps \cup
      {"down", "tick", "claim", "begin", "schedule", "operation", "carry_persist",
       "complete", "settle", "fail", "record"}

TypeOK ==
    /\ Queue!QueueTypeOK
    /\ result \in [Commands -> 0..MaxRuns]
    /\ halted \in BOOLEAN
    /\ lifecycle \in Lifecycle
    /\ projection \in Projection
    /\ runStatus \in [Runs -> RunStatus]
    /\ failureRecorded \subseteq Commands
    /\ row \in WorkerRow
    /\ pc \in [Workers -> PC]
    /\ cmd \in [Workers -> Commands \cup {NoCommand}]
    /\ run \in [Workers -> 0..MaxRuns]
    /\ seenHalted \in [Workers -> BOOLEAN]
    /\ stopping \in [Workers -> BOOLEAN]
    /\ fills \in [OrderSource -> Nat]
    /\ adapter \in [Workers -> [OrderSource -> Nat]]
    /\ projected \in [OrderSource -> Nat]
    /\ haltStarts \in [Workers -> Nat]
    /\ toggles \in Nat
    /\ crashes \in Nat
    /\ unrecorded \subseteq Commands

\* A worker in one of these steps holds the command it works on.
HoldsCommand ==
    \A w \in Workers :
        pc[w] \in {"claim", "begin", "operation", "carry_persist", "record"} => cmd[w] \in Commands

(***************************************************************************)
(* ensureRuntimeState and ensureWorkerState insert the two rows before     *)
(* anything else happens.                                                  *)
(***************************************************************************)
Init ==
    /\ Queue!QueueInit
    /\ result = [c \in Commands |-> 0]
    /\ halted = FALSE
    /\ lifecycle = "starting"
    /\ projection = "stale"
    /\ runStatus = [r \in Runs |-> "none"]
    /\ failureRecorded = {}
    /\ row = [lifecycle |-> "stopped", scheduler |-> "idle", command |-> NoCommand]
    /\ pc = [w \in Workers |-> "down"]
    /\ cmd = [w \in Workers |-> NoCommand]
    /\ run = [w \in Workers |-> 0]
    /\ seenHalted = [w \in Workers |-> FALSE]
    /\ stopping = [w \in Workers |-> FALSE]
    /\ fills = NoOrders
    /\ adapter = [w \in Workers |-> NoOrders]
    /\ projected = NoOrders
    /\ haltStarts = [w \in Workers |-> 0]
    /\ toggles = 0
    /\ crashes = 0
    /\ unrecorded = {}

-----------------------------------------------------------------------------
(* The control plane: HTTP handlers of apps/api, any number at a time.     *)

\* RuntimeControlPlane.enqueueCommand: nothing but the insert changes state.
EnqueueCommand(c) ==
    /\ Queue!Submit(c)
    /\ UNCHANGED <<result, stateVars, runStatus, failureRecorded, row, processVars,
                   venueVars, historyVars>>

ActivateKillSwitch ==
    /\ toggles < MaxToggles
    /\ halted' = TRUE
    /\ lifecycle' = "paused"
    /\ haltStarts' = IF halted THEN haltStarts ELSE [w \in Workers |-> 0]
    /\ toggles' = toggles + 1
    /\ UNCHANGED <<commandVars, projection, runStatus, failureRecorded, row, processVars,
                   venueVars, crashes, unrecorded>>

Resume ==
    /\ toggles < MaxToggles
    /\ halted' = FALSE
    /\ lifecycle' = "ready"
    /\ haltStarts' = [w \in Workers |-> 0]
    /\ toggles' = toggles + 1
    /\ UNCHANGED <<commandVars, projection, runStatus, failureRecorded, row, processVars,
                   venueVars, crashes, unrecorded>>

-----------------------------------------------------------------------------
(* Moving a worker from one step to the next.                              *)

Step(w, from, to) ==
    /\ pc[w] = from
    /\ pc' = [pc EXCEPT ![w] = to]

\* The variables a step leaves alone when it only touches runtime_state.
ExceptState == <<commandVars, runStatus, failureRecorded, row, cmd, run, seenHalted,
                 stopping, venueVars, historyVars>>

-----------------------------------------------------------------------------
(* SentinelRuntime.rebuildProjections, at boot (cmd = NoCommand) and as a  *)
(* command.                                                                *)

RebuildMark(w) ==
    /\ Step(w, "rebuild_mark", "rebuild_sync")
    /\ projection' = "rebuilding"
    /\ lifecycle' = "starting"
    /\ UNCHANGED <<halted, ExceptState>>

\* All fills fit into one replay.
WithinReplay == ReplayLimit = 0 \/ Total(fills) <= ReplayLimit

(***************************************************************************)
(* What restoreAdaptersFromPersistence leaves in the adapters: the latest  *)
(* fills, up to the limit.  Which orders they belong to is left open.      *)
(***************************************************************************)
Replayed ==
    {h \in [OrderSource -> 0..MaxOrders] :
        /\ \A o \in OrderSource : h[o] <= fills[o]
        /\ Total(h) = IF WithinReplay THEN Total(fills) ELSE ReplayLimit}

\* Adapters are restored from the persisted fills, positions are replaced.
RebuildSync(w) ==
    /\ Step(w, "rebuild_sync", "rebuild_read")
    /\ \E h \in Replayed :
          /\ adapter' = [adapter EXCEPT ![w] = h]
          /\ projected' = h
    /\ UNCHANGED <<commandVars, stateVars, runStatus, failureRecorded, row, cmd, run,
                   seenHalted, stopping, fills, historyVars>>

\* getRuntimeStatus, whose answer the next step uses after another await.
ReadHalted(w, from, to) ==
    /\ Step(w, from, to)
    /\ seenHalted' = [seenHalted EXCEPT ![w] = halted]
    /\ UNCHANGED <<commandVars, stateVars, runStatus, failureRecorded, row, cmd, run,
                   stopping, venueVars, historyVars>>

RebuildRead(w) == ReadHalted(w, "rebuild_read", "rebuild_write")

\* A lifecycle named after the flag it was read from.
LifecycleOfFlag(w) == IF seenHalted[w] THEN "halted" ELSE "ready"

LifecycleSeen(w) == IF seenHalted[w] THEN "paused" ELSE "ready"

RebuildWrite(w) ==
    /\ Step(w, "rebuild_write", "rebuild_reconcile")
    /\ lifecycle' = LifecycleSeen(w)
    /\ projection' = "fresh"
    /\ UNCHANGED <<halted, ExceptState>>

RebuildReconcile(w) ==
    /\ Step(w, "rebuild_reconcile", IF cmd[w] = NoCommand THEN "boot_read" ELSE "complete")
    /\ UNCHANGED <<stateVars, ExceptState>>

-----------------------------------------------------------------------------
(* Process start: SentinelRuntime.start, then RuntimeWorker.start.         *)

Boot(w) ==
    /\ Step(w, "down", "rebuild_mark")
    /\ lifecycle' = "starting"
    /\ UNCHANGED <<halted, projection, ExceptState>>

BootRead(w) == ReadHalted(w, "boot_read", "boot_write")

BootWrite(w) ==
    /\ Step(w, "boot_write", "boot_row")
    /\ lifecycle' = LifecycleSeen(w)
    /\ UNCHANGED <<halted, projection, ExceptState>>

\* RuntimeWorker.start; it does not look at commands left running.
StartWorker(w) ==
    /\ Step(w, "boot_row", "tick")
    /\ row' = [row EXCEPT !.lifecycle = "ready", !.scheduler = "waiting"]
    /\ UNCHANGED <<commandVars, stateVars, runStatus, failureRecorded, cmd, run,
                   seenHalted, stopping, venueVars, historyVars>>

-----------------------------------------------------------------------------
(* RuntimeWorker.tick: one command if there is one, else the schedule.     *)

ExceptProcess == <<commandVars, stateVars, runStatus, failureRecorded, venueVars,
                   historyVars>>

\* The heartbeat, and the SELECT of claimNextPendingCommand.
TickSelect(w) ==
    /\ ~stopping[w]
    /\ \E c \in Commands :
          /\ Queue!OldestPending(c)
          /\ cmd' = [cmd EXCEPT ![w] = c]
    /\ Step(w, "tick", "claim")
    /\ row' = [row EXCEPT !.lifecycle = "ready"]
    /\ UNCHANGED <<ExceptProcess, run, seenHalted, stopping>>

\* A tick that looks at the schedule although a command waits.
TickScheduleFirst(w) ==
    /\ ~stopping[w]
    /\ Step(w, "tick", "schedule")
    /\ row' = [row EXCEPT !.lifecycle = "ready"]
    /\ UNCHANGED <<ExceptProcess, cmd, run, seenHalted, stopping>>

TickIdle(w) ==
    /\ ~stopping[w]
    /\ \A c \in Commands : status[c] # "pending"
    /\ Step(w, "tick", "schedule")
    /\ row' = [row EXCEPT !.lifecycle = "ready"]
    /\ UNCHANGED <<ExceptProcess, cmd, run, seenHalted, stopping>>

(***************************************************************************)
(* The UPDATE ... WHERE status = 'pending' of claimNextPendingCommand.     *)
(* The row is then returned whether or not the UPDATE matched it.          *)
(***************************************************************************)
ClaimUpdate(w) ==
    /\ Step(w, "claim", "begin")
    /\ status' = IF status[cmd[w]] = "pending"
                   THEN [status EXCEPT ![cmd[w]] = "running"]
                   ELSE status
    /\ UNCHANGED <<clock, requestedAt, attempts, result, stateVars, runStatus,
                   failureRecorded, row, cmd, run, seenHalted, stopping, venueVars,
                   historyVars>>

FirstStep(c) ==
    IF c \in CycleCommands THEN "cycle_read"
    ELSE IF c \in RebuildCommands THEN "rebuild_mark"
    ELSE "operation"

\* executeCommand up to the dispatch on commandType.
BeginCommand(w) ==
    /\ Step(w, "begin", FirstStep(cmd[w]))
    /\ attempts' = [attempts EXCEPT ![cmd[w]] = @ + 1]
    /\ row' = [row EXCEPT !.scheduler = "running", !.command = cmd[w]]
    /\ run' = [run EXCEPT ![w] = 0]
    /\ UNCHANGED <<clock, requestedAt, status, result, stateVars, runStatus,
                   failureRecorded, cmd, seenHalted, stopping, venueVars, historyVars>>

PausedForScheduler == halted \/ lifecycle = "paused"

SkipPaused(w) ==
    /\ PausedForScheduler
    /\ Step(w, "schedule", "tick")
    /\ row' = [row EXCEPT !.scheduler = "paused", !.command = NoCommand]
    /\ UNCHANGED <<ExceptProcess, cmd, run, seenHalted, stopping>>

SkipNotDue(w) ==
    /\ ~PausedForScheduler
    /\ Step(w, "schedule", "tick")
    /\ row' = [row EXCEPT !.scheduler = "waiting", !.command = NoCommand]
    /\ UNCHANGED <<ExceptProcess, cmd, run, seenHalted, stopping>>

\* Bound: enough strategy runs are left over for the run_cycle commands.
RunsToSpare ==
    Cardinality({r \in Runs : runStatus[r] = "none"}) > Cardinality(CycleCommands)

\* executeScheduledCycle, when now >= nextScheduledRunAt.
ScheduledCycle(w) ==
    /\ ~PausedForScheduler
    /\ RunsToSpare
    /\ Step(w, "schedule", "cycle_read")
    /\ row' = [row EXCEPT !.scheduler = "running", !.command = NoCommand]
    /\ run' = [run EXCEPT ![w] = 0]
    /\ UNCHANGED <<ExceptProcess, cmd, seenHalted, stopping>>

-----------------------------------------------------------------------------
(* The end of a command or of a scheduled cycle.                           *)

\* completeRuntimeCommand; a scheduled cycle (no command) has nothing to do.
CompleteCommand(w) ==
    /\ Step(w, "complete", "settle")
    /\ IF cmd[w] = NoCommand
         THEN UNCHANGED <<status, result>>
         ELSE /\ status' = [status EXCEPT ![cmd[w]] = "completed"]
              /\ result' = [result EXCEPT ![cmd[w]] = run[w]]
    /\ UNCHANGED <<clock, requestedAt, attempts, stateVars, runStatus, failureRecorded, row,
                   cmd, run, seenHalted, stopping, venueVars, historyVars>>

Settle(w) ==
    /\ Step(w, "settle", "tick")
    /\ row' = [row EXCEPT !.scheduler = "waiting", !.command = NoCommand]
    /\ cmd' = [cmd EXCEPT ![w] = NoCommand]
    /\ run' = [run EXCEPT ![w] = 0]
    /\ UNCHANGED <<ExceptProcess, seenHalted, stopping>>

\* Two wrong catch blocks: one puts the command back, one forgets it.
FailRequeues(w) ==
    /\ cmd[w] # NoCommand
    /\ Step(w, "fail", "record")
    /\ status' = [status EXCEPT ![cmd[w]] = "pending"]
    /\ UNCHANGED <<clock, requestedAt, attempts, result, stateVars, runStatus,
                   failureRecorded, row, cmd, run, seenHalted, stopping, venueVars,
                   historyVars>>

FailForgets(w) ==
    /\ cmd[w] # NoCommand
    /\ Step(w, "fail", "record")
    /\ UNCHANGED <<stateVars, ExceptState>>

\* The catch block of executeCommand begins with failRuntimeCommand.
FailCommand(w) ==
    /\ cmd[w] # NoCommand
    /\ Step(w, "fail", "record")
    /\ status' = [status EXCEPT ![cmd[w]] = "failed"]
    /\ UNCHANGED <<clock, requestedAt, attempts, result, stateVars, runStatus,
                   failureRecorded, row, cmd, run, seenHalted, stopping, venueVars,
                   historyVars>>

\* A catch block without the mismatch.
RecordRowOnly(w) ==
    /\ Step(w, "record", "tick")
    /\ row' = [row EXCEPT !.lifecycle = "degraded", !.scheduler = "waiting",
                          !.command = NoCommand]
    /\ cmd' = [cmd EXCEPT ![w] = NoCommand]
    /\ run' = [run EXCEPT ![w] = 0]
    /\ UNCHANGED <<ExceptProcess, seenHalted, stopping>>

\* It goes on to upsertMismatch(runtime_command_failure:<id>) and the worker row.
RecordFailure(w) ==
    /\ Step(w, "record", "tick")
    /\ failureRecorded' = failureRecorded \cup {cmd[w]}
    /\ row' = [row EXCEPT !.lifecycle = "degraded", !.scheduler = "waiting",
                          !.command = NoCommand]
    /\ cmd' = [cmd EXCEPT ![w] = NoCommand]
    /\ run' = [run EXCEPT ![w] = 0]
    /\ UNCHANGED <<commandVars, stateVars, runStatus, seenHalted, stopping, venueVars,
                   historyVars>>

\* The catch block of executeScheduledCycle.
ScheduledCycleFailed(w) ==
    /\ cmd[w] = NoCommand
    /\ Step(w, "fail", "tick")
    /\ row' = [row EXCEPT !.lifecycle = "degraded", !.scheduler = "waiting"]
    /\ run' = [run EXCEPT ![w] = 0]
    /\ UNCHANGED <<ExceptProcess, cmd, seenHalted, stopping>>

-----------------------------------------------------------------------------
(* SentinelRuntime.runCycle.                                               *)

\* A halt check that trusts lifecycleState, which CycleMark overwrites.
CycleReadLifecycle(w) ==
    /\ Step(w, "cycle_read",
            IF lifecycle \in {"paused", "stopped"} THEN "fail" ELSE "cycle_create")
    /\ UNCHANGED <<stateVars, ExceptState>>

\* The halt check; its verdict is acted on one await later.
CycleRead(w) ==
    /\ Step(w, "cycle_read",
            IF halted \/ lifecycle \in {"paused", "stopped"} THEN "fail" ELSE "cycle_create")
    /\ UNCHANGED <<stateVars, ExceptState>>

\* createStrategyRun.
CycleCreate(w) ==
    /\ Step(w, "cycle_create", "cycle_mark")
    /\ \E r \in Runs :
          /\ runStatus[r] = "none"
          /\ \A q \in Runs : runStatus[q] = "none" => r <= q
          /\ runStatus' = [runStatus EXCEPT ![r] = "running"]
          /\ run' = [run EXCEPT ![w] = r]
    /\ haltStarts' = IF halted THEN [haltStarts EXCEPT ![w] = @ + 1] ELSE haltStarts
    /\ UNCHANGED <<commandVars, stateVars, failureRecorded, row, cmd, seenHalted, stopping,
                   venueVars, toggles, crashes, unrecorded>>

\* A cycle that does not announce that the projections go stale.
CycleMarkReady(w) ==
    /\ Step(w, "cycle_mark", "cycle_execute")
    /\ lifecycle' = "ready"
    /\ UNCHANGED <<halted, projection, ExceptState>>

CycleMark(w) ==
    /\ Step(w, "cycle_mark", "cycle_execute")
    /\ lifecycle' = "ready"
    /\ projection' = "stale"
    /\ UNCHANGED <<halted, ExceptState>>

\* A venue fills an order that comes from source o.
VenueFills(w, o) ==
    /\ Total(fills) < MaxOrders
    /\ Total(adapter[w]) < MaxOrders
    /\ adapter' = [adapter EXCEPT ![w][o] = @ + 1]
    /\ UNCHANGED <<commandVars, stateVars, runStatus, failureRecorded, row, cmd, run,
                   seenHalted, stopping, fills, projected, historyVars>>

\* One approved intent goes through OrderExecutor.submitIntent ...
SubmitIntent(w) ==
    /\ Step(w, "cycle_execute", "cycle_persist")
    /\ VenueFills(w, "cycle")

\* persistFill.
RecordFill(o) ==
    /\ fills' = [fills EXCEPT ![o] = @ + 1]
    /\ UNCHANGED <<commandVars, stateVars, runStatus, failureRecorded, row, cmd, run,
                   seenHalted, stopping, adapter, projected, historyVars>>

\* ... and persistExecutionRecord.
PersistExecutionRecord(w) ==
    /\ Step(w, "cycle_persist", "cycle_execute")
    /\ RecordFill("cycle")

\* The intents are done; the treasury and allocator evaluations follow.
CycleExecuted(w) ==
    /\ Step(w, "cycle_execute", "cycle_snapshot")
    /\ UNCHANGED <<stateVars, ExceptState>>

\* persistPortfolioSnapshot and syncPositions.
CycleSnapshot(w) ==
    /\ Step(w, "cycle_snapshot", "cycle_complete")
    /\ projected' = adapter[w]
    /\ UNCHANGED <<commandVars, stateVars, runStatus, failureRecorded, row, cmd, run,
                   seenHalted, stopping, fills, adapter, historyVars>>

\* completeStrategyRun with the given outcome.
FinishRun(w, from, to, outcome) ==
    /\ Step(w, from, to)
    /\ runStatus' = [runStatus EXCEPT ![run[w]] = outcome]
    /\ UNCHANGED <<commandVars, stateVars, failureRecorded, row, cmd, run, seenHalted,
                   stopping, venueVars, historyVars>>

CycleComplete(w) == FinishRun(w, "cycle_complete", "cycle_fresh", "completed")

CycleFresh(w) ==
    /\ Step(w, "cycle_fresh", "cycle_reconcile")
    /\ projection' = "fresh"
    /\ UNCHANGED <<halted, lifecycle, ExceptState>>

\* resolveRuntimeFailure and runReconciliation, still inside the try block.
CycleReconcile(w) ==
    /\ Step(w, "cycle_reconcile", "complete")
    /\ UNCHANGED <<stateVars, ExceptState>>

\* The catch block: the run fails, even one that was marked completed.
CycleFail(w) == FinishRun(w, "cycle_fail", "cycle_degrade", "failed")

\* A catch block that swallows the error instead of rethrowing it.
CycleSwallow(w) ==
    /\ Step(w, "cycle_degrade", "complete")
    /\ lifecycle' = "degraded"
    /\ projection' = "stale"
    /\ UNCHANGED <<halted, ExceptState>>

CycleDegrade(w) ==
    /\ Step(w, "cycle_degrade", "fail")
    /\ lifecycle' = "degraded"
    /\ projection' = "stale"
    /\ UNCHANGED <<halted, ExceptState>>

-----------------------------------------------------------------------------
(* The operations of the other command types.  Only what they do to the    *)
(* state of this module is here: executeCarryAction submits orders and     *)
(* leaves projectionStatus and positions as they are.                      *)

SubmitCarryOrder(w) ==
    /\ cmd[w] \in CarryCommands
    /\ Step(w, "operation", "carry_persist")
    /\ VenueFills(w, "carry")

PersistCarryOrder(w) ==
    /\ Step(w, "carry_persist", "operation")
    /\ RecordFill("carry")

\* A carry action of no strategy run: executeCarryAction persists no fill.
ForgetCarryOrder(w) ==
    /\ Step(w, "carry_persist", "operation")
    /\ UNCHANGED <<stateVars, ExceptState>>

OperationDone(w) ==
    /\ Step(w, "operation", "complete")
    /\ UNCHANGED <<stateVars, ExceptState>>

-----------------------------------------------------------------------------
(* Failure and shutdown.                                                   *)

\* Where an exception raised at step p lands.  A failed boot ends the process.
Handler(p) == IF p \in CycleTry THEN "cycle_fail" ELSE "fail"

Throw(w) ==
    /\ pc[w] \in CycleSteps \cup {"operation", "carry_persist", "complete", "settle"}
                 \cup (IF cmd[w] = NoCommand THEN {} ELSE RebuildSteps)
    /\ Step(w, pc[w], Handler(pc[w]))
    /\ UNCHANGED <<stateVars, ExceptState>>

(***************************************************************************)
(* The process dies: killed, or by an exception outside the try blocks,    *)
(* which rejects tick() and which nothing handles.                         *)
(***************************************************************************)
Crash(w) ==
    /\ pc[w] # "down"
    /\ crashes < MaxCrashes
    /\ pc' = [pc EXCEPT ![w] = "down"]
    /\ cmd' = [cmd EXCEPT ![w] = NoCommand]
    /\ run' = [run EXCEPT ![w] = 0]
    /\ stopping' = [stopping EXCEPT ![w] = FALSE]
    /\ crashes' = crashes + 1
    /\ unrecorded' = IF pc[w] = "record" THEN unrecorded \cup {cmd[w]} ELSE unrecorded
    /\ adapter' = [adapter EXCEPT ![w] = NoOrders]
    /\ UNCHANGED <<commandVars, stateVars, runStatus, failureRecorded, row, seenHalted,
                   fills, projected, haltStarts, toggles>>

\* RuntimeWorker.stop on SIGTERM, up to the await of the tick in flight.
RequestStop(w) ==
    /\ pc[w] \notin {"down"} \cup BootSteps
    /\ pc[w] \in RebuildSteps => cmd[w] # NoCommand
    /\ ~stopping[w]
    /\ crashes < MaxCrashes
    /\ stopping' = [stopping EXCEPT ![w] = TRUE]
    /\ crashes' = crashes + 1
    /\ row' = [row EXCEPT !.lifecycle = "stopping", !.scheduler = "idle"]
    /\ UNCHANGED <<commandVars, stateVars, runStatus, failureRecorded, pc, cmd, run,
                   seenHalted, venueVars, haltStarts, toggles, unrecorded>>

\* No tick is in flight any more: the rest of stop, and SentinelRuntime.close.
FinishStop(w) ==
    /\ stopping[w]
    /\ Step(w, "tick", "down")
    /\ stopping' = [stopping EXCEPT ![w] = FALSE]
    /\ row' = [row EXCEPT !.lifecycle = "stopped", !.scheduler = "idle",
                          !.command = NoCommand]
    /\ lifecycle' = "stopped"
    /\ adapter' = [adapter EXCEPT ![w] = NoOrders]
    /\ UNCHANGED <<commandVars, halted, projection, runStatus, failureRecorded, cmd, run,
                   seenHalted, fills, projected, historyVars>>

-----------------------------------------------------------------------------

BootStep(w) == Boot(w) \/ BootRead(w) \/ BootWrite(w) \/ StartWorker(w)
RebuildStep(w) ==
    RebuildMark(w) \/ RebuildSync(w) \/ RebuildRead(w) \/ RebuildWrite(w) \/ RebuildReconcile(w)
TickStep(w) ==
    TickSelect(w) \/ TickIdle(w) \/ ClaimUpdate(w) \/ BeginCommand(w) \/ SkipPaused(w)
        \/ SkipNotDue(w) \/ ScheduledCycle(w)
CycleStep(w) ==
    CycleRead(w) \/ CycleCreate(w) \/ CycleMark(w) \/ SubmitIntent(w) \/ PersistExecutionRecord(w)
        \/ CycleExecuted(w) \/ CycleSnapshot(w) \/ CycleComplete(w) \/ CycleFresh(w)
        \/ CycleReconcile(w)
        \/ CycleFail(w) \/ CycleDegrade(w)
CarryStep(w) == SubmitCarryOrder(w) \/ PersistCarryOrder(w) \/ ForgetCarryOrder(w)
EndStep(w) ==
    CarryStep(w) \/ OperationDone(w) \/ CompleteCommand(w) \/ Settle(w)
        \/ FailCommand(w) \/ RecordFailure(w) \/ ScheduledCycleFailed(w) \/ FinishStop(w)

\* What the process does by itself.
WorkerStep(w) == BootStep(w) \/ RebuildStep(w) \/ TickStep(w) \/ CycleStep(w) \/ EndStep(w)

\* What happens to it.
FaultStep(w) == Throw(w) \/ Crash(w) \/ RequestStop(w)

OperatorStep == (\E c \in Commands : EnqueueCommand(c)) \/ ActivateKillSwitch \/ Resume

Next == OperatorStep \/ \E w \in Workers : WorkerStep(w) \/ FaultStep(w)

Spec == Init /\ [][Next]_vars

(***************************************************************************)
(* The poll loop re-arms its timer after every tick and a supervisor       *)
(* restarts a dead process, so a worker that can take a step takes one.    *)
(* Nothing is assumed of operators, exceptions or crashes.                 *)
(***************************************************************************)
Fairness == \A w \in Workers : WF_vars(WorkerStep(w))
FairSpec == Spec /\ Fairness

-----------------------------------------------------------------------------
(* Properties.                                                             *)

(***************************************************************************)
(* With one worker process, the three queries of claimNextPendingCommand   *)
(* and everything executeCommand does afterwards behave like the atomic    *)
(* queue of CommandQueue, across crashes and restarts.                     *)
(***************************************************************************)
ImplementsQueue == Queue!QueueSpec

(***************************************************************************)
(* With one worker process a command is begun at most once, also when the  *)
(* process dies while it runs: start() never goes back to it.              *)
(***************************************************************************)
AtMostOnce == \A c \in Commands : attempts[c] <= 1

(***************************************************************************)
(* No command overtakes an older one: while c waits, only commands older   *)
(* than c have been claimed, by however many workers.                      *)
(***************************************************************************)
NoOvertaking ==
    \A c, d \in Commands :
        /\ status[c] = "pending"
        /\ status[d] \notin {"absent", "pending"}
        => requestedAt[d] < requestedAt[c]

(***************************************************************************)
(* The kill switch against a cycle that has already passed the halt check  *)
(* of runCycle: between a kill switch and the next resume, a worker        *)
(* creates at most one more strategy run.                                  *)
(***************************************************************************)
HaltFence == \A w \in Workers : haltStarts[w] <= 1

(***************************************************************************)
(* Whoever reads projectionStatus = 'fresh' finds every recorded fill of   *)
(* the strategy cycles in the positions, whatever crashed or threw before, *)
(* as long as a rebuild replays the whole fill history.                    *)
(***************************************************************************)
FreshCoversCycles ==
    projection = "fresh" /\ WithinReplay => fills["cycle"] <= projected["cycle"]

(***************************************************************************)
(* A run_cycle command is reported completed only with a run that          *)
(* strategy_runs reports completed too, although reconciliation may still  *)
(* fail a run that was marked completed.                                   *)
(***************************************************************************)
CompletedCommandHasCompletedRun ==
    \A c \in Commands :
        status[c] = "completed" /\ result[c] # 0 => runStatus[result[c]] = "completed"

\* A command that waits is claimed, halted or not, crashes and restarts included.
PendingIsClaimed == \A c \in Commands : status[c] = "pending" ~> status[c] # "pending"

(***************************************************************************)
(* A command that waits ends completed or failed, whatever throws, unless  *)
(* a worker process dies or is stopped.                                    *)
(***************************************************************************)
EveryCommandFinishes ==
    \A c \in Commands :
        status[c] = "pending" ~> status[c] \in Queue!Terminal \/ crashes > 0

(***************************************************************************)
(* A failed command gets its mismatch record, whatever dies or stops,      *)
(* except the command a worker had just failed when it died between        *)
(* failRuntimeCommand and upsertMismatch.                                  *)
(***************************************************************************)
FailureIsRecorded ==
    \A c \in Commands : status[c] = "failed" ~> c \in failureRecorded \cup unrecorded

(***************************************************************************)
(* docs/risk/phase-r2-execution-guardrails.md: the kill switch stops       *)
(* execution immediately.  No venue gets an order once it is pulled.       *)
(***************************************************************************)
KillStopsExecution ==
    [][halted => \A w \in Workers : ~SubmitIntent(w) /\ ~SubmitCarryOrder(w)]_vars

-----------------------------------------------------------------------------
(* Inductive invariants behind the properties.                             *)

\* The deployment rule of docs/RENDER_DEPLOYMENT_CHECKLIST.md.
SingleWorker == \A v, w \in Workers : v = w

\* A worker about to create a run during a halt has created none in this halt.
HaltInv ==
    \A w \in Workers :
        /\ haltStarts[w] <= 1
        /\ ~halted => haltStarts[w] = 0
        /\ halted /\ pc[w] = "cycle_create" => haltStarts[w] = 0

\* Timestamps are distinct, and what a SELECT returned is still the oldest
\* pending command when its UPDATE finds it pending.
OrderInv ==
    /\ \A c \in Commands : status[c] # "absent" => requestedAt[c] \in 1..clock
    /\ \A c, d \in Commands :
          status[c] # "absent" /\ status[d] # "absent" /\ requestedAt[c] = requestedAt[d]
          => c = d
    /\ \A w \in Workers : cmd[w] \in Commands =>
          /\ status[cmd[w]] # "absent"
          /\ pc[w] # "claim" => status[cmd[w]] # "pending"
          /\ status[cmd[w]] = "pending" => Queue!OldestPending(cmd[w])
    /\ NoOvertaking

\* What a single worker knows of the command it holds.
HeldInv ==
    \A w \in Workers :
        LET c == cmd[w] IN
        /\ pc[w] \in {"down", "tick", "schedule"} \cup BootSteps => c = NoCommand
        /\ pc[w] = "claim" => status[c] = "pending"
        /\ pc[w] = "begin" => status[c] = "running" /\ attempts[c] = 0
        /\ pc[w] \in {"operation", "carry_persist", "complete"} \cup CycleSteps \cup RebuildSteps
              /\ c # NoCommand => status[c] = "running" /\ attempts[c] = 1
        /\ pc[w] = "settle" /\ c # NoCommand => status[c] = "completed" /\ attempts[c] = 1
        /\ pc[w] = "fail" /\ c # NoCommand =>
              status[c] \in {"running", "completed"} /\ attempts[c] = 1

UntouchedInv ==
    \A c \in Commands :
        /\ attempts[c] <= 1
        /\ status[c] \in {"absent", "pending"} => attempts[c] = 0

\* Projections, the adapters and the step a single worker is in.
FreshInv ==
    /\ FreshCoversCycles
    /\ \A w \in Workers :
          /\ pc[w] \in {"down", "tick", "schedule"} \cup BootSteps => cmd[w] = NoCommand
          /\ pc[w] \in {"cycle_execute", "cycle_persist", "cycle_snapshot"}
               => projection = "stale"
          /\ WithinReplay
               /\ pc[w] \in {"cycle_complete", "cycle_fresh", "rebuild_read", "rebuild_write"}
               => fills["cycle"] <= projected["cycle"]
          /\ WithinReplay
               /\ pc[w] # "down"
               /\ (pc[w] \in {"rebuild_mark", "rebuild_sync"} => cmd[w] # NoCommand)
               => fills["cycle"] <= adapter[w]["cycle"]
          /\ WithinReplay /\ pc[w] = "cycle_persist"
               => fills["cycle"] + 1 <= adapter[w]["cycle"]

\* Steps that may still change the outcome of the run they work on.
RunOpen == CycleTry \cup {"cycle_mark", "cycle_fail"}

\* A run belongs to one worker, no command reports it while that worker may
\* still change it, and past cycle_complete only a throw undoes its outcome.
RunInv ==
    /\ CompletedCommandHasCompletedRun
    /\ \A c \in Commands : result[c] # 0 => runStatus[result[c]] # "none"
    /\ \A w \in Workers :
          /\ run[w] # 0 => runStatus[run[w]] # "none"
          /\ pc[w] \notin CycleSteps \cup {"complete", "settle", "fail", "record"}
               => run[w] = 0
          /\ pc[w] \in RunOpen /\ run[w] # 0 => \A c \in Commands : result[c] # run[w]
          /\ pc[w] \in {"cycle_fresh", "cycle_reconcile", "complete"} /\ run[w] # 0
               => runStatus[run[w]] = "completed"
    /\ \A v, w \in Workers : v # w /\ run[v] # 0 => run[v] # run[w]
=============================================================================
