------------------------ MODULE RuntimeWorkerProofs ------------------------
(***************************************************************************)
(* Theorems about RuntimeWorker, for every set of workers and commands and *)
(* every value of the bounds.                                              *)
(***************************************************************************)
EXTENDS RuntimeWorker, TLAPS

\* The tuples of variables, and the program counter.
USE DEF commandVars, stateVars, processVars, venueVars, historyVars, ExceptState, ExceptProcess,
        Step

-----------------------------------------------------------------------------
(* Type correctness.                                                       *)

\* The initial state is well typed.
LEMMA InitTypes == Init => TypeOK /\ HoldsCommand
<1> SUFFICES ASSUME Init PROVE TypeOK /\ HoldsCommand
  OBVIOUS
<1> USE DEF Init
<1>1. Queue!QueueTypeOK
  BY DEF Queue!QueueInit, Queue!QueueTypeOK, Queue!CommandStatus
<1>2. result \in [Commands -> 0..MaxRuns] /\ run \in [Workers -> 0..MaxRuns]
  BY BoundsAssumption
<1>3. halted \in BOOLEAN /\ lifecycle \in Lifecycle /\ projection \in Projection
  BY DEF Lifecycle, Projection
<1>4. runStatus \in [Runs -> RunStatus]
  BY DEF RunStatus
<1>5. row \in WorkerRow
  BY DEF WorkerRow
<1>6. pc \in [Workers -> PC] /\ HoldsCommand
  BY DEF PC, HoldsCommand
<1>7. /\ fills \in [OrderSource -> Nat]
      /\ projected \in [OrderSource -> Nat]
      /\ adapter \in [Workers -> [OrderSource -> Nat]]
  BY DEF OrderSource, NoOrders
<1> QED
  BY <1>1, <1>2, <1>3, <1>4, <1>5, <1>6, <1>7 DEF TypeOK

\* The memory of adapters that hold nothing.
LEMMA NoOrdersType == NoOrders \in [OrderSource -> Nat]
BY DEF NoOrders

\* A venue that fills an order keeps the types of the counts.
LEMMA VenueTypes ==
    ASSUME TypeOK, NEW w \in Workers, NEW o \in OrderSource, VenueFills(w, o)
    PROVE  adapter' \in [Workers -> [OrderSource -> Nat]]
<1>1. [adapter[w] EXCEPT ![o] = adapter[w][o] + 1] \in [OrderSource -> Nat]
  BY DEF TypeOK
<1>2. adapter' = [adapter EXCEPT ![w] = [adapter[w] EXCEPT ![o] = adapter[w][o] + 1]]
  BY DEF VenueFills
<1> QED
  BY <1>1, <1>2 DEF TypeOK

\* The operator's requests keep the types.
LEMMA OperatorTypes == ASSUME TypeOK, OperatorStep PROVE TypeOK'
<1> USE DEF TypeOK, Queue!QueueTypeOK
<1>1. CASE \E c \in Commands : EnqueueCommand(c)
  BY <1>1 DEF EnqueueCommand, Queue!Submit, Queue!CommandStatus
<1>2. CASE ActivateKillSwitch
  <2>1. haltStarts' \in [Workers -> Nat]
    BY <1>2 DEF ActivateKillSwitch
  <2>2. lifecycle' \in Lifecycle
    BY <1>2 DEF ActivateKillSwitch, Lifecycle
  <2> QED
    BY <1>2, <2>1, <2>2 DEF ActivateKillSwitch
<1>3. CASE Resume
  <2>1. haltStarts' \in [Workers -> Nat]
    BY <1>3 DEF Resume
  <2>2. lifecycle' \in Lifecycle
    BY <1>3 DEF Resume, Lifecycle
  <2>3. halted' \in BOOLEAN
    BY <1>3 DEF Resume
  <2>4. toggles' \in Nat
    BY <1>3 DEF Resume
  <2> QED
    BY <1>3, <2>1, <2>2, <2>3, <2>4 DEF Resume
<1> QED
  BY <1>1, <1>2, <1>3 DEF OperatorStep

\* Process start keeps the types.
LEMMA BootTypes == ASSUME TypeOK, NEW w \in Workers, BootStep(w) PROVE TypeOK'
<1> USE DEF TypeOK, Queue!QueueTypeOK
<1>1. CASE Boot(w)
  <2>1. pc' \in [Workers -> PC]
    BY <1>1 DEF Boot, PC, CycleSteps, CycleTry, RebuildSteps, BootSteps
  <2> QED
    BY <1>1, BoundsAssumption, <2>1 DEF Boot, Lifecycle
<1>2. CASE BootRead(w)
  <2>1. pc' \in [Workers -> PC]
    BY <1>2 DEF BootRead, ReadHalted, PC, CycleSteps, CycleTry, RebuildSteps, BootSteps
  <2> QED
    BY <1>2, BoundsAssumption, <2>1 DEF BootRead, ReadHalted
<1>3. CASE BootWrite(w)
  <2>1. pc' \in [Workers -> PC]
    BY <1>3 DEF BootWrite, LifecycleSeen, PC, CycleSteps, CycleTry, RebuildSteps, BootSteps
  <2> QED
    BY <1>3, BoundsAssumption, <2>1 DEF BootWrite, LifecycleSeen, Lifecycle
<1>4. CASE StartWorker(w)
  <2>1. pc' \in [Workers -> PC]
    BY <1>4 DEF StartWorker, PC, CycleSteps, CycleTry, RebuildSteps, BootSteps
  <2>2. row' \in WorkerRow
    BY <1>4, CommandsAssumption DEF StartWorker, WorkerRow
  <2> QED
    BY <1>4, BoundsAssumption, <2>1, <2>2 DEF StartWorker
<1> QED
  BY <1>1, <1>2, <1>3, <1>4 DEF BootStep

\* A projection rebuild keeps the types.
LEMMA RebuildTypes == ASSUME TypeOK, NEW w \in Workers, RebuildStep(w) PROVE TypeOK'
<1> USE DEF TypeOK, Queue!QueueTypeOK
<1>1. CASE RebuildMark(w)
  <2>1. pc' \in [Workers -> PC]
    BY <1>1 DEF RebuildMark, PC, CycleSteps, CycleTry, RebuildSteps, BootSteps
  <2> QED
    BY <1>1, BoundsAssumption, <2>1 DEF RebuildMark, Lifecycle, Projection
<1>2. CASE RebuildSync(w)
  <2>1. pc' \in [Workers -> PC]
    BY <1>2 DEF RebuildSync, PC, CycleSteps, CycleTry, RebuildSteps, BootSteps
  <2> QED
    <3>1. PICK h \in Replayed : adapter' = [adapter EXCEPT ![w] = h] /\ projected' = h
      BY <1>2 DEF RebuildSync
    <3>2. h \in [OrderSource -> Nat]
      BY BoundsAssumption DEF Replayed
    <3> QED
      BY <1>2, <2>1, <3>1, <3>2, BoundsAssumption DEF RebuildSync
<1>3. CASE RebuildRead(w)
  <2>1. pc' \in [Workers -> PC]
    BY <1>3 DEF RebuildRead, ReadHalted, PC, CycleSteps, CycleTry, RebuildSteps, BootSteps
  <2> QED
    BY <1>3, BoundsAssumption, <2>1 DEF RebuildRead, ReadHalted
<1>4. CASE RebuildWrite(w)
  <2>1. pc' \in [Workers -> PC]
    BY <1>4 DEF RebuildWrite, LifecycleSeen, PC, CycleSteps, CycleTry, RebuildSteps, BootSteps
  <2> QED
    BY <1>4, BoundsAssumption, <2>1 DEF RebuildWrite, LifecycleSeen, Lifecycle, Projection
<1>5. CASE RebuildReconcile(w)
  <2>1. pc' \in [Workers -> PC]
    BY <1>5 DEF RebuildReconcile, PC, CycleSteps, CycleTry, RebuildSteps, BootSteps
  <2> QED
    BY <1>5, BoundsAssumption, <2>1 DEF RebuildReconcile
<1> QED
  BY <1>1, <1>2, <1>3, <1>4, <1>5 DEF RebuildStep

\* The poll loop keeps the types.
LEMMA TickTypes == ASSUME TypeOK, HoldsCommand, NEW w \in Workers, TickStep(w) PROVE TypeOK'
<1> USE DEF TypeOK, Queue!QueueTypeOK
<1>1. CASE TickSelect(w)
  <2>1. pc' \in [Workers -> PC]
    BY <1>1 DEF TickSelect, PC, CycleSteps, CycleTry, RebuildSteps, BootSteps
  <2>2. row' \in WorkerRow
    BY <1>1, CommandsAssumption DEF TickSelect, WorkerRow
  <2> QED
    BY <1>1, BoundsAssumption, <2>1, <2>2 DEF TickSelect
<1>2. CASE TickIdle(w)
  <2>1. pc' \in [Workers -> PC]
    BY <1>2 DEF TickIdle, PC, CycleSteps, CycleTry, RebuildSteps, BootSteps
  <2>2. row' \in WorkerRow
    BY <1>2, CommandsAssumption DEF TickIdle, WorkerRow
  <2> QED
    BY <1>2, BoundsAssumption, <2>1, <2>2 DEF TickIdle
<1>3. CASE ClaimUpdate(w)
  <2>1. pc' \in [Workers -> PC]
    BY <1>3 DEF ClaimUpdate, PC, CycleSteps, CycleTry, RebuildSteps, BootSteps
  <2> QED
    BY <1>3, BoundsAssumption, <2>1 DEF ClaimUpdate, Queue!CommandStatus, Queue!Terminal
<1>4. CASE BeginCommand(w)
  <2>1. pc' \in [Workers -> PC]
    BY <1>4 DEF BeginCommand, FirstStep, PC, CycleSteps, CycleTry, RebuildSteps, BootSteps
  <2>2. row' \in WorkerRow
    BY <1>4, CommandsAssumption DEF BeginCommand, FirstStep, WorkerRow
  <2>3. cmd[w] \in Commands /\ attempts[cmd[w]] + 1 \in Nat
    BY <1>4 DEF BeginCommand, HoldsCommand
  <2>4. attempts' \in [Commands -> Nat]
    BY <1>4, <2>3 DEF BeginCommand
  <2>5. run' \in [Workers -> 0..MaxRuns]
    BY <1>4, BoundsAssumption DEF BeginCommand
  <2> QED
    BY <1>4, BoundsAssumption, <2>1, <2>2, <2>4, <2>5 DEF BeginCommand, FirstStep
<1>5. CASE SkipPaused(w)
  <2>1. pc' \in [Workers -> PC]
    BY <1>5 DEF SkipPaused, PC, CycleSteps, CycleTry, RebuildSteps, BootSteps
  <2>2. row' \in WorkerRow
    BY <1>5, CommandsAssumption DEF SkipPaused, WorkerRow
  <2> QED
    BY <1>5, BoundsAssumption, <2>1, <2>2 DEF SkipPaused
<1>6. CASE SkipNotDue(w)
  <2>1. pc' \in [Workers -> PC]
    BY <1>6 DEF SkipNotDue, PC, CycleSteps, CycleTry, RebuildSteps, BootSteps
  <2>2. row' \in WorkerRow
    BY <1>6, CommandsAssumption DEF SkipNotDue, WorkerRow
  <2> QED
    BY <1>6, BoundsAssumption, <2>1, <2>2 DEF SkipNotDue
<1>7. CASE ScheduledCycle(w)
  <2>1. pc' \in [Workers -> PC]
    BY <1>7 DEF ScheduledCycle, PC, CycleSteps, CycleTry, RebuildSteps, BootSteps
  <2>2. row' \in WorkerRow
    BY <1>7, CommandsAssumption DEF ScheduledCycle, WorkerRow
  <2> QED
    BY <1>7, BoundsAssumption, <2>1, <2>2 DEF ScheduledCycle
<1> QED
  BY <1>1, <1>2, <1>3, <1>4, <1>5, <1>6, <1>7 DEF TickStep

\* A strategy cycle keeps the types.
LEMMA CycleTypes == ASSUME TypeOK, NEW w \in Workers, CycleStep(w) PROVE TypeOK'
<1> USE DEF TypeOK, Queue!QueueTypeOK
<1>1. CASE CycleRead(w)
  <2>1. pc' \in [Workers -> PC]
    BY <1>1 DEF CycleRead, PC, CycleSteps, CycleTry, RebuildSteps, BootSteps
  <2> QED
    BY <1>1, BoundsAssumption, <2>1 DEF CycleRead
<1>2. CASE CycleCreate(w)
  <2>1. pc' \in [Workers -> PC]
    BY <1>2 DEF CycleCreate, PC, CycleSteps, CycleTry, RebuildSteps, BootSteps
  <2> QED
    BY <1>2, BoundsAssumption, <2>1 DEF CycleCreate, RunStatus, Runs
<1>3. CASE CycleMark(w)
  <2>1. pc' \in [Workers -> PC]
    BY <1>3 DEF CycleMark, PC, CycleSteps, CycleTry, RebuildSteps, BootSteps
  <2> QED
    BY <1>3, BoundsAssumption, <2>1 DEF CycleMark, Lifecycle, Projection
<1>4. CASE SubmitIntent(w)
  <2>1. VenueFills(w, "cycle")
    BY <1>4 DEF SubmitIntent
  <2>2. pc' \in [Workers -> PC]
    BY <1>4 DEF SubmitIntent, PC, CycleSteps, CycleTry, RebuildSteps, BootSteps
  <2>3. adapter' \in [Workers -> [OrderSource -> Nat]]
    BY <2>1, VenueTypes DEF OrderSource
  <2> QED
    BY <2>1, <2>2, <2>3 DEF VenueFills
<1>5. CASE CycleExecuted(w)
  <2>1. pc' \in [Workers -> PC]
    BY <1>5 DEF CycleExecuted, PC, CycleSteps, CycleTry, RebuildSteps, BootSteps
  <2> QED
    BY <1>5, BoundsAssumption, <2>1 DEF CycleExecuted
<1>6. CASE CycleSnapshot(w)
  <2>1. pc' \in [Workers -> PC]
    BY <1>6 DEF CycleSnapshot, PC, CycleSteps, CycleTry, RebuildSteps, BootSteps
  <2> QED
    BY <1>6, BoundsAssumption, <2>1 DEF CycleSnapshot
<1>7. CASE CycleComplete(w)
  <2>1. pc' \in [Workers -> PC]
    BY <1>7 DEF CycleComplete, FinishRun, PC, CycleSteps, CycleTry, RebuildSteps, BootSteps
  <2> QED
    BY <1>7, BoundsAssumption, <2>1 DEF CycleComplete, FinishRun, RunStatus, Runs
<1>8. CASE CycleFresh(w)
  <2>1. pc' \in [Workers -> PC]
    BY <1>8 DEF CycleFresh, PC, CycleSteps, CycleTry, RebuildSteps, BootSteps
  <2> QED
    BY <1>8, BoundsAssumption, <2>1 DEF CycleFresh, Projection
<1>9. CASE CycleReconcile(w)
  <2>1. pc' \in [Workers -> PC]
    BY <1>9 DEF CycleReconcile, PC, CycleSteps, CycleTry, RebuildSteps, BootSteps
  <2> QED
    BY <1>9, BoundsAssumption, <2>1 DEF CycleReconcile
<1>10. CASE CycleFail(w)
  <2>1. pc' \in [Workers -> PC]
    BY <1>10 DEF CycleFail, FinishRun, PC, CycleSteps, CycleTry, RebuildSteps, BootSteps
  <2> QED
    BY <1>10, BoundsAssumption, <2>1 DEF CycleFail, FinishRun, RunStatus, Runs
<1>11. CASE CycleDegrade(w)
  <2>1. pc' \in [Workers -> PC]
    BY <1>11 DEF CycleDegrade, PC, CycleSteps, CycleTry, RebuildSteps, BootSteps
  <2> QED
    BY <1>11, BoundsAssumption, <2>1 DEF CycleDegrade, Lifecycle, Projection
<1>12. CASE PersistExecutionRecord(w)
  <2>1. pc' \in [Workers -> PC]
    BY <1>12 DEF PersistExecutionRecord, PC, CycleSteps, CycleTry, RebuildSteps, BootSteps
  <2>2. RecordFill("cycle")
    BY <1>12 DEF PersistExecutionRecord
  <2> QED
    BY <2>1, <2>2 DEF RecordFill, OrderSource
<1> QED
  BY <1>1, <1>2, <1>3, <1>4, <1>5, <1>6, <1>7, <1>8, <1>9, <1>10, <1>11, <1>12 DEF CycleStep

\* The orders of a carry action keep the types.
LEMMA CarryTypes == ASSUME TypeOK, NEW w \in Workers, CarryStep(w) PROVE TypeOK'
<1> USE DEF TypeOK, Queue!QueueTypeOK
<1>1. pc' \in [Workers -> PC]
  BY DEF CarryStep, SubmitCarryOrder, PersistCarryOrder, ForgetCarryOrder, PC
<1>2. CASE SubmitCarryOrder(w)
  <2>1. VenueFills(w, "carry")
    BY <1>2 DEF SubmitCarryOrder
  <2>2. adapter' \in [Workers -> [OrderSource -> Nat]]
    BY <2>1, VenueTypes DEF OrderSource
  <2> QED
    BY <1>1, <2>1, <2>2 DEF VenueFills
<1>3. CASE PersistCarryOrder(w)
  <2>1. RecordFill("carry")
    BY <1>3 DEF PersistCarryOrder
  <2> QED
    BY <1>1, <2>1 DEF RecordFill, OrderSource
<1>4. CASE ForgetCarryOrder(w)
  BY <1>1, <1>4 DEF ForgetCarryOrder
<1> QED
  BY <1>2, <1>3, <1>4 DEF CarryStep

\* The end of a command keeps the types.
LEMMA EndTypes == ASSUME TypeOK, HoldsCommand, NEW w \in Workers, EndStep(w) PROVE TypeOK'
<1> USE DEF TypeOK, Queue!QueueTypeOK
<1>1. CASE CarryStep(w)
  BY <1>1, CarryTypes
<1>2. CASE OperationDone(w)
  <2>1. pc' \in [Workers -> PC]
    BY <1>2 DEF OperationDone, PC
  <2> QED
    BY <1>2, BoundsAssumption, <2>1 DEF OperationDone
<1>3. CASE CompleteCommand(w)
  <2>1. pc' \in [Workers -> PC]
    BY <1>3 DEF CompleteCommand, PC
  <2>2. status' \in [Commands -> Queue!CommandStatus]
    BY <1>3 DEF CompleteCommand, Queue!CommandStatus, Queue!Terminal
  <2>3. result' \in [Commands -> 0..MaxRuns]
    BY <1>3 DEF CompleteCommand
  <2> QED
    BY <1>3, BoundsAssumption, <2>1, <2>2, <2>3 DEF CompleteCommand
<1>4. CASE Settle(w)
  <2>1. pc' \in [Workers -> PC]
    BY <1>4 DEF Settle, PC
  <2>2. row' \in WorkerRow
    BY <1>4, CommandsAssumption DEF Settle, WorkerRow
  <2> QED
    BY <1>4, BoundsAssumption, <2>1, <2>2 DEF Settle
<1>5. CASE FailCommand(w)
  <2>1. pc' \in [Workers -> PC]
    BY <1>5 DEF FailCommand, PC
  <2> QED
    BY <1>5, BoundsAssumption, <2>1 DEF FailCommand, Queue!CommandStatus, Queue!Terminal
<1>6. CASE RecordFailure(w)
  <2>1. pc' \in [Workers -> PC]
    BY <1>6 DEF RecordFailure, PC
  <2>2. row' \in WorkerRow
    BY <1>6, CommandsAssumption DEF RecordFailure, WorkerRow
  <2>3. cmd[w] \in Commands
    BY <1>6 DEF RecordFailure, HoldsCommand
  <2> QED
    BY <1>6, BoundsAssumption, <2>1, <2>2, <2>3 DEF RecordFailure
<1>7. CASE ScheduledCycleFailed(w)
  <2>1. pc' \in [Workers -> PC]
    BY <1>7 DEF ScheduledCycleFailed, PC
  <2>2. row' \in WorkerRow
    BY <1>7, CommandsAssumption DEF ScheduledCycleFailed, WorkerRow
  <2> QED
    BY <1>7, BoundsAssumption, <2>1, <2>2 DEF ScheduledCycleFailed
<1>8. CASE FinishStop(w)
  <2>1. pc' \in [Workers -> PC]
    BY <1>8 DEF FinishStop, PC
  <2>2. row' \in WorkerRow
    BY <1>8, CommandsAssumption DEF FinishStop, WorkerRow
  <2> QED
    BY <1>8, BoundsAssumption, <2>1, <2>2, NoOrdersType DEF FinishStop, Lifecycle
<1> QED
  BY <1>1, <1>2, <1>3, <1>4, <1>5, <1>6, <1>7, <1>8 DEF EndStep

\* Exceptions, crashes and stop requests keep the types.
LEMMA FaultTypes == ASSUME TypeOK, HoldsCommand, NEW w \in Workers, FaultStep(w) PROVE TypeOK'
<1> USE DEF TypeOK, Queue!QueueTypeOK
<1>1. CASE Throw(w)
  <2>1. pc' \in [Workers -> PC]
    BY <1>1 DEF Throw, Handler, PC, CycleSteps, CycleTry, RebuildSteps, BootSteps
  <2> QED
    BY <1>1, BoundsAssumption, <2>1 DEF Throw, Handler
<1>2. CASE Crash(w)
  <2>1. pc' \in [Workers -> PC]
    BY <1>2 DEF Crash, PC
  <2>2. unrecorded' \subseteq Commands
    BY <1>2 DEF Crash, HoldsCommand
  <2> QED
    BY <1>2, BoundsAssumption, <2>1, <2>2, NoOrdersType DEF Crash
<1>3. CASE RequestStop(w)
  <2>1. row' \in WorkerRow
    BY <1>3, CommandsAssumption DEF RequestStop, WorkerRow
  <2> QED
    BY <1>3, BoundsAssumption, <2>1 DEF RequestStop
<1> QED
  BY <1>1, <1>2, <1>3 DEF FaultStep

\* A worker that claims, begins, operates or records still holds its command.
LEMMA HoldsStep == ASSUME TypeOK, HoldsCommand, [Next]_vars PROVE HoldsCommand'
<1> SUFFICES ASSUME NEW v \in Workers,
                    pc'[v] \in {"claim", "begin", "operation", "carry_persist", "record"}
             PROVE  cmd'[v] \in Commands
  BY DEF HoldsCommand
<1> USE DEF HoldsCommand, TypeOK
<1>1. CASE UNCHANGED vars
  BY <1>1 DEF vars
<1>2. CASE OperatorStep
  BY <1>2 DEF OperatorStep, EnqueueCommand, ActivateKillSwitch, Resume
<1>3. CASE \E w \in Workers : BootStep(w)
  BY <1>3 DEF BootStep, Boot, BootRead, ReadHalted, BootWrite, LifecycleSeen, StartWorker,
             CycleSteps, CycleTry, RebuildSteps, BootSteps
<1>4. CASE \E w \in Workers : RebuildStep(w)
  BY <1>4 DEF RebuildStep, RebuildMark, RebuildSync, RebuildRead, ReadHalted, RebuildWrite,
             LifecycleSeen, RebuildReconcile, CycleSteps, CycleTry, RebuildSteps, BootSteps
<1>5. CASE \E w \in Workers : TickStep(w)
  BY <1>5 DEF TickStep, TickSelect, TickIdle, ClaimUpdate, BeginCommand, FirstStep, SkipPaused,
             SkipNotDue, ScheduledCycle
<1>6. CASE \E w \in Workers : CycleStep(w)
  BY <1>6 DEF CycleStep, CycleRead, CycleCreate, CycleMark, SubmitIntent, VenueFills,
             PersistExecutionRecord, RecordFill, CycleExecuted, CycleSnapshot, CycleComplete,
             FinishRun, CycleFresh, CycleReconcile,
             CycleFail, CycleDegrade, CycleSteps, CycleTry, RebuildSteps, BootSteps
<1>7. CASE \E w \in Workers : EndStep(w)
  BY <1>7 DEF EndStep, CarryStep, SubmitCarryOrder, VenueFills, PersistCarryOrder, RecordFill,
             ForgetCarryOrder, OperationDone, CompleteCommand, Settle,
             FailCommand, RecordFailure, ScheduledCycleFailed, FinishStop
<1>8. CASE \E w \in Workers : FaultStep(w)
  BY <1>8 DEF FaultStep, Throw, Handler, Crash, RequestStop, CycleSteps, CycleTry, RebuildSteps,
             BootSteps
<1> QED
  BY <1>1, <1>2, <1>3, <1>4, <1>5, <1>6, <1>7, <1>8 DEF Next, WorkerStep

\* Every step of a worker keeps the types.
LEMMA WorkerTypes == ASSUME TypeOK, HoldsCommand, NEW w \in Workers, WorkerStep(w) PROVE TypeOK'
BY BootTypes, RebuildTypes, TickTypes, CycleTypes, EndTypes DEF WorkerStep

\* The variables keep their types: the rows, the tables and the processes never
\* hold a value outside the enumerations of packages/runtime/src/types.ts.
THEOREM TypeCorrect == Spec => [](TypeOK /\ HoldsCommand)
<1>1. TypeOK /\ HoldsCommand /\ [Next]_vars => TypeOK'
  <2>1. CASE UNCHANGED vars
    BY <2>1 DEF TypeOK, Queue!QueueTypeOK, vars
  <2>2. CASE OperatorStep
    BY <2>2, OperatorTypes
  <2>3. ASSUME TypeOK, HoldsCommand, NEW w \in Workers, WorkerStep(w) \/ FaultStep(w)
        PROVE  TypeOK'
    BY <2>3, WorkerTypes, FaultTypes
  <2> QED
    BY <2>1, <2>2, <2>3, OperatorTypes DEF Next
<1> QED
  BY InitTypes, <1>1, HoldsStep, PTL DEF Spec

-----------------------------------------------------------------------------
(* The kill switch fence, for any number of workers.                       *)

\* No step lets a worker create two runs in one halt.
LEMMA HaltStep == ASSUME TypeOK, HaltInv, [Next]_vars PROVE HaltInv'
<1> USE DEF HaltInv, TypeOK
<1>1. CASE UNCHANGED vars
  BY <1>1 DEF vars
<1>2. CASE \E c \in Commands : EnqueueCommand(c)
  BY <1>2 DEF EnqueueCommand
<1>3. CASE ActivateKillSwitch
  BY <1>3 DEF ActivateKillSwitch
<1>4. CASE Resume
  BY <1>4 DEF Resume
<1>5. ASSUME NEW w \in Workers, BootStep(w) PROVE HaltInv'
  BY <1>5
  DEF BootStep, Boot, BootRead, ReadHalted, BootWrite, LifecycleSeen, StartWorker
<1>6. ASSUME NEW w \in Workers, RebuildStep(w) PROVE HaltInv'
  BY <1>6
  DEF RebuildStep, RebuildMark, RebuildSync, RebuildRead, ReadHalted, RebuildWrite,
      LifecycleSeen, RebuildReconcile
<1>7. ASSUME NEW w \in Workers, TickStep(w) PROVE HaltInv'
  BY <1>7
  DEF TickStep, TickSelect, TickIdle, ClaimUpdate, BeginCommand, FirstStep, SkipPaused,
      SkipNotDue, ScheduledCycle
<1>8. ASSUME NEW w \in Workers, CycleStep(w) PROVE HaltInv'
  <2>1. CASE CycleRead(w)
    BY <2>1 DEF CycleRead
  <2>2. CASE CycleCreate(w)
    BY <2>2 DEF CycleCreate
  <2>3. CASE CycleMark(w) \/ SubmitIntent(w) \/ PersistExecutionRecord(w)
             \/ CycleExecuted(w) \/ CycleSnapshot(w)
    BY <2>3 DEF CycleMark, SubmitIntent, VenueFills, PersistExecutionRecord, RecordFill,
                CycleExecuted, CycleSnapshot
  <2>4. CASE CycleComplete(w) \/ CycleFresh(w) \/ CycleReconcile(w) \/ CycleFail(w)
             \/ CycleDegrade(w)
    BY <2>4 DEF CycleComplete, CycleFresh, CycleReconcile, CycleFail, CycleDegrade, FinishRun
  <2> QED
    BY <1>8, <2>1, <2>2, <2>3, <2>4 DEF CycleStep
<1>9. ASSUME NEW w \in Workers, EndStep(w) PROVE HaltInv'
  BY <1>9
  DEF EndStep, CarryStep, SubmitCarryOrder, VenueFills, PersistCarryOrder, RecordFill,
      ForgetCarryOrder, OperationDone, CompleteCommand, Settle, FailCommand,
      RecordFailure, ScheduledCycleFailed, FinishStop
<1>10. ASSUME NEW w \in Workers, FaultStep(w) PROVE HaltInv'
  BY <1>10
  DEF FaultStep, Throw, Handler, Crash, RequestStop, CycleSteps, CycleTry, RebuildSteps
<1> QED
  BY <1>1, <1>2, <1>3, <1>4, <1>5, <1>6, <1>7, <1>8, <1>9, <1>10
  DEF Next, OperatorStep, WorkerStep

\* Between a kill switch and the next resume a worker creates at most one more
\* strategy run, the one whose halt check preceded the kill switch.
THEOREM HaltFenceHolds == Spec => []HaltFence
<1>1. Init => HaltInv
  BY DEF Init, HaltInv
<1>2. HaltInv => HaltFence
  BY DEF HaltInv, HaltFence
<1> QED
  BY <1>1, <1>2, TypeCorrect, HaltStep, PTL DEF Spec

-----------------------------------------------------------------------------
(* Commands are claimed in order, for any number of workers.               *)

\* The table of commands is as it was, and nobody holds another command or
\* has left the middle of a claim.
OrderFrame ==
    /\ UNCHANGED <<clock, requestedAt, status>>
    /\ \A w \in Workers : cmd'[w] \in Commands =>
          cmd'[w] = cmd[w] /\ (pc[w] = "claim" => pc'[w] = "claim")

\* Such a step keeps the order invariant.
LEMMA OrderFrameStep == ASSUME OrderInv, OrderFrame PROVE OrderInv'
BY DEF OrderInv, OrderFrame, NoOvertaking, Queue!OldestPending

\* All but five actions are such steps.
LEMMA OrderFrameActions ==
    ASSUME TypeOK, NEW w \in Workers,
           \/ BootStep(w) \/ RebuildStep(w) \/ CycleStep(w) \/ FaultStep(w)
           \/ TickIdle(w) \/ BeginCommand(w) \/ SkipPaused(w) \/ SkipNotDue(w)
           \/ ScheduledCycle(w) \/ CarryStep(w) \/ OperationDone(w) \/ Settle(w)
           \/ RecordFailure(w) \/ ScheduledCycleFailed(w) \/ FinishStop(w)
    PROVE  OrderFrame
<1> USE DEF OrderFrame, TypeOK
<1>1. CASE BootStep(w)
  BY <1>1, CommandsAssumption
  DEF BootStep, Boot, BootRead, ReadHalted, BootWrite, LifecycleSeen, StartWorker
<1>2. CASE RebuildStep(w)
  BY <1>2, CommandsAssumption
  DEF RebuildStep, RebuildMark, RebuildSync, RebuildRead, ReadHalted, RebuildWrite,
      LifecycleSeen, RebuildReconcile
<1>3. CASE CycleStep(w)
  BY <1>3, CommandsAssumption
  DEF CycleStep, CycleRead, CycleCreate, CycleMark, SubmitIntent, VenueFills,
      PersistExecutionRecord, RecordFill, CycleExecuted,
      CycleSnapshot, CycleComplete, FinishRun, CycleFresh, CycleReconcile, CycleFail,
      CycleDegrade
<1>4. CASE FaultStep(w)
  BY <1>4, CommandsAssumption
  DEF FaultStep, Throw, Handler, Crash, RequestStop, CycleSteps, CycleTry, RebuildSteps
<1>5. CASE \/ TickIdle(w) \/ BeginCommand(w) \/ SkipPaused(w) \/ SkipNotDue(w)
            \/ ScheduledCycle(w)
  BY <1>5 DEF TickIdle, BeginCommand, SkipPaused, SkipNotDue, ScheduledCycle
<1>6. CASE \/ CarryStep(w) \/ OperationDone(w) \/ Settle(w) \/ RecordFailure(w)
            \/ ScheduledCycleFailed(w) \/ FinishStop(w)
  BY <1>6, CommandsAssumption
  DEF CarryStep, SubmitCarryOrder, VenueFills, PersistCarryOrder, RecordFill, ForgetCarryOrder,
      OperationDone, Settle, RecordFailure, ScheduledCycleFailed, FinishStop
<1> QED
  BY <1>1, <1>2, <1>3, <1>4, <1>5, <1>6

\* The five others: the insert, the two halves of a claim, the two outcomes.
LEMMA OrderActions ==
    ASSUME TypeOK, HoldsCommand, OrderInv,
           \/ \E c \in Commands : EnqueueCommand(c)
           \/ \E w \in Workers : TickSelect(w) \/ ClaimUpdate(w) \/ CompleteCommand(w)
                                    \/ FailCommand(w)
    PROVE  OrderInv'
<1>0. \A v \in Workers :
         cmd[v] \in Commands /\ status[cmd[v]] = "pending" => Queue!OldestPending(cmd[v])
  BY DEF OrderInv
<1>00. /\ clock \in Nat
       /\ requestedAt \in [Commands -> Nat]
       /\ status \in [Commands -> Queue!CommandStatus]
       /\ pc \in [Workers -> PC]
       /\ cmd \in [Workers -> Commands \cup {NoCommand}]
  BY DEF TypeOK, Queue!QueueTypeOK
<1> USE <1>00 DEF OrderInv, NoOvertaking, Queue!OldestPending
<1>1. ASSUME NEW c \in Commands, EnqueueCommand(c) PROVE OrderInv'
  BY <1>1 DEF EnqueueCommand, Queue!Submit
<1>2. ASSUME NEW w \in Workers, TickSelect(w) PROVE OrderInv'
  BY <1>2 DEF TickSelect
<1>3. ASSUME NEW w \in Workers, ClaimUpdate(w) PROVE OrderInv'
  <2>1. cmd[w] \in Commands
    BY <1>3 DEF ClaimUpdate, HoldsCommand
  <2>2. CASE status[cmd[w]] # "pending"
    BY <1>3, <2>1, <2>2 DEF ClaimUpdate
  <2>3. CASE status[cmd[w]] = "pending"
    <3>1. /\ status' = [status EXCEPT ![cmd[w]] = "running"]
          /\ pc' = [pc EXCEPT ![w] = "begin"]
          /\ UNCHANGED <<clock, requestedAt, cmd>>
      BY <1>3, <2>3 DEF ClaimUpdate
    <3>2. \A d \in Commands : status[d] = "pending" => requestedAt[cmd[w]] <= requestedAt[d]
      BY <1>0, <2>1, <2>3
    <3>3. NoOvertaking'
      BY <2>1, <3>1, <3>2
    <3>4. ASSUME NEW v \in Workers, cmd'[v] \in Commands
          PROVE  /\ status'[cmd'[v]] # "absent"
                 /\ pc'[v] # "claim" => status'[cmd'[v]] # "pending"
                 /\ status'[cmd'[v]] = "pending" => Queue!OldestPending(cmd[v])'
      BY <2>1, <3>1, <3>4
    <3> QED
      BY <2>1, <3>1, <3>3, <3>4
  <2> QED
    BY <2>2, <2>3
<1>4. ASSUME NEW w \in Workers, CompleteCommand(w) PROVE OrderInv'
  BY <1>4 DEF CompleteCommand
<1>5. ASSUME NEW w \in Workers, FailCommand(w) PROVE OrderInv'
  BY <1>5 DEF FailCommand
<1> QED
  BY <1>1, <1>2, <1>3, <1>4, <1>5

\* No step breaks the order invariant.
LEMMA OrderStep == ASSUME TypeOK, HoldsCommand, OrderInv, [Next]_vars PROVE OrderInv'
<1>1. CASE UNCHANGED vars
  BY <1>1, OrderFrameStep DEF vars, OrderFrame
<1>2. CASE ActivateKillSwitch \/ Resume
  BY <1>2, OrderFrameStep DEF ActivateKillSwitch, Resume, OrderFrame
<1>3. CASE \E c \in Commands : EnqueueCommand(c)
  BY <1>3, OrderActions
<1>4. ASSUME NEW w \in Workers, WorkerStep(w) \/ FaultStep(w) PROVE OrderInv'
  BY <1>4, OrderActions, OrderFrameActions, OrderFrameStep DEF WorkerStep, TickStep, EndStep
<1> QED
  BY <1>1, <1>2, <1>3, <1>4 DEF Next, OperatorStep

\* While a command waits, only older commands have been claimed, whatever the
\* number of workers and however their SELECTs and UPDATEs interleave.
THEOREM NoOvertakingHolds == Spec => []NoOvertaking
<1>1. Init => OrderInv
  BY CommandsAssumption DEF Init, Queue!QueueInit, OrderInv, NoOvertaking
<1>2. OrderInv => NoOvertaking
  BY DEF OrderInv
<1> QED
  BY <1>1, <1>2, TypeCorrect, OrderStep, PTL DEF Spec

-----------------------------------------------------------------------------
(* One worker: the queue is implemented, commands are begun at most once.  *)

\* Nothing about commands changes for the worker w, which stays outside a claim.
LEMMA HeldFrame ==
    ASSUME SingleWorker, TypeOK, HeldInv, UntouchedInv, UNCHANGED <<status, attempts>>,
           NEW w \in Workers, UNCHANGED cmd,
           \/ UNCHANGED pc
           \/ pc'[w] = "fail"
                 /\ pc[w] \in CycleSteps \cup RebuildSteps
                               \cup {"operation", "carry_persist", "complete", "settle"}
           \/ /\ pc[w] \in CycleSteps \cup RebuildSteps \cup {"operation"}
              /\ pc'[w] \in CycleSteps \cup RebuildSteps \cup {"complete"}
    PROVE  HeldInv' /\ UntouchedInv'
BY DEF SingleWorker, TypeOK, HeldInv, UntouchedInv, BootSteps, CycleSteps, CycleTry, RebuildSteps

\* The steps between two ticks that concern no command.
LEMMA HeldBootSteps ==
    ASSUME SingleWorker, TypeOK, HeldInv, UntouchedInv, NEW w \in Workers, BootStep(w)
    PROVE  HeldInv' /\ UntouchedInv'
BY CommandsAssumption
   DEF SingleWorker, TypeOK, HeldInv, UntouchedInv, BootSteps, CycleSteps, CycleTry, RebuildSteps,
       BootStep, Boot, BootRead, ReadHalted, BootWrite, StartWorker

\* A rebuild, at boot or for a command.
LEMMA HeldRebuildSteps ==
    ASSUME SingleWorker, TypeOK, HeldInv, UntouchedInv, NEW w \in Workers, RebuildStep(w)
    PROVE  HeldInv' /\ UntouchedInv'
<1>1. CASE RebuildReconcile(w) /\ cmd[w] = NoCommand
  BY <1>1, CommandsAssumption
  DEF SingleWorker, TypeOK, HeldInv, UntouchedInv, BootSteps, CycleSteps, CycleTry, RebuildSteps,
      RebuildReconcile
<1>2. CASE ~(RebuildReconcile(w) /\ cmd[w] = NoCommand)
  <2>1. /\ UNCHANGED <<status, attempts, cmd>>
        /\ pc[w] \in RebuildSteps
        /\ pc'[w] \in RebuildSteps \cup {"complete"}
    BY <1>2 DEF TypeOK, RebuildStep, RebuildMark, RebuildSync, RebuildRead, ReadHalted,
                RebuildWrite, RebuildReconcile, RebuildSteps
  <2> QED
    BY <2>1, HeldFrame
<1> QED
  BY <1>1, <1>2

\* A strategy cycle, scheduled or for a command.
LEMMA HeldCycleSteps ==
    ASSUME SingleWorker, TypeOK, HeldInv, UntouchedInv, NEW w \in Workers, CycleStep(w)
    PROVE  HeldInv' /\ UntouchedInv'
<1>1. /\ UNCHANGED <<status, attempts, cmd>>
      /\ \/ UNCHANGED pc
         \/ pc[w] \in CycleSteps /\ pc'[w] \in CycleSteps \cup {"complete", "fail"}
  BY DEF TypeOK, CycleStep, CycleRead, CycleCreate, CycleMark, SubmitIntent, VenueFills,
         PersistExecutionRecord, RecordFill, CycleExecuted,
         CycleSnapshot, CycleComplete, CycleFresh, CycleReconcile, CycleFail, CycleDegrade,
         FinishRun, CycleSteps, CycleTry
<1> QED
  BY <1>1, HeldFrame

\* The poll loop and the claim.
LEMMA HeldTickSteps ==
    ASSUME SingleWorker, TypeOK, HoldsCommand, HeldInv, UntouchedInv,
           NEW w \in Workers, TickStep(w)
    PROVE  HeldInv' /\ UntouchedInv'
<1> USE CommandsAssumption
    DEF SingleWorker, TypeOK, Queue!QueueTypeOK, HeldInv, UntouchedInv, BootSteps, CycleSteps,
        CycleTry, RebuildSteps
<1>1. CASE TickSelect(w)
  BY <1>1 DEF TickSelect, Queue!OldestPending
<1>2. CASE TickIdle(w) \/ SkipPaused(w) \/ SkipNotDue(w) \/ ScheduledCycle(w)
  BY <1>2 DEF TickIdle, SkipPaused, SkipNotDue, ScheduledCycle
<1>3. CASE ClaimUpdate(w)
  <2>1. cmd[w] \in Commands
    BY <1>3 DEF ClaimUpdate, HoldsCommand
  <2> QED
    BY <1>3, <2>1 DEF ClaimUpdate
<1>4. CASE BeginCommand(w)
  <2>1. cmd[w] \in Commands
    BY <1>4 DEF BeginCommand, HoldsCommand
  <2> QED
    BY <1>4, <2>1 DEF BeginCommand, FirstStep
<1> QED
  BY <1>1, <1>2, <1>3, <1>4 DEF TickStep

\* The outcomes of a command, and the end of a stop.
LEMMA HeldEndSteps ==
    ASSUME SingleWorker, TypeOK, HoldsCommand, HeldInv, UntouchedInv,
           NEW w \in Workers, EndStep(w)
    PROVE  HeldInv' /\ UntouchedInv'
<1> USE CommandsAssumption
    DEF SingleWorker, TypeOK, Queue!QueueTypeOK, HeldInv, UntouchedInv, BootSteps, CycleSteps,
        CycleTry, RebuildSteps
<1>1. CASE CarryStep(w) \/ OperationDone(w)
  BY <1>1 DEF CarryStep, SubmitCarryOrder, VenueFills, PersistCarryOrder, RecordFill,
              ForgetCarryOrder, OperationDone
<1>2. CASE CompleteCommand(w)
  BY <1>2 DEF CompleteCommand
<1>3. CASE Settle(w)
  BY <1>3 DEF Settle
<1>4. CASE FailCommand(w)
  BY <1>4 DEF FailCommand
<1>5. CASE RecordFailure(w) \/ ScheduledCycleFailed(w)
  BY <1>5 DEF RecordFailure, ScheduledCycleFailed
<1>6. CASE FinishStop(w)
  BY <1>6 DEF FinishStop
<1> QED
  BY <1>1, <1>2, <1>3, <1>4, <1>5, <1>6 DEF EndStep

\* Exceptions, crashes and stop requests.
LEMMA HeldFaultSteps ==
    ASSUME SingleWorker, TypeOK, HeldInv, UntouchedInv, NEW w \in Workers, FaultStep(w)
    PROVE  HeldInv' /\ UntouchedInv'
<1>1. CASE Throw(w)
  <2>1. /\ UNCHANGED <<status, attempts, cmd>>
        /\ pc[w] \in CycleSteps \cup RebuildSteps
                      \cup {"operation", "carry_persist", "complete", "settle"}
        /\ pc'[w] \in {"cycle_fail", "fail"}
        /\ pc'[w] = "cycle_fail" => pc[w] \in CycleSteps
    BY <1>1 DEF TypeOK, Throw, Handler, CycleSteps
  <2>2. "cycle_fail" \in CycleSteps
    BY DEF CycleSteps
  <2> QED
    BY <2>1, <2>2, HeldFrame
<1>2. CASE Crash(w)
  BY <1>2, CommandsAssumption
  DEF SingleWorker, TypeOK, HeldInv, UntouchedInv, BootSteps, CycleSteps, CycleTry, RebuildSteps,
      Crash
<1>3. CASE RequestStop(w)
  BY <1>3, HeldFrame DEF RequestStop
<1> QED
  BY <1>1, <1>2, <1>3 DEF FaultStep

\* The operator touches a command only to insert it.
LEMMA HeldOperatorSteps ==
    ASSUME SingleWorker, TypeOK, HeldInv, UntouchedInv, OperatorStep
    PROVE  HeldInv' /\ UntouchedInv'
<1>1. ASSUME NEW c \in Commands, EnqueueCommand(c) PROVE HeldInv' /\ UntouchedInv'
  BY <1>1, CommandsAssumption
  DEF TypeOK, Queue!QueueTypeOK, HeldInv, UntouchedInv, EnqueueCommand, Queue!Submit
<1>2. CASE ActivateKillSwitch \/ Resume
  BY <1>2 DEF HeldInv, UntouchedInv, ActivateKillSwitch, Resume
<1> QED
  BY <1>1, <1>2 DEF OperatorStep

\* No step breaks what a single worker knows of its command.
LEMMA HeldStep ==
    ASSUME SingleWorker, TypeOK, HoldsCommand, HeldInv, UntouchedInv, [Next]_vars
    PROVE  HeldInv' /\ UntouchedInv'
<1>1. CASE UNCHANGED vars
  BY <1>1 DEF HeldInv, UntouchedInv, vars
<1>2. CASE OperatorStep
  BY <1>2, HeldOperatorSteps
<1>3. ASSUME NEW w \in Workers, WorkerStep(w) \/ FaultStep(w) PROVE HeldInv' /\ UntouchedInv'
  BY <1>3, HeldBootSteps, HeldRebuildSteps, HeldTickSteps, HeldCycleSteps, HeldEndSteps,
     HeldFaultSteps
  DEF WorkerStep
<1> QED
  BY <1>1, <1>2, <1>3 DEF Next

\* A single worker begins a command at most once, and never again after a crash.
THEOREM AtMostOnceHolds == SingleWorker => (Spec => []AtMostOnce)
<1> SUFFICES ASSUME SingleWorker PROVE Spec => []AtMostOnce
  OBVIOUS
<1>1. Init => HeldInv /\ UntouchedInv
  BY DEF Init, Queue!QueueInit, HeldInv, UntouchedInv, BootSteps, CycleSteps, CycleTry,
         RebuildSteps
<1>2. UntouchedInv => AtMostOnce
  BY DEF UntouchedInv, AtMostOnce
<1> QED
  BY <1>1, <1>2, TypeCorrect, HeldStep, PTL DEF Spec

\* The actions of the worker that touch the command table, as actions of the queue.
LEMMA QueueActions ==
    ASSUME SingleWorker, TypeOK, HoldsCommand, OrderInv, HeldInv, UntouchedInv, NEW w \in Workers,
           ClaimUpdate(w) \/ BeginCommand(w) \/ CompleteCommand(w) \/ FailCommand(w)
    PROVE  [Queue!QueueNext]_(Queue!queueVars)
<1>1. CASE ClaimUpdate(w)
  <2>1. cmd[w] \in Commands /\ status[cmd[w]] = "pending"
    BY <1>1 DEF ClaimUpdate, HoldsCommand, HeldInv
  <2>2. Queue!OldestPending(cmd[w])
    BY <2>1 DEF OrderInv
  <2>3. Queue!Claim(cmd[w])
    BY <1>1, <2>1, <2>2 DEF ClaimUpdate, Queue!Claim
  <2> QED
    BY <2>1, <2>3 DEF Queue!QueueNext
<1>2. CASE BeginCommand(w)
  <2>1. cmd[w] \in Commands /\ status[cmd[w]] = "running" /\ attempts[cmd[w]] = 0
    BY <1>2 DEF BeginCommand, HoldsCommand, HeldInv
  <2>2. Queue!Begin(cmd[w])
    BY <1>2, <2>1 DEF BeginCommand, Queue!Begin, TypeOK, Queue!QueueTypeOK
  <2> QED
    BY <2>1, <2>2 DEF Queue!QueueNext
<1>3. CASE CompleteCommand(w) /\ cmd[w] # NoCommand
  <2>1. cmd[w] \in Commands /\ status[cmd[w]] = "running" /\ attempts[cmd[w]] = 1
    BY <1>3 DEF CompleteCommand, HeldInv, TypeOK
  <2>2. Queue!Complete(cmd[w])
    BY <1>3, <2>1 DEF CompleteCommand, Queue!Complete
  <2> QED
    BY <2>1, <2>2 DEF Queue!QueueNext
<1>4. CASE CompleteCommand(w) /\ cmd[w] = NoCommand
  BY <1>4 DEF CompleteCommand, Queue!queueVars
<1>5. CASE FailCommand(w)
  <2>1. cmd[w] \in Commands /\ status[cmd[w]] \in {"running", "completed"}
           /\ attempts[cmd[w]] = 1
    BY <1>5 DEF FailCommand, HeldInv, TypeOK
  <2>2. Queue!Fail(cmd[w])
    BY <1>5, <2>1 DEF FailCommand, Queue!Fail
  <2> QED
    BY <2>1, <2>2 DEF Queue!QueueNext
<1> QED
  BY <1>1, <1>2, <1>3, <1>4, <1>5

\* Every other step leaves the queue as it is.
LEMMA QueueStutter ==
    ASSUME TypeOK, NEW w \in Workers,
           \/ BootStep(w) \/ RebuildStep(w) \/ CycleStep(w) \/ FaultStep(w)
           \/ TickSelect(w) \/ TickIdle(w) \/ SkipPaused(w) \/ SkipNotDue(w)
           \/ ScheduledCycle(w) \/ CarryStep(w) \/ OperationDone(w) \/ Settle(w)
           \/ RecordFailure(w) \/ ScheduledCycleFailed(w) \/ FinishStop(w)
    PROVE  UNCHANGED Queue!queueVars
<1> USE DEF Queue!queueVars
<1>1. CASE BootStep(w) \/ RebuildStep(w)
  BY <1>1 DEF BootStep, Boot, BootRead, ReadHalted, BootWrite, StartWorker, RebuildStep,
              RebuildMark, RebuildSync, RebuildRead, RebuildWrite, RebuildReconcile
<1>2. CASE CycleStep(w) \/ FaultStep(w)
  BY <1>2 DEF CycleStep, CycleRead, CycleCreate, CycleMark, SubmitIntent, VenueFills,
              PersistExecutionRecord, RecordFill, CycleExecuted,
              CycleSnapshot, CycleComplete, CycleFresh, CycleReconcile, CycleFail, CycleDegrade,
              FinishRun, FaultStep, Throw, Crash, RequestStop
<1>3. CASE \/ TickSelect(w) \/ TickIdle(w) \/ SkipPaused(w) \/ SkipNotDue(w)
           \/ ScheduledCycle(w)
  BY <1>3 DEF TickSelect, TickIdle, SkipPaused, SkipNotDue, ScheduledCycle
<1>4. CASE \/ CarryStep(w) \/ OperationDone(w) \/ Settle(w) \/ RecordFailure(w)
           \/ ScheduledCycleFailed(w) \/ FinishStop(w)
  BY <1>4 DEF CarryStep, SubmitCarryOrder, VenueFills, PersistCarryOrder, RecordFill,
              ForgetCarryOrder, OperationDone, Settle, RecordFailure, ScheduledCycleFailed,
              FinishStop
<1> QED
  BY <1>1, <1>2, <1>3, <1>4

\* With a single worker, the queries of the worker and of the control plane
\* implement the atomic first-come-first-served queue, crashes included.
THEOREM QueueImplemented == SingleWorker => (Spec => ImplementsQueue)
<1> SUFFICES ASSUME SingleWorker PROVE Spec => Queue!QueueSpec
  BY DEF ImplementsQueue
<1>1. Init => Queue!QueueInit /\ OrderInv /\ HeldInv /\ UntouchedInv
  BY CommandsAssumption
  DEF Init, Queue!QueueInit, OrderInv, NoOvertaking, HeldInv, UntouchedInv, BootSteps,
      CycleSteps, CycleTry, RebuildSteps
<1>2. TypeOK /\ HoldsCommand /\ OrderInv /\ HeldInv /\ UntouchedInv /\ [Next]_vars
      => [Queue!QueueNext]_(Queue!queueVars)
  <2> SUFFICES ASSUME TypeOK, HoldsCommand, OrderInv, HeldInv, UntouchedInv, [Next]_vars
               PROVE  [Queue!QueueNext]_(Queue!queueVars)
    OBVIOUS
  <2>1. CASE UNCHANGED vars
    BY <2>1 DEF vars, Queue!queueVars
  <2>2. ASSUME NEW c \in Commands, EnqueueCommand(c) PROVE Queue!QueueNext
    BY <2>2 DEF EnqueueCommand, Queue!QueueNext
  <2>3. CASE ActivateKillSwitch \/ Resume
    BY <2>3 DEF ActivateKillSwitch, Resume, Queue!queueVars
  <2>4. ASSUME NEW w \in Workers, WorkerStep(w) \/ FaultStep(w)
        PROVE  [Queue!QueueNext]_(Queue!queueVars)
    BY <2>4, QueueActions, QueueStutter DEF WorkerStep, TickStep, EndStep
  <2> QED
    BY <2>1, <2>2, <2>3, <2>4 DEF Next, OperatorStep
<1> QED
  BY <1>1, <1>2, TypeCorrect, OrderStep, HeldStep, PTL DEF Spec, Queue!QueueSpec

-----------------------------------------------------------------------------
(* One worker: fresh projections account for every fill of the cycles.     *)

\* No step of the single worker publishes stale positions as fresh.
LEMMA FreshWorkerSteps ==
    ASSUME SingleWorker, TypeOK, FreshInv, NEW w \in Workers, WorkerStep(w) \/ FaultStep(w)
    PROVE  FreshInv'
<1> USE DEF SingleWorker, TypeOK, FreshInv, FreshCoversCycles, OrderSource, BootSteps
<1>1. CASE BootStep(w)
  BY <1>1 DEF BootStep, Boot, BootRead, ReadHalted, BootWrite, StartWorker, WithinReplay
<1>2. CASE RebuildStep(w)
  <2>1. CASE RebuildSync(w)
    <3>1. PICK h \in Replayed : adapter' = [adapter EXCEPT ![w] = h] /\ projected' = h
      BY <2>1 DEF RebuildSync
    <3>2. WithinReplay => h["cycle"] = fills["cycle"]
      BY <3>1, BoundsAssumption DEF Replayed, Total
    <3> QED
      BY <2>1, <3>1, <3>2 DEF RebuildSync, WithinReplay
  <2>2. CASE RebuildMark(w) \/ RebuildRead(w) \/ RebuildWrite(w) \/ RebuildReconcile(w)
    BY <2>2 DEF RebuildMark, RebuildRead, ReadHalted, RebuildWrite, RebuildReconcile,
                WithinReplay
  <2> QED
    BY <1>2, <2>1, <2>2 DEF RebuildStep
<1>3. CASE TickStep(w)
  BY <1>3 DEF TickStep, TickSelect, TickIdle, ClaimUpdate, BeginCommand, FirstStep, SkipPaused,
              SkipNotDue, ScheduledCycle, WithinReplay
<1>4. CASE CycleStep(w)
  <2>1. CASE SubmitIntent(w)
    <3>1. /\ adapter'[w]["cycle"] = adapter[w]["cycle"] + 1
          /\ adapter[w]["cycle"] \in Nat /\ fills["cycle"] \in Nat
      BY <2>1 DEF SubmitIntent, VenueFills
    <3> QED
      BY <2>1, <3>1 DEF SubmitIntent, VenueFills, WithinReplay
  <2>5. CASE PersistExecutionRecord(w)
    <3>1. fills' = [fills EXCEPT !["cycle"] = @ + 1]
      BY <2>5 DEF PersistExecutionRecord, RecordFill
    <3>2. WithinReplay' => WithinReplay
      BY <3>1, ReplayAssumption DEF WithinReplay, Total
    <3>3. /\ fills'["cycle"] = fills["cycle"] + 1
          /\ adapter[w]["cycle"] \in Nat /\ fills["cycle"] \in Nat
      BY <3>1
    <3> QED
      BY <2>5, <3>2, <3>3 DEF PersistExecutionRecord, RecordFill
  <2>2. CASE CycleRead(w) \/ CycleCreate(w) \/ CycleMark(w) \/ CycleExecuted(w)
    BY <2>2 DEF CycleRead, CycleCreate, CycleMark, CycleExecuted, WithinReplay
  <2>3. CASE CycleSnapshot(w) \/ CycleComplete(w) \/ CycleFresh(w)
    BY <2>3 DEF CycleSnapshot, CycleComplete, FinishRun, CycleFresh, WithinReplay
  <2>4. CASE CycleReconcile(w) \/ CycleFail(w) \/ CycleDegrade(w)
    BY <2>4 DEF CycleReconcile, CycleFail, FinishRun, CycleDegrade, WithinReplay
  <2> QED
    BY <1>4, <2>1, <2>2, <2>3, <2>4, <2>5 DEF CycleStep
<1>5. CASE EndStep(w)
  <2>1. CASE SubmitCarryOrder(w) \/ ForgetCarryOrder(w)
    <3>1. adapter'[w]["cycle"] = adapter[w]["cycle"]
      BY <2>1 DEF SubmitCarryOrder, VenueFills, ForgetCarryOrder
    <3> QED
      BY <2>1, <3>1 DEF SubmitCarryOrder, VenueFills, ForgetCarryOrder, WithinReplay
  <2>3. CASE PersistCarryOrder(w)
    <3>1. fills' = [fills EXCEPT !["carry"] = @ + 1]
      BY <2>3 DEF PersistCarryOrder, RecordFill
    <3>2. WithinReplay' => WithinReplay
      BY <3>1, ReplayAssumption DEF WithinReplay, Total
    <3>3. fills'["cycle"] = fills["cycle"]
      BY <3>1
    <3> QED
      BY <2>3, <3>2, <3>3 DEF PersistCarryOrder, RecordFill
  <2>2. CASE OperationDone(w) \/ CompleteCommand(w) \/ Settle(w) \/ FailCommand(w)
             \/ RecordFailure(w) \/ ScheduledCycleFailed(w) \/ FinishStop(w)
    BY <2>2 DEF OperationDone, CompleteCommand, Settle, FailCommand, RecordFailure,
                ScheduledCycleFailed, FinishStop, WithinReplay
  <2> QED
    BY <1>5, <2>1, <2>2, <2>3 DEF EndStep, CarryStep
<1>6. CASE FaultStep(w)
  <2>1. CASE Throw(w)
    BY <2>1 DEF Throw, Handler, CycleSteps, CycleTry, RebuildSteps, WithinReplay
  <2>2. CASE Crash(w)
    BY <2>2 DEF Crash, WithinReplay
  <2>3. CASE RequestStop(w)
    BY <2>3 DEF RequestStop, WithinReplay
  <2> QED
    BY <1>6, <2>1, <2>2, <2>3 DEF FaultStep
<1> QED
  BY <1>1, <1>2, <1>3, <1>4, <1>5, <1>6 DEF WorkerStep

\* With a single worker, projectionStatus = 'fresh' means that positions
\* account for every recorded fill of the strategy cycles.
THEOREM FreshCoversCyclesHolds == SingleWorker => (Spec => []FreshCoversCycles)
<1> SUFFICES ASSUME SingleWorker PROVE Spec => []FreshCoversCycles
  OBVIOUS
<1>1. Init => FreshInv
  BY DEF Init, FreshInv, FreshCoversCycles, OrderSource, NoOrders
<1>2. TypeOK /\ FreshInv /\ [Next]_vars => FreshInv'
  <2> SUFFICES ASSUME TypeOK, FreshInv, [Next]_vars PROVE FreshInv'
    OBVIOUS
  <2>1. CASE UNCHANGED vars \/ OperatorStep
    BY <2>1 DEF vars, FreshInv, FreshCoversCycles, OperatorStep, EnqueueCommand,
                ActivateKillSwitch, Resume, WithinReplay
  <2>2. ASSUME NEW w \in Workers, WorkerStep(w) \/ FaultStep(w) PROVE FreshInv'
    BY <2>2, FreshWorkerSteps
  <2> QED
    BY <2>1, <2>2 DEF Next
<1>3. FreshInv => FreshCoversCycles
  BY DEF FreshInv
<1> QED
  BY <1>1, <1>2, <1>3, TypeCorrect, PTL DEF Spec

-----------------------------------------------------------------------------
(* The runs that completed commands report, for any number of workers.     *)

\* A step of w after which no run has another outcome, no command reports
\* another run, and w has let go of its run or is not closer to completing it.
RunFrame(w) ==
    /\ UNCHANGED <<result, runStatus>>
    /\ \A c \in Commands : status'[c] = "completed" => status[c] = "completed"
    /\ \A v \in Workers : v # w => pc'[v] = pc[v] /\ run'[v] = run[v]
    /\ \/ run'[w] = 0
       \/ /\ run'[w] = run[w]
          /\ \/ pc'[w] = pc[w]
             \/ pc[w] \in CycleSteps /\ pc'[w] \in {"fail", "cycle_degrade"}
             \/ pc[w] \in {"complete", "settle", "fail", "record"}
                  /\ pc'[w] \in {"settle", "fail", "record"}
             \/ pc[w] = "cycle_read" /\ pc'[w] = "cycle_create"
             \/ pc[w] \in RunOpen
                  /\ pc'[w] \in RunOpen \ {"cycle_fresh", "cycle_reconcile"}
             \/ pc[w] = "cycle_fresh" /\ pc'[w] = "cycle_reconcile"
             \/ pc[w] = "cycle_reconcile" /\ pc'[w] = "complete"

\* Such a step keeps the invariant.
LEMMA RunFrameStep ==
    ASSUME TypeOK, RunInv, NEW w \in Workers, RunFrame(w)
    PROVE  RunInv'
<1>1. CompletedCommandHasCompletedRun'
  BY DEF RunFrame, RunInv, CompletedCommandHasCompletedRun
<1>2. \A c \in Commands : result'[c] # 0 => runStatus'[result'[c]] # "none"
  BY DEF RunFrame, RunInv
<1>3. \A v \in Workers : v # w => pc'[v] = pc[v] /\ run'[v] = run[v]
  BY DEF RunFrame
<1>4. run'[w] = 0 \/ run'[w] = run[w]
  BY DEF RunFrame
<1>5. \A u, v \in Workers : u # v /\ run'[u] # 0 => run'[u] # run'[v]
  BY <1>3, <1>4 DEF RunInv
<1>6. ASSUME NEW v \in Workers
      PROVE  /\ run'[v] # 0 => runStatus'[run'[v]] # "none"
             /\ pc'[v] \notin CycleSteps \cup {"complete", "settle", "fail", "record"}
                  => run'[v] = 0
             /\ pc'[v] \in RunOpen /\ run'[v] # 0 => \A c \in Commands : result'[c] # run'[v]
             /\ pc'[v] \in {"cycle_fresh", "cycle_reconcile", "complete"} /\ run'[v] # 0
                  => runStatus'[run'[v]] = "completed"
  <2>1. CASE v # w
    BY <1>3, <2>1 DEF RunFrame, RunInv
  <2>2. CASE run'[w] = 0
    BY <1>3, <2>1, <2>2
  <2>3. CASE v = w /\ run'[w] # 0
    <3>1. run'[w] = run[w] /\ UNCHANGED <<result, runStatus>>
      BY <2>3 DEF RunFrame
    <3>2. pc[w] \in CycleSteps \cup {"complete", "settle", "fail", "record"}
      BY <2>3, <3>1 DEF RunInv
    <3>3. pc'[w] \in RunOpen => pc[w] \in RunOpen
      BY <2>3, <3>1 DEF RunFrame, RunOpen, CycleTry
    <3>4. pc'[w] \in {"cycle_fresh", "cycle_reconcile", "complete"}
            => pc[w] \in {"cycle_fresh", "cycle_reconcile", "complete"}
      BY <2>3, <3>1 DEF RunFrame, RunOpen, CycleTry
    <3>5. pc'[w] \in CycleSteps \cup {"complete", "settle", "fail", "record"}
      BY <2>3, <3>1, <3>2 DEF RunFrame, RunOpen, CycleSteps, CycleTry
    <3> QED
      BY <2>3, <3>1, <3>3, <3>4, <3>5 DEF RunInv
  <2> QED
    BY <2>1, <2>2, <2>3
<1> QED
  BY <1>1, <1>2, <1>5, <1>6 DEF RunInv

\* All but four actions of a worker are such steps.
LEMMA RunFrameActions ==
    ASSUME TypeOK, HoldsCommand, RunInv, NEW w \in Workers,
           \/ BootStep(w) \/ RebuildStep(w) \/ TickStep(w) \/ FaultStep(w)
           \/ CycleStep(w) /\ ~CycleCreate(w) /\ ~CycleComplete(w) /\ ~CycleFail(w)
           \/ EndStep(w) /\ ~CompleteCommand(w)
    PROVE  RunFrame(w)
<1> USE DEF RunFrame
<1>0. /\ pc \in [Workers -> PC]
      /\ run \in [Workers -> 0..MaxRuns]
      /\ status \in [Commands -> Queue!CommandStatus]
      /\ cmd \in [Workers -> Commands \cup {NoCommand}]
  BY DEF TypeOK, Queue!QueueTypeOK
<1>00. pc[w] \notin CycleSteps \cup {"complete", "settle", "fail", "record"} => run[w] = 0
  BY DEF RunInv
<1> USE <1>0, <1>00
<1>1. CASE BootStep(w)
  BY <1>1 DEF BootStep, Boot, BootRead, ReadHalted, BootWrite, StartWorker, CycleSteps, CycleTry
<1>2. CASE RebuildStep(w)
  BY <1>2
  DEF RebuildStep, RebuildMark, RebuildSync, RebuildRead, ReadHalted, RebuildWrite,
      RebuildReconcile, CycleSteps, CycleTry
<1>3. CASE TickStep(w)
  <2>1. CASE ClaimUpdate(w)
    <3>1. cmd[w] \in Commands
      BY <2>1 DEF ClaimUpdate, HoldsCommand
    <3> QED
      BY <2>1, <3>1 DEF ClaimUpdate, CycleSteps, CycleTry
  <2>2. CASE BeginCommand(w) \/ ScheduledCycle(w)
    BY <2>2 DEF BeginCommand, ScheduledCycle
  <2>3. CASE TickSelect(w) \/ TickIdle(w) \/ SkipPaused(w) \/ SkipNotDue(w)
    BY <2>3 DEF TickSelect, TickIdle, SkipPaused, SkipNotDue, CycleSteps, CycleTry
  <2> QED
    BY <1>3, <2>1, <2>2, <2>3 DEF TickStep
<1>4. CASE Throw(w)
  <2>1. /\ UNCHANGED <<result, runStatus, status, run>>
        /\ pc' = [pc EXCEPT ![w] = Handler(pc[w])]
    BY <1>4 DEF Throw
  <2>2. CASE pc[w] \in CycleTry
    BY <2>1, <2>2 DEF Handler, RunOpen, CycleTry
  <2>3. CASE pc[w] \notin CycleTry
    <3>1. pc'[w] = "fail"
      BY <2>1, <2>3 DEF Handler
    <3> QED
      BY <2>1, <2>3, <3>1
  <2> QED
    BY <2>2, <2>3
<1>5. CASE Crash(w) \/ RequestStop(w)
  BY <1>5 DEF Crash, RequestStop
<1>6. CASE CycleStep(w) /\ ~CycleCreate(w) /\ ~CycleComplete(w) /\ ~CycleFail(w)
  <2>1. CASE CycleRead(w) \/ CycleMark(w) \/ CycleExecuted(w) \/ CycleSnapshot(w)
    BY <2>1 DEF CycleRead, CycleMark, CycleExecuted, CycleSnapshot, CycleSteps, RunOpen, CycleTry
  <2>2. CASE SubmitIntent(w) \/ PersistExecutionRecord(w)
    BY <2>2
    DEF SubmitIntent, VenueFills, PersistExecutionRecord, RecordFill, RunOpen, CycleTry
  <2>3. CASE CycleFresh(w) \/ CycleReconcile(w) \/ CycleDegrade(w)
    BY <2>3 DEF CycleFresh, CycleReconcile, CycleDegrade, CycleSteps
  <2> QED
    BY <1>6, <2>1, <2>2, <2>3 DEF CycleStep
<1>7. CASE EndStep(w) /\ ~CompleteCommand(w)
  <2>1. CASE CarryStep(w) \/ OperationDone(w)
    BY <2>1
    DEF CarryStep, SubmitCarryOrder, VenueFills, PersistCarryOrder, RecordFill,
        ForgetCarryOrder, OperationDone, CycleSteps, CycleTry
  <2>2. CASE Settle(w) \/ RecordFailure(w) \/ ScheduledCycleFailed(w)
    BY <2>2 DEF Settle, RecordFailure, ScheduledCycleFailed
  <2>3. CASE FailCommand(w)
    BY <2>3 DEF FailCommand
  <2>4. CASE FinishStop(w)
    BY <2>4 DEF FinishStop, CycleSteps, CycleTry
  <2> QED
    BY <1>7, <2>1, <2>2, <2>3, <2>4 DEF EndStep
<1> QED
  BY <1>1, <1>2, <1>3, <1>4, <1>5, <1>6, <1>7 DEF FaultStep

\* createStrategyRun takes a run nobody has and no command reports.
LEMMA RunCreated ==
    ASSUME TypeOK, RunInv, NEW w \in Workers, CycleCreate(w)
    PROVE  RunInv'
<1>1. PICK r \in Runs : /\ runStatus[r] = "none"
                        /\ runStatus' = [runStatus EXCEPT ![r] = "running"]
                        /\ run' = [run EXCEPT ![w] = r]
  BY DEF CycleCreate
<1>2. /\ pc' = [pc EXCEPT ![w] = "cycle_mark"]
      /\ UNCHANGED <<result, status>>
  BY DEF CycleCreate
<1>3. /\ runStatus \in [Runs -> RunStatus]
      /\ run \in [Workers -> 0..MaxRuns]
      /\ result \in [Commands -> 0..MaxRuns]
      /\ pc \in [Workers -> PC]
  BY DEF TypeOK
<1>4. r # 0 /\ \A v \in Workers : run[v] # r
  BY <1>1, BoundsAssumption DEF RunInv, Runs
<1>5. \A c \in Commands : result[c] # r
  BY <1>1, <1>4 DEF RunInv
<1> QED
  BY <1>1, <1>2, <1>3, <1>4, <1>5
  DEF RunInv, CompletedCommandHasCompletedRun, Runs, CycleSteps, RunOpen

\* completeStrategyRun settles a run that only w has and no command reports.
LEMMA RunFinished ==
    ASSUME TypeOK, RunInv, NEW w \in Workers, CycleComplete(w) \/ CycleFail(w)
    PROVE  RunInv'
<1>1. /\ runStatus \in [Runs -> RunStatus]
      /\ run \in [Workers -> 0..MaxRuns]
      /\ result \in [Commands -> 0..MaxRuns]
      /\ pc \in [Workers -> PC]
  BY DEF TypeOK
<1>2. PICK to \in {"cycle_fresh", "cycle_degrade"}, outcome \in {"completed", "failed"} :
        /\ pc' = [pc EXCEPT ![w] = to]
        /\ runStatus' = [runStatus EXCEPT ![run[w]] = outcome]
        /\ to = "cycle_fresh" => outcome = "completed"
  BY DEF CycleComplete, CycleFail, FinishRun
<1>3. pc[w] \in RunOpen /\ UNCHANGED <<run, result, status>>
  BY DEF CycleComplete, CycleFail, FinishRun, RunOpen, CycleTry
<1>4. CASE run[w] = 0
  <2>1. runStatus' = runStatus
    BY <1>1, <1>2, <1>4 DEF Runs
  <2> QED
    BY <1>1, <1>2, <1>3, <1>4, <2>1
    DEF RunInv, CompletedCommandHasCompletedRun, CycleSteps, CycleTry, RunOpen
<1>5. CASE run[w] # 0
  <2>1. run[w] \in Runs /\ \A c \in Commands : result[c] # run[w]
    BY <1>1, <1>3, <1>5, BoundsAssumption DEF RunInv, Runs
  <2>2. \A v \in Workers : v # w => run[v] # run[w]
    BY <1>5 DEF RunInv
  <2>3. runStatus'[run[w]] = outcome
    BY <1>1, <1>2, <2>1
  <2>4. \A q \in 0..MaxRuns : q # run[w] => runStatus'[q] = runStatus[q]
    BY <1>1, <1>2 DEF Runs
  <2>5. CompletedCommandHasCompletedRun'
    BY <1>1, <1>3, <2>1, <2>4 DEF RunInv, CompletedCommandHasCompletedRun
  <2>6. \A c \in Commands : result'[c] # 0 => runStatus'[result'[c]] # "none"
    BY <1>1, <1>3, <2>1, <2>4 DEF RunInv
  <2>7. ASSUME NEW v \in Workers
        PROVE  /\ run'[v] # 0 => runStatus'[run'[v]] # "none"
               /\ pc'[v] \notin CycleSteps \cup {"complete", "settle", "fail", "record"}
                    => run'[v] = 0
               /\ pc'[v] \in RunOpen /\ run'[v] # 0 => \A c \in Commands : result'[c] # run'[v]
               /\ pc'[v] \in {"cycle_fresh", "cycle_reconcile", "complete"} /\ run'[v] # 0
                    => runStatus'[run'[v]] = "completed"
    <3>1. CASE v = w
      BY <1>1, <1>2, <1>3, <2>1, <2>3, <3>1 DEF CycleSteps, CycleTry
    <3>2. CASE v # w
      BY <1>1, <1>2, <1>3, <2>2, <2>4, <3>2 DEF RunInv
    <3> QED
      BY <3>1, <3>2
  <2> QED
    BY <1>3, <2>5, <2>6, <2>7 DEF RunInv
<1> QED
  BY <1>4, <1>5

\* completeRuntimeCommand reports a run that is completed and that its worker
\* does not touch again.
LEMMA RunReported ==
    ASSUME TypeOK, RunInv, NEW w \in Workers, CompleteCommand(w)
    PROVE  RunInv'
<1>1. /\ status \in [Commands -> Queue!CommandStatus]
      /\ run \in [Workers -> 0..MaxRuns]
      /\ result \in [Commands -> 0..MaxRuns]
      /\ cmd \in [Workers -> Commands \cup {NoCommand}]
      /\ pc \in [Workers -> PC]
  BY DEF TypeOK, Queue!QueueTypeOK
<1>2. pc[w] = "complete" /\ pc' = [pc EXCEPT ![w] = "settle"] /\ UNCHANGED <<run, runStatus>>
  BY DEF CompleteCommand
<1>3. CASE cmd[w] = NoCommand
  <2>1. UNCHANGED <<status, result>>
    BY <1>3 DEF CompleteCommand
  <2>2. RunFrame(w)
    BY <1>1, <1>2, <2>1 DEF RunFrame
  <2> QED
    BY <2>2, RunFrameStep
<1>4. CASE cmd[w] # NoCommand
  <2>1. cmd[w] \in Commands
    BY <1>1, <1>4
  <2>2. /\ status' = [status EXCEPT ![cmd[w]] = "completed"]
        /\ result' = [result EXCEPT ![cmd[w]] = run[w]]
    BY <1>4 DEF CompleteCommand
  <2>3. run[w] # 0 => runStatus[run[w]] = "completed"
    BY <1>2 DEF RunInv
  <2>4. CompletedCommandHasCompletedRun'
    BY <1>1, <1>2, <2>1, <2>2, <2>3 DEF RunInv, CompletedCommandHasCompletedRun
  <2>5. \A c \in Commands : result'[c] # 0 => runStatus'[result'[c]] # "none"
    BY <1>1, <1>2, <2>1, <2>2, <2>3 DEF RunInv
  <2>6. ASSUME NEW v \in Workers, pc'[v] \in RunOpen, run'[v] # 0, NEW c \in Commands
        PROVE  result'[c] # run'[v]
    <3>1. v # w /\ pc[v] \in RunOpen
      BY <1>1, <1>2, <2>6 DEF RunOpen, CycleTry
    <3> QED
      BY <1>1, <1>2, <2>1, <2>2, <2>6, <3>1 DEF RunInv
  <2>7. ASSUME NEW v \in Workers
        PROVE  /\ run'[v] # 0 => runStatus'[run'[v]] # "none"
               /\ pc'[v] \notin CycleSteps \cup {"complete", "settle", "fail", "record"}
                    => run'[v] = 0
               /\ pc'[v] \in {"cycle_fresh", "cycle_reconcile", "complete"} /\ run'[v] # 0
                    => runStatus'[run'[v]] = "completed"
    BY <1>1, <1>2 DEF RunInv
  <2> QED
    BY <1>2, <2>4, <2>5, <2>6, <2>7 DEF RunInv
<1> QED
  BY <1>3, <1>4

\* No step breaks the invariant.
LEMMA RunStep == ASSUME TypeOK, HoldsCommand, RunInv, [Next]_vars PROVE RunInv'
<1>1. CASE UNCHANGED vars \/ ActivateKillSwitch \/ Resume
  BY <1>1 DEF vars, ActivateKillSwitch, Resume, RunInv, CompletedCommandHasCompletedRun
<1>2. ASSUME NEW c \in Commands, EnqueueCommand(c) PROVE RunInv'
  <2>1. /\ UNCHANGED <<result, runStatus, pc, run>>
        /\ status' = [status EXCEPT ![c] = "pending"]
    BY <1>2 DEF EnqueueCommand, Queue!Submit
  <2>2. \A d \in Commands : status'[d] = "completed" => status[d] = "completed"
    BY <2>1 DEF TypeOK, Queue!QueueTypeOK
  <2> QED
    BY <2>1, <2>2 DEF RunInv, CompletedCommandHasCompletedRun
<1>3. ASSUME NEW w \in Workers, WorkerStep(w) \/ FaultStep(w) PROVE RunInv'
  <2>1. CASE CycleCreate(w) \/ CycleComplete(w) \/ CycleFail(w) \/ CompleteCommand(w)
    BY <2>1, RunCreated, RunFinished, RunReported
  <2>2. CASE ~(CycleCreate(w) \/ CycleComplete(w) \/ CycleFail(w) \/ CompleteCommand(w))
    <3>1. RunFrame(w)
      BY <1>3, <2>2, RunFrameActions DEF WorkerStep
    <3> QED
      BY <3>1, RunFrameStep
  <2> QED
    BY <2>1, <2>2
<1> QED
  BY <1>1, <1>2, <1>3 DEF Next, OperatorStep

\* A command reported completed with a strategy run has one that strategy_runs
\* reports completed, although a failing reconciliation turns a completed run
\* into a failed one, and whatever the number of workers.
THEOREM CompletedRunHolds == Spec => []CompletedCommandHasCompletedRun
<1>1. Init => RunInv
  BY DEF Init, RunInv, CompletedCommandHasCompletedRun, RunOpen, CycleTry, CycleSteps
<1>2. RunInv => CompletedCommandHasCompletedRun
  BY DEF RunInv
<1> QED
  BY <1>1, <1>2, TypeCorrect, RunStep, PTL DEF Spec
=============================================================================
