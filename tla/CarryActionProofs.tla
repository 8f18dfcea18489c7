------------------------- MODULE CarryActionProofs -------------------------
(***************************************************************************)
(* Carry orders are controlled, no order is placed twice without a record  *)
(* and a crash to explain it, and CarryAction implements                   *)
(* ApprovedExecution: for any actions, plans, sessions and limits, with    *)
(* any number of commands, toggles, faults and crashes.                    *)
(***************************************************************************)
EXTENDS CarryAction, ListTheorems

Status      == {"recommended", "approved", "queued", "executing", "completed", "failed"}
OrderStatus == {"none", "pending", "submitted", "filled", "failed"}
Settled     == {"submitted", "filled", "failed"}
Execution   == {"none", "executing", "completed", "failed"}
Reasons     == {"none", "status", "connector", "kill_switch", "notional", "concurrency", "exception"}

(* Where the worker is: before its orders, at an order, after them. *)
CheckSteps == {"connector", "guard", "count"}
OrderSteps == {"step", "submit", "place", "record", "persist", "persist_failed"}
Steps == {"mark"} \cup CheckSteps \cup OrderSteps
           \cup {"complete_execution", "complete_action", "refresh", "fail_action", "fail_command"}

Command == [action : Actions, status : {"pending", "running", "completed", "failed"},
            execution : Execution, reason : Reasons, effects : {0, 1}]

CommandType ==
  /\ command \in Seq(Command) /\ Len(command) <= MaxCommands

SessionType ==
  /\ session \in [Sessions -> [pc : {"idle", "approve", "insert", "queue"},
                               action : Actions \cup {"none"}]]
  /\ \A s \in Sessions : session[s].pc # "idle" => session[s].action \in Actions

WorkerType ==
  /\ worker \in [pc : Steps \cup {"idle"}, cmd : Nat, i : Nat, placed : BOOLEAN]
  /\ worker.pc = "idle" <=> worker.cmd = 0
  /\ worker.pc # "idle" => worker.cmd \in DOMAIN command

StoreType ==
  /\ status \in [Actions -> Status]
  /\ approver \in [Actions -> Roles \cup {"none"}]
  /\ order \in [Orders -> OrderStatus]
  /\ venue \in [index : SUBSET Orders, placed : [Orders -> Nat]]
  /\ guard \in [kill : BOOLEAN, approved : BOOLEAN]
  /\ past \in [faults : Nat, abandoned : SUBSET Actions, misrecorded : SUBSET Orders,
               phantom : SUBSET Orders, since : SUBSET Nat]

(* An approval is held by every action that left recommended, and it is    *)
(* worth what the plan requires.                                           *)
ActionInv ==
  \A a \in Actions :
    /\ approver[a] # "none" => CanSatisfyApprovalRequirement(approver[a], Plan[a].required)
    /\ status[a] # "recommended" => approver[a] # "none"

SessionInv(s) ==
  LET a == session[s].action
  IN session[s].pc # "idle" =>
       /\ Plan[a].executable
       /\ session[s].pc = "approve" => CanSatisfyApprovalRequirement(RoleOf[s], Plan[a].required)
       /\ session[s].pc \in {"insert", "queue"} => status[a] # "recommended"

SettledUpTo(a, n) == \A j \in Slots(a) : j <= n => order[<<a, j>>] \in Settled

CommandInv(c) ==
  LET a == command[c].action
  IN /\ Plan[a].executable /\ status[a] # "recommended"
     /\ command[c].status = "pending" => command[c].execution = "none" /\ command[c].effects = 0
     /\ command[c].execution = "completed" => SettledUpTo(a, Len(Plan[a].orders))
     /\ command[c].reason = "concurrency" => MaxConcurrent < 2 \/ past.abandoned # {}

(* What the record of an order says of the venue. *)
OrderInv(o) ==
  /\ order[o] \in {"submitted", "filled"} =>
       \/ venue.placed[o] > 0 \/ o[1] \in past.abandoned \/ o \in past.phantom
       \/ worker.pc = "place" /\ Slot = o
  /\ venue.placed[o] > 0 /\ order[o] \notin {"submitted", "filled"} => o \in past.misrecorded
  /\ o \in venue.index => venue.placed[o] > 0
  /\ venue.placed[o] > 0 /\ o \notin venue.index => past.faults > 0
  /\ venue.placed[o] > 1 => o \in past.misrecorded /\ past.faults > 0

(* Where the worker is, for its command and its order. *)
WorkerInv ==
  worker.pc # "idle" =>
    /\ command[worker.cmd].status = "running"
    /\ command[worker.cmd].effects = IF worker.placed THEN 1 ELSE 0
    /\ worker.i \in 0..Len(Plan[Current].orders)
    /\ worker.pc \in OrderSteps => worker.i > 0 /\ SettledUpTo(Current, worker.i - 1)
    /\ worker.pc \in {"place", "record", "persist", "persist_failed"} => order[Slot] \in Settled
    /\ worker.pc = "place" => order[Slot] = "submitted"
    /\ worker.pc \in {"submit", "place"} /\ venue.placed[Slot] > 0 => Slot \in past.misrecorded
    /\ worker.pc = "record" => venue.placed[Slot] > 0
    /\ worker.pc = "complete_execution" => SettledUpTo(Current, Len(Plan[Current].orders))

(* Since the gate was closed only the worker's execution placed orders, if *)
(* it is beyond the check.                                                 *)
GateInv ==
  /\ \A c, d \in past.since : c = d
  /\ worker.pc \in {"guard", "count"} \cup OrderSteps /\ Plan[Current].live /\ ~guard.approved =>
       past.since \subseteq {worker.cmd}
  /\ worker.pc \in {"count"} \cup OrderSteps /\ guard.kill => past.since \subseteq {worker.cmd}

(* Unless a fault left it behind, an executing action is the worker's. *)
OrphanInv ==
  past.abandoned = {} =>
    \A a \in Actions :
      status[a] = "executing" =>
        worker.cmd # 0 /\ Current = a /\ worker.pc \notin {"refresh", "fail_command"}

IInv ==
  /\ CommandType /\ SessionType /\ WorkerType /\ StoreType
  /\ ActionInv
  /\ \A s \in Sessions : SessionInv(s)
  /\ \A c \in DOMAIN command : CommandInv(c)
  /\ \A o \in Orders : OrderInv(o)
  /\ WorkerInv
  /\ GateInv
  /\ OrphanInv

-----------------------------------------------------------------------------
(***************************************************************************)
(* Facts about the state.                                                  *)
(***************************************************************************)
LEMMA PlanFacts ==
  ASSUME NEW a \in Actions
  PROVE  /\ Plan[a].orders \in Seq([size : Nat, price : Nat])
         /\ Len(Plan[a].orders) \in Nat
         /\ Slots(a) = 1..Len(Plan[a].orders)
         /\ Plan[a].required \in {"operator", "admin"}
         /\ Plan[a].executable => Len(Plan[a].orders) > 0
<1>1. /\ Plan[a].orders \in Seq([size : Nat, price : Nat]) /\ Plan[a].required \in {"operator", "admin"}
      /\ Plan[a].executable => Plan[a].orders # <<>>
  BY PlanAssumption
<1>2. Len(Plan[a].orders) \in Nat /\ Slots(a) = 1..Len(Plan[a].orders)
  BY <1>1 DEF Slots
<1>3. Plan[a].orders # <<>> => Len(Plan[a].orders) # 0
  BY <1>1, EmptySeq
<1> QED BY <1>1, <1>2, <1>3

LEMMA OrderOf ==
  ASSUME NEW a \in Actions, NEW i \in Slots(a)
  PROVE  <<a, i>> \in Orders
BY DEF Orders

LEMMA OrderParts ==
  ASSUME NEW o \in Orders
  PROVE  o[1] \in Actions /\ o[2] \in Slots(o[1]) /\ o = <<o[1], o[2]>>
BY DEF Orders

LEMMA CurrentFacts ==
  ASSUME IInv, worker.pc # "idle"
  PROVE  /\ worker.cmd \in DOMAIN command /\ worker.cmd # 0 /\ worker.cmd \in Nat
         /\ command[worker.cmd] \in Command
         /\ Current \in Actions /\ Current = command[worker.cmd].action
         /\ CommandInv(worker.cmd) /\ Plan[Current].executable
         /\ status[Current] # "recommended"
<1>1. worker.cmd \in DOMAIN command /\ worker.cmd # 0 /\ worker.cmd \in Nat
  BY DEF IInv, WorkerType
<1>2. command[worker.cmd] \in Command
  BY <1>1 DEF IInv, CommandType
<1>3. CommandInv(worker.cmd)
  BY <1>1 DEF IInv
<1> QED BY <1>1, <1>2, <1>3 DEF CommandInv, Current, Command

(* The order the worker is at is one of the plan. *)
LEMMA SlotFacts ==
  ASSUME IInv, worker.pc \in OrderSteps
  PROVE  /\ worker.i \in Slots(Current) /\ Slot \in Orders /\ Slot[1] = Current
         /\ Slot = <<Current, worker.i>> /\ worker.i \in Nat
         /\ SettledUpTo(Current, worker.i - 1)
<1>1. worker.pc # "idle" /\ Current \in Actions
  BY CurrentFacts DEF OrderSteps
<1>2. worker.i \in 0..Len(Plan[Current].orders) /\ worker.i > 0 /\ SettledUpTo(Current, worker.i - 1)
  BY <1>1 DEF IInv, WorkerInv
<1>3. worker.i \in Slots(Current)
  BY <1>1, <1>2, PlanFacts
<1>4. Slot \in Orders
  BY <1>1, <1>3, OrderOf DEF Slot
<1> QED BY <1>1, <1>2, <1>3, <1>4 DEF Slot

(* What no step takes back. *)
Grow ==
  /\ \A a \in Actions : status[a] # "recommended" => status'[a] # "recommended"
  /\ \A o \in Orders : order[o] \in Settled => order'[o] \in Settled
  /\ past.abandoned \subseteq past'.abandoned

LEMMA SettledFrame ==
  ASSUME Grow, NEW a \in Actions, NEW n, SettledUpTo(a, n)
  PROVE  SettledUpTo(a, n)'
BY OrderOf DEF SettledUpTo, Grow

LEMMA SessionsFrame ==
  ASSUME IInv, Grow, session' = session
  PROVE  SessionType' /\ \A s \in Sessions : SessionInv(s)'
BY DEF IInv, SessionType, SessionInv, Grow

LEMMA CommandFrame ==
  ASSUME IInv, Grow, NEW c \in DOMAIN command, command'[c] = command[c]
  PROVE  CommandInv(c)'
<1>1. command[c].action \in Actions /\ CommandInv(c) /\ command'[c].action = command[c].action
  <2>1. command[c] \in Command /\ CommandInv(c)
    BY DEF IInv, CommandType
  <2> QED BY <2>1 DEF Command
<1>2. \A n : SettledUpTo(command[c].action, n) => SettledUpTo(command[c].action, n)'
  BY <1>1, SettledFrame
<1>3. past.abandoned # {} => past'.abandoned # {}
  BY DEF Grow
<1>4. status'[command[c].action] # "recommended"
  BY <1>1 DEF CommandInv, Grow
<1> QED BY <1>1, <1>2, <1>3, <1>4 DEF CommandInv

LEMMA CommandsFrame ==
  ASSUME IInv, Grow, command' = command
  PROVE  CommandType' /\ \A c \in DOMAIN command' : CommandInv(c)'
BY CommandFrame DEF IInv, CommandType

(* A step that writes row e for command k. *)
LEMMA CommandWritten ==
  ASSUME IInv, Grow, NEW k \in DOMAIN command, NEW e \in Command,
         command' = [command EXCEPT ![k] = e], e.action = command[k].action,
         e.status = "pending" => e.execution = "none" /\ e.effects = 0,
         e.execution = "completed" => SettledUpTo(e.action, Len(Plan[e.action].orders))',
         e.reason = "concurrency" => MaxConcurrent < 2 \/ past'.abandoned # {}
  PROVE  /\ CommandType' /\ DOMAIN command' = DOMAIN command
         /\ \A c \in DOMAIN command' : CommandInv(c)'
         /\ command'[k] = e /\ \A c \in DOMAIN command : c # k => command'[c] = command[c]
<1>1. command' \in Seq(Command) /\ Updated(command, command', k, e)
  BY UpdatedTable DEF IInv, CommandType
<1>2. CommandType' /\ DOMAIN command' = DOMAIN command /\ command'[k] = e
      /\ \A c \in DOMAIN command : c # k => command'[c] = command[c]
  BY <1>1 DEF CommandType, Updated, IInv
<1>3. CommandInv(k) /\ command[k].action \in Actions
  BY DEF IInv, CommandType, Command
<1>4. CommandInv(k)'
  <2>1. Plan[e.action].executable /\ status'[e.action] # "recommended"
    BY <1>3 DEF CommandInv, Grow
  <2>2. \A a : SettledUpTo(a, Len(Plan[a].orders))' <=>
               \A j \in Slots(a) : j <= Len(Plan[a].orders) => order'[<<a, j>>] \in Settled
    BY DEF SettledUpTo
  <2> QED BY <1>2, <2>1, <2>2 DEF CommandInv, SettledUpTo
<1> QED BY <1>2, <1>4, CommandFrame

LEMMA SetCommandRow ==
  ASSUME IInv, NEW k \in DOMAIN command, NEW st \in {"pending", "running", "completed", "failed"},
         NEW ex \in Execution, NEW why \in Reasons, SetCommand(k, st, ex, why)
  PROVE  \E e \in Command :
           /\ command' = [command EXCEPT ![k] = e]
           /\ e.action = command[k].action /\ e.effects = command[k].effects
           /\ e.status = st /\ e.execution = ex /\ e.reason = why
<1> DEFINE e == [command[k] EXCEPT !.status = st, !.execution = ex, !.reason = why]
<1>1. command[k] \in Command /\ command \in Seq(Command)
  BY DEF IInv, CommandType
<1>2. /\ e \in Command /\ e.action = command[k].action /\ e.effects = command[k].effects
      /\ e.status = st /\ e.execution = ex /\ e.reason = why
  BY <1>1 DEF Command
<1>3. command' = [command EXCEPT ![k] = e]
  BY <1>1 DEF SetCommand
<1> HIDE DEF e
<1> QED BY <1>2, <1>3

(* The parts of the invariant a step must show. *)
LEMMA StepInv ==
  ASSUME IInv, Grow, session' = session,
         CommandType', \A c \in DOMAIN command' : CommandInv(c)',
         StoreType', ActionInv', WorkerType', \A o \in Orders : OrderInv(o)',
         WorkerInv', GateInv', OrphanInv'
  PROVE  IInv'
BY SessionsFrame DEF IInv

(* The worker moves on, with its command and its order. *)
LEMMA MoveOn ==
  ASSUME IInv, worker.pc # "idle", DOMAIN command' = DOMAIN command,
         NEW p \in Steps, WorkerAt(p)
  PROVE  /\ WorkerType' /\ worker'.pc = p /\ worker'.cmd = worker.cmd
         /\ worker'.i = worker.i /\ worker'.placed = worker.placed
<1>1. worker \in [pc : Steps \cup {"idle"}, cmd : Nat, i : Nat, placed : BOOLEAN]
      /\ worker.cmd # 0 /\ worker.cmd \in DOMAIN command
  BY DEF IInv, WorkerType
<1>2. p # "idle"
  BY DEF Steps, CheckSteps, OrderSteps
<1>3. worker' \in [pc : Steps \cup {"idle"}, cmd : Nat, i : Nat, placed : BOOLEAN]
      /\ worker'.pc = p /\ worker'.cmd = worker.cmd
      /\ worker'.i = worker.i /\ worker'.placed = worker.placed
  BY <1>1 DEF WorkerAt
<1> QED BY <1>1, <1>2, <1>3 DEF WorkerType

LEMMA OrdersFrame ==
  ASSUME IInv, order' = order, venue' = venue, worker.pc # "place",
         past'.abandoned = past.abandoned, past'.misrecorded = past.misrecorded,
         past'.phantom = past.phantom, past'.faults = past.faults
  PROVE  \A o \in Orders : OrderInv(o)'
BY DEF IInv, OrderInv

LEMMA GateFrame ==
  ASSUME IInv, guard' = guard, past'.since = past.since,
         \/ worker'.pc \notin {"guard", "count"} \cup OrderSteps
         \/ /\ worker.pc \in OrderSteps /\ worker'.cmd = worker.cmd /\ Current' = Current
  PROVE  GateInv'
BY DEF IInv, GateInv

LEMMA OrphanFrame ==
  ASSUME IInv, \A a \in Actions : status'[a] = "executing" => status[a] = "executing",
         past'.abandoned = past.abandoned,
         worker'.cmd = worker.cmd, Current' = Current, worker'.pc \notin {"refresh", "fail_command"}
  PROVE  OrphanInv'
BY DEF IInv, OrphanInv

LEMMA ActionsFrame ==
  ASSUME IInv, Grow, approver' = approver,
         \A a \in Actions : status[a] = "recommended" => status'[a] = "recommended"
  PROVE  ActionInv'
BY DEF IInv, ActionInv

-----------------------------------------------------------------------------
(***************************************************************************)
(* The initial state, the approvals and the gates.                         *)
(***************************************************************************)
LEMMA InitInv == Init => IInv
<1> SUFFICES ASSUME Init PROVE IInv
  OBVIOUS
<1>1. command = <<>> /\ worker = Idle /\ DOMAIN command = {} /\ Len(command) = 0
  BY DEF Init
<1>2. CommandType
  BY <1>1, BoundsAssumption DEF CommandType
<1>3. SessionType /\ \A s \in Sessions : SessionInv(s)
  BY DEF Init, SessionType, SessionInv
<1>4. WorkerType /\ WorkerInv
  BY <1>1 DEF Idle, WorkerType, WorkerInv
<1>5. StoreType
  BY DEF Init, StoreType, Status, OrderStatus
<1>6. ActionInv
  BY DEF Init, ActionInv
<1>7. \A o \in Orders : OrderInv(o)
  BY DEF Init, OrderInv
<1>8. GateInv
  BY <1>1 DEF Init, GateInv, Idle, OrderSteps
<1>9. OrphanInv
  BY DEF Init, OrphanInv
<1> QED BY <1>1, <1>2, <1>3, <1>4, <1>5, <1>6, <1>7, <1>8, <1>9 DEF IInv

(* A step beside the worker. *)
LEMMA BesideWorker ==
  ASSUME IInv, UNCHANGED <<worker, order, venue, guard, past>>,
         \A c \in DOMAIN command : c \in DOMAIN command' /\ command'[c] = command[c],
         \A a \in Actions : status'[a] = "executing" => status[a] = "executing"
  PROVE  WorkerType' /\ (\A o \in Orders : OrderInv(o)') /\ WorkerInv' /\ GateInv' /\ OrphanInv'
<1>1. worker.pc # "idle" => command'[worker.cmd] = command[worker.cmd] /\ worker.cmd \in DOMAIN command'
  BY DEF IInv, WorkerType
<1>2. worker.pc # "idle" => Current' = Current /\ Slot' = Slot
  BY <1>1 DEF Current, Slot
<1>3. WorkerType'
  BY <1>1 DEF IInv, WorkerType
<1>4. \A o \in Orders : OrderInv(o)'
  BY <1>2 DEF IInv, OrderInv
<1>5. WorkerInv'
  <2>1. \A a, n : SettledUpTo(a, n)' <=> SettledUpTo(a, n)
    BY DEF SettledUpTo
  <2> QED BY <1>1, <1>2, <2>1 DEF IInv, WorkerInv
<1>6. GateInv'
  BY <1>2 DEF IInv, GateInv, OrderSteps
<1>7. OrphanInv'
  BY <1>2 DEF IInv, OrphanInv, WorkerType
<1> QED BY <1>3, <1>4, <1>5, <1>6, <1>7

LEMMA AtStepFacts ==
  ASSUME IInv, NEW s \in Sessions, NEW p \in {"idle", "approve", "insert", "queue"},
         NEW a \in Actions \cup {"none"}, p # "idle" => a \in Actions, AtStep(s, p, a)
  PROVE  /\ SessionType' /\ session'[s].pc = p /\ session'[s].action = a
         /\ \A t \in Sessions : t # s => session'[t] = session[t]
BY DEF IInv, SessionType, AtStep

LEMMA SessionFrame ==
  ASSUME IInv, Grow, NEW s \in Sessions, session'[s] = session[s]
  PROVE  SessionInv(s)'
BY DEF IInv, SessionType, SessionInv, Grow

LEMMA ApproveReadStep ==
  ASSUME IInv, NEW s \in Sessions, NEW a \in Actions, ApproveRead(s, a)
  PROVE  IInv'
<1>1. /\ AtStep(s, "approve", a) /\ Plan[a].executable
      /\ CanSatisfyApprovalRequirement(RoleOf[s], Plan[a].required)
      /\ UNCHANGED <<status, approver, command, order, venue, guard, worker, toggles, past>>
  BY DEF ApproveRead
<1>2. Grow
  BY <1>1 DEF Grow
<1>3. /\ SessionType' /\ session'[s].pc = "approve" /\ session'[s].action = a
      /\ \A t \in Sessions : t # s => session'[t] = session[t]
  BY <1>1, AtStepFacts
<1>4. SessionInv(s)'
  BY <1>1, <1>3 DEF SessionInv
<1>5. \A t \in Sessions : SessionInv(t)'
  BY <1>2, <1>3, <1>4, SessionFrame
<1>6. CommandType' /\ \A c \in DOMAIN command' : CommandInv(c)'
  BY <1>1, <1>2, CommandsFrame
<1>7. StoreType' /\ ActionInv'
  BY <1>1 DEF IInv, StoreType, ActionInv
<1>8. WorkerType' /\ (\A o \in Orders : OrderInv(o)') /\ WorkerInv' /\ GateInv' /\ OrphanInv'
  BY <1>1, BesideWorker
<1> QED BY <1>3, <1>5, <1>6, <1>7, <1>8 DEF IInv

(* The approval is written for an action whatever happened to it since. *)
LEMMA ApproveWriteStep == ASSUME IInv, NEW s \in Sessions, ApproveWrite(s) PROVE IInv'
<1> DEFINE a == session[s].action
<1>1. /\ session[s].pc = "approve" /\ AtStep(s, "insert", a)
      /\ status' = [status EXCEPT ![a] = "approved"]
      /\ approver' = [approver EXCEPT ![a] = RoleOf[s]]
      /\ UNCHANGED <<command, order, venue, guard, worker, toggles, past>>
  BY DEF ApproveWrite
<1>2. /\ a \in Actions /\ Plan[a].executable
      /\ CanSatisfyApprovalRequirement(RoleOf[s], Plan[a].required)
      /\ RoleOf[s] \in Roles /\ RoleOf[s] # "none"
  BY <1>1, RoleAssumption DEF IInv, SessionType, SessionInv, Roles
<1> HIDE DEF a
<1>3. /\ StoreType'
      /\ \A b \in Actions : status'[b] = IF b = a THEN "approved" ELSE status[b]
      /\ \A b \in Actions : approver'[b] = IF b = a THEN RoleOf[s] ELSE approver[b]
  BY <1>1, <1>2 DEF IInv, StoreType, Status
<1>4. Grow
  BY <1>1, <1>3 DEF Grow
<1>5. /\ SessionType' /\ session'[s].pc = "insert" /\ session'[s].action = a
      /\ \A t \in Sessions : t # s => session'[t] = session[t]
  BY <1>1, <1>2, AtStepFacts
<1>6. SessionInv(s)'
  BY <1>2, <1>3, <1>5 DEF SessionInv
<1>7. \A t \in Sessions : SessionInv(t)'
  BY <1>4, <1>5, <1>6, SessionFrame
<1>8. CommandType' /\ \A c \in DOMAIN command' : CommandInv(c)'
  BY <1>1, <1>4, CommandsFrame
<1>9. ActionInv'
  BY <1>2, <1>3 DEF IInv, ActionInv
<1>10. WorkerType' /\ (\A o \in Orders : OrderInv(o)') /\ WorkerInv' /\ GateInv' /\ OrphanInv'
  BY <1>1, <1>3, BesideWorker
<1> QED BY <1>3, <1>5, <1>7, <1>8, <1>9, <1>10 DEF IInv

LEMMA ApproveQueueStep == ASSUME IInv, NEW s \in Sessions, ApproveQueue(s) PROVE IInv'
<1> DEFINE a == session[s].action
<1>1. /\ session[s].pc = "queue" /\ AtStep(s, "idle", "none")
      /\ status' = [status EXCEPT ![a] = "queued"]
      /\ UNCHANGED <<approver, command, order, venue, guard, worker, toggles, past>>
  BY DEF ApproveQueue
<1>2. a \in Actions /\ status[a] # "recommended"
  BY <1>1 DEF IInv, SessionType, SessionInv
<1> HIDE DEF a
<1>3. StoreType' /\ \A b \in Actions : status'[b] = IF b = a THEN "queued" ELSE status[b]
  BY <1>1, <1>2 DEF IInv, StoreType, Status
<1>4. Grow
  BY <1>1, <1>3 DEF Grow
<1>5. /\ SessionType' /\ session'[s].pc = "idle"
      /\ \A t \in Sessions : t # s => session'[t] = session[t]
  BY <1>1, AtStepFacts
<1>6. \A t \in Sessions : SessionInv(t)'
  BY <1>4, <1>5, SessionFrame DEF SessionInv
<1>7. CommandType' /\ \A c \in DOMAIN command' : CommandInv(c)'
  BY <1>1, <1>4, CommandsFrame
<1>8. ActionInv'
  BY <1>1, <1>2, <1>3 DEF IInv, ActionInv
<1>9. WorkerType' /\ (\A o \in Orders : OrderInv(o)') /\ WorkerInv' /\ GateInv' /\ OrphanInv'
  BY <1>1, <1>3, BesideWorker
<1> QED BY <1>3, <1>5, <1>6, <1>7, <1>8, <1>9 DEF IInv

LEMMA ApproveInsertStep == ASSUME IInv, NEW s \in Sessions, ApproveInsert(s) PROVE IInv'
<1> DEFINE a == session[s].action
           e == [action |-> a, status |-> "pending", execution |-> "none",
                 reason |-> "none", effects |-> 0]
<1>1. /\ session[s].pc = "insert" /\ AtStep(s, "queue", a) /\ Len(command) < MaxCommands
      /\ command' = Append(command, e)
      /\ UNCHANGED <<status, approver, order, venue, guard, worker, toggles, past>>
  BY DEF ApproveInsert
<1>2. a \in Actions /\ status[a] # "recommended" /\ Plan[a].executable
  BY <1>1 DEF IInv, SessionType, SessionInv
<1> HIDE DEF a
<1>3. /\ e \in Command /\ e.action = a /\ e.status = "pending" /\ e.execution = "none"
      /\ e.reason = "none" /\ e.effects = 0
  BY <1>2 DEF Command, Execution, Reasons
<1> HIDE DEF e
<1>4. command' \in Seq(Command) /\ Extended(command, command', e) /\ Len(command) \in Nat
  <2>1. command \in Seq(Command) /\ Len(command) \in Nat
    BY DEF IInv, CommandType
  <2> QED BY <1>1, <1>3, <2>1, ExtendedTable
<1>5. CommandType'
  BY <1>1, <1>4, BoundsAssumption DEF CommandType, Extended
<1>6. Grow
  BY <1>1 DEF Grow
<1>7. /\ SessionType' /\ session'[s].pc = "queue" /\ session'[s].action = a
      /\ \A t \in Sessions : t # s => session'[t] = session[t]
  BY <1>1, <1>2, AtStepFacts
<1>8. SessionInv(s)'
  BY <1>1, <1>2, <1>7 DEF SessionInv
<1>9. \A t \in Sessions : SessionInv(t)'
  BY <1>6, <1>7, <1>8, SessionFrame
<1>10. \A c \in DOMAIN command' : CommandInv(c)'
  <2>1. ASSUME NEW c \in DOMAIN command PROVE CommandInv(c)'
    BY <1>4, <1>6, CommandFrame DEF Extended
  <2>2. ASSUME NEW c \in DOMAIN command', command'[c] = e PROVE CommandInv(c)'
    BY <1>1, <1>2, <1>3, <2>2 DEF CommandInv
  <2> QED BY <1>4, <2>1, <2>2 DEF Extended
<1>11. StoreType' /\ ActionInv'
  BY <1>1 DEF IInv, StoreType, ActionInv
<1>12. WorkerType' /\ (\A o \in Orders : OrderInv(o)') /\ WorkerInv' /\ GateInv' /\ OrphanInv'
  BY <1>1, <1>4, BesideWorker DEF Extended
<1> QED BY <1>5, <1>7, <1>9, <1>10, <1>11, <1>12 DEF IInv

(* Closing the gate forgets what was placed before. *)
LEMMA GateStep ==
  ASSUME IInv, TriggerKillSwitch \/ ResetKillSwitch \/ ConnectorSuspended \/ ConnectorApproved
  PROVE  IInv'
<1>1. UNCHANGED <<status, approver, command, order, venue, session, worker>>
  BY DEF TriggerKillSwitch, ResetKillSwitch, ConnectorSuspended, ConnectorApproved
<1>2. /\ past'.faults = past.faults /\ past'.abandoned = past.abandoned
      /\ past'.misrecorded = past.misrecorded /\ past'.phantom = past.phantom
      /\ past'.since \subseteq past.since
      /\ StoreType'
  BY <1>1 DEF TriggerKillSwitch, ResetKillSwitch, ConnectorSuspended, ConnectorApproved,
     IInv, StoreType
<1>3. past'.since # {} =>
        /\ past'.since = past.since
        /\ guard'.kill => guard.kill
        /\ ~guard'.approved => ~guard.approved
  BY DEF TriggerKillSwitch, ResetKillSwitch, ConnectorSuspended, ConnectorApproved, IInv, StoreType
<1>4. Grow
  BY <1>1, <1>2 DEF Grow
<1>5. CommandType' /\ \A c \in DOMAIN command' : CommandInv(c)'
  BY <1>1, <1>4, CommandsFrame
<1>6. ActionInv' /\ WorkerType'
  BY <1>1 DEF IInv, ActionInv, WorkerType
<1>7. Current' = Current /\ Slot' = Slot
  BY <1>1 DEF Current, Slot
<1>8. \A o \in Orders : OrderInv(o)'
  BY <1>1, <1>2, <1>7 DEF IInv, OrderInv
<1>9. WorkerInv'
  <2>1. \A a, n : SettledUpTo(a, n)' <=> SettledUpTo(a, n)
    BY <1>1 DEF SettledUpTo
  <2> QED BY <1>1, <1>2, <1>7, <2>1 DEF IInv, WorkerInv
<1>10. GateInv'
  BY <1>1, <1>2, <1>3, <1>7 DEF IInv, GateInv
<1>11. OrphanInv'
  BY <1>1, <1>2, <1>7 DEF IInv, OrphanInv
<1> QED BY <1>1, <1>2, <1>4, <1>5, <1>6, <1>8, <1>9, <1>10, <1>11, StepInv

-----------------------------------------------------------------------------
(***************************************************************************)
(* The worker, before and after its orders.                                *)
(***************************************************************************)
LEMMA IdleFacts ==
  ASSUME IInv, NEW c \in DOMAIN command, OldestPending(c)
  PROVE  /\ worker.pc = "idle" /\ worker.cmd = 0 /\ command[c].status = "pending"
         /\ command[c] \in Command /\ command[c].action \in Actions
         /\ command[c].effects = 0 /\ CommandInv(c) /\ c # 0 /\ c \in Nat
         /\ past.abandoned = {} => \A a \in Actions : status[a] # "executing"
<1>1. worker.pc = "idle" /\ command[c].status = "pending"
  BY DEF OldestPending
<1>2. worker.cmd = 0 /\ CommandInv(c)
  BY <1>1 DEF IInv, WorkerType
<1>3. command[c] \in Command /\ c # 0 /\ c \in Nat
  BY DEF IInv, CommandType
<1>4. past.abandoned = {} => \A a \in Actions : status[a] # "executing"
  BY <1>2 DEF IInv, OrphanInv
<1> QED BY <1>1, <1>2, <1>3, <1>4 DEF Command, CommandInv

LEMMA NotExecutableStep == ASSUME IInv, NEW c \in DOMAIN command, NotExecutable(c) PROVE IInv'
<1>1. /\ OldestPending(c) /\ SetCommand(c, "failed", "none", "status")
      /\ UNCHANGED <<status, approver, order, venue, guard, session, worker, toggles, past>>
  BY DEF NotExecutable
<1>2. worker.pc = "idle" /\ worker.cmd = 0
  BY <1>1, IdleFacts
<1>3. Grow
  BY <1>1 DEF Grow
<1>4. PICK e \in Command : /\ command' = [command EXCEPT ![c] = e] /\ e.action = command[c].action
                           /\ e.status = "failed" /\ e.execution = "none" /\ e.reason = "status"
  BY <1>1, SetCommandRow DEF Execution, Reasons
<1>5. CommandType' /\ DOMAIN command' = DOMAIN command /\ \A d \in DOMAIN command' : CommandInv(d)'
  BY <1>3, <1>4, CommandWritten
<1>6. StoreType' /\ ActionInv' /\ WorkerType' /\ WorkerInv'
  BY <1>1, <1>2, <1>5 DEF IInv, StoreType, ActionInv, WorkerType, WorkerInv
<1>7. (\A o \in Orders : OrderInv(o)') /\ GateInv'
  BY <1>1, <1>2, OrdersFrame, GateFrame DEF OrderSteps
<1>8. OrphanInv'
  BY <1>1, <1>2 DEF IInv, OrphanInv
<1> QED BY <1>1, <1>3, <1>5, <1>6, <1>7, <1>8, StepInv

LEMMA ExecuteCreateStep == ASSUME IInv, NEW c \in DOMAIN command, ExecuteCreate(c) PROVE IInv'
<1>1. /\ OldestPending(c) /\ SetCommand(c, "running", "executing", "none")
      /\ worker' = [pc |-> "mark", cmd |-> c, i |-> 0, placed |-> FALSE]
      /\ UNCHANGED <<status, approver, order, venue, guard, session, toggles, past>>
  BY DEF ExecuteCreate
<1>2. /\ worker.pc = "idle" /\ command[c].effects = 0 /\ c # 0 /\ c \in Nat
      /\ command[c].action \in Actions
      /\ past.abandoned = {} => \A a \in Actions : status[a] # "executing"
  BY <1>1, IdleFacts
<1>3. Grow
  BY <1>1 DEF Grow
<1>4. PICK e \in Command : /\ command' = [command EXCEPT ![c] = e] /\ e.action = command[c].action
                           /\ e.status = "running" /\ e.execution = "executing" /\ e.reason = "none"
                           /\ e.effects = command[c].effects
  BY <1>1, SetCommandRow DEF Execution, Reasons
<1>5. /\ CommandType' /\ DOMAIN command' = DOMAIN command /\ command'[c] = e
      /\ \A d \in DOMAIN command' : CommandInv(d)'
  BY <1>3, <1>4, CommandWritten
<1>6. StoreType' /\ ActionInv'
  BY <1>1 DEF IInv, StoreType, ActionInv
<1>7. worker'.pc = "mark" /\ worker'.cmd = c /\ worker'.i = 0 /\ worker'.placed = FALSE
  BY <1>1
<1>8. WorkerType'
  BY <1>1, <1>2, <1>5 DEF WorkerType, Steps
<1>9. WorkerInv'
  <2>1. Current' = command[c].action
    BY <1>4, <1>5, <1>7 DEF Current
  <2>2. 0 \in 0..Len(Plan[command[c].action].orders)
    BY <1>2, PlanFacts
  <2> QED BY <1>2, <1>4, <1>5, <1>7, <2>1, <2>2 DEF WorkerInv, OrderSteps
<1>10. (\A o \in Orders : OrderInv(o)') /\ GateInv'
  BY <1>1, <1>2, <1>7, OrdersFrame, GateFrame DEF OrderSteps
<1>11. OrphanInv'
  BY <1>1, <1>2 DEF OrphanInv
<1> QED BY <1>1, <1>3, <1>5, <1>6, <1>8, <1>9, <1>10, <1>11, StepInv

(* The worker writes the status of its action. *)
LEMMA SetStatusFacts ==
  ASSUME IInv, worker.pc # "idle", NEW st \in Status \ {"recommended"}, SetStatus(st),
         UNCHANGED <<approver, order, venue, guard, past>>
  PROVE  /\ StoreType' /\ Grow /\ ActionInv'
         /\ \A a \in Actions : status'[a] = IF a = Current THEN st ELSE status[a]
<1>1. Current \in Actions /\ status[Current] # "recommended"
  BY CurrentFacts
<1>2. StoreType' /\ \A a \in Actions : status'[a] = IF a = Current THEN st ELSE status[a]
  BY <1>1 DEF IInv, StoreType, SetStatus
<1>3. Grow
  BY <1>2 DEF Grow
<1>4. ActionInv'
  BY <1>1, <1>2, <1>3, ActionsFrame
<1> QED BY <1>2, <1>3, <1>4

LEMMA SameCurrent ==
  ASSUME worker'.cmd = worker.cmd, command'[worker.cmd].action = command[worker.cmd].action
  PROVE  Current' = Current /\ (worker'.i = worker.i => Slot' = Slot)
BY DEF Current, Slot

(* The worker leaves its orders alone and does not begin one. *)
LEMMA WorkerFrame ==
  ASSUME IInv, worker.pc # "idle", UNCHANGED <<order, venue>>,
         worker'.cmd = worker.cmd, Current' = Current, worker'.placed = worker.placed,
         worker'.i \in 0..Len(Plan[Current].orders),
         command'[worker.cmd].status = "running",
         command'[worker.cmd].effects = command[worker.cmd].effects,
         worker'.pc \notin OrderSteps,
         worker'.pc = "complete_execution" => SettledUpTo(Current, Len(Plan[Current].orders))
  PROVE  WorkerInv'
<1>1. worker'.pc = "complete_execution" => SettledUpTo(Current, Len(Plan[Current].orders))'
  BY DEF SettledUpTo
<1>2. worker'.pc \notin {"submit", "place", "record", "persist", "persist_failed"}
  BY DEF OrderSteps
<1> QED BY <1>1, <1>2 DEF IInv, WorkerInv

LEMMA ExecuteMarkStep == ASSUME IInv, ExecuteMark PROVE IInv'
<1>1. /\ worker.pc = "mark" /\ SetStatus("executing") /\ WorkerAt("connector")
      /\ UNCHANGED <<approver, command, order, venue, guard, session, toggles, past>>
  BY DEF ExecuteMark
<1>2. worker.pc # "idle" /\ "executing" \in Status \ {"recommended"} /\ "connector" \in Steps
  BY <1>1 DEF Status, Steps, CheckSteps
<1>3. /\ StoreType' /\ Grow /\ ActionInv'
      /\ \A a \in Actions : status'[a] = IF a = Current THEN "executing" ELSE status[a]
  BY <1>1, <1>2, SetStatusFacts
<1>4. CommandType' /\ \A c \in DOMAIN command' : CommandInv(c)'
  BY <1>1, <1>3, CommandsFrame
<1>5. /\ WorkerType' /\ worker'.pc = "connector" /\ worker'.cmd = worker.cmd
      /\ worker'.i = worker.i /\ worker'.placed = worker.placed
  BY <1>1, <1>2, MoveOn
<1>6. Current' = Current
  BY <1>1, <1>5, SameCurrent
<1>7. WorkerInv'
  BY <1>1, <1>2, <1>5, <1>6, WorkerFrame DEF IInv, WorkerInv, OrderSteps
<1>8. (\A o \in Orders : OrderInv(o)') /\ GateInv'
  BY <1>1, <1>5, OrdersFrame, GateFrame DEF OrderSteps
<1>9. OrphanInv'
  BY <1>1, <1>2, <1>3, <1>5, <1>6, CurrentFacts DEF IInv, OrphanInv
<1> QED BY <1>1, <1>3, <1>4, <1>5, <1>7, <1>8, <1>9, StepInv

LEMMA CompleteActionStep == ASSUME IInv, CompleteAction PROVE IInv'
<1>1. /\ worker.pc = "complete_action" /\ SetStatus("completed") /\ WorkerAt("refresh")
      /\ UNCHANGED <<approver, command, order, venue, guard, session, toggles, past>>
  BY DEF CompleteAction
<1>2. worker.pc # "idle" /\ "completed" \in Status \ {"recommended"} /\ "refresh" \in Steps
  BY <1>1 DEF Status, Steps
<1>3. /\ StoreType' /\ Grow /\ ActionInv'
      /\ \A a \in Actions : status'[a] = IF a = Current THEN "completed" ELSE status[a]
  BY <1>1, <1>2, SetStatusFacts
<1>4. CommandType' /\ \A c \in DOMAIN command' : CommandInv(c)'
  BY <1>1, <1>3, CommandsFrame
<1>5. /\ WorkerType' /\ worker'.pc = "refresh" /\ worker'.cmd = worker.cmd
      /\ worker'.i = worker.i /\ worker'.placed = worker.placed
  BY <1>1, <1>2, MoveOn
<1>6. Current' = Current
  BY <1>1, <1>5, SameCurrent
<1>7. WorkerInv'
  BY <1>1, <1>2, <1>5, <1>6, WorkerFrame DEF IInv, WorkerInv, OrderSteps
<1>8. (\A o \in Orders : OrderInv(o)') /\ GateInv'
  BY <1>1, <1>5, OrdersFrame, GateFrame DEF OrderSteps
<1>9. OrphanInv'
  BY <1>1, <1>3 DEF IInv, OrphanInv
<1> QED BY <1>1, <1>3, <1>4, <1>5, <1>7, <1>8, <1>9, StepInv

LEMMA FailActionStep == ASSUME IInv, FailAction PROVE IInv'
<1>1. /\ worker.pc = "fail_action" /\ SetStatus("failed") /\ WorkerAt("fail_command")
      /\ UNCHANGED <<approver, command, order, venue, guard, session, toggles, past>>
  BY DEF FailAction
<1>2. worker.pc # "idle" /\ "failed" \in Status \ {"recommended"} /\ "fail_command" \in Steps
  BY <1>1 DEF Status, Steps
<1>3. /\ StoreType' /\ Grow /\ ActionInv'
      /\ \A a \in Actions : status'[a] = IF a = Current THEN "failed" ELSE status[a]
  BY <1>1, <1>2, SetStatusFacts
<1>4. CommandType' /\ \A c \in DOMAIN command' : CommandInv(c)'
  BY <1>1, <1>3, CommandsFrame
<1>5. /\ WorkerType' /\ worker'.pc = "fail_command" /\ worker'.cmd = worker.cmd
      /\ worker'.i = worker.i /\ worker'.placed = worker.placed
  BY <1>1, <1>2, MoveOn
<1>6. Current' = Current
  BY <1>1, <1>5, SameCurrent
<1>7. WorkerInv'
  BY <1>1, <1>2, <1>5, <1>6, WorkerFrame DEF IInv, WorkerInv, OrderSteps
<1>8. (\A o \in Orders : OrderInv(o)') /\ GateInv'
  BY <1>1, <1>5, OrdersFrame, GateFrame DEF OrderSteps
<1>9. OrphanInv'
  BY <1>1, <1>3 DEF IInv, OrphanInv
<1> QED BY <1>1, <1>3, <1>4, <1>5, <1>7, <1>8, <1>9, StepInv

(* The worker writes its command and its execution. *)
LEMMA WriteCommand ==
  ASSUME IInv, worker.pc # "idle",
         NEW st \in {"running", "completed", "failed"}, NEW ex \in Execution, NEW why \in Reasons,
         SetCommand(worker.cmd, st, ex, why),
         UNCHANGED <<status, approver, order, venue, guard, session>>,
         \/ past' = past
         \/ /\ past' \in [faults : Nat, abandoned : SUBSET Actions, misrecorded : SUBSET Orders,
                          phantom : SUBSET Orders, since : SUBSET Nat]
            /\ past'.abandoned = past.abandoned,
         ex = "completed" => SettledUpTo(Current, Len(Plan[Current].orders)),
         why = "concurrency" => MaxConcurrent < 2 \/ past.abandoned # {}
  PROVE  /\ Grow /\ CommandType' /\ DOMAIN command' = DOMAIN command
         /\ \A c \in DOMAIN command' : CommandInv(c)'
         /\ StoreType' /\ ActionInv'
         /\ command'[worker.cmd].status = st
         /\ command'[worker.cmd].action = command[worker.cmd].action
         /\ command'[worker.cmd].effects = command[worker.cmd].effects
<1>1. Grow
  BY DEF Grow
<1>2. worker.cmd \in DOMAIN command /\ Current = command[worker.cmd].action
  BY CurrentFacts
<1>3. PICK k \in DOMAIN command : k = worker.cmd
  BY <1>2
<1>4. PICK e \in Command : /\ command' = [command EXCEPT ![k] = e] /\ e.action = command[k].action
                           /\ e.status = st /\ e.execution = ex /\ e.reason = why
                           /\ e.effects = command[k].effects
  BY <1>3, SetCommandRow
<1>5. e.execution = "completed" => SettledUpTo(e.action, Len(Plan[e.action].orders))'
  BY <1>2, <1>3, <1>4 DEF SettledUpTo
<1>6. e.status # "pending" /\ (e.reason = "concurrency" => MaxConcurrent < 2 \/ past'.abandoned # {})
  BY <1>4
<1>7. /\ CommandType' /\ DOMAIN command' = DOMAIN command /\ command'[k] = e
      /\ \A d \in DOMAIN command' : CommandInv(d)'
  BY <1>1, <1>4, <1>5, <1>6, CommandWritten
<1>8. StoreType' /\ ActionInv'
  BY DEF IInv, StoreType, ActionInv
<1> QED BY <1>1, <1>3, <1>4, <1>7, <1>8

LEMMA AfterCheckIs ==
  ASSUME worker.pc \in CheckSteps
  PROVE  /\ worker.pc = "connector" => AfterCheck = "guard"
         /\ worker.pc = "guard" => AfterCheck = "count"
         /\ worker.pc = "count" => AfterCheck = "step"
<1> DEFINE k == CHOOSE k \in 1..3 : Checks[k] = worker.pc
<1>1. Checks[1] = "connector" /\ Checks[2] = "guard" /\ Checks[3] = "count" /\ Checks[4] = "step"
  BY DEF Checks
<1>2. \E j \in 1..3 : Checks[j] = worker.pc
  BY <1>1 DEF CheckSteps
<1>3. k \in 1..3 /\ Checks[k] = worker.pc
  BY <1>2
<1>4. AfterCheck = Checks[1 + k]
  BY DEF AfterCheck
<1> HIDE DEF k
<1>5. k \in {1, 2, 3}
  BY <1>3
<1>6. k = 1 => worker.pc = "connector" /\ AfterCheck = "guard"
  BY <1>1, <1>3, <1>4
<1>7. k = 2 => worker.pc = "guard" /\ AfterCheck = "count"
  BY <1>1, <1>3, <1>4
<1>8. k = 3 => worker.pc = "count" /\ AfterCheck = "step"
  BY <1>1, <1>3, <1>4
<1> QED BY <1>5, <1>6, <1>7, <1>8

(* A check that passes found its gate open. *)
LEMMA PassedGate ==
  ASSUME Refusal = "none"
  PROVE  /\ worker.pc = "connector" => ~(Plan[Current].live /\ ~guard.approved)
         /\ worker.pc = "guard" => ~guard.kill
<1>1. CASE worker.pc = "connector" /\ Plan[Current].live /\ ~guard.approved
  BY <1>1 DEF Refusal
<1>2. CASE worker.pc = "guard" /\ guard.kill
  BY <1>2 DEF Refusal
<1> QED BY <1>1, <1>2

LEMMA PassCheckStep == ASSUME IInv, PassCheck PROVE IInv'
<1>1. /\ worker.pc \in CheckSteps /\ Refusal = "none"
      /\ worker' = [worker EXCEPT !.pc = AfterCheck, !.i = 1]
      /\ UNCHANGED <<status, approver, command, order, venue, guard, session, toggles, past>>
  BY DEF PassCheck, CheckSteps
<1>2. worker.pc # "idle" /\ AfterCheck \in {"guard", "count", "step"}
      /\ worker.pc \notin {"place", "refresh", "fail_command"}
  BY <1>1, AfterCheckIs DEF CheckSteps
<1>3. /\ worker' \in [pc : Steps \cup {"idle"}, cmd : Nat, i : Nat, placed : BOOLEAN]
      /\ worker'.pc = AfterCheck /\ worker'.cmd = worker.cmd
      /\ worker'.i = 1 /\ worker'.placed = worker.placed
  BY <1>1, <1>2 DEF IInv, WorkerType, Steps, CheckSteps, OrderSteps
<1>4. /\ worker.cmd \in DOMAIN command /\ worker.cmd # 0 /\ Current \in Actions
      /\ Plan[Current].executable
  BY <1>2, CurrentFacts
<1>5. WorkerType'
  BY <1>1, <1>2, <1>3, <1>4 DEF WorkerType
<1>6. Current' = Current
  BY <1>1, <1>3, SameCurrent
<1>7. Grow /\ StoreType' /\ ActionInv'
  BY <1>1 DEF IInv, Grow, StoreType, ActionInv
<1>8. CommandType' /\ \A c \in DOMAIN command' : CommandInv(c)'
  BY <1>1, <1>7, CommandsFrame
<1>9. \A o \in Orders : OrderInv(o)'
  BY <1>1, <1>2, OrdersFrame
<1>10. WorkerInv'
  <2>1. 1 \in 0..Len(Plan[Current].orders)
    BY <1>4, PlanFacts
  <2>2. SettledUpTo(Current, 1 - 1)'
    BY <1>4, <1>6, PlanFacts DEF SettledUpTo
  <2> QED BY <1>1, <1>2, <1>3, <1>6, <2>1, <2>2 DEF IInv, WorkerInv
<1>11. GateInv'
  <2>1. worker.pc = "connector" => worker'.pc = "guard" /\ ~(Plan[Current].live /\ ~guard.approved)
    BY <1>1, <1>3, AfterCheckIs, PassedGate
  <2>2. worker.pc = "guard" => worker'.pc = "count" /\ ~guard.kill
    BY <1>1, <1>3, AfterCheckIs, PassedGate
  <2> QED BY <1>1, <1>3, <1>6, <2>1, <2>2 DEF IInv, GateInv, CheckSteps, OrderSteps
<1>12. OrphanInv'
  BY <1>1, <1>2, <1>3, <1>6, OrphanFrame
<1> QED BY <1>1, <1>5, <1>7, <1>8, <1>9, <1>10, <1>11, <1>12, StepInv

(* The concurrency limit counts the worker's own action; with nothing      *)
(* abandoned there is no other.                                            *)
LEMMA ConcurrencyRefusal ==
  ASSUME IInv, worker.pc # "idle", Refusal = "concurrency"
  PROVE  MaxConcurrent < 2 \/ past.abandoned # {}
<1> SUFFICES ASSUME past.abandoned = {} PROVE MaxConcurrent < 2
  OBVIOUS
<1>1. Cardinality(Executing) >= MaxConcurrent
  BY DEF Refusal
<1>2. Executing \subseteq {Current}
  BY DEF IInv, OrphanInv, Executing
<1>3. IsFiniteSet({Current}) /\ Cardinality({Current}) = 1
  BY FS_Singleton
<1>4. Cardinality(Executing) \in Nat /\ Cardinality(Executing) <= 1
  BY <1>2, <1>3, FS_Subset, FS_CardinalityType
<1> QED BY <1>1, <1>4, BoundsAssumption

LEMMA RefusalType == Refusal \in Reasons
<1>1. CASE Refusal # "none"
  BY DEF Refusal, Reasons
<1> QED BY <1>1 DEF Reasons

LEMMA FailureStep == ASSUME IInv, FailCheck \/ StepThrows PROVE IInv'
<1>1. /\ worker.pc \in CheckSteps \cup {"step", "persist", "persist_failed"}
      /\ WorkerAt("fail_action")
      /\ UNCHANGED <<status, approver, order, venue, guard, session, toggles, past>>
  BY DEF FailCheck, StepThrows, CheckSteps
<1>2. worker.pc # "idle" /\ worker.pc # "place" /\ "fail_action" \in Steps
  BY <1>1 DEF CheckSteps, Steps
<1>3. PICK why \in Reasons : /\ SetCommand(worker.cmd, "running", "failed", why)
                             /\ why = "concurrency" => MaxConcurrent < 2 \/ past.abandoned # {}
  <2>1. CASE FailCheck
    BY <1>2, <2>1, RefusalType, ConcurrencyRefusal DEF FailCheck
  <2>2. CASE StepThrows
    BY <2>2 DEF StepThrows, Reasons
  <2> QED BY <2>1, <2>2
<1>4. /\ Grow /\ CommandType' /\ DOMAIN command' = DOMAIN command
      /\ \A c \in DOMAIN command' : CommandInv(c)'
      /\ StoreType' /\ ActionInv'
      /\ command'[worker.cmd].status = "running"
      /\ command'[worker.cmd].action = command[worker.cmd].action
      /\ command'[worker.cmd].effects = command[worker.cmd].effects
  <2>1. "failed" \in Execution /\ "failed" # "completed"
    BY DEF Execution
  <2> QED BY <1>1, <1>2, <1>3, <2>1, WriteCommand
<1>5. /\ WorkerType' /\ worker'.pc = "fail_action" /\ worker'.cmd = worker.cmd
      /\ worker'.i = worker.i /\ worker'.placed = worker.placed
  BY <1>1, <1>2, <1>4, MoveOn
<1>6. Current' = Current
  BY <1>4, <1>5, SameCurrent
<1>7. WorkerInv'
  BY <1>1, <1>2, <1>4, <1>5, <1>6, WorkerFrame DEF IInv, WorkerInv, OrderSteps
<1>8. (\A o \in Orders : OrderInv(o)') /\ GateInv'
  BY <1>1, <1>2, <1>5, OrdersFrame, GateFrame DEF OrderSteps
<1>9. OrphanInv'
  BY <1>1, <1>5, <1>6, OrphanFrame
<1> QED BY <1>1, <1>4, <1>5, <1>7, <1>8, <1>9, StepInv

(* The failure that could not be written leaves a phantom order at most.   *)
LEMMA FailureNotRecordedStep == ASSUME IInv, FailureNotRecorded PROVE IInv'
<1>1. /\ worker.pc \in {"submit", "place", "record"} /\ WorkerAt("fail_action")
      /\ SetCommand(worker.cmd, "running", "failed", "exception")
      /\ past' = [past EXCEPT !.faults = @ + 1,
                              !.phantom = IF worker.pc = "place" THEN @ \cup {Slot} ELSE @]
      /\ UNCHANGED <<status, approver, order, venue, guard, session, toggles>>
  BY DEF FailureNotRecorded
<1>2. /\ worker.pc # "idle" /\ worker.pc \in OrderSteps /\ "fail_action" \in Steps
      /\ "fail_action" \notin {"guard", "count"} \cup OrderSteps
  BY <1>1 DEF OrderSteps, Steps
<1>3. Slot \in Orders
  BY <1>2, SlotFacts
<1>4. /\ past' \in [faults : Nat, abandoned : SUBSET Actions, misrecorded : SUBSET Orders,
                    phantom : SUBSET Orders, since : SUBSET Nat]
      /\ past'.abandoned = past.abandoned /\ past'.misrecorded = past.misrecorded
      /\ past'.since = past.since /\ past'.faults > 0 /\ past.phantom \subseteq past'.phantom
      /\ worker.pc = "place" => Slot \in past'.phantom
  <2>1. past \in [faults : Nat, abandoned : SUBSET Actions, misrecorded : SUBSET Orders,
                  phantom : SUBSET Orders, since : SUBSET Nat]
    BY DEF IInv, StoreType
  <2>2. PICK n \in Nat : n = past.faults + 1 /\ n > 0
    BY <2>1
  <2>3. PICK lost \in SUBSET Orders :
          lost = IF worker.pc = "place" THEN past.phantom \cup {Slot} ELSE past.phantom
    BY <1>3, <2>1
  <2>4. past' = [past EXCEPT !.faults = n, !.phantom = lost]
    BY <1>1, <2>1, <2>2, <2>3
  <2> QED BY <2>1, <2>2, <2>3, <2>4
<1>5. /\ Grow /\ CommandType' /\ DOMAIN command' = DOMAIN command
      /\ \A c \in DOMAIN command' : CommandInv(c)'
      /\ StoreType' /\ ActionInv'
      /\ command'[worker.cmd].status = "running"
      /\ command'[worker.cmd].action = command[worker.cmd].action
      /\ command'[worker.cmd].effects = command[worker.cmd].effects
  <2>1. "failed" \in Execution /\ "failed" # "completed" /\ "exception" \in Reasons
    BY DEF Execution, Reasons
  <2> QED BY <1>1, <1>2, <1>4, <2>1, WriteCommand
<1>6. /\ WorkerType' /\ worker'.pc = "fail_action" /\ worker'.cmd = worker.cmd
      /\ worker'.i = worker.i /\ worker'.placed = worker.placed
  BY <1>1, <1>2, <1>5, MoveOn
<1>7. Current' = Current
  BY <1>5, <1>6, SameCurrent
<1>8. WorkerInv'
  BY <1>1, <1>2, <1>5, <1>6, <1>7, WorkerFrame DEF IInv, WorkerInv
<1>9. \A o \in Orders : OrderInv(o)'
  <2> SUFFICES ASSUME NEW o \in Orders PROVE OrderInv(o)'
    OBVIOUS
  <2>1. OrderInv(o)
    BY DEF IInv
  <2> QED BY <1>1, <1>4, <2>1 DEF OrderInv
<1>10. GateInv'
  BY <1>1, <1>2, <1>4, <1>6, GateFrame
<1>11. OrphanInv'
  BY <1>1, <1>4, <1>6, <1>7, OrphanFrame
<1> QED BY <1>1, <1>5, <1>6, <1>8, <1>9, <1>10, <1>11, StepInv

LEMMA CompleteExecutionStep == ASSUME IInv, CompleteExecution PROVE IInv'
<1>1. /\ worker.pc = "complete_execution" /\ WorkerAt("complete_action")
      /\ SetCommand(worker.cmd, "running", "completed", "none")
      /\ UNCHANGED <<status, approver, order, venue, guard, session, toggles, past>>
  BY DEF CompleteExecution
<1>2. worker.pc # "idle" /\ "complete_action" \in Steps
      /\ "completed" \in Execution /\ "none" \in Reasons /\ "none" # "concurrency"
  BY <1>1 DEF Steps, Execution, Reasons
<1>3. SettledUpTo(Current, Len(Plan[Current].orders))
  BY <1>1 DEF IInv, WorkerInv
<1>4. /\ Grow /\ CommandType' /\ DOMAIN command' = DOMAIN command
      /\ \A c \in DOMAIN command' : CommandInv(c)'
      /\ StoreType' /\ ActionInv'
      /\ command'[worker.cmd].status = "running"
      /\ command'[worker.cmd].action = command[worker.cmd].action
      /\ command'[worker.cmd].effects = command[worker.cmd].effects
  BY <1>1, <1>2, <1>3, WriteCommand
<1>5. /\ WorkerType' /\ worker'.pc = "complete_action" /\ worker'.cmd = worker.cmd
      /\ worker'.i = worker.i /\ worker'.placed = worker.placed
  BY <1>1, <1>2, <1>4, MoveOn
<1>6. Current' = Current
  BY <1>4, <1>5, SameCurrent
<1>7. WorkerInv'
  BY <1>1, <1>2, <1>4, <1>5, <1>6, WorkerFrame DEF IInv, WorkerInv, OrderSteps
<1>8. (\A o \in Orders : OrderInv(o)') /\ GateInv'
  BY <1>1, <1>2, <1>5, OrdersFrame, GateFrame DEF OrderSteps
<1>9. OrphanInv'
  BY <1>1, <1>5, <1>6, OrphanFrame
<1> QED BY <1>1, <1>4, <1>5, <1>7, <1>8, <1>9, StepInv

(* The worker lets go of its command. *)
LEMMA SettleStep == ASSUME IInv, Finish \/ FailCommand PROVE IInv'
<1>1. /\ worker.pc \in {"refresh", "fail_command"} /\ worker' = Idle
      /\ UNCHANGED <<status, approver, order, venue, guard, session, toggles, past>>
  BY DEF Finish, FailCommand
<1>2. worker.pc # "idle" /\ worker.pc # "place"
  BY <1>1
<1> DEFINE ex == command[worker.cmd].execution
<1>3. /\ command[worker.cmd] \in Command /\ CommandInv(worker.cmd)
      /\ Current = command[worker.cmd].action
  BY <1>2, CurrentFacts
<1>4. /\ ex \in Execution /\ command[worker.cmd].reason \in Reasons
      /\ ex = "completed" => SettledUpTo(Current, Len(Plan[Current].orders))
      /\ command[worker.cmd].reason = "concurrency" => MaxConcurrent < 2 \/ past.abandoned # {}
  BY <1>3 DEF Command, CommandInv
<1>5. PICK st \in {"completed", "failed"}, why \in Reasons :
        /\ SetCommand(worker.cmd, st, ex, why)
        /\ why = "concurrency" => MaxConcurrent < 2 \/ past.abandoned # {}
  BY <1>4 DEF Finish, FailCommand, Reasons
<1>6. /\ Grow /\ CommandType' /\ DOMAIN command' = DOMAIN command
      /\ \A c \in DOMAIN command' : CommandInv(c)'
      /\ StoreType' /\ ActionInv'
  <2> HIDE DEF ex
  <2> QED BY <1>1, <1>2, <1>4, <1>5, WriteCommand
<1>7. worker'.pc = "idle" /\ worker'.cmd = 0 /\ WorkerType' /\ WorkerInv'
  BY <1>1 DEF Idle, WorkerType, WorkerInv
<1>8. (\A o \in Orders : OrderInv(o)') /\ GateInv'
  BY <1>1, <1>2, <1>7, OrdersFrame, GateFrame DEF OrderSteps
<1>9. OrphanInv'
  BY <1>1 DEF IInv, OrphanInv
<1> QED BY <1>1, <1>6, <1>7, <1>8, <1>9, StepInv

-----------------------------------------------------------------------------
(***************************************************************************)
(* The worker at an order.                                                 *)
(***************************************************************************)
LEMMA SettledNext ==
  ASSUME NEW a \in Actions, NEW i \in Nat, SettledUpTo(a, i - 1), order[<<a, i>>] \in Settled
  PROVE  SettledUpTo(a, i)
<1> SUFFICES ASSUME NEW j \in Slots(a), j <= i PROVE order[<<a, j>>] \in Settled
  BY DEF SettledUpTo
<1>1. j \in Nat
  BY PlanFacts
<1>2. CASE j = i
  BY <1>2
<1>3. CASE j # i
  <2>1. j <= i - 1
    BY <1>1, <1>3
  <2> QED BY <2>1 DEF SettledUpTo
<1> QED BY <1>2, <1>3

(* The order is dealt with: the next one, or the end of the plan. *)
LEMMA NextOrderStep == ASSUME IInv, KnownOrder \/ PersistStep PROVE IInv'
<1>1. /\ worker.pc \in {"step", "persist", "persist_failed"} /\ NextOrder
      /\ UNCHANGED <<status, approver, command, order, venue, guard, session, toggles, past>>
  BY DEF KnownOrder, PersistStep
<1>2. worker.pc \in OrderSteps /\ worker.pc # "idle" /\ worker.pc # "place"
  BY <1>1 DEF OrderSteps
<1>3. /\ worker.i \in Slots(Current) /\ SettledUpTo(Current, worker.i - 1) /\ worker.i \in Nat
      /\ Slot = <<Current, worker.i>>
  BY <1>2, SlotFacts
<1>4. /\ worker.cmd \in DOMAIN command /\ worker.cmd # 0 /\ Current \in Actions
      /\ worker.cmd \in Nat
  BY <1>2, CurrentFacts
<1>5. order[Slot] \in Settled
  BY <1>1, <1>2 DEF KnownOrder, PersistStep, IInv, WorkerInv, Settled
<1>6. SettledUpTo(Current, worker.i)
  BY <1>3, <1>4, <1>5, SettledNext
<1>7. /\ Len(Plan[Current].orders) \in Nat /\ worker.i \in 1..Len(Plan[Current].orders)
  BY <1>3, <1>4, PlanFacts
<1>8. /\ WorkerType' /\ worker'.cmd = worker.cmd /\ worker'.placed = worker.placed
      /\ \/ /\ worker.i < Len(Plan[Current].orders)
            /\ worker'.pc = "step" /\ worker'.i = worker.i + 1
         \/ /\ worker.i = Len(Plan[Current].orders)
            /\ worker'.pc = "complete_execution" /\ worker'.i = 0
  <2>1. worker \in [pc : Steps \cup {"idle"}, cmd : Nat, i : Nat, placed : BOOLEAN]
    BY DEF IInv, WorkerType
  <2>2. "step" \in Steps /\ "complete_execution" \in Steps
    BY DEF Steps, OrderSteps
  <2>3. CASE worker.i < Len(Plan[Current].orders)
    <3>1. worker' = [worker EXCEPT !.pc = "step", !.i = @ + 1]
      BY <1>1, <2>3 DEF NextOrder
    <3>2. /\ worker' \in [pc : Steps \cup {"idle"}, cmd : Nat, i : Nat, placed : BOOLEAN]
          /\ worker'.cmd = worker.cmd /\ worker'.placed = worker.placed
          /\ worker'.pc = "step" /\ worker'.i = worker.i + 1
      <4>1. worker' = [worker EXCEPT !.pc = "step", !.i = worker.i + 1] /\ worker.i + 1 \in Nat
        BY <1>3, <2>1, <3>1
      <4> QED BY <2>1, <2>2, <4>1
    <3>3. WorkerType'
      BY <1>1, <1>4, <3>2 DEF WorkerType
    <3> QED BY <2>3, <3>2, <3>3
  <2>4. CASE ~(worker.i < Len(Plan[Current].orders))
    <3>1. worker' = [worker EXCEPT !.pc = "complete_execution", !.i = 0]
      BY <1>1, <2>4 DEF NextOrder
    <3>2. /\ worker' \in [pc : Steps \cup {"idle"}, cmd : Nat, i : Nat, placed : BOOLEAN]
          /\ worker'.cmd = worker.cmd /\ worker'.placed = worker.placed
          /\ worker'.pc = "complete_execution" /\ worker'.i = 0
      BY <2>1, <2>2, <3>1
    <3>3. WorkerType'
      BY <1>1, <1>4, <3>2 DEF WorkerType
    <3>4. worker.i = Len(Plan[Current].orders)
      BY <1>7, <2>4
    <3> QED BY <3>2, <3>3, <3>4
  <2> QED BY <2>3, <2>4
<1>9. Current' = Current
  BY <1>1, <1>8, SameCurrent
<1>10. Grow /\ StoreType' /\ ActionInv'
  BY <1>1 DEF IInv, Grow, StoreType, ActionInv
<1>11. CommandType' /\ \A c \in DOMAIN command' : CommandInv(c)'
  BY <1>1, <1>10, CommandsFrame
<1>12. \A o \in Orders : OrderInv(o)'
  BY <1>1, <1>2, OrdersFrame
<1>13. WorkerInv'
  <2>1. command'[worker.cmd].status = "running"
        /\ command'[worker.cmd].effects = IF worker.placed THEN 1 ELSE 0
    BY <1>1, <1>2 DEF IInv, WorkerInv
  <2>2. CASE worker'.pc = "step" /\ worker'.i = worker.i + 1 /\ worker.i < Len(Plan[Current].orders)
    <3>1. worker'.i \in 0..Len(Plan[Current].orders) /\ worker'.i > 0 /\ worker'.i - 1 = worker.i
      BY <1>7, <2>2
    <3>2. SettledUpTo(Current, worker.i - 1)'
      BY <1>1, <1>6, <1>9, <3>1 DEF SettledUpTo
    <3> QED BY <1>8, <1>9, <2>1, <2>2, <3>1, <3>2 DEF WorkerInv
  <2>3. CASE /\ worker'.pc = "complete_execution" /\ worker'.i = 0
             /\ worker.i = Len(Plan[Current].orders)
    <3>1. worker'.i \in 0..Len(Plan[Current].orders)
      BY <1>7, <2>3
    <3>2. SettledUpTo(Current, Len(Plan[Current].orders))'
      BY <1>1, <1>6, <1>9, <2>3 DEF SettledUpTo
    <3> QED BY <1>8, <1>9, <2>1, <2>3, <3>1, <3>2 DEF WorkerInv, OrderSteps
  <2> QED BY <1>8, <2>2, <2>3
<1>14. GateInv'
  BY <1>1, <1>2, <1>8, <1>9, GateFrame
<1>15. OrphanInv'
  BY <1>1, <1>8, <1>9, OrphanFrame
<1> QED BY <1>1, <1>8, <1>10, <1>11, <1>12, <1>13, <1>14, <1>15, StepInv

(* A step that writes the worker's order. *)
LEMMA OrderWritten ==
  ASSUME IInv, worker.pc \in OrderSteps, NEW st \in OrderStatus,
         order' = [order EXCEPT ![Slot] = st], order[Slot] \in Settled => st \in Settled,
         UNCHANGED <<status, approver, command, venue, guard, session>>,
         past' \in [faults : Nat, abandoned : SUBSET Actions, misrecorded : SUBSET Orders,
                    phantom : SUBSET Orders, since : SUBSET Nat],
         past'.abandoned = past.abandoned, past'.since = past.since,
         NEW p \in OrderSteps, WorkerAt(p)
  PROVE  /\ Slot \in Orders /\ Grow /\ StoreType' /\ ActionInv' /\ CommandType' /\ WorkerType'
         /\ \A c \in DOMAIN command' : CommandInv(c)'
         /\ \A o \in Orders : order'[o] = IF o = Slot THEN st ELSE order[o]
         /\ worker'.pc = p /\ worker'.cmd = worker.cmd /\ worker'.placed = worker.placed
         /\ Current' = Current /\ Slot' = Slot /\ GateInv' /\ OrphanInv'
         /\ command'[worker.cmd].status = "running"
         /\ command'[worker.cmd].effects = IF worker.placed THEN 1 ELSE 0
         /\ worker'.i \in 0..Len(Plan[Current].orders) /\ worker'.i > 0
         /\ SettledUpTo(Current, worker.i - 1)'
<1>1. worker.pc # "idle" /\ p \in Steps /\ p \notin {"refresh", "fail_command"}
  BY DEF OrderSteps, Steps
<1>2. Slot \in Orders /\ SettledUpTo(Current, worker.i - 1) /\ Current \in Actions
  BY <1>1, SlotFacts, CurrentFacts
<1>3. StoreType' /\ \A o \in Orders : order'[o] = IF o = Slot THEN st ELSE order[o]
  BY <1>2 DEF IInv, StoreType
<1>4. Grow
  BY <1>3 DEF Grow
<1>5. ActionInv'
  BY DEF IInv, ActionInv
<1>6. CommandType' /\ \A c \in DOMAIN command' : CommandInv(c)'
  BY <1>4, CommandsFrame
<1>7. /\ WorkerType' /\ worker'.pc = p /\ worker'.cmd = worker.cmd
      /\ worker'.i = worker.i /\ worker'.placed = worker.placed
  BY <1>1, MoveOn
<1>8. Current' = Current /\ Slot' = Slot
  BY <1>7, SameCurrent
<1>9. GateInv' /\ OrphanInv'
  BY <1>1, <1>7, <1>8, GateFrame, OrphanFrame
<1>10. /\ command'[worker.cmd].status = "running"
       /\ command'[worker.cmd].effects = IF worker.placed THEN 1 ELSE 0
       /\ worker'.i \in 0..Len(Plan[Current].orders) /\ worker'.i > 0
  BY <1>1, <1>7 DEF IInv, WorkerInv
<1>11. SettledUpTo(Current, worker.i - 1)'
  <2>1. \A j \in Slots(Current) : j <= worker.i - 1 => order'[<<Current, j>>] \in Settled
    BY <1>2, <1>4, OrderOf DEF SettledUpTo, Grow
  <2> QED BY <1>7, <1>8, <2>1 DEF SettledUpTo
<1> QED BY <1>2, <1>3, <1>4, <1>5, <1>6, <1>7, <1>8, <1>9, <1>10, <1>11

LEMMA SaveOrderStep == ASSUME IInv, SaveOrder PROVE IInv'
<1> DEFINE st == IF order[Slot] = "none" THEN "pending" ELSE order[Slot]
<1>1. /\ worker.pc = "step" /\ order[Slot] \notin {"submitted", "filled"} /\ WorkerAt("submit")
      /\ UNCHANGED <<status, approver, command, venue, guard, session, toggles, past>>
  BY DEF SaveOrder
<1>2. worker.pc \in OrderSteps /\ "submit" \in OrderSteps
  BY <1>1 DEF OrderSteps
<1>3. Slot \in Orders /\ OrderInv(Slot)
  BY <1>2, SlotFacts DEF IInv
<1>4. /\ order' = [order EXCEPT ![Slot] = st] /\ st \in OrderStatus
      /\ st \notin {"submitted", "filled"} /\ (order[Slot] \in Settled => st \in Settled)
  BY <1>1, <1>3 DEF SaveOrder, IInv, StoreType, OrderStatus, Settled
<1>5. past \in [faults : Nat, abandoned : SUBSET Actions, misrecorded : SUBSET Orders,
                phantom : SUBSET Orders, since : SUBSET Nat]
  BY DEF IInv, StoreType
<1> HIDE DEF st
<1>6. /\ Grow /\ StoreType' /\ ActionInv' /\ CommandType' /\ WorkerType'
      /\ \A c \in DOMAIN command' : CommandInv(c)'
      /\ \A o \in Orders : order'[o] = IF o = Slot THEN st ELSE order[o]
      /\ worker'.pc = "submit" /\ worker'.cmd = worker.cmd /\ worker'.placed = worker.placed
      /\ Current' = Current /\ Slot' = Slot /\ GateInv' /\ OrphanInv'
      /\ command'[worker.cmd].status = "running"
      /\ command'[worker.cmd].effects = IF worker.placed THEN 1 ELSE 0
      /\ worker'.i \in 0..Len(Plan[Current].orders) /\ worker'.i > 0
      /\ SettledUpTo(Current, worker.i - 1)'
  BY <1>1, <1>2, <1>4, <1>5, OrderWritten
<1>7. \A o \in Orders : OrderInv(o)'
  BY <1>1, <1>4, <1>6 DEF IInv, OrderInv
<1>8. venue.placed[Slot] > 0 => Slot \in past.misrecorded
  BY <1>1, <1>3 DEF OrderInv
<1>9. WorkerInv'
  BY <1>1, <1>6, <1>8 DEF WorkerInv
<1> QED BY <1>1, <1>6, <1>7, <1>9, StepInv

LEMMA MarkSubmittedStep == ASSUME IInv, MarkSubmitted PROVE IInv'
<1>1. /\ worker.pc = "submit" /\ order' = [order EXCEPT ![Slot] = "submitted"] /\ WorkerAt("place")
      /\ UNCHANGED <<status, approver, command, venue, guard, session, toggles, past>>
  BY DEF MarkSubmitted
<1>2. worker.pc \in OrderSteps /\ "place" \in OrderSteps /\ worker.pc # "idle"
      /\ "submitted" \in OrderStatus /\ "submitted" \in Settled
  BY <1>1 DEF OrderSteps, OrderStatus, Settled
<1>3. past \in [faults : Nat, abandoned : SUBSET Actions, misrecorded : SUBSET Orders,
                phantom : SUBSET Orders, since : SUBSET Nat]
  BY DEF IInv, StoreType
<1>4. /\ Slot \in Orders /\ Grow /\ StoreType' /\ ActionInv' /\ CommandType' /\ WorkerType'
      /\ \A c \in DOMAIN command' : CommandInv(c)'
      /\ \A o \in Orders : order'[o] = IF o = Slot THEN "submitted" ELSE order[o]
      /\ worker'.pc = "place" /\ worker'.cmd = worker.cmd /\ worker'.placed = worker.placed
      /\ Current' = Current /\ Slot' = Slot /\ GateInv' /\ OrphanInv'
      /\ command'[worker.cmd].status = "running"
      /\ command'[worker.cmd].effects = IF worker.placed THEN 1 ELSE 0
      /\ worker'.i \in 0..Len(Plan[Current].orders) /\ worker'.i > 0
      /\ SettledUpTo(Current, worker.i - 1)'
  BY <1>1, <1>2, <1>3, OrderWritten
<1>5. \A o \in Orders : OrderInv(o)'
  BY <1>1, <1>4 DEF IInv, OrderInv
<1>6. venue.placed[Slot] > 0 => Slot \in past.misrecorded
  BY <1>1, <1>2 DEF IInv, WorkerInv
<1>7. WorkerInv'
  BY <1>1, <1>2, <1>4, <1>6 DEF WorkerInv
<1> QED BY <1>1, <1>4, <1>5, <1>7, StepInv

LEMMA RecordAnswerStep == ASSUME IInv, RecordAnswer PROVE IInv'
<1>1. /\ worker.pc = "record" /\ WorkerAt("persist")
      /\ UNCHANGED <<status, approver, command, venue, guard, session, toggles, past>>
  BY DEF RecordAnswer
<1>2. PICK st \in {"filled", "submitted"} : order' = [order EXCEPT ![Slot] = st]
  BY DEF RecordAnswer
<1>3. worker.pc \in OrderSteps /\ "persist" \in OrderSteps /\ worker.pc # "idle"
      /\ st \in OrderStatus /\ st \in Settled
  BY <1>1 DEF OrderSteps, OrderStatus, Settled
<1>4. past \in [faults : Nat, abandoned : SUBSET Actions, misrecorded : SUBSET Orders,
                phantom : SUBSET Orders, since : SUBSET Nat]
  BY DEF IInv, StoreType
<1>5. /\ Slot \in Orders /\ Grow /\ StoreType' /\ ActionInv' /\ CommandType' /\ WorkerType'
      /\ \A c \in DOMAIN command' : CommandInv(c)'
      /\ \A o \in Orders : order'[o] = IF o = Slot THEN st ELSE order[o]
      /\ worker'.pc = "persist" /\ worker'.cmd = worker.cmd /\ worker'.placed = worker.placed
      /\ Current' = Current /\ Slot' = Slot /\ GateInv' /\ OrphanInv'
      /\ command'[worker.cmd].status = "running"
      /\ command'[worker.cmd].effects = IF worker.placed THEN 1 ELSE 0
      /\ worker'.i \in 0..Len(Plan[Current].orders) /\ worker'.i > 0
      /\ SettledUpTo(Current, worker.i - 1)'
  BY <1>1, <1>2, <1>3, <1>4, OrderWritten
<1>6. venue.placed[Slot] > 0
  BY <1>1, <1>3 DEF IInv, WorkerInv
<1>7. \A o \in Orders : OrderInv(o)'
  BY <1>1, <1>5, <1>6 DEF IInv, OrderInv
<1>8. WorkerInv'
  BY <1>1, <1>3, <1>5 DEF WorkerInv
<1> QED BY <1>1, <1>5, <1>7, <1>8, StepInv

LEMMA RecordFailureStep == ASSUME IInv, RecordFailure PROVE IInv'
<1>1. /\ worker.pc \in {"submit", "place", "record", "persist"}
      /\ order' = [order EXCEPT ![Slot] = "failed"] /\ WorkerAt("persist_failed")
      /\ past' = [past EXCEPT !.misrecorded = IF venue.placed[Slot] > 0 THEN @ \cup {Slot} ELSE @]
      /\ UNCHANGED <<status, approver, command, venue, guard, session, toggles>>
  BY DEF RecordFailure
<1>2. worker.pc \in OrderSteps /\ "persist_failed" \in OrderSteps /\ worker.pc # "idle"
      /\ "failed" \in OrderStatus /\ "failed" \in Settled
  BY <1>1 DEF OrderSteps, OrderStatus, Settled
<1>3. Slot \in Orders
  BY <1>2, SlotFacts
<1>4. /\ past' \in [faults : Nat, abandoned : SUBSET Actions, misrecorded : SUBSET Orders,
                    phantom : SUBSET Orders, since : SUBSET Nat]
      /\ past'.abandoned = past.abandoned /\ past'.since = past.since /\ past'.faults = past.faults
      /\ past'.phantom = past.phantom
      /\ past'.misrecorded = IF venue.placed[Slot] > 0 THEN past.misrecorded \cup {Slot}
                             ELSE past.misrecorded
  BY <1>1, <1>3 DEF IInv, StoreType
<1>5. /\ Slot \in Orders /\ Grow /\ StoreType' /\ ActionInv' /\ CommandType' /\ WorkerType'
      /\ \A c \in DOMAIN command' : CommandInv(c)'
      /\ \A o \in Orders : order'[o] = IF o = Slot THEN "failed" ELSE order[o]
      /\ worker'.pc = "persist_failed" /\ worker'.cmd = worker.cmd /\ worker'.placed = worker.placed
      /\ Current' = Current /\ Slot' = Slot /\ GateInv' /\ OrphanInv'
      /\ command'[worker.cmd].status = "running"
      /\ command'[worker.cmd].effects = IF worker.placed THEN 1 ELSE 0
      /\ worker'.i \in 0..Len(Plan[Current].orders) /\ worker'.i > 0
      /\ SettledUpTo(Current, worker.i - 1)'
  BY <1>1, <1>2, <1>4, OrderWritten
<1>6. \A o \in Orders : OrderInv(o)'
  BY <1>1, <1>4, <1>5 DEF IInv, OrderInv
<1>7. WorkerInv'
  BY <1>1, <1>2, <1>5 DEF WorkerInv
<1> QED BY <1>1, <1>5, <1>6, <1>7, StepInv

(* The venue places the order unless it knows its id. *)
LEMMA PlaceOrderStep == ASSUME IInv, PlaceOrder PROVE IInv'
<1>1. /\ worker.pc = "place"
      /\ venue' = [index  |-> venue.index \cup {Slot},
                   placed |-> [venue.placed EXCEPT ![Slot] = IF Slot \in venue.index THEN @ ELSE @ + 1]]
      /\ command' = [command EXCEPT ![worker.cmd].effects = IF worker.placed THEN @ ELSE @ + 1]
      /\ past' = [past EXCEPT !.since = Since]
      /\ worker' = [worker EXCEPT !.pc = "record", !.placed = TRUE]
      /\ UNCHANGED <<status, approver, order, guard, session, toggles>>
  BY DEF PlaceOrder
<1>2. worker.pc \in OrderSteps /\ worker.pc # "idle" /\ "record" \in Steps /\ "record" \in OrderSteps
  BY <1>1 DEF OrderSteps, Steps
<1>3. /\ Slot \in Orders /\ Current \in Actions /\ worker.cmd \in DOMAIN command /\ worker.cmd # 0
      /\ worker.cmd \in Nat /\ SettledUpTo(Current, worker.i - 1)
      /\ command[worker.cmd] \in Command /\ Current = command[worker.cmd].action
  BY <1>2, SlotFacts, CurrentFacts
<1>4. /\ command[worker.cmd].status = "running"
      /\ command[worker.cmd].effects = IF worker.placed THEN 1 ELSE 0
      /\ worker.i \in 0..Len(Plan[Current].orders) /\ worker.i > 0
      /\ order[Slot] = "submitted"
      /\ venue.placed[Slot] > 0 => Slot \in past.misrecorded
  BY <1>1, <1>2 DEF IInv, WorkerInv
<1>5. /\ venue' \in [index : SUBSET Orders, placed : [Orders -> Nat]]
      /\ venue'.index = venue.index \cup {Slot}
      /\ \A o \in Orders : venue.placed[o] \in Nat
      /\ \A o \in Orders : venue'.placed[o] =
           IF o = Slot /\ Slot \notin venue.index THEN venue.placed[o] + 1 ELSE venue.placed[o]
  <2>1. venue \in [index : SUBSET Orders, placed : [Orders -> Nat]]
    BY DEF IInv, StoreType
  <2> QED BY <1>1, <1>3, <2>1
<1>6. Since = past.since \/ Since = past.since \cup {worker.cmd}
  BY DEF Since
<1>7. /\ past' \in [faults : Nat, abandoned : SUBSET Actions, misrecorded : SUBSET Orders,
                    phantom : SUBSET Orders, since : SUBSET Nat]
      /\ past'.abandoned = past.abandoned /\ past'.misrecorded = past.misrecorded
      /\ past'.phantom = past.phantom /\ past'.faults = past.faults /\ past'.since = Since
  BY <1>1, <1>3, <1>6 DEF IInv, StoreType
<1>8. StoreType' /\ Grow /\ ActionInv'
  BY <1>1, <1>5, <1>7 DEF IInv, StoreType, Grow, ActionInv
<1>9. PICK k \in DOMAIN command : k = worker.cmd
  BY <1>3
<1>10. PICK e \in Command : e = [command[k] EXCEPT !.effects = 1]
  BY <1>3, <1>9 DEF Command
<1>11. /\ e.action = command[k].action /\ e.status = "running" /\ e.effects = 1
       /\ e.execution = command[k].execution /\ e.reason = command[k].reason
       /\ command' = [command EXCEPT ![k] = e]
  <2>1. (IF worker.placed THEN command[k].effects ELSE command[k].effects + 1) = 1
    BY <1>4, <1>9
  <2>2. command' = [command EXCEPT ![k] = e]
    BY <1>1, <1>9, <1>10, <2>1
  <2>3. e.status = "running"
    BY <1>3, <1>4, <1>9, <1>10 DEF Command
  <2> QED BY <1>3, <1>9, <1>10, <2>2, <2>3 DEF Command
<1>12. /\ CommandType' /\ DOMAIN command' = DOMAIN command /\ command'[k] = e
       /\ \A c \in DOMAIN command' : CommandInv(c)'
  <2>1. CommandInv(k)
    BY DEF IInv
  <2>2. e.execution = "completed" => SettledUpTo(e.action, Len(Plan[e.action].orders))'
    BY <1>1, <1>11, <2>1 DEF CommandInv, SettledUpTo
  <2>3. e.reason = "concurrency" => MaxConcurrent < 2 \/ past'.abandoned # {}
    BY <1>7, <1>11, <2>1 DEF CommandInv
  <2> QED BY <1>8, <1>11, <2>2, <2>3, CommandWritten
<1>13. /\ WorkerType' /\ worker'.pc = "record" /\ worker'.cmd = worker.cmd
       /\ worker'.i = worker.i /\ worker'.placed = TRUE
  <2>1. /\ worker' \in [pc : Steps \cup {"idle"}, cmd : Nat, i : Nat, placed : BOOLEAN]
        /\ worker'.pc = "record" /\ worker'.cmd = worker.cmd
        /\ worker'.i = worker.i /\ worker'.placed = TRUE
    BY <1>1, <1>2 DEF IInv, WorkerType
  <2> QED BY <1>3, <1>12, <2>1 DEF WorkerType
<1>14. Current' = Current /\ Slot' = Slot
  BY <1>9, <1>11, <1>12, <1>13, SameCurrent
<1>15. \A o \in Orders : OrderInv(o)'
  <2>1. ASSUME NEW o \in Orders, o # Slot PROVE OrderInv(o)'
    <3>1. OrderInv(o)
      BY DEF IInv
    <3> QED BY <1>1, <1>5, <1>7, <2>1, <3>1 DEF OrderInv
  <2>2. ASSUME NEW o \in Orders, o = Slot PROVE OrderInv(o)'
    <3>1. OrderInv(o)
      BY DEF IInv
    <3>2. venue'.placed[o] > 0 /\ o \in venue'.index
      BY <1>5, <2>2, <3>1 DEF OrderInv
    <3>3. venue'.placed[o] > 1 => o \in past'.misrecorded /\ past'.faults > 0
      BY <1>4, <1>5, <1>7, <2>2, <3>1 DEF OrderInv
    <3> QED BY <1>1, <1>4, <2>2, <3>2, <3>3 DEF OrderInv
  <2> QED BY <2>1, <2>2
<1>16. WorkerInv'
  <2>1. SettledUpTo(Current, worker.i - 1)'
    BY <1>1, <1>3, <1>13, <1>14 DEF SettledUpTo
  <2>2. venue'.placed[Slot] > 0
    BY <1>3, <1>13, <1>14, <1>15, <1>5 DEF OrderInv
  <2>3. order'[Slot] \in Settled
    BY <1>1, <1>4 DEF Settled
  <2> QED BY <1>2, <1>4, <1>9, <1>11, <1>12, <1>13, <1>14, <2>1, <2>2, <2>3 DEF WorkerInv
<1>17. GateInv'
  <2>1. CASE guard.kill \/ (Plan[Current].live /\ ~guard.approved)
    <3>1. past.since \subseteq {worker.cmd}
      BY <1>2, <2>1 DEF IInv, GateInv
    <3>2. past'.since \subseteq {worker.cmd}
      BY <1>6, <1>7, <3>1
    <3> QED BY <1>13, <3>2 DEF GateInv
  <2>2. CASE ~(guard.kill \/ (Plan[Current].live /\ ~guard.approved))
    <3>1. past'.since = past.since
      BY <1>7, <2>2 DEF Since
    <3> QED BY <1>1, <1>14, <2>2, <3>1 DEF IInv, GateInv
  <2> QED BY <2>1, <2>2
<1>18. OrphanInv'
  BY <1>1, <1>7, <1>13, <1>14, OrphanFrame
<1> QED BY <1>1, <1>8, <1>12, <1>13, <1>15, <1>16, <1>17, <1>18, StepInv

-----------------------------------------------------------------------------
(***************************************************************************)
(* Faults, and the invariant.                                              *)
(***************************************************************************)
LEMMA AbandonStep == ASSUME IInv, Abandon PROVE IInv'
<1>1. /\ worker.pc # "idle" /\ WorkerAt("fail_command")
      /\ past' = [past EXCEPT !.faults = @ + 1, !.abandoned = @ \cup {Current}]
      /\ UNCHANGED <<status, approver, command, order, venue, guard, session, toggles>>
  BY DEF Abandon
<1>2. Current \in Actions /\ "fail_command" \in Steps
  BY <1>1, CurrentFacts DEF Steps
<1>3. /\ past' \in [faults : Nat, abandoned : SUBSET Actions, misrecorded : SUBSET Orders,
                    phantom : SUBSET Orders, since : SUBSET Nat]
      /\ past'.faults > 0 /\ past'.abandoned = past.abandoned \cup {Current}
      /\ past'.misrecorded = past.misrecorded /\ past'.since = past.since
      /\ past'.phantom = past.phantom
  <2>1. past \in [faults : Nat, abandoned : SUBSET Actions, misrecorded : SUBSET Orders,
                  phantom : SUBSET Orders, since : SUBSET Nat]
    BY DEF IInv, StoreType
  <2>2. PICK n \in Nat : n = past.faults + 1 /\ n > 0
    BY <2>1
  <2>3. past' = [past EXCEPT !.faults = n, !.abandoned = past.abandoned \cup {Current}]
    BY <1>1, <2>1, <2>2
  <2> QED BY <1>2, <2>1, <2>2, <2>3
<1>4. StoreType' /\ Grow /\ ActionInv'
  BY <1>1, <1>3 DEF IInv, StoreType, Grow, ActionInv
<1>5. CommandType' /\ \A c \in DOMAIN command' : CommandInv(c)'
  BY <1>1, <1>4, CommandsFrame
<1>6. /\ WorkerType' /\ worker'.pc = "fail_command" /\ worker'.cmd = worker.cmd
      /\ worker'.i = worker.i /\ worker'.placed = worker.placed
  BY <1>1, <1>2, MoveOn
<1>7. Current' = Current
  BY <1>1, <1>6, SameCurrent
<1>8. WorkerInv'
  BY <1>1, <1>6, <1>7, WorkerFrame DEF IInv, WorkerInv, OrderSteps
<1>9. \A o \in Orders : OrderInv(o)'
  <2>1. worker.pc = "place" => Slot[1] = Current
    BY SlotFacts DEF OrderSteps
  <2> QED BY <1>1, <1>3, <2>1 DEF IInv, OrderInv
<1>10. GateInv'
  BY <1>1, <1>3, <1>6, GateFrame DEF OrderSteps
<1>11. OrphanInv'
  BY <1>3 DEF OrphanInv
<1> QED BY <1>1, <1>4, <1>5, <1>6, <1>8, <1>9, <1>10, <1>11, StepInv

LEMMA CrashStep == ASSUME IInv, Crash PROVE IInv'
<1>1. /\ past' = [past EXCEPT !.faults = @ + 1,
                              !.abandoned = IF worker.cmd = 0 THEN @ ELSE @ \cup {Current}]
      /\ worker' = Idle /\ venue' = [venue EXCEPT !.index = {}]
      /\ UNCHANGED <<status, approver, command, order, guard, session, toggles>>
  BY DEF Crash
<1>2. worker.cmd # 0 => worker.pc # "idle" /\ Current \in Actions
  BY CurrentFacts DEF IInv, WorkerType
<1>3. /\ past' \in [faults : Nat, abandoned : SUBSET Actions, misrecorded : SUBSET Orders,
                    phantom : SUBSET Orders, since : SUBSET Nat]
      /\ past'.faults > 0
      /\ past'.abandoned = IF worker.cmd = 0 THEN past.abandoned ELSE past.abandoned \cup {Current}
      /\ past'.misrecorded = past.misrecorded /\ past'.since = past.since
      /\ past'.phantom = past.phantom
  <2>1. past \in [faults : Nat, abandoned : SUBSET Actions, misrecorded : SUBSET Orders,
                  phantom : SUBSET Orders, since : SUBSET Nat]
    BY DEF IInv, StoreType
  <2>2. PICK n \in Nat : n = past.faults + 1 /\ n > 0
    BY <2>1
  <2>3. PICK left \in SUBSET Actions :
          left = IF worker.cmd = 0 THEN past.abandoned ELSE past.abandoned \cup {Current}
    BY <1>2, <2>1
  <2>4. past' = [past EXCEPT !.faults = n, !.abandoned = left]
    BY <1>1, <2>1, <2>2, <2>3
  <2> QED BY <2>1, <2>2, <2>3, <2>4
<1>4. /\ venue' \in [index : SUBSET Orders, placed : [Orders -> Nat]]
      /\ venue'.index = {} /\ venue'.placed = venue.placed
  BY <1>1 DEF IInv, StoreType
<1>5. StoreType' /\ Grow /\ ActionInv'
  BY <1>1, <1>3, <1>4 DEF IInv, StoreType, Grow, ActionInv
<1>6. CommandType' /\ \A c \in DOMAIN command' : CommandInv(c)'
  BY <1>1, <1>5, CommandsFrame
<1>7. worker'.pc = "idle" /\ worker'.cmd = 0 /\ WorkerType' /\ WorkerInv'
  BY <1>1 DEF Idle, WorkerType, WorkerInv
<1>8. \A o \in Orders : OrderInv(o)'
  <2>1. worker.pc = "place" => Slot[1] = Current /\ worker.cmd # 0
    BY SlotFacts, CurrentFacts DEF OrderSteps
  <2> QED BY <1>1, <1>3, <1>4, <2>1 DEF IInv, OrderInv
<1>9. GateInv'
  BY <1>1, <1>3, <1>7, GateFrame DEF OrderSteps
<1>10. OrphanInv'
  BY <1>1, <1>3 DEF IInv, OrphanInv
<1> QED BY <1>1, <1>5, <1>6, <1>7, <1>8, <1>9, <1>10, StepInv

LEMMA InvStep == ASSUME IInv, [Next]_vars PROVE IInv'
<1>1. ASSUME NEW s \in Sessions, SessionStep(s) PROVE IInv'
  BY <1>1, ApproveReadStep, ApproveWriteStep, ApproveInsertStep, ApproveQueueStep DEF SessionStep
<1>2. CASE TriggerKillSwitch \/ ResetKillSwitch \/ ConnectorSuspended \/ ConnectorApproved
  BY <1>2, GateStep
<1>3. ASSUME NEW c \in DOMAIN command, NotExecutable(c) \/ ExecuteCreate(c) PROVE IInv'
  BY <1>3, NotExecutableStep, ExecuteCreateStep
<1>4. CASE ExecuteMark \/ PassCheck \/ FailCheck \/ StepThrows \/ CompleteExecution
           \/ CompleteAction \/ Finish \/ FailAction \/ FailCommand
  BY <1>4, ExecuteMarkStep, PassCheckStep, FailureStep, CompleteExecutionStep, CompleteActionStep,
     SettleStep, FailActionStep
<1>5. CASE KnownOrder \/ SaveOrder \/ MarkSubmitted \/ PlaceOrder \/ RecordAnswer
           \/ RecordFailure \/ PersistStep
  BY <1>5, NextOrderStep, SaveOrderStep, MarkSubmittedStep, PlaceOrderStep, RecordAnswerStep,
     RecordFailureStep
<1>6. CASE FailureNotRecorded \/ Abandon \/ Crash
  BY <1>6, FailureNotRecordedStep, AbandonStep, CrashStep
<1>7. CASE UNCHANGED vars
  <2>1. UNCHANGED <<status, approver, command, order, venue, guard, session, worker, past>>
    BY <1>7 DEF vars
  <2>2. Grow
    BY <2>1 DEF Grow
  <2>3. CommandType' /\ \A c \in DOMAIN command' : CommandInv(c)'
    BY <2>1, <2>2, CommandsFrame
  <2>4. StoreType' /\ ActionInv'
    BY <2>1 DEF IInv, StoreType, ActionInv
  <2>5. WorkerType' /\ (\A o \in Orders : OrderInv(o)') /\ WorkerInv' /\ GateInv' /\ OrphanInv'
    BY <2>1, BesideWorker
  <2> QED BY <2>1, <2>2, <2>3, <2>4, <2>5, StepInv
<1> QED BY <1>1, <1>2, <1>3, <1>4, <1>5, <1>6, <1>7 DEF Next, ExecutionStep

(* The inductive invariant holds in every reachable state of approvals,    *)
(* worker and venue (approveCarryAction, executeCarryAction).              *)
THEOREM Invariance == Spec => []IInv
<1>1. IInv /\ [Next]_vars => IInv'
  BY InvStep
<1> QED BY InitInv, <1>1, PTL DEF Spec

-----------------------------------------------------------------------------
(***************************************************************************)
(* What it implies.                                                        *)
(***************************************************************************)
LEMMA InvImpliesControl == IInv => OrdersAreControlled
<1> SUFFICES ASSUME IInv PROVE OrdersAreControlled
  OBVIOUS
<1>1. TypeOK
  <2>1. /\ \A a \in Actions : status[a] \in Status
        /\ \A o \in Orders : order[o] \in OrderStatus
        /\ Len(command) <= MaxCommands
        /\ \A s \in Sessions : session[s].pc \in {"idle", "approve", "insert", "queue"}
    BY DEF IInv, StoreType, CommandType, SessionType
  <2>2. worker.cmd \in 0..Len(command)
    <3>1. command \in Seq(Command) /\ worker.cmd \in Nat
      BY DEF IInv, CommandType, WorkerType
    <3>2. worker.cmd # 0 => worker.cmd \in DOMAIN command
      BY DEF IInv, WorkerType
    <3> QED BY <3>1, <3>2
  <2>3. worker.cmd # 0 => worker.i \in 0..Len(Plan[Current].orders)
    BY DEF IInv, WorkerType, WorkerInv
  <2> QED BY <2>1, <2>2, <2>3 DEF TypeOK, Status, OrderStatus
<1>2. \A c \in DOMAIN command : CommandInv(c) /\ command[c] \in Command /\ command[c].action \in Actions
  <2>1. \A c \in DOMAIN command : CommandInv(c) /\ command[c] \in Command
    BY DEF IInv, CommandType
  <2> QED BY <2>1 DEF Command
<1>3. LiveNeedsAdmin
  <2> SUFFICES ASSUME NEW c \in DOMAIN command, Plan[command[c].action].required = "admin"
               PROVE  approver[command[c].action] = "admin"
    BY DEF LiveNeedsAdmin
  <2>1. status[command[c].action] # "recommended"
    BY <1>2 DEF CommandInv
  <2>2. CanSatisfyApprovalRequirement(approver[command[c].action], "admin")
    BY <1>2, <2>1 DEF IInv, ActionInv
  <2> QED BY <2>2 DEF CanSatisfyApprovalRequirement
<1>4. CompletedCoversPlan
  <2> SUFFICES ASSUME NEW c \in DOMAIN command, command[c].execution = "completed",
                      NEW i \in Slots(command[c].action)
               PROVE  LET o == <<command[c].action, i>>
                      IN \/ venue.placed[o] > 0
                         \/ order[o] = "failed"
                         \/ o \in past.phantom
                         \/ command[c].action \in past.abandoned
                         \/ worker.cmd # 0 /\ Current = command[c].action
    BY DEF CompletedCoversPlan
  <2> DEFINE a == command[c].action
             o == <<a, i>>
  <2>1. a \in Actions /\ o \in Orders
    BY <1>2, OrderOf
  <2>2. order[o] \in Settled
    <3>1. SettledUpTo(a, Len(Plan[a].orders)) /\ i <= Len(Plan[a].orders)
      BY <1>2, <2>1, PlanFacts DEF CommandInv
    <3> QED BY <3>1 DEF SettledUpTo
  <2>3. OrderInv(o)
    BY <2>1 DEF IInv
  <2>4. worker.pc = "place" => worker.cmd # 0
    BY DEF IInv, WorkerType
  <2>5. Slot = o => Current = a
    BY DEF Slot
  <2>6. o[1] = a
    OBVIOUS
  <2> HIDE DEF o
  <2>7. \/ venue.placed[o] > 0
        \/ order[o] = "failed"
        \/ o \in past.phantom
        \/ a \in past.abandoned
        \/ worker.cmd # 0 /\ Current = a
    BY <2>2, <2>3, <2>4, <2>5, <2>6 DEF OrderInv, Settled
  <2> QED BY <2>7 DEF o
<1>5. ClosedGateHolds
  <2>1. \A c, d \in past.since : c = d
    BY DEF IInv, GateInv
  <2>2. CASE past.since = {}
    BY <2>2, FS_EmptySet DEF ClosedGateHolds
  <2>3. CASE past.since # {}
    <3>1. PICK c : past.since = {c}
      BY <2>1, <2>3
    <3>2. Cardinality({c}) = 1
      BY FS_Singleton
    <3> QED BY <3>1, <3>2 DEF ClosedGateHolds
  <2> QED BY <2>2, <2>3
<1>6. ConcurrencyOnlyByOrphans
  BY <1>2 DEF ConcurrencyOnlyByOrphans, CommandInv
<1> QED BY <1>1, <1>3, <1>4, <1>5, <1>6 DEF OrdersAreControlled

(* Carry orders are controlled: a live order has an admin's approval, a    *)
(* completed execution dealt with its whole plan except an order that an   *)
(* earlier one could not record as never sent, a closed gate lets only     *)
(* the execution beyond it finish, and the concurrency limit refuses only  *)
(* because of an abandoned execution (executeCarryAction).                 *)
THEOREM OrdersAreControlledHolds == Spec => []OrdersAreControlled
BY Invariance, InvImpliesControl, PTL

(* An order is placed a second time only if it had been recorded as failed *)
(* after the venue took it and the process died since (submitIntent, the   *)
(* adapter's index of client order ids).                                   *)
THEOREM PlacedOnceHolds == Spec => []PlacedOnce
<1>1. IInv => PlacedOnce
  BY DEF IInv, OrderInv, PlacedOnce
<1> QED BY <1>1, Invariance, PTL

-----------------------------------------------------------------------------
(***************************************************************************)
(* The refinement of ApprovedExecution.                                    *)
(***************************************************************************)
Granted == {a \in Actions : status[a] # "recommended"}
Ordered == [c \in DOMAIN command |-> command[c].action]
Effects == [c \in DOMAIN command |-> command[c].effects]

SameGranted == Granted' = Granted
SameOrdered == Ordered' = Ordered /\ Effects' = Effects

(* What a step is to the abstract specification. *)
AbstractStep ==
  \/ SameGranted /\ SameOrdered
  \/ \E a \in Actions : Granted' = Granted \cup {a} /\ SameOrdered
  \/ \E a \in Actions \cap Granted :
       Ordered' = Append(Ordered, a) /\ Effects' = Append(Effects, 0) /\ SameGranted
  \/ \E n \in DOMAIN Ordered :
       Effects[n] = 0 /\ Effects' = [Effects EXCEPT ![n] = 1] /\ Ordered' = Ordered /\ SameGranted

LEMMA AbstractFrame ==
  /\ status' = status => SameGranted
  /\ command' = command => SameOrdered
BY DEF SameGranted, SameOrdered, Granted, Ordered, Effects

LEMMA ApprovalImplements ==
  ASSUME IInv, NEW s \in Sessions, SessionStep(s) PROVE AbstractStep
<1> DEFINE a == session[s].action
<1>1. CASE \E b \in Actions : ApproveRead(s, b)
  BY <1>1, AbstractFrame DEF ApproveRead, AbstractStep
<1>2. CASE ApproveWrite(s)
  <2>1. /\ a \in Actions /\ status \in [Actions -> Status] /\ command' = command
        /\ status' = [status EXCEPT ![a] = "approved"]
    BY <1>2 DEF ApproveWrite, IInv, SessionType, StoreType
  <2> HIDE DEF a
  <2>2. Granted' = Granted \cup {a}
    BY <2>1 DEF Granted
  <2> QED BY <2>1, <2>2, AbstractFrame DEF AbstractStep
<1>3. CASE ApproveQueue(s)
  <2>1. /\ a \in Actions /\ status \in [Actions -> Status] /\ command' = command
        /\ status' = [status EXCEPT ![a] = "queued"] /\ status[a] # "recommended"
    BY <1>3 DEF ApproveQueue, IInv, SessionType, SessionInv, StoreType
  <2> HIDE DEF a
  <2>2. SameGranted
    BY <2>1 DEF SameGranted, Granted
  <2> QED BY <2>1, <2>2, AbstractFrame DEF AbstractStep
<1>4. CASE ApproveInsert(s)
  <2> DEFINE e == [action |-> a, status |-> "pending", execution |-> "none",
                   reason |-> "none", effects |-> 0]
  <2>1. /\ a \in Actions /\ status[a] # "recommended" /\ status' = status
        /\ command' = Append(command, e) /\ command \in Seq(Command)
    BY <1>4 DEF ApproveInsert, IInv, SessionType, SessionInv, CommandType
  <2> HIDE DEF a
  <2>2. e \in Command /\ e.action = a /\ e.effects = 0
    BY <2>1 DEF Command, Execution, Reasons
  <2> HIDE DEF e
  <2>3. command' \in Seq(Command) /\ Extended(command, command', e)
    BY <2>1, <2>2, ExtendedTable
  <2>4. /\ Len(command) \in Nat /\ Len(command') = Len(command) + 1
        /\ DOMAIN command = 1..Len(command) /\ DOMAIN command' = 1..(Len(command) + 1)
    BY <2>1, <2>3 DEF Extended
  <2>5. /\ Ordered \in [DOMAIN command -> Actions] /\ Ordered' \in [DOMAIN command' -> Actions]
        /\ Effects \in [DOMAIN command -> {0, 1}] /\ Effects' \in [DOMAIN command' -> {0, 1}]
    <3>1. /\ \A c \in DOMAIN command : command[c] \in Command
          /\ \A c \in DOMAIN command' : command'[c] \in Command
      BY <2>1, <2>3
    <3>2. \A r \in Command : r.action \in Actions /\ r.effects \in {0, 1}
      BY DEF Command
    <3> QED BY <3>1, <3>2 DEF Ordered, Effects
  <2>6. /\ \A c \in DOMAIN command : Ordered'[c] = Ordered[c] /\ Effects'[c] = Effects[c]
        /\ Ordered'[Len(command')] = a /\ Effects'[Len(command')] = 0
    BY <2>2, <2>3 DEF Ordered, Effects, Extended
  <2>7. Ordered' = Append(Ordered, Ordered'[Len(command) + 1])
    BY <2>4, <2>5, <2>6, AppendedEntry
  <2>8. Effects' = Append(Effects, Effects'[Len(command) + 1])
    BY <2>4, <2>5, <2>6, AppendedEntry
  <2>9. a \in Actions \cap Granted
    BY <2>1 DEF Granted
  <2>10. Ordered' = Append(Ordered, a) /\ Effects' = Append(Effects, 0) /\ SameGranted
    <3>1. SameGranted
      BY <2>1, AbstractFrame
    <3>2. Ordered'[Len(command) + 1] = a /\ Effects'[Len(command) + 1] = 0
      BY <2>4, <2>6
    <3> QED BY <2>7, <2>8, <3>1, <3>2
  <2> QED BY <2>9, <2>10 DEF AbstractStep
<1> QED BY <1>1, <1>2, <1>3, <1>4 DEF SessionStep

(* No write of the worker's gives or takes back an approval. *)
LEMMA StatusImplements ==
  ASSUME IInv, ExecuteMark \/ CompleteAction \/ FailAction PROVE AbstractStep
<1>1. worker.pc # "idle" /\ command' = command /\ UNCHANGED <<approver, order, venue, guard, past>>
  BY DEF ExecuteMark, CompleteAction, FailAction
<1>2. PICK st \in Status \ {"recommended"} : SetStatus(st)
  BY DEF ExecuteMark, CompleteAction, FailAction, Status
<1>3. \A a \in Actions : status'[a] = IF a = Current THEN st ELSE status[a]
  BY <1>1, <1>2, SetStatusFacts
<1>4. Current \in Actions /\ status[Current] # "recommended"
  BY <1>1, CurrentFacts
<1>5. SameGranted
  BY <1>3, <1>4 DEF SameGranted, Granted
<1> QED BY <1>1, <1>5, AbstractFrame DEF AbstractStep

LEMMA CommandImplements ==
  ASSUME IInv, NEW k \in DOMAIN command, status' = status,
         NEW st \in {"pending", "running", "completed", "failed"},
         NEW ex \in Execution, NEW why \in Reasons, SetCommand(k, st, ex, why)
  PROVE  AbstractStep
<1>1. PICK e \in Command : /\ command' = [command EXCEPT ![k] = e]
                           /\ e.action = command[k].action /\ e.effects = command[k].effects
  BY SetCommandRow
<1>2. Updated(command, command', k, e)
  BY <1>1, UpdatedTable DEF IInv, CommandType
<1>3. SameOrdered
  BY <1>1, <1>2 DEF SameOrdered, Ordered, Effects, Updated
<1> QED BY <1>3, AbstractFrame DEF AbstractStep

(* The first order an execution places is the effect of its command. *)
LEMMA PlaceImplements == ASSUME IInv, PlaceOrder PROVE AbstractStep
<1>1. /\ worker.pc = "place" /\ status' = status
      /\ command' = [command EXCEPT ![worker.cmd].effects = IF worker.placed THEN @ ELSE @ + 1]
  BY DEF PlaceOrder
<1>2. /\ worker.cmd \in DOMAIN command /\ command[worker.cmd] \in Command
      /\ command[worker.cmd].effects = IF worker.placed THEN 1 ELSE 0
  BY <1>1, CurrentFacts DEF IInv, WorkerInv
<1>3. PICK k \in DOMAIN command : k = worker.cmd
  BY <1>2
<1>4. PICK e \in Command : e = [command[k] EXCEPT !.effects = 1]
  BY <1>2, <1>3 DEF Command
<1>5. e.action = command[k].action /\ e.effects = 1 /\ command' = [command EXCEPT ![k] = e]
  <2>1. (IF worker.placed THEN command[k].effects ELSE command[k].effects + 1) = 1
    BY <1>2, <1>3
  <2>2. command' = [command EXCEPT ![k] = e]
    BY <1>1, <1>3, <1>4, <2>1
  <2> QED BY <1>2, <1>3, <1>4, <2>2 DEF Command
<1>6. Updated(command, command', k, e)
  BY <1>5, UpdatedTable DEF IInv, CommandType
<1>7. Ordered' = Ordered /\ Effects' = [Effects EXCEPT ![k] = 1] /\ k \in DOMAIN Ordered
  BY <1>5, <1>6 DEF Ordered, Effects, Updated
<1>8. CASE worker.placed
  <2>1. Effects' = Effects
    BY <1>2, <1>3, <1>5, <1>6, <1>8 DEF Effects, Updated
  <2> QED BY <1>1, <1>7, <2>1, AbstractFrame DEF AbstractStep, SameOrdered
<1>9. CASE ~worker.placed
  <2>1. Effects[k] = 0
    BY <1>2, <1>3, <1>9 DEF Effects
  <2> QED BY <1>1, <1>7, <2>1, AbstractFrame DEF AbstractStep
<1> QED BY <1>8, <1>9

(* Every step is a step of ApprovedExecution, or none of its business. *)
LEMMA StepImplements == ASSUME IInv, [Next]_vars PROVE AbstractStep
<1>1. CASE status' = status /\ command' = command
  BY <1>1, AbstractFrame DEF AbstractStep
<1>2. CASE \E s \in Sessions : SessionStep(s)
  BY <1>2, ApprovalImplements
<1>3. CASE ExecuteMark \/ CompleteAction \/ FailAction
  BY <1>3, StatusImplements
<1>4. ASSUME NEW c \in DOMAIN command, NotExecutable(c) \/ ExecuteCreate(c) PROVE AbstractStep
  BY <1>4, CommandImplements DEF NotExecutable, ExecuteCreate, Execution, Reasons
<1>5. CASE \/ FailCheck \/ StepThrows \/ FailureNotRecorded \/ CompleteExecution
           \/ Finish \/ FailCommand
  <2>1. worker.pc # "idle" /\ status' = status
    BY <1>5 DEF FailCheck, StepThrows, FailureNotRecorded, CompleteExecution, Finish, FailCommand
  <2>2. worker.cmd \in DOMAIN command /\ command[worker.cmd] \in Command
    BY <2>1, CurrentFacts
  <2>3. PICK k \in DOMAIN command : k = worker.cmd
    BY <2>2
  <2>4. command[k].execution \in Execution /\ command[k].reason \in Reasons
    BY <2>2, <2>3 DEF Command
  <2>5. PICK st \in {"pending", "running", "completed", "failed"}, ex \in Execution, why \in Reasons :
          SetCommand(k, st, ex, why)
    BY <1>5, <2>3, <2>4, RefusalType
       DEF FailCheck, StepThrows, FailureNotRecorded, CompleteExecution, Finish, FailCommand,
           Execution, Reasons
  <2> QED BY <2>1, <2>5, CommandImplements
<1>6. CASE PlaceOrder
  BY <1>6, PlaceImplements
<1>7. CASE \/ TriggerKillSwitch \/ ResetKillSwitch \/ ConnectorSuspended \/ ConnectorApproved
           \/ PassCheck \/ KnownOrder \/ SaveOrder \/ MarkSubmitted \/ RecordAnswer
           \/ RecordFailure \/ PersistStep \/ Abandon \/ Crash \/ UNCHANGED vars
  BY <1>1, <1>7 DEF TriggerKillSwitch, ResetKillSwitch, ConnectorSuspended, ConnectorApproved,
     PassCheck, KnownOrder, SaveOrder, MarkSubmitted, RecordAnswer, RecordFailure, PersistStep,
     Abandon, Crash, vars
<1> QED BY <1>2, <1>3, <1>4, <1>5, <1>6, <1>7 DEF Next, ExecutionStep

(* Two approvals at once, late 'queued' writes, failures and crashes: a    *)
(* command is inserted only for an approved action, and places orders in   *)
(* at most one execution.                                                  *)
THEOREM ApprovalImplemented == Spec => ImplementsApproval
<1>1. Init => Approval!ApprovalInit
  BY DEF Init, Approval!ApprovalInit
<1>2. IInv /\ [Next]_vars => [Approval!ApprovalNext]_(Approval!approvalVars)
  <2> SUFFICES ASSUME IInv, [Next]_vars
               PROVE  [Approval!ApprovalNext]_(Approval!approvalVars)
    OBVIOUS
  <2>1. AbstractStep
    BY StepImplements
  <2>2. CASE SameGranted /\ SameOrdered
    BY <2>2 DEF SameGranted, SameOrdered, Granted, Ordered, Effects, Approval!approvalVars
  <2>3. CASE \E a \in Actions : Granted' = Granted \cup {a} /\ SameOrdered
    BY <2>3 DEF SameOrdered, Granted, Ordered, Effects, Approval!ApprovalNext, Approval!Grant
  <2>4. CASE \E a \in Actions \cap Granted :
               Ordered' = Append(Ordered, a) /\ Effects' = Append(Effects, 0) /\ SameGranted
    BY <2>4 DEF SameGranted, Granted, Ordered, Effects, Approval!ApprovalNext, Approval!Order
  <2>5. CASE \E n \in DOMAIN Ordered :
               /\ Effects[n] = 0 /\ Effects' = [Effects EXCEPT ![n] = 1]
               /\ Ordered' = Ordered /\ SameGranted
    BY <2>5 DEF SameGranted, Granted, Ordered, Effects, Approval!ApprovalNext, Approval!Effect
  <2> QED BY <2>1, <2>2, <2>3, <2>4, <2>5 DEF AbstractStep
<1> QED BY <1>1, <1>2, Invariance, PTL DEF Spec, ImplementsApproval, Approval!ApprovalSpec
=============================================================================
