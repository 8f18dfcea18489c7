----------------------------- MODULE Allocator -----------------------------
(***************************************************************************)
(* How the allocator splits the capital between the carry and the treasury *)
(* sleeve (allocator/src/policy.ts), the rebalance proposal it draws from  *)
(* that (rebalance.ts), and its evaluations (runtime.ts                    *)
(* runAllocatorEvaluation): what one reads, the decision, and the rows it  *)
(* writes one statement at a time, without a transaction (store.ts         *)
(* persistAllocatorEvaluation, createRebalanceProposal).  Each of two      *)
(* workers may be evaluating; the world moves on meanwhile; a process may  *)
(* stop between two statements.                                            *)
(*                                                                         *)
(* Amounts are in units of 100 USD, shares in percent of the capital,      *)
(* scores in hundredths; an amount below a unit counts as none.  A         *)
(* snapshot s is what runAllocatorEvaluation reads.  When no treasury      *)
(* summary was ever written, s.treasuryKnown is FALSE and its amounts read *)
(* zero.                                                                   *)
(***************************************************************************)
EXTENDS Integers, FiniteSetsExt, Sequences

CONSTANTS Evaluators,      \* workers
          Snapshots,       \* what an evaluation may read
          LaterSnapshots,  \* what the world may have become
          MaxAllocatorRuns

VARIABLES reading,     \* the snapshot an evaluation would read now
          evaluating,  \* per worker, the evaluation under way
          allocatorRuns,  \* per run, in the order of evaluatedAt, the rows written
          allocatorCurrent, \* the run the primary row names, or 0
          proposals,   \* rebalance proposals by run
          stopped      \* how often a process stopped

allocatorVars == <<reading, evaluating, allocatorRuns, allocatorCurrent, proposals, stopped>>

Policy ==
  [carry |-> 55, minimumTreasury |-> 35, maximumCarry |-> 65, degradedCap |-> 25,
   elevatedCap |-> 35, shortfallCap |-> 15, weakCap |-> 20, scoreFloor |-> 35, scoreStrong |-> 70]
MinimumActionable == 25

-----------------------------------------------------------------------------
(* The snapshot of the carry sleeve: its throttle state, and the sleeve's  *)
(* current shares.                                                         *)
Throttle(s) ==
  IF s.halted THEN "blocked"
  ELSE IF s.lifecycle = "degraded" \/ s.critical > 0 THEN "de_risk"
  ELSE IF s.score < Policy.scoreFloor THEN "throttled" ELSE "normal"
Current(s) ==
  [carry |-> s.carryNav, treasury |-> Max({s.capital - s.carryNav, 0})]

HighPressure(s) ==
  s.halted \/ s.lifecycle \in {"paused", "stopped"} \/ s.critical > 0 \/ s.shortfall > 0
pressureFromInput(s) ==
  IF HighPressure(s) THEN "high"
  ELSE IF s.lifecycle = "degraded" \/ s.open >= 3 \/ s.issues > 0 \/ s.reason THEN "elevated"
  ELSE "normal"
regimeFromInput(s) ==
  IF pressureFromInput(s) = "high" THEN (IF s.halted THEN "recovery" ELSE "defensive")
  ELSE IF pressureFromInput(s) = "elevated" \/ s.score < Policy.scoreStrong THEN "cautious"
  ELSE "normal"

(* Coverage is short exactly when there is a shortfall; without a treasury *)
(* summary it reads zero.                                                  *)
treasuryFloor(s) ==
  Policy.minimumTreasury + (IF ~s.treasuryKnown \/ s.shortfall > 0 THEN 10 ELSE 0)

(* Mutant: high pressure has no cap of its own. *)
CapsUnlessHigh(s) ==
  {Policy.carry} \cup (IF s.shortfall > 0 THEN {Policy.shortfallCap} ELSE {})
  \cup (IF pressureFromInput(s) = "elevated" THEN {Policy.elevatedCap} ELSE {})
  \cup (IF Throttle(s) # "normal" THEN {Policy.weakCap} ELSE {})
(* The caps that apply to carry.  A carry sleeve that is not active is     *)
(* unhealthy, so that any throttle state but the normal one caps it.       *)
Caps(s) ==
  {Policy.carry} \cup (IF s.shortfall > 0 THEN {Policy.shortfallCap} ELSE {})
  \cup (CASE pressureFromInput(s) = "high"     -> {Policy.degradedCap}
          [] pressureFromInput(s) = "elevated" -> {Policy.elevatedCap}
          [] OTHER                             -> {})
  \cup (IF Throttle(s) # "normal" \/ s.score < Policy.scoreFloor THEN {Policy.weakCap} ELSE {})
Uplift(s) ==
  IF s.score >= Policy.scoreStrong /\ pressureFromInput(s) = "normal" THEN 5 ELSE 0

clampPct(value, low, high) == Max({low, Min({high, value})})

(* Mutant: carry is not lowered again when the treasury floor binds. *)
TargetsClampedOnce(s) ==
  LET first    == clampPct(Min(Caps(s)) + Uplift(s), 0, Policy.maximumCarry)
      treasury == clampPct(100 - first, treasuryFloor(s), 100)
  IN [carry |-> first, treasury |-> treasury]

(* The target shares: carry first, treasury the rest but at least its      *)
(* floor, then carry once more.                                            *)
Targets(s) ==
  LET first    == clampPct(Min(Caps(s)) + Uplift(s), 0, Policy.maximumCarry)
      treasury == clampPct(100 - first, treasuryFloor(s), 100)
  IN [carry |-> clampPct(100 - treasury, 0, Policy.maximumCarry), treasury |-> treasury]

toUsd(s, pct) == (s.capital * pct) \div 100
Delta(s) ==
  [sleeve \in {"carry", "treasury"} |-> toUsd(s, Targets(s)[sleeve]) - Current(s)[sleeve]]

Recommendation(s, sleeve) ==
  IF Delta(s)[sleeve] = 0 THEN "hold_budget"
  ELSE IF sleeve = "carry" /\ Delta(s)[sleeve] < 0
       THEN IF Throttle(s) = "de_risk" \/ pressureFromInput(s) # "normal"
            THEN "de_risk" ELSE "decrease_budget"
  ELSE IF sleeve = "treasury" /\ pressureFromInput(s) # "normal" THEN "increase_reserve_buffer"
  ELSE IF Delta(s)[sleeve] > 0 THEN "increase_budget" ELSE "decrease_budget"

evaluate(s) ==
  [pressureLevel |-> pressureFromInput(s), regimeState |-> regimeFromInput(s),
   targets |-> Targets(s), delta |-> Delta(s),
   recommendations |-> [sleeve \in {"carry", "treasury"} |-> Recommendation(s, sleeve)]]

-----------------------------------------------------------------------------
Abs(n) == IF n < 0 THEN -n ELSE n
Amount(s) == Max({Abs(Delta(s)["carry"]), Abs(Delta(s)["treasury"])})
IntoCarry(s) == Delta(s)["carry"] > 0

Reason(code, holds) == IF holds THEN {code} ELSE {}
(* Mutant: what treasury holds in its venues pays for carry too. *)
ReasonsByCapital(s) ==
  Reason("below_minimum_action_size", Amount(s) < MinimumActionable)
  \cup Reason("runtime_not_ready", s.halted \/ s.lifecycle \in {"paused", "stopped", "starting"})
  \cup Reason("critical_mismatch_pressure", s.critical > 0)
  \cup Reason("insufficient_treasury_idle_capital", IntoCarry(s) /\ Current(s).treasury < Amount(s))
blockedReasons(s) ==
  Reason("below_minimum_action_size", Amount(s) < MinimumActionable)
  \cup Reason("runtime_not_ready", s.halted \/ s.lifecycle \in {"paused", "stopped", "starting"})
  \cup Reason("critical_mismatch_pressure", s.critical > 0)
  \cup Reason("live_execution_disabled", s.mode = "live" /\ ~s.liveEnabled)
  \cup Reason("carry_throttle_active", IntoCarry(s) /\ Throttle(s) \in {"blocked", "de_risk"})
  \cup Reason("treasury_reserve_shortfall", IntoCarry(s) /\ s.shortfall > 0)
  \cup Reason("insufficient_treasury_idle_capital", IntoCarry(s) /\ s.idle < Amount(s))

(* No proposal when nothing is to be moved; a blocked one otherwise still  *)
(* becomes a row.                                                          *)
createProposal(s) ==
  [intoCarry |-> IntoCarry(s), amount |-> Amount(s), blockedReasons |-> blockedReasons(s),
   executable |-> blockedReasons(s) = {},
   approvalRequirement |-> IF s.mode = "live" THEN "admin" ELSE "operator"]

-----------------------------------------------------------------------------
(* Evaluations.                                                            *)
NoEvaluation == [next |-> "idle"]
NoRows == [run |-> FALSE, targets |-> FALSE, recommendations |-> FALSE]

Init ==
  /\ reading \in Snapshots
  /\ evaluating = [e \in Evaluators |-> NoEvaluation]
  /\ allocatorRuns = <<>> /\ allocatorCurrent = 0 /\ proposals = {} /\ stopped = 0

-----------------------------------------------------------------------------
Move ==
  /\ reading' \in LaterSnapshots \ {reading}
  /\ Len(allocatorRuns) > 0
  /\ UNCHANGED <<evaluating, allocatorRuns, allocatorCurrent, proposals, stopped>>

(* Everything is read and decided before the first statement. *)
runAllocatorEvaluation(e) ==
  /\ evaluating[e] = NoEvaluation /\ Len(allocatorRuns) < MaxAllocatorRuns
  /\ allocatorRuns' = Append(allocatorRuns, NoRows)
  /\ evaluating' = [evaluating EXCEPT ![e] =
       [next |-> "run", at |-> Len(allocatorRuns) + 1, read |-> reading]]
  /\ UNCHANGED <<reading, allocatorCurrent, proposals, stopped>>

(* Mutant: the primary row is written before the rows it stands for. *)
OrderCurrentFirst ==
  [run |-> "current", current |-> "targets", targets |-> "recommendations",
   recommendations |-> "proposal"]
(* The order of the statements. *)
StatementAfter ==
  [run |-> "targets", targets |-> "recommendations", recommendations |-> "current",
   current |-> "proposal"]

InsertRows(e) ==
  LET v == evaluating[e]
  IN /\ v.next \in {"run", "targets", "recommendations"}
     /\ allocatorRuns' = [allocatorRuns EXCEPT ![v.at][v.next] = TRUE]
     /\ evaluating' = [evaluating EXCEPT ![e].next = StatementAfter[v.next]]
     /\ UNCHANGED <<reading, allocatorCurrent, proposals, stopped>>

UpsertCurrent(e) ==
  /\ evaluating[e].next = "current"
  /\ allocatorCurrent' = evaluating[e].at
  /\ evaluating' = [evaluating EXCEPT ![e].next = StatementAfter["current"]]
  /\ UNCHANGED <<reading, allocatorRuns, proposals, stopped>>

(* The proposal with its intents and its bundle.  A crash within is that   *)
(* of RebalanceBundle.                                                     *)
createRebalanceProposal(e) ==
  LET v == evaluating[e]
  IN /\ v.next = "proposal"
     /\ proposals' = IF Amount(v.read) = 0 THEN proposals
                     ELSE proposals \cup {[at |-> v.at, read |-> v.read,
                                           proposal |-> createProposal(v.read)]}
     /\ evaluating' = [evaluating EXCEPT ![e] = NoEvaluation]
     /\ UNCHANGED <<reading, allocatorRuns, allocatorCurrent, stopped>>

Stop(e) ==
  /\ evaluating[e] # NoEvaluation /\ stopped = 0
  /\ evaluating' = [evaluating EXCEPT ![e] = NoEvaluation]
  /\ stopped' = 1
  /\ UNCHANGED <<reading, allocatorRuns, allocatorCurrent, proposals>>

Next ==
  \/ Move
  \/ \E e \in Evaluators :
       \/ runAllocatorEvaluation(e) \/ InsertRows(e) \/ UpsertCurrent(e)
       \/ createRebalanceProposal(e) \/ Stop(e)

Spec == Init /\ [][Next]_allocatorVars

-----------------------------------------------------------------------------
(* Properties                                                              *)

(* The summary names a run that has all its rows, wherever processes stop  *)
(* and however two evaluations overlap (getAllocatorSummary,               *)
(* getAllocatorDecision).                                                  *)
SummaryIsComplete ==
  allocatorCurrent # 0 =>
    allocatorRuns[allocatorCurrent] = [run |-> TRUE, targets |-> TRUE, recommendations |-> TRUE]

(* The shares add up to the whole, treasury has its floor, and what one    *)
(* sleeve is to gain the other is to lose, unless the carry sleeve is      *)
(* worth more than the capital of the treasury summary (evaluate).         *)
DecisionAddsUp ==
  LET d == evaluate(reading)
  IN /\ d.targets["carry"] + d.targets["treasury"] = 100
     /\ d.targets["treasury"] >= treasuryFloor(reading)
     /\ reading.carryNav <= reading.capital => d.delta["carry"] = -d.delta["treasury"]

(* Worse news never raises the share of carry: a halt, a lifecycle that is *)
(* no longer ready, more mismatches or issues, a reserve that falls short, *)
(* weaker opportunities (pressureFromInput, evaluate).                     *)
Worse(s) ==
  {[s EXCEPT !.halted = TRUE], [s EXCEPT !.open = 3], [s EXCEPT !.critical = 1],
   [s EXCEPT !.issues = 1], [s EXCEPT !.reason = TRUE], [s EXCEPT !.shortfall = 1, !.idle = 0],
   [s EXCEPT !.treasuryKnown = FALSE, !.shortfall = 0, !.idle = 0]}
  \cup {[s EXCEPT !.score = x] : x \in {0, 35, 50} \cap 0..s.score}
  \cup (IF s.lifecycle = "ready"
        THEN {[s EXCEPT !.lifecycle = l] : l \in {"degraded", "paused", "stopped"}} ELSE {})
WorseNeverRaisesCarry ==
  \A w \in {x \in Worse(reading) : x.treasuryKnown \/ reading.shortfall = 0} :
    Targets(w)["carry"] <= Targets(reading)["carry"]

(* A proposal that may be executed leaves treasury its floor and is paid   *)
(* from idle capital alone: executing it needs no withdrawal from a venue  *)
(* (createProposal).                                                       *)
ExecutableIsFunded ==
  \A p \in {x \in proposals : x.proposal.executable /\ x.proposal.intoCarry} :
    /\ p.read.treasuryKnown /\ p.read.shortfall = 0
    /\ Current(p.read)["treasury"] - p.proposal.amount >= toUsd(p.read, Policy.minimumTreasury)
    /\ p.proposal.amount <= p.read.idle
    /\ p.read.carryNav + p.proposal.amount <= toUsd(p.read, 60)

-----------------------------------------------------------------------------
(* The invariant behind them: a statement is reached when those before it  *)
(* have been executed for its run, and a proposal is the one its snapshot  *)
(* gives.                                                                  *)

(* A snapshot: every share of the capital is a whole number of units, and  *)
(* without a treasury summary its amounts read zero.                       *)
SnapshotOK(s) ==
  /\ s \in [lifecycle : STRING, halted : BOOLEAN, open : Nat, critical : Nat, issues : Nat,
            reason : BOOLEAN, treasuryKnown : BOOLEAN, shortfall : Nat, idle : Nat,
            capital : Nat, carryNav : Int, score : Int, mode : STRING, liveEnabled : BOOLEAN]
  /\ s.capital % 20 = 0
  /\ ~s.treasuryKnown => s.shortfall = 0 /\ s.idle = 0

Reads == Snapshots \cup LaterSnapshots
Evaluation ==
  [next : {"run", "targets", "recommendations", "current", "proposal"},
   at : DOMAIN allocatorRuns, read : Reads]

(* The rows there are when v is about to execute its next statement. *)
RowsBefore(v) ==
  /\ v.next # "run" => allocatorRuns[v.at].run
  /\ v.next \notin {"run", "targets"} => allocatorRuns[v.at].targets
  /\ v.next \in {"current", "proposal"} => allocatorRuns[v.at].recommendations

AllocatorInv ==
  /\ reading \in Reads
  /\ allocatorRuns \in Seq([run : BOOLEAN, targets : BOOLEAN, recommendations : BOOLEAN])
  /\ evaluating \in [Evaluators -> Evaluation \cup {NoEvaluation}]
  /\ \A e \in Evaluators : evaluating[e] # NoEvaluation => RowsBefore(evaluating[e])
  /\ allocatorCurrent \in {0} \cup DOMAIN allocatorRuns
  /\ SummaryIsComplete
  /\ \A p \in proposals : p.read \in Reads /\ p.proposal = createProposal(p.read)
=============================================================================
