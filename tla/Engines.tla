------------------------------ MODULE Engines ------------------------------
(***************************************************************************)
(* What the runtime computes and the ways into it, side by side: the       *)
(* initial state chooses one part and every step is a step of that one.    *)
(* The variables of the others stay "off" (empty tables of orders and      *)
(* steps, whose changes of position belong to nobody).                     *)
(***************************************************************************)
EXTENDS Integers, Sequences

CONSTANTS
    \* post-trade confirmation
    MaxOrders, MaxSize, MaxEvaluations,
    \* strategy cycles
    VenueOrder, AssetOrder, Cfg, Limits, Markets, StartCash, MaxCycles, MaxFaults,
    \* execution guardrails
    Scopes, Callers, Notionals, MaxSingle, MinAction, MaxDaily, MaxFailures, ResetMinutes, Day,
    MaxMinutes, MaxAttempts,
    \* derivative state and venue truth
    Indexes, PerpSymbol, IndexOf, TailOrder, Intents, Exposure, MaxIntents, MaxLost,
    \* reconciliation
    Worlds, WorldOf, MaxRuns, MaxChanges, MaxMoves,
    \* the operators' way in
    Operators, Emails, FirstRole, Drifts, MaxSkew, SessionTtl, LoginWindow, LoginMaxAttempts,
    MaxClock, MaxUpserts, MaxLogins, MaxSends,
    \* the allocator
    Evaluators, Snapshots, LaterSnapshots, MaxAllocatorRuns,
    \* carry evaluations
    CarryWorlds, RestoreTargets, MinimumActionableUsd, NoBudget, MaxCarryEvaluations,
    MaxCarryChanges

VARIABLES part,
          orders, attempts,
          pos, steps, evaluations, late, sides,
          cash, position, cycle, plan, queue, recorded, faults, blind,
          config, minute, caller, breaker, spent, crossing, tripped,
          fills, book, resting, internal, external, changes, lost,
          world, mismatches, run, before, quiet, runs, worldChanges, moves,
          rows, sessions, page, requests, applied, keyed, refusals, dead,
          clock, drift, upserts, logins, sends, lastHeld, lastLive,
          reading, evaluating, allocatorRuns, allocatorCurrent, proposals, stopped,
          carryWorld, creating, carryActions, evaluated, carryChanges

Parts == {"confirmation", "cycle", "guardrails", "truth", "reconciliation", "gateway",
          "allocator", "planner"}

confirmationOnly   == <<pos, steps, evaluations, late, sides>>
cycleOnly          == <<cash, position, cycle, plan, queue, recorded, faults, blind>>
guardrailsOnly     == <<config, minute, caller, breaker, spent, crossing, tripped>>
truthOnly          == <<fills, book, resting, internal, external, changes, lost>>
reconciliationOnly == <<world, mismatches, run, before, quiet, runs, worldChanges, moves>>
gatewayOnly        == <<rows, sessions, page, requests, applied, keyed, refusals, dead,
                        clock, drift, upserts, logins, sends, lastHeld, lastLive>>
allocatorOnly      == <<reading, evaluating, allocatorRuns, allocatorCurrent, proposals, stopped>>
plannerOnly        == <<carryWorld, creating, carryActions, evaluated, carryChanges>>

Pt == INSTANCE PostTradeConfirmation
Sc == INSTANCE StrategyCycle
Gr == INSTANCE Guardrails
Dt == INSTANCE DerivativeTruth
Rc == INSTANCE Reconciliation
Og == INSTANCE OperatorGateway
Al == INSTANCE Allocator
Ce == INSTANCE CarryEvaluation

\* Notionals and the daily limit are not negative, and a day has some length.
ASSUME GuardrailsAssumption == Notionals \subseteq Nat /\ MaxDaily \in Nat /\ Day \in Nat \ {0}

\* Someone is bootstrapped first, with one of the roles; durations are whole
\* numbers of ticks, and the API's clock is off by a whole number of them.
ASSUME GatewayAssumption ==
    /\ Operators # {} /\ Emails # {} /\ FirstRole \in Og!OPS_OPERATOR_ROLES
    /\ Drifts \subseteq Int
    /\ MaxSkew \in Nat /\ SessionTtl \in Nat /\ LoginWindow \in Nat /\ LoginMaxAttempts \in Nat

\* What the allocator reads, in units that divide the capital into shares.
ASSUME AllocatorAssumption == \A s \in Snapshots \cup LaterSnapshots : Al!SnapshotOK(s)

\* Sizes and targets are amounts, and no action is too small to count as one.
ASSUME PlannerAssumption ==
    /\ RestoreTargets \subseteq Nat /\ MinimumActionableUsd \in Nat \ {0}
    /\ \A w \in CarryWorlds : /\ w.opportunities \in Seq(Ce!ToSet(w.opportunities))
                             /\ \A n \in DOMAIN w.opportunities : w.opportunities[n].notional \in Nat

\* What a run reads, whatever venues it took for active, yields lists of checks.
ASSUME ReconciliationAssumption ==
    \A w, v \in Worlds : Rc!ChecksOK(WorldOf[w], Rc!ActiveReal(WorldOf[v]))

-----------------------------------------------------------------------------
ConfirmationOff ==
  pos = "off" /\ steps = <<>> /\ evaluations = "off" /\ late = TRUE /\ sides = "off"
CycleOff ==
  /\ cash = "off" /\ position = "off" /\ cycle = "off" /\ plan = "off" /\ queue = "off"
  /\ recorded = "off" /\ faults = "off" /\ blind = "off"
GuardrailsOff ==
  /\ config = "off" /\ minute = "off" /\ caller = "off" /\ breaker = "off"
  /\ spent = "off" /\ crossing = "off" /\ tripped = "off"
TruthOff ==
  /\ fills = "off" /\ book = "off" /\ resting = "off" /\ internal = "off"
  /\ external = "off" /\ changes = "off" /\ lost = "off"
ReconciliationOff ==
  /\ world = "off" /\ mismatches = "off" /\ run = "off" /\ before = "off"
  /\ quiet = "off" /\ runs = "off" /\ worldChanges = "off" /\ moves = "off"
GatewayOff ==
  /\ rows = "off" /\ sessions = "off" /\ page = "off" /\ requests = "off" /\ applied = "off"
  /\ keyed = "off" /\ refusals = "off" /\ dead = "off" /\ clock = "off" /\ drift = "off"
  /\ upserts = "off" /\ logins = "off" /\ sends = "off" /\ lastHeld = "off" /\ lastLive = "off"
AllocatorOff ==
  /\ reading = "off" /\ evaluating = "off" /\ allocatorRuns = "off"
  /\ allocatorCurrent = "off" /\ proposals = "off" /\ stopped = "off"
PlannerOff ==
  /\ carryWorld = "off" /\ creating = "off" /\ carryActions = "off"
  /\ evaluated = "off" /\ carryChanges = "off"

Init ==
  /\ part \in Parts
  /\ IF part = "confirmation"   THEN Pt!Init ELSE ConfirmationOff
  /\ IF part = "cycle"          THEN Sc!Init ELSE CycleOff
  /\ IF part = "guardrails"     THEN Gr!Init ELSE GuardrailsOff
  /\ IF part = "truth"          THEN Dt!Init ELSE TruthOff
  /\ IF part = "reconciliation" THEN Rc!Init ELSE ReconciliationOff
  /\ IF part = "gateway"        THEN Og!Init ELSE GatewayOff
  /\ IF part = "allocator"      THEN Al!Init ELSE AllocatorOff
  /\ IF part = "planner"        THEN Ce!Init ELSE PlannerOff
  /\ part \notin {"confirmation", "truth"} => orders = <<>>
  /\ part \notin {"guardrails", "gateway"} => attempts = "off"

others == <<allocatorOnly, plannerOnly>>

Confirmation ==
  /\ part = "confirmation" /\ Pt!Next
  /\ UNCHANGED <<part, attempts, cycleOnly, guardrailsOnly, truthOnly, reconciliationOnly,
                 gatewayOnly, others>>

Cycle ==
  /\ part = "cycle" /\ Sc!Next
  /\ UNCHANGED <<part, orders, attempts, confirmationOnly, guardrailsOnly, truthOnly,
                 reconciliationOnly, gatewayOnly, others>>

Guarded ==
  /\ part = "guardrails" /\ Gr!Next
  /\ UNCHANGED <<part, orders, confirmationOnly, cycleOnly, truthOnly, reconciliationOnly,
                 gatewayOnly, others>>

Truth ==
  /\ part = "truth" /\ Dt!Next
  /\ UNCHANGED <<part, attempts, confirmationOnly, cycleOnly, guardrailsOnly,
                 reconciliationOnly, gatewayOnly, others>>

Reconcile ==
  /\ part = "reconciliation" /\ Rc!Next
  /\ UNCHANGED <<part, orders, attempts, confirmationOnly, cycleOnly, guardrailsOnly, truthOnly,
                 gatewayOnly, others>>

Gateway ==
  /\ part = "gateway" /\ Og!Next
  /\ UNCHANGED <<part, orders, confirmationOnly, cycleOnly, guardrailsOnly, truthOnly,
                 reconciliationOnly, others>>

Allocate ==
  /\ part = "allocator" /\ Al!Next
  /\ UNCHANGED <<part, orders, attempts, confirmationOnly, cycleOnly, guardrailsOnly, truthOnly,
                 reconciliationOnly, gatewayOnly, plannerOnly>>

PlanCarry ==
  /\ part = "planner" /\ Ce!Next
  /\ UNCHANGED <<part, orders, attempts, confirmationOnly, cycleOnly, guardrailsOnly, truthOnly,
                 reconciliationOnly, gatewayOnly, allocatorOnly>>

Next == Confirmation \/ Cycle \/ Guarded \/ Truth \/ Reconcile \/ Gateway \/ Allocate \/ PlanCarry

Spec ==
  Init /\ [][Next]_<<part, orders, attempts, confirmationOnly, cycleOnly, guardrailsOnly,
                     truthOnly, reconciliationOnly, gatewayOnly, others>>

-----------------------------------------------------------------------------
(***************************************************************************)
(* Properties: each the conjunction of the ones that the modules of one or *)
(* two parts state and explain.                                            *)
(***************************************************************************)
(* Confirmations are honest: where changes of position can be attributed,  *)
(* a step shows no more than was filled, what is confirmed in full owes    *)
(* nothing, and full fills are confirmed (runtime.ts                       *)
(* evaluatePostTradeConfirmationGroup, deriveConfirmationPatch).           *)
ConfirmationIsHonest ==
  part = "confirmation" => /\ Pt!TypeOK
                           /\ Pt!NeverOverstated
                           /\ Pt!FilledIsConfirmed
                           /\ Pt!ConfirmedOwesNothing

(* A later evaluation never shrinks the filled size a step shows, as long  *)
(* as positions can be attributed (runtime.ts deriveConfirmationPatch).    *)
FilledSizeKept == Pt!FilledSizeKept

(* Limits hold over many steps.  Guardrails: no scope executes more than   *)
(* its daily notional, and a tripped breaker blocks until its delay or a   *)
(* reset (execution-guardrails.ts check, recordSuccess;                    *)
(* circuit-breakers.ts evaluateAutoResets).  Allocator: the targets add    *)
(* up, worse news never raises the carry target, executable proposals into *)
(* carry are funded, and the summary names a run with all its rows         *)
(* (policy.ts evaluate, rebalance.ts createProposal, store.ts              *)
(* persistAllocatorEvaluation).  Carry evaluation: a linked one stays      *)
(* within its target, executable actions have orders, and live venues take *)
(* an administrator (runtime.ts runCarryEvaluation,                        *)
(* controlled-execution.ts createExecutionIntents).                        *)
LimitsHold ==
  /\ part = "guardrails" => Gr!DailyLimitHolds /\ Gr!TrippedStaysTripped
  /\ part = "allocator" => /\ Al!SummaryIsComplete
                           /\ Al!DecisionAddsUp
                           /\ Al!WorseNeverRaisesCarry
                           /\ Al!ExecutableIsFunded
  /\ part = "planner" => /\ Ce!RestoreWithinTarget
                         /\ Ce!ExecutableHasOrders
                         /\ Ce!LiveNeedsAdmin

(* Findings are true: a completed, undisturbed reconciliation run leaves   *)
(* open what is wrong and nothing it found settled, what is open without   *)
(* cause is no longer inspected, and what operators decided is kept        *)
(* (reconciliation-engine.ts run, resolveInactiveVenueMismatches; store.ts *)
(* upsertMismatch).                                                        *)
FindingsAreTrue ==
  part = "reconciliation" => /\ Rc!RunReflectsWorld
                             /\ Rc!OpenIsBackedOrUnseen
                             /\ Rc!DecisionsKept

(* The way in: nothing is done for an operator longer than a signature     *)
(* lives after the role or the session ended, the API key alone changes    *)
(* nothing, every call of the dashboard but the known ones reaches a       *)
(* route, and an enabled button is refused only for a role that changed or *)
(* a known approval requirement (ops-auth.ts verifySignedOperatorHeaders,  *)
(* routes/control.ts, runtime-api.client.ts, control-plane.ts              *)
(* canSatisfyApprovalRequirement).                                         *)
GatewayIsSound ==
  part = "gateway" => /\ Og!TypeOK
                      /\ Og!RevocationIsBounded
                      /\ Og!KeyAloneChangesNothing
                      /\ Og!EnabledIsAllowed
                      /\ Og!NoDeadCall

(* Plans and books agree.  Cycles: a whole plan stays within the           *)
(* concentration limits, the gross exposure within its share of the NAV,   *)
(* and without faults the book is neutral between cycles                   *)
(* (portfolio-optimizer.ts optimizeCarryPortfolio, position-sizer.ts       *)
(* computePositionSize, pipeline.ts runRiskChecks).  Carry evaluation: a   *)
(* reduction is covered by open positions (controlled-execution.ts         *)
(* buildCarryReductionIntents).  Derivatives: pairing uses every position  *)
(* once, internal and external state of one moment agree when every fill   *)
(* was recorded, and a missing fill shows (internal-derivative-state.ts    *)
(* buildVenueDerivativeComparisonDetail).                                  *)
PlansAndBooksAgree ==
  /\ part = "cycle" => /\ Sc!PlanWithinCaps
                       /\ Sc!GrossWithinCap
                       /\ Sc!BookStaysNeutral
  /\ part = "planner" => Ce!ReductionCovered
  /\ part = "truth" => /\ Dt!EveryRowOnce
                       /\ Dt!NoFalseAlarm
                       /\ Dt!NoFalseSilence
=============================================================================
