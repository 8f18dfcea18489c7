-------------------------- MODULE CarryEvaluation --------------------------
(***************************************************************************)
(* Where carry actions come from: runCarryEvaluation turns the approved    *)
(* opportunities of a strategy run into actions, executeRebalanceProposal  *)
(* turns a negative carry delta into a reduction, both through             *)
(* CarryControlledExecutionPlanner (controlled-execution.ts), and          *)
(* createCarryActions writes each action and then its orders, one          *)
(* statement at a time.                                                    *)
(*                                                                         *)
(* A world w is what an evaluation reads: the runtime's status, the carry  *)
(* NAV and the approved budget, the opportunities with their approved      *)
(* intents, the open positions and the venues' capabilities.  No caller    *)
(* passes a strategy profile, so that the rules of strategy-policy.ts      *)
(* judge its default, which meets them all.                                *)
(***************************************************************************)
EXTENDS Integers, Sequences, FiniteSets, SequencesExt

CONSTANTS CarryWorlds,          \* what may be read
          RestoreTargets,       \* carry deltas of rebalance proposals
          MinimumActionableUsd, \* DEFAULT_CARRY_OPERATIONAL_POLICY
          NoBudget,             \* no rebalance and no allocator run yet
          MaxCarryEvaluations, MaxCarryChanges

VARIABLES carryWorld,   \* the world an evaluation would read now
          creating,     \* the evaluation under way: intents still to be written
          carryActions, \* carry_actions, each with the orders written for it
          evaluated,    \* evaluations so far
          carryChanges

carryEvaluationVars == <<carryWorld, creating, carryActions, evaluated, carryChanges>>

NotCreating == [next |-> "idle"]

Init ==
  /\ carryWorld \in CarryWorlds
  /\ creating = NotCreating
  /\ carryActions = <<>> /\ evaluated = 0 /\ carryChanges = 0

-----------------------------------------------------------------------------
(* What speaks against a recommendation r in world w. *)
Code(code, holds) == IF holds THEN {code} ELSE {}

IsReduction(r) == r.actionType = "reduce_carry_exposure"
Total(numbers) ==
  LET sum[n \in 0..Len(numbers)] == IF n = 0 THEN 0 ELSE sum[n - 1] + numbers[n]
  IN sum[Len(numbers)]
SumAmounts(orders) == Total([n \in DOMAIN orders |-> orders[n].amount])
TouchedVenues(r) == {r.plannedOrders[n].venueId : n \in DOMAIN r.plannedOrders}

VenueReasons(w, r, v) ==
  LET c == w.venues[v]
  IN IF ~c.executionSupported THEN {"venue_execution_unsupported"}
     ELSE Code("venue_execution_unsupported", c.readOnly)
          \cup Code("venue_execution_unsupported",
                    IF IsReduction(r) THEN ~c.supportsReduce ELSE ~c.supportsIncrease)
          \cup Code("venue_live_unapproved", c.live /\ ~c.approved)
          \cup Code("venue_live_ineligible", c.live /\ c.approved /\ ~c.eligible)
          \cup Code("live_execution_disabled", c.live /\ (~w.liveEnabled \/ w.mode # "live"))
          \cup Code("simulated_execution_only", ~c.live /\ w.mode = "live")

(* Mutant: no minimum. *)
SizeReasonNever(r) == {}
SizeReason(r) == Code("below_minimum_action_size", r.notional < MinimumActionableUsd)

(* throttle is "blocked" only for a deployment while halted. *)
blockedReasons(w, r, budget, current) ==
  SizeReason(r)
  \cup Code("runtime_not_ready", w.halted \/ w.lifecycle # "ready")
  \cup Code("critical_mismatch_pressure", w.critical > 0)
  \cup Code("carry_throttle_active", ~IsReduction(r) /\ w.halted)
  \cup Code("carry_budget_exceeded",
            ~IsReduction(r) /\ budget # NoBudget /\ current + r.notional > budget)
  \cup Code("opportunity_confidence_below_threshold", r.confidence < 60)
  \cup Code("opportunity_expired", r.expired)
  \cup Code("no_open_positions", IsReduction(r) /\ r.plannedOrders = <<>>)
  \cup Code("insufficient_position_reduction_capacity",
            IsReduction(r) /\ SumAmounts(r.plannedOrders) < r.notional)
  \cup UNION {VenueReasons(w, r, v) : v \in TouchedVenues(r)}

(* Mutant: a reduction needs no administrator. *)
ApprovalOfDeployments(w, r) ==
  IF ~IsReduction(r) /\ \E v \in TouchedVenues(r) : w.venues[v].executionSupported /\ w.venues[v].live
  THEN "admin" ELSE "operator"
approvalRequirement(w, r) ==
  IF \E v \in TouchedVenues(r) : w.venues[v].executionSupported /\ w.venues[v].live
  THEN "admin" ELSE "operator"

createExecutionIntents(w, recommendations, budget, current) ==
  [n \in DOMAIN recommendations |->
     LET r == recommendations[n]
     IN [recommendation |-> r, executable |-> blockedReasons(w, r, budget, current) = {},
         approvalRequirement |-> approvalRequirement(w, r)]]

-----------------------------------------------------------------------------
(* One recommendation per approved opportunity, in order.  A linked        *)
(* evaluation fills a target: an opportunity too large for what is left is *)
(* passed over, and one without approved intents counts zero.              *)
Recommended(o, linked) ==
  [actionType |-> IF linked THEN "restore_carry_budget" ELSE "increase_carry_exposure",
   notional |-> IF o.orders = <<>> THEN 0 ELSE o.notional, confidence |-> o.confidence,
   expired |-> o.expired, plannedOrders |-> o.orders]

(* Mutant: the target is not used up. *)
FillForever(opportunities, target) ==
  LET fitting == SelectSeq(opportunities, LAMBDA o : Recommended(o, TRUE).notional <= target)
  IN [n \in DOMAIN fitting |-> Recommended(fitting[n], TRUE)]

FillTarget(opportunities, target) ==
  LET fill[n \in 0..Len(opportunities)] ==
        IF n = 0 THEN [left |-> target, chosen |-> <<>>]
        ELSE LET acc == fill[n - 1]
                 r   == Recommended(opportunities[n], TRUE)
             IN IF acc.left <= 0 \/ r.notional > acc.left THEN acc
                ELSE [left |-> acc.left - r.notional, chosen |-> Append(acc.chosen, r)]
  IN fill[Len(opportunities)].chosen

NotionalOf(position) == position.size * position.mark

(* Mutant: each position is cut by the whole amount. *)
ReductionOfEach(positions, notional) ==
  LET sorted == SortSeq(positions, LAMBDA p, q : NotionalOf(p) > NotionalOf(q))
      open   == SelectSeq(sorted, LAMBDA p : p.mark > 0)
  IN [n \in DOMAIN open |->
        [venueId |-> open[n].venueId, position |-> open[n].id, amount |-> notional,
         side |-> IF open[n].side = "long" THEN "sell" ELSE "buy"]]

(* The largest positions first, each as far as it goes.  The two legs of a *)
(* hedge are two positions like any others.                                *)
buildCarryReductionIntents(positions, notional) ==
  LET sorted == SortSeq(positions, LAMBDA p, q : NotionalOf(p) > NotionalOf(q))
  IN FoldLeft(LAMBDA acc, p :
                LET cut == IF NotionalOf(p) < acc.left THEN NotionalOf(p) ELSE acc.left
                IN IF acc.left <= 0 \/ p.mark <= 0 THEN acc
                   ELSE [left |-> acc.left - cut,
                         orders |-> Append(acc.orders,
                           [venueId |-> p.venueId, position |-> p.id, amount |-> cut,
                            side |-> IF p.side = "long" THEN "sell" ELSE "buy"])],
              [left |-> notional, orders |-> <<>>], sorted).orders

Begin(intents, linked, target) ==
  /\ creating = NotCreating /\ evaluated < MaxCarryEvaluations
  /\ evaluated' = evaluated + 1
  /\ creating' = IF intents = <<>> THEN NotCreating
                 ELSE [next |-> "action", intents |-> intents, of |-> evaluated + 1,
                       linked |-> linked, target |-> target, read |-> carryWorld]
  /\ UNCHANGED <<carryWorld, carryActions, carryChanges>>

(* By command, for all opportunities of the latest run. *)
runCarryEvaluation ==
  LET w == carryWorld
      recommendations == [n \in DOMAIN w.opportunities |-> Recommended(w.opportunities[n], FALSE)]
  IN Begin(createExecutionIntents(w, recommendations, w.budget, w.nav), FALSE, 0)

(* By executeRebalanceProposal, to fill a target. *)
RestoreCarryBudget(target) ==
  LET w == carryWorld
  IN Begin(createExecutionIntents(w, FillTarget(w.opportunities, target), w.budget, w.nav), TRUE, target)

(* By executeRebalanceProposal, for a negative delta. *)
ReduceCarryExposure(notional) ==
  LET w == carryWorld
      r == [actionType |-> "reduce_carry_exposure", notional |-> notional, confidence |-> 100,
            expired |-> FALSE, plannedOrders |-> buildCarryReductionIntents(w.positions, notional)]
  IN Begin(createExecutionIntents(w, <<r>>, w.budget, w.nav), TRUE, notional)

-----------------------------------------------------------------------------
(* createCarryActions: per intent its row, then its orders. *)
InsertAction ==
  /\ creating.next = "action"
  /\ LET intent == creating.intents[1]
     IN /\ carryActions' = Append(carryActions,
             [intent |-> intent, orders |-> <<>>, of |-> creating.of, target |-> creating.target,
              linked |-> creating.linked, read |-> creating.read])
        /\ creating' =
             IF intent.recommendation.plannedOrders # <<>> THEN [creating EXCEPT !.next = "orders"]
             ELSE IF Len(creating.intents) = 1 THEN NotCreating
             ELSE [creating EXCEPT !.intents = Tail(@)]
  /\ UNCHANGED <<carryWorld, evaluated, carryChanges>>

InsertOrders ==
  /\ creating.next = "orders"
  /\ carryActions' = [carryActions EXCEPT ![Len(carryActions)].orders =
                        creating.intents[1].recommendation.plannedOrders]
  /\ creating' = IF Len(creating.intents) = 1 THEN NotCreating
                 ELSE [creating EXCEPT !.intents = Tail(@), !.next = "action"]
  /\ UNCHANGED <<carryWorld, evaluated, carryChanges>>

(* Fills, prices, opportunities and decisions elsewhere. *)
Change ==
  /\ carryChanges < MaxCarryChanges
  /\ carryWorld' \in CarryWorlds \ {carryWorld}
  /\ carryChanges' = carryChanges + 1
  /\ UNCHANGED <<creating, carryActions, evaluated>>

(* The worker stops between two statements. *)
StopCreating ==
  /\ creating # NotCreating
  /\ creating' = NotCreating
  /\ carryChanges < MaxCarryChanges /\ carryChanges' = carryChanges + 1
  /\ UNCHANGED <<carryWorld, carryActions, evaluated>>

Next ==
  \/ runCarryEvaluation
  \/ \E t \in RestoreTargets : RestoreCarryBudget(t) \/ ReduceCarryExposure(t)
  \/ InsertAction \/ InsertOrders \/ Change \/ StopCreating

Spec == Init /\ [][Next]_carryEvaluationVars

-----------------------------------------------------------------------------
(* Properties                                                              *)

Executable == {n \in DOMAIN carryActions : carryActions[n].intent.executable}
Notional(n) == carryActions[n].intent.recommendation.notional
Type(n) == carryActions[n].intent.recommendation.actionType
Plan(n) == carryActions[n].intent.recommendation.plannedOrders

(* The notional of the executable actions of one evaluation. *)
Created(e) ==
  Total([m \in DOMAIN carryActions |->
           IF carryActions[m].intent.executable /\ carryActions[m].of = e THEN Notional(m) ELSE 0])

(* What an evaluation creates for a rebalance proposal stays within the    *)
(* carry delta of the proposal, all its executable actions together        *)
(* (runCarryEvaluation).                                                   *)
RestoreWithinTarget ==
  \A n \in DOMAIN carryActions :
    carryActions[n].linked => Created(carryActions[n].of) <= carryActions[n].target

(* An executable action never comes without orders: executing it would     *)
(* complete and do nothing.  Only a stop between its two statements leaves *)
(* such a row (createExecutionIntents, createCarryActions).                *)
ExecutableHasOrders ==
  \A n \in Executable : Plan(n) # <<>> /\ (carryActions[n].orders # <<>> => carryActions[n].orders = Plan(n))

(* The orders of an executable reduction add up to it, take no more from a *)
(* position than it holds, close rather than open, and take from a         *)
(* position only when every larger one is gone (buildCarryReductionIntents).*)
ReductionCovered ==
  \A n \in {m \in Executable : Type(m) = "reduce_carry_exposure"} :
    LET positions == carryActions[n].read.positions
        Cut(id) == SumAmounts(SelectSeq(Plan(n), LAMBDA o : o.position = id))
    IN /\ SumAmounts(Plan(n)) = Notional(n)
       /\ \A k \in DOMAIN positions : Cut(positions[k].id) <= NotionalOf(positions[k])
       /\ \A k, l \in DOMAIN positions :
            (NotionalOf(positions[k]) > NotionalOf(positions[l]) /\ Cut(positions[l].id) > 0)
              => Cut(positions[k].id) = NotionalOf(positions[k])

(* Nothing that reaches a live venue can be approved by an operator alone, *)
(* nor is it executable while the venue is not eligible or the runtime not *)
(* live, whichever of its orders goes there (createExecutionIntents).      *)
LiveNeedsAdmin ==
  \A n \in Executable : \A v \in TouchedVenues(carryActions[n].intent.recommendation) :
    LET w == carryActions[n].read
    IN w.venues[v].live =>
         /\ carryActions[n].intent.approvalRequirement = "admin"
         /\ w.venues[v].eligible /\ w.mode = "live" /\ w.liveEnabled

-----------------------------------------------------------------------------
(* The invariant behind them, but for the cover of reductions.  An intent  *)
(* was judged in the world it was read in; what an evaluation has created  *)
(* and what it is still to create stay within its target.                  *)
Judged(intent, w) ==
  LET r == intent.recommendation
  IN /\ r.notional \in Nat
     /\ intent.approvalRequirement = approvalRequirement(w, r)
     /\ intent.executable => /\ r.plannedOrders # <<>>
                             /\ \A v \in TouchedVenues(r) : VenueReasons(w, r, v) = {}

Sequel == IF creating.next = "orders" THEN Tail(creating.intents) ELSE creating.intents
ToCome == Total([k \in DOMAIN Sequel |-> Sequel[k].recommendation.notional])

ActionsInv ==
  /\ carryActions \in Seq(ToSet(carryActions)) /\ evaluated \in Nat
  /\ \A n \in DOMAIN carryActions :
       LET a == carryActions[n]
       IN /\ a \in [intent : {a.intent}, orders : {a.orders}, of : 1..evaluated,
                   target : {a.target}, linked : BOOLEAN, read : {a.read}]
          /\ Judged(a.intent, a.read)
          /\ a.orders # <<>> => a.orders = a.intent.recommendation.plannedOrders
          /\ \A e \in 1..evaluated : a.linked /\ a.of = e => a.target \in Nat /\ Created(e) <= a.target

CreatingInv ==
  creating # NotCreating =>
    /\ creating \in [next : {"action", "orders"}, intents : Seq(ToSet(creating.intents)), of : {evaluated},
                     linked : BOOLEAN, target : Nat, read : {creating.read}]
    /\ creating.intents # <<>> /\ evaluated > 0
    /\ \A k \in DOMAIN creating.intents : Judged(creating.intents[k], creating.read)
    /\ \A n \in DOMAIN carryActions : carryActions[n].of = evaluated =>
         carryActions[n].linked = creating.linked /\ carryActions[n].target = creating.target
    /\ creating.linked => Created(evaluated) + ToCome <= creating.target
    /\ creating.next = "orders" => /\ carryActions # <<>>
                                   /\ carryActions[Len(carryActions)].intent = creating.intents[1]

PlannerInv == carryWorld \in CarryWorlds /\ ActionsInv /\ CreatingInv
=============================================================================
