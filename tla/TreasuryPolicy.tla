--------------------------- MODULE TreasuryPolicy ---------------------------
(***************************************************************************)
(* The treasury sleeve's two pure functions: TreasuryPolicyEngine.evaluate *)
(* turns idle cash and venue snapshots into an ordered list of deposits    *)
(* and redemptions; TreasuryExecutionPlanner decides for each of them      *)
(* which rules block it and what executing it would do.                    *)
(*                                                                         *)
(* Amounts are integers in hundredths of a cent, so that a percentage of a *)
(* whole number of cents is exact, as it is for decimal.js; ToFixed is the *)
(* rounding to cents of .toFixed(2).                                       *)
(***************************************************************************)
EXTENDS Integers, Sequences, FiniteSets, FiniteSetsExt

Cent == 100

ToFixed(x) == ((x + Cent \div 2) \div Cent) * Cent

AtLeastZero(x) == Max({x, 0})

PctOf(x, pct) == (x * pct) \div 100

(* Hundredths of a percent, as .toFixed(2) leaves a percentage. *)
PctFixed(part, whole) ==
  IF whole = 0 THEN 0 ELSE (20000 * part + whole) \div (2 * whole)

LiquidityPriority == [instant |-> 0, same_day |-> 1, delayed |-> 2]

Allocated(venues) ==
  LET sum[n \in 0..Len(venues)] == IF n = 0 THEN 0 ELSE sum[n - 1] + venues[n].allocation
  IN sum[Len(venues)]

ReserveStatus(idle, venues, policy) ==
  LET allocated == Allocated(venues)
      total     == idle + allocated
      required  == Max({policy.minReserve, PctOf(total, policy.reserveFloorPct)})
  IN [total     |-> total,
      idle      |-> idle,
      allocated |-> allocated,
      required  |-> required,
      shortfall |-> AtLeastZero(required - idle),
      surplus   |-> AtLeastZero(idle - required)]

Recommendation(type, venue, amount, reason) ==
  [type |-> type, venue |-> venue.id, amount |-> ToFixed(amount), reason |-> reason]

(* The comparators, over positions in the list of snapshots, and what they *)
(* put first: Array.prototype.sort is stable, so ties keep their order.    *)
ByYieldDescending(venues) ==
  {p \in (DOMAIN venues) \X (DOMAIN venues) :
     LET a == venues[p[1]]
         b == venues[p[2]]
     IN a.apr > b.apr \/ (a.apr = b.apr /\ p[1] < p[2])}

ByLiquidityAscending(venues) ==
  {p \in (DOMAIN venues) \X (DOMAIN venues) :
     LET a == venues[p[1]]
         b == venues[p[2]]
         tier == LiquidityPriority[a.tier] - LiquidityPriority[b.tier]
     IN \/ tier < 0
        \/ tier = 0 /\ a.withdrawable > b.withdrawable
        \/ tier = 0 /\ a.withdrawable = b.withdrawable /\ p[1] < p[2]}

First(S, order) == CHOOSE i \in S : \A j \in S \ {i} : <<i, j>> \in order

(* What one venue must give back because it left the eligibility list or   *)
(* because it holds more than its share; a venue may be recommended twice. *)
VenueRedemptions(v, status, policy) ==
  LET excess == v.allocation - PctOf(status.total, policy.maxPctPerVenue)
      ineligible ==
        IF v.id \notin policy.eligible /\ v.allocation > 0
        THEN <<Recommendation("redeem", v, v.allocation, "venue_ineligible")>>
        ELSE <<>>
      concentrated ==
        IF PctFixed(v.allocation, status.total) > 100 * policy.maxPctPerVenue /\ excess > 0
        THEN <<Recommendation("redeem", v, excess, "venue_concentration")>>
        ELSE <<>>
  IN ineligible \o concentrated

(* All venues in turn. *)
PerVenueRedemptions(venues, status, policy) ==
  LET recs[n \in 0..Len(venues)] ==
        IF n = 0 THEN <<>> ELSE recs[n - 1] \o VenueRedemptions(venues[n], status, policy)
  IN recs[Len(venues)]

(* A greedy pass over the candidates in their order: each takes what is    *)
(* left up to its room, until less than the threshold is left.             *)
GreedyStep(acc, pass) ==
  LET i     == First(acc.rest, pass.order)
      part  == Min({acc.left, pass.room[i]})
      taken == acc.left >= pass.least /\ part >= pass.least
  IN [rest |-> acc.rest \ {i},
      left |-> IF taken THEN acc.left - part ELSE acc.left,
      recs |-> IF taken
               THEN Append(acc.recs, Recommendation(pass.type, pass.venues[i], part, pass.reason))
               ELSE acc.recs]

Greedy(candidates, amount, pass) ==
  LET acc[n \in 0..Cardinality(candidates)] ==
        IF n = 0 THEN [rest |-> candidates, left |-> amount, recs |-> <<>>]
        ELSE GreedyStep(acc[n - 1], pass)
  IN acc[Cardinality(candidates)].recs

ShortfallRedemptions(venues, status) ==
  Greedy({i \in DOMAIN venues : venues[i].withdrawable > 0}, status.shortfall,
         [venues |-> venues, order |-> ByLiquidityAscending(venues), least |-> 1,
          room   |-> [i \in DOMAIN venues |-> venues[i].withdrawable],
          type   |-> "redeem", reason |-> "reserve_shortfall"])

SurplusDeposits(venues, status, policy) ==
  LET capRoom(i) == AtLeastZero(PctOf(status.total, policy.maxPctPerVenue) - venues[i].allocation)
  IN Greedy({i \in DOMAIN venues : venues[i].id \in policy.eligible /\ venues[i].healthy},
            status.surplus,
            [venues |-> venues, order |-> ByYieldDescending(venues), least |-> policy.minDeployable,
             room   |-> [i \in DOMAIN venues |-> Min({capRoom(i), venues[i].capacity})],
             type   |-> "deposit", reason |-> "surplus_deployable"])

Evaluate(idle, venues, policy) ==
  LET status == ReserveStatus(idle, venues, policy)
  IN [status |-> status,
      venues |-> venues,
      recs   |-> PerVenueRedemptions(venues, status, policy)
                   \o ShortfallRedemptions(venues, status)
                   \o SurplusDeposits(venues, status, policy)]

(***************************************************************************)
(* createIntentForRecommendation: the effects of a recommendation, and the *)
(* set of rules that block it, given what the venue's connector can do     *)
(* (capabilities) and how the runtime is configured (mode).  The planner   *)
(* reads amounts that .toFixed(2) has rounded.                             *)
(***************************************************************************)
VenueOf(evaluation, id) ==
  evaluation.venues[CHOOSE i \in DOMAIN evaluation.venues : evaluation.venues[i].id = id]

Effects(rec, evaluation) ==
  LET status == evaluation.status
      v      == VenueOf(evaluation, rec.venue)
      sign   == IF rec.type = "deposit" THEN 1 ELSE -1
  IN [idle      |-> ToFixed(status.idle) - sign * rec.amount,
      allocated |-> AtLeastZero(ToFixed(status.allocated) + sign * rec.amount),
      target    |-> AtLeastZero(v.allocation + sign * rec.amount)]

(* Target allocation over total capital, compared with the cap unrounded. *)
OverConcentrated(rec, evaluation, policy) ==
  LET total == ToFixed(evaluation.status.total)
  IN total > 0 /\ 100 * Effects(rec, evaluation).target > policy.maxPctPerVenue * total

DepositBlocks(rec, evaluation, policy) ==
  LET status == evaluation.status
      v      == VenueOf(evaluation, rec.venue)
      after  == Effects(rec, evaluation).idle
  IN [venue_ineligible                   |-> rec.venue \notin policy.eligible,
      venue_unhealthy                    |-> ~v.healthy,
      reserve_floor_breach               |-> after < ToFixed(status.required),
      minimum_remaining_liquidity_breach |-> after < policy.minIdle,
      insufficient_idle_capital          |-> rec.amount > ToFixed(status.idle),
      venue_capacity_exceeded            |-> rec.amount > v.capacity,
      venue_concentration_breach         |-> OverConcentrated(rec, evaluation, policy)]

ConnectorBlocks(type, cap, mode) ==
  LET live == cap.mode = "live"
      can  == IF type = "deposit" THEN cap.allocates ELSE cap.reduces
  IN [venue_execution_unsupported |-> ~cap.executes \/ ~can,
      venue_live_unapproved       |-> live /\ ~cap.approved,
      venue_live_ineligible       |-> live /\ cap.approved /\ ~cap.eligible,
      live_execution_disabled     |-> live /\ (mode.execution # "live" \/ ~mode.liveEnabled)]

Holding(blocks) == {code \in DOMAIN blocks : blocks[code]}

BlockedReasons(rec, evaluation, policy, cap, mode) ==
  LET v    == VenueOf(evaluation, rec.venue)
      size == [below_minimum_action_size |-> rec.amount < policy.minDeployable]
      type == IF rec.type = "deposit"
              THEN DepositBlocks(rec, evaluation, policy)
              ELSE [withdrawal_capacity_exceeded |-> rec.amount > v.withdrawable]
  IN IF \E i \in DOMAIN evaluation.venues : evaluation.venues[i].id = rec.venue
     THEN Holding(size) \cup Holding(type) \cup Holding(ConnectorBlocks(rec.type, cap, mode))
     ELSE Holding(size) \cup {"venue_not_found"} \cup Holding(ConnectorBlocks(rec.type, cap, mode))

ApprovalRequirement(venueMode) == IF venueMode = "live" THEN "admin" ELSE "operator"
=============================================================================
