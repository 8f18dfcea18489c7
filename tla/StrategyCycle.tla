--------------------------- MODULE StrategyCycle ---------------------------
(***************************************************************************)
(* The trading part of SentinelRuntime.runCycle: refresh the portfolio     *)
(* (packages/strategy-engine/src/portfolio-state-tracker.ts), plan the     *)
(* cycle (pipeline.ts planCycle), record the intents and submit the        *)
(* approved ones, one by one, through the OrderExecutor to the simulated   *)
(* venues.  A submission may fail and the cycle may be cut short between   *)
(* two of them; an adapter may fail to answer the refresh.                 *)
(*                                                                         *)
(* Prices stay at one, slippage and fees are zero: a position is its       *)
(* notional, signed.  The simulated venue keeps ONE position per asset, so *)
(* the spot and the perpetual leg on one venue offset each other there.    *)
(***************************************************************************)
EXTENDS CarryPlanning, RiskChecks

CONSTANTS Markets,      \* what fetchMarketData may return
          StartCash,
          MaxCycles,
          MaxFaults     \* failures, of whatever kind

VARIABLES cash,      \* USDC per venue
          position,  \* per venue and asset, signed
          cycle,     \* cycles so far
          plan,      \* the snapshot and the allocations of the latest cycle
          queue,     \* approved intents still to be submitted
          recorded,  \* orders by intent id: venue and status
          faults,    \* submissions that failed, cycles cut short and refreshes
                     \* that an adapter did not answer
          blind      \* history: there was such a refresh

cycleVars == <<cash, position, cycle, plan, queue, recorded, faults, blind>>

SumOver(S, f(_)) == MapThenFoldSet(+, 0, f, LAMBDA T : CHOOSE x \in T : TRUE, S)

(* refresh: the venues that answer.  Positions are added to the balances,   *)
(* longs and shorts alike, to make the NAV.                                 *)
refresh(answering) ==
  LET gross(v, a) == IF v \in answering THEN AbsOf(position[v][a]) ELSE 0
      asset == [a \in Assets |-> SumOver(Venues, LAMBDA v : gross(v, a))]
      total == SumOver(Assets, LAMBDA a : asset[a])
      liquidity == SumOver(answering, LAMBDA v : cash[v])
  IN  [nav |-> liquidity + total, gross |-> total, liquidity |-> liquidity,
       net |-> SumOver(answering, LAMBDA v : SumOver(Assets, LAMBDA a : position[v][a])),
       asset |-> asset,
       venue |-> [v \in Venues |-> SumOver(Assets, LAMBDA a : gross(v, a))],
       open |-> Cardinality({va \in answering \X Assets : position[va[1]][va[2]] # 0})]

NoPlan == [snapshot |-> refresh(Venues), allocations |-> <<>>]

Init ==
  /\ cash = [v \in Venues |-> StartCash]
  /\ position = [v \in Venues |-> [a \in Assets |-> 0]]
  /\ cycle = 0
  /\ plan = NoPlan
  /\ queue = <<>>
  /\ recorded = <<>>
  /\ faults = 0
  /\ blind = FALSE

(* runRiskChecks: every intent alone, against the same snapshot; a warning  *)
(* is no obstacle.                                                          *)
runRiskChecks(intents, p) ==
  SelectSeq(intents, LAMBDA i : assessOrderIntent(i, p, FALSE) # "failed")

planCycle(market, p) ==
  optimizeCarryPortfolio(SelectSeq(detectOpportunities(market), Worth), p)

RunCycle(market, answering) ==
  /\ queue = <<>> /\ cycle < MaxCycles
  /\ cycle' = cycle + 1
  /\ LET p == refresh(answering)
         allocations == planCycle(market, p)
     IN  /\ plan' = [snapshot |-> p, allocations |-> allocations]
         /\ queue' = runRiskChecks(generateIntents(allocations, cycle'), p)
  /\ faults' = faults + (IF answering = Venues THEN 0 ELSE 1) /\ faults' <= MaxFaults
  /\ blind' = (blind \/ answering # Venues)
  /\ UNCHANGED <<cash, position, recorded>>

Signed(i) == IF i.side = "buy" THEN i.notional ELSE -i.notional

(* submitIntent: an order already on record under the intent's id, unless   *)
(* it failed, is returned as it is and nothing is sent.                     *)
OnRecord(i) == i.id \in DOMAIN recorded /\ recorded[i.id].status # "failed"

Record(i, status) ==
  recorded' = [id \in DOMAIN recorded \cup {i.id} |->
                 IF id = i.id THEN [venue |-> i.venue, status |-> status] ELSE recorded[id]]

SkipRecorded ==
  /\ queue # <<>> /\ OnRecord(Head(queue))
  /\ queue' = Tail(queue)
  /\ UNCHANGED <<cash, position, cycle, plan, recorded, faults, blind>>

applyFill(i) == position' = [position EXCEPT ![i.venue][i.asset] = @ + Signed(i)]

SubmitFills ==
  /\ queue # <<>> /\ ~OnRecord(Head(queue))
  /\ LET i == Head(queue) IN
       /\ applyFill(i)
       /\ cash' = [cash EXCEPT ![i.venue] = @ - Signed(i)]
       /\ Record(i, "filled")
  /\ queue' = Tail(queue)
  /\ UNCHANGED <<cycle, plan, faults, blind>>

SubmitFails ==
  /\ queue # <<>> /\ ~OnRecord(Head(queue)) /\ faults < MaxFaults
  /\ Record(Head(queue), "failed")
  /\ queue' = Tail(queue)
  /\ faults' = faults + 1
  /\ UNCHANGED <<cash, position, cycle, plan, blind>>

(* An exception ends the cycle: the run is failed, the rest is not sent.    *)
CycleFails ==
  /\ queue # <<>> /\ faults < MaxFaults
  /\ queue' = <<>>
  /\ faults' = faults + 1
  /\ UNCHANGED <<cash, position, cycle, plan, recorded, blind>>

Next ==
  \/ \E m \in Markets, answering \in SUBSET Venues \ {{}} : RunCycle(m, answering)
  \/ SkipRecorded
  \/ SubmitFills
  \/ SubmitFails
  \/ CycleFails

Spec == Init /\ [][Next]_cycleVars

-----------------------------------------------------------------------------
(* Properties                                                              *)

Planned(f(_)) == SumOver(DOMAIN plan.allocations, LAMBDA k : f(plan.allocations[k]))

LegsAt(c, v) == Cardinality({i \in DOMAIN c.legs : c.legs[i].venue = v})

Capped(before, added, cap) == added = 0 \/ (before + added) * 10000 <= cap * plan.snapshot.nav

BookNet   == SumOver(Venues \X Assets, LAMBDA va : position[va[1]][va[2]])
BookGross == SumOver(Venues \X Assets, LAMBDA va : AbsOf(position[va[1]][va[2]]))
BookNav   == SumOver(Venues, LAMBDA v : cash[v]) + BookGross

(* A whole plan stays within the concentration limits of CarryConfig: with  *)
(* all allocations of the cycle added to the snapshot, no asset and no      *)
(* venue is beyond its cap, although each opportunity was sized on its own  *)
(* (portfolio-optimizer.ts optimizeCarryPortfolio).                         *)
PlanWithinCaps ==
  /\ \A a \in Assets : Capped(plan.snapshot.asset[a],
                              Planned(LAMBDA x : IF x.of.asset = a THEN x.size ELSE 0), Cfg.assetCap)
  /\ \A v \in Venues : Capped(plan.snapshot.venue[v],
                              Planned(LAMBDA x : (x.size * LegsAt(x.of, v)) \div 2), Cfg.venueCap)

(* However many cycles run, and whichever of their orders fail, the book's  *)
(* gross exposure never passes maxPositionSizePct of the NAV, as long as    *)
(* every adapter answered the refreshes (computePositionSize's remaining    *)
(* capacity).                                                               *)
GrossWithinCap ==
  ~blind => BookGross * 10000 <= Cfg.maxSize * BookNav

(* Between cycles the book is neutral unless an order failed, a cycle was   *)
(* cut short or a venue was not seen: both legs of an opportunity are       *)
(* approved or neither is, although each is assessed alone, and an id       *)
(* collision loses both legs (pipeline.ts runRiskChecks, intent-builder.ts).*)
BookStaysNeutral == (queue = <<>> /\ faults = 0) => BookNet = 0
=============================================================================
