----------------------------- MODULE MCEngines -----------------------------
(***************************************************************************)
(* An instance of Engines for TLC: configurations, markets, venues and     *)
(* portfolios that make each part meet its interesting cases.              *)
(***************************************************************************)
EXTENDS Engines, TLC

-----------------------------------------------------------------------------
(* CarryConfig and RiskLimits: thresholds in basis points, the limits in   *)
(* percent, as in the default configuration.                               *)
CarryConfig ==
  [maxAge |-> 300, takerFee |-> 5, makerFee |-> 2, approvedVenues |-> {"u", "v"},
   minFundingRate |-> 400, minAnnualYield |-> 800, minConfidence |-> 60, minBasis |-> 50,
   minSpread |-> 15, perAsset |-> 2, perVenue |-> 3, maxConcurrent |-> 5, kelly |-> 25,
   defaultSize |-> 1000, maxSize |-> 2000, assetCap |-> 1500, venueCap |-> 1500]
RiskLimits ==
  [gross |-> 200, net |-> 20, venue |-> 100, asset |-> 100, leverage |-> 300, reserve |-> 10,
   daily |-> 2, weekly |-> 5, portfolio |-> 15, priceAge |-> 30, position |-> 20, count |-> 10]

(* Markets with funding to earn, a spread between venues, one venue with   *)
(* little of it, and a basis between venues.                               *)
Market(venues, rate(_, _), mid(_, _), age) ==
  [v \in venues |-> [a \in {"BTC", "ETH"} |-> [rate |-> rate(v, a), mid |-> mid(v, a), age |-> age]]]
MarketData ==
  { Market({"u", "v"}, LAMBDA v, a : 1200, LAMBDA v, a : 100, 0),
    Market({"u", "v"}, LAMBDA v, a : IF v = "u" THEN -1200 ELSE 3000,
                       LAMBDA v, a : IF a = "BTC" /\ v = "u" THEN 101 ELSE 100, 60),
    Market({"u"}, LAMBDA v, a : IF a = "BTC" THEN 900 ELSE 100, LAMBDA v, a : 100, 100),
    Market({"u", "v"}, LAMBDA v, a : 0, LAMBDA v, a : IF v = "u" THEN 103 ELSE 100, 0) }

(* One market of a venue whose rows expose its index, and the identities   *)
(* an intent and the venue's answer may carry for it.                      *)
Perp  == [a \in {"SOL"} |-> "SOL-PERP"]
Index == [a \in {"SOL"} |-> "0"]
Mi == INSTANCE MarketIdentity
ByIndex  == Mi!createCanonicalMarketIdentity([Mi!Bare("SOL", "perp", "venue_native") EXCEPT !.index = "0"])
BySymbol == Mi!createCanonicalMarketIdentity([Mi!Bare("SOL", "perp", "venue_native") EXCEPT !.symbol = "SOL-PERP"])
SolIntents ==
  [asset : {"SOL"}, instrument : {"perpetual"}, side : {"buy", "sell"}, size : 1..2,
   planned : {Mi!NoIdentity, ByIndex}, answered : {Mi!NoIdentity, ByIndex, BySymbol}]
  \cup
  [asset : {"SOL"}, instrument : {"spot", "other"}, side : {"buy"}, size : {1},
   planned : {Mi!NoIdentity}, answered : {Mi!NoIdentity}]

(* What a reconciliation run may read: a venue in good order, one that     *)
(* disagrees, one that degraded and one that is gone; simulated adapters   *)
(* that agree or do not; the same venue after it left the truth adapters.  *)
Rk == INSTANCE ReconciliationChecks
Covered == [s \in Rk!CoverageSections |-> "available"] @@ [executionReferences |-> "available"]
TruthDetail(positions, order, wrong, account, coverage, health) ==
  [internalAt |-> 1, account |-> [status |-> account], health |-> [status |-> health],
   positions |-> positions,
   orders |-> IF order = "none" THEN <<>>
              ELSE "v1" :> [status |-> order, wrong |-> wrong, mode |-> "exact"],
   coverage |-> [s \in {"subaccountIdentity", "positionInventory", "marketIdentity",
                        "healthState", "orderInventory"} |-> coverage]]
SolRow(status) == <<[key |-> "SOL", status |-> status]>>
GoodVenue ==
  [mode |-> "real", derivative |-> TRUE, everSucceeded |-> TRUE, freshness |-> "fresh",
   health |-> "healthy", completeness |-> "complete", coverage |-> Covered,
   expected |-> {"x1"}, observed |-> {"x1"}, facts |-> 1,
   detail |-> TruthDetail(SolRow("matched"), "matched", FALSE, "matched", "available", "matched")]
DisagreeingVenue ==
  [GoodVenue EXCEPT !.observed = {},
     !.detail = TruthDetail(SolRow("mismatched"), "mismatched", TRUE, "matched", "available", "matched")]
DegradedVenue ==
  [GoodVenue EXCEPT !.freshness = "stale", !.health = "unavailable", !.completeness = "partial",
     !.coverage.executionReferences = "unsupported", !.facts = 2,
     !.detail = TruthDetail(SolRow("not_comparable"), "matched", FALSE, "mismatched", "partial", "mismatched")]
CollidingVenue ==
  [GoodVenue EXCEPT
     !.detail = TruthDetail(SolRow("mismatched") \o SolRow("matched"), "matched", FALSE, "matched", "available", "matched")]
GoneVenue ==
  [GoodVenue EXCEPT !.everSucceeded = FALSE, !.expected = {},
     !.detail = TruthDetail(<<>>, "none", FALSE, "not_comparable", "available", "matched")]
Adapter(mode, order, local, actual) ==
  [mode |-> mode, orderState |-> "available", local |-> local, actual |-> actual,
   orders |-> {[id |-> "o1", placed |-> TRUE, local |-> "filled", actual |-> order]}]
One == "SOL" :> 1
Two == "SOL" :> 2
Projected(r) == [portfolio |-> [snapshot |-> "r1", current |-> r], risk |-> [snapshot |-> "r1", current |-> r]]
Healthy ==
  [runtime |-> [projection |-> "fresh", source |-> "r1"], latestRun |-> "r1",
   projections |-> Projected("r1"), outcomes |-> "r1" :> "completed",
   commands |-> {[id |-> "c1", status |-> "completed", type |-> "run_cycle", run |-> "r1",
                  projection |-> "none"],
                 [id |-> "c2", status |-> "completed", type |-> "rebuild_projections", run |-> "r1",
                  projection |-> "fresh"]},
   adapters |-> "s" :> Adapter("simulated", "filled", One, One),
   truthAdapters |-> "d" :> "real", venues |-> "d" :> GoodVenue]
ReadWorlds ==
  [healthy   |-> Healthy,
   stale     |-> [Healthy EXCEPT !.runtime.projection = "stale", !.projections = Projected("none"),
                                 !.outcomes = "r1" :> "failed"],
   drifted   |-> [Healthy EXCEPT !.adapters = "s" :> Adapter("simulated", "cancelled", One, Two),
                                 !.venues = "d" :> DisagreeingVenue],
   degraded  |-> [Healthy EXCEPT !.venues = "d" :> DegradedVenue],
   collided  |-> [Healthy EXCEPT !.venues = "d" :> CollidingVenue],
   gone      |-> [Healthy EXCEPT !.adapters = "s" :> Adapter("simulated", "filled", <<>>, <<>>),
                                 !.venues = "d" :> GoneVenue],
   simulated |-> [Healthy EXCEPT !.adapters = "s" :> Adapter("simulated", "cancelled", Two, One),
                                 !.truthAdapters = "d" :> "simulated"],
   moved     |-> [Healthy EXCEPT !.adapters = "d" :> Adapter("real", "cancelled", One, <<>>),
                                 !.truthAdapters = <<>>]]

(* What the allocator may read: a calm portfolio in each lifecycle, with   *)
(* little, enough and too much in carry and each kind of opportunity, and  *)
(* the same with one thing wrong.                                          *)
Calm ==
  [lifecycle |-> "ready", halted |-> FALSE, open |-> 0, critical |-> 0, issues |-> 0,
   reason |-> FALSE, treasuryKnown |-> TRUE, shortfall |-> 0, idle |-> 580, capital |-> 1000,
   carryNav |-> 0, score |-> 70, mode |-> "dry-run", liveEnabled |-> FALSE]
AllocatorReads ==
  UNION {{s, [s EXCEPT !.issues = 1], [s EXCEPT !.shortfall = 1, !.idle = 0],
          [s EXCEPT !.critical = 1, !.open = 3, !.issues = 1],
          [s EXCEPT !.lifecycle = "paused", !.halted = TRUE],
          [s EXCEPT !.treasuryKnown = FALSE, !.idle = 0], [s EXCEPT !.mode = "live"]} :
           s \in {[Calm EXCEPT !.lifecycle = l, !.carryNav = n, !.score = x] :
                    l \in {"starting", "ready", "degraded", "paused"}, n \in {0, 540, 1100},
                    x \in {0, 50, 70}}}

(* What a carry evaluation may read: four opportunities, one of them       *)
(* without approved intents; four positions, two of a size and one without *)
(* a price; and each way in which the runtime or a venue may refuse.       *)
SimulatedVenue ==
  [executionSupported |-> TRUE, readOnly |-> FALSE, supportsIncrease |-> TRUE,
   supportsReduce |-> TRUE, live |-> FALSE, approved |-> FALSE, eligible |-> FALSE]
LiveVenue == [SimulatedVenue EXCEPT !.live = TRUE, !.approved = TRUE, !.eligible = TRUE]
Opportunity(amount, buyAt, sellAt, confidence) ==
  [notional |-> amount, confidence |-> confidence, expired |-> FALSE,
   orders |-> <<[venueId |-> buyAt, position |-> "none", amount |-> amount, side |-> "buy"],
                [venueId |-> sellAt, position |-> "none", amount |-> amount, side |-> "sell"]>>]
Holding(id, side, size, mark, venueId) ==
  [id |-> id, side |-> side, size |-> size, mark |-> mark, venueId |-> venueId]
DryRun ==
  [halted |-> FALSE, lifecycle |-> "ready", critical |-> 0, mode |-> "dry-run",
   liveEnabled |-> FALSE, nav |-> 5, budget |-> 12,
   opportunities |-> <<Opportunity(4, "u", "v", 80), Opportunity(3, "v", "u", 70),
                       [Opportunity(3, "u", "v", 90) EXCEPT !.orders = <<>>],
                       Opportunity(2, "u", "v", 90)>>,
   positions |-> <<Holding("p1", "long", 2, 1, "u"), Holding("p2", "short", 1, 4, "v"),
                   Holding("p3", "long", 3, 0, "u"), Holding("p4", "short", 2, 2, "v")>>,
   venues |-> [u |-> SimulatedVenue, v |-> SimulatedVenue]]
LiveRun ==
  [DryRun EXCEPT !.mode = "live", !.liveEnabled = TRUE, !.venues = [u |-> LiveVenue, v |-> LiveVenue]]
PlannerReads ==
  { DryRun, [DryRun EXCEPT !.budget = -1],
    [DryRun EXCEPT !.halted = TRUE, !.lifecycle = "paused"],
    [DryRun EXCEPT !.critical = 1], [DryRun EXCEPT !.lifecycle = "degraded"],
    [DryRun EXCEPT !.budget = 99, !.opportunities[1].expired = TRUE,
                   !.opportunities[2].confidence = 50],
    [DryRun EXCEPT !.positions = <<>>, !.opportunities = <<>>],
    [DryRun EXCEPT !.venues.u = LiveVenue],
    [DryRun EXCEPT !.venues.v.executionSupported = FALSE],
    LiveRun, [LiveRun EXCEPT !.venues.v = SimulatedVenue],
    [LiveRun EXCEPT !.venues.v.eligible = FALSE], [LiveRun EXCEPT !.venues.u.readOnly = TRUE],
    [LiveRun EXCEPT !.venues.u.supportsReduce = FALSE],
    [LiveRun EXCEPT !.venues.v.supportsIncrease = FALSE],
    [LiveRun EXCEPT !.venues.v.approved = FALSE], [LiveRun EXCEPT !.liveEnabled = FALSE] }

Venues2 == <<"u", "v">>
Assets2 == <<"BTC", "ETH">>
Tails   == <<"0", "SOL", "SOL-PERP">>
WorldNames == DOMAIN ReadWorlds
CalmInCarry == {[Calm EXCEPT !.carryNav = 540]}

(* The API's clock one tick behind the dashboard's; a budget of the carry  *)
(* sleeve that is not given.                                               *)
Behind == {-1}
NotGiven == -1
=============================================================================
