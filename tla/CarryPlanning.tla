--------------------------- MODULE CarryPlanning ---------------------------
(***************************************************************************)
(* From market data to order intents: the opportunity detector             *)
(* (packages/carry/src/opportunity-detector.ts), the portfolio optimizer   *)
(* and position sizer (portfolio-optimizer.ts, position-sizer.ts) and the  *)
(* intent builder (packages/strategy-engine/src/intent-builder.ts), as     *)
(* operators.  Yields, fees and percentages are basis points, confidence   *)
(* is in percent, money is a whole number of the smallest unit and every   *)
(* division rounds down, as toDecimalPlaces(2, ROUND_DOWN) does.           *)
(***************************************************************************)
EXTENDS Integers, Sequences, FiniteSets, SequencesExt, TLC

CONSTANTS VenueOrder,  \* the adapters, in the order of the adapter map
          AssetOrder,  \* carryConfig.approvedAssets
          Cfg          \* CarryConfig, see MCEngines

Venues == ToSet(VenueOrder)
Assets == ToSet(AssetOrder)

Lesser(a, b)  == IF a < b THEN a ELSE b
Clamp(x)     == IF x < 0 THEN 0 ELSE Lesser(x, 100)
AbsOf(x)     == IF x < 0 THEN -x ELSE x
Opposite(s)  == IF s = "long" THEN "short" ELSE "long"
SeqWhen(c, x) == IF c THEN <<x>> ELSE <<>>

-----------------------------------------------------------------------------
(* Detection.  market[v][a] is what venue v quotes for asset a: the        *)
(* annualised funding rate, the mid price and the age of the quote; a      *)
(* venue outside the domain is not connected.                              *)

computeConfidenceFromAge(age) ==
  CASE age <= 0          -> 100
    [] age >= Cfg.maxAge -> 0
    [] OTHER             -> 100 - (age * 100) \div Cfg.maxAge

estimateRoundTripFee == 2 * Cfg.takerFee + 2 * Cfg.makerFee

Leg(venue, side, kind) == [venue |-> venue, side |-> side, kind |-> kind]

Candidate(type, asset, legs, gross, net, confidence) ==
  [type |-> type, asset |-> asset, legs |-> legs, yield |-> gross, net |-> net,
   confidence |-> confidence]

(* The perpetual is shorted when longs pay funding, and hedged with spot on *)
(* the same venue.                                                          *)
SameSides(v, a, q) ==
  LET side == IF q.rate > 0 THEN "short" ELSE "long" IN
  <<Leg(v, side, "perpetual"), Leg(v, side, "spot")>>

FundingLegs(v, a, q) ==
  LET side == IF q.rate > 0 THEN "short" ELSE "long" IN
  <<Leg(v, side, "perpetual"), Leg(v, Opposite(side), "spot")>>

detectFundingRate(v, a, q) ==
  LET net == AbsOf(q.rate) - estimateRoundTripFee
      confidence == computeConfidenceFromAge(q.age)
  IN  SeqWhen(/\ v \in Cfg.approvedVenues
              /\ AbsOf(q.rate) >= Cfg.minFundingRate /\ net >= Cfg.minAnnualYield
              /\ confidence >= Cfg.minConfidence,
              Candidate("funding_rate_arb", a, FundingLegs(v, a, q), AbsOf(q.rate), net,
                        confidence))

(* Two venues, in the order of the map: buy where the mid is lower; with    *)
(* equal mids the second venue is the long one.  The age is the older       *)
(* quote's.                                                                 *)
detectCrossVenue(u, v, a, market) ==
  LET p == market[u][a].mid
      q == market[v][a].mid
      buy == IF p < q THEN u ELSE v
      sell == IF p < q THEN v ELSE u
      low == Lesser(p, q)
      spread == (AbsOf(p - q) * 10000) \div low
      pnl == spread - estimateRoundTripFee
      age == IF market[u][a].age > market[v][a].age THEN market[u][a].age ELSE market[v][a].age
  IN  IF p = 0 \/ q = 0 THEN <<>>
      ELSE SeqWhen(/\ {u, v} \subseteq Cfg.approvedVenues
                   /\ spread >= Cfg.minSpread /\ pnl >= 0
                   /\ computeConfidenceFromAge(age) >= Cfg.minConfidence,
                   Candidate("cross_venue_spread", a,
                             <<Leg(buy, "long", "spot"), Leg(sell, "short", "spot")>>,
                             spread * 365, pnl * 365, computeConfidenceFromAge(age)))

Connected(market) == SelectSeq(VenueOrder, LAMBDA v : v \in DOMAIN market)

detectOpportunities(market) ==
  LET vs == Connected(market)
      funding(a) == FlattenSeq([i \in DOMAIN vs |-> detectFundingRate(vs[i], a, market[vs[i]][a])])
      across(a, i) == FlattenSeq([j \in 1..(Len(vs) - i) |->
                                   detectCrossVenue(vs[i], vs[i + j], a, market)])
  IN  FlattenSeq([n \in DOMAIN AssetOrder |-> funding(AssetOrder[n])])
        \o FlattenSeq([n \in DOMAIN AssetOrder |->
                        FlattenSeq([i \in DOMAIN vs |-> across(AssetOrder[n], i)])])

(* evaluateOpportunities' threshold filter: an opportunity has just been    *)
(* detected, so it has not expired.                                         *)
Worth(c) == c.confidence >= Cfg.minConfidence /\ c.net >= Cfg.minAnnualYield

-----------------------------------------------------------------------------
(* Selection: repeatedly re-rank what is left and take the best one that   *)
(* the per-asset and per-venue limits admit.                               *)

VenuesOf(c) == {c.legs[i].venue : i \in DOMAIN c.legs}

scoreOpportunity(c, assets, venues) ==
  LET fresh == 15 * Cardinality(VenuesOf(c) \ venues)
      diversification == Clamp((IF c.asset \in assets THEN 0 ELSE 65) + Lesser(35, fresh))
      breadth == Clamp((Cardinality(VenuesOf(c)) * 100) \div Len(c.legs))
  IN  50 * Clamp((c.net * 100) \div 2000) + 25 * c.confidence + 10 * breadth + 15 * diversification

(* remaining.sort is stable: equal scores keep their order.                *)
Ranked(cs, assets, venues) ==
  LET keyed == [i \in DOMAIN cs |-> [score |-> scoreOpportunity(cs[i], assets, venues), at |-> i]]
      before(x, y) == x.score > y.score \/ (x.score = y.score /\ x.at < y.at)
      order == SortSeq(keyed, before)
  IN  [i \in DOMAIN cs |-> cs[order[i].at]]

canSelectOpportunity(c, chosen) ==
  /\ Len(SelectSeq(chosen, LAMBDA d : d.asset = c.asset)) < Cfg.perAsset
  /\ \A v \in VenuesOf(c) : Len(SelectSeq(chosen, LAMBDA d : v \in VenuesOf(d))) < Cfg.perVenue

SelectOne(s) ==
  IF s.left = <<>> \/ Len(s.chosen) >= Cfg.maxConcurrent THEN s
  ELSE LET ranked == Ranked(s.left, {s.chosen[i].asset : i \in DOMAIN s.chosen},
                            UNION {VenuesOf(s.chosen[i]) : i \in DOMAIN s.chosen})
       IN  [left |-> Tail(ranked),
            chosen |-> IF canSelectOpportunity(Head(ranked), s.chosen)
                       THEN Append(s.chosen, Head(ranked)) ELSE s.chosen]

selectOpportunityCandidates(cs) ==
  FoldLeft(LAMBDA s, i : SelectOne(s), [left |-> cs, chosen |-> <<>>], cs).chosen

-----------------------------------------------------------------------------
(* Sizing.  A portfolio is what the tracker reports: nav, gross, net,       *)
(* liquidity, the exposure by asset and by venue, the open positions.       *)

Bp(amount, bp) == (amount * bp) \div 10000

computePositionSize(c, nav, gross) ==
  LET kelly == (c.yield * c.confidence * Cfg.kelly) \div 10000
      wanted == IF kelly > Cfg.defaultSize THEN kelly ELSE Cfg.defaultSize
      room == Bp(nav, Cfg.maxSize) - gross
  IN  IF nav = 0 \/ room <= 0 THEN 0
      ELSE Lesser(Bp(nav, Lesser(wanted, Cfg.maxSize)), room)

computeMaxAllowedSize(nav, open) ==
  IF nav = 0 \/ open >= Cfg.maxConcurrent THEN 0
  ELSE Lesser(Bp(nav, Cfg.maxSize) \div (Cfg.maxConcurrent - open), Bp(nav, Cfg.defaultSize))

(* What a venue can still take, as a notional of the whole opportunity: it  *)
(* carries one of the two legs, or both.                                    *)
VenueRoom(c, v, nav, exposure) ==
  LET legs == Cardinality({i \in DOMAIN c.legs : c.legs[i].venue = v}) IN
  ((Bp(nav, Cfg.venueCap) - exposure[v]) * Len(c.legs)) \div legs

Least(S) == CHOOSE x \in S : \A y \in S : x <= y

OpportunitySize(c, p) ==
  Least({computePositionSize(c, p.nav, p.gross), computeMaxAllowedSize(p.nav, p.open),
         Bp(p.nav, Cfg.assetCap) - p.asset[c.asset]}
        \cup {VenueRoom(c, v, p.nav, p.venue) : v \in VenuesOf(c)})

(* The planned portfolio after an allocation, which the next one is sized   *)
(* against.                                                                 *)
NeverAdvance(p, c, size) == p

Advance(p, c, size) ==
  [p EXCEPT !.gross = @ + size, !.open = @ + 1, !.asset[c.asset] = @ + size,
            !.venue = [v \in DOMAIN @ |->
               @[v] + (size * Cardinality({i \in DOMAIN c.legs : c.legs[i].venue = v}))
                        \div Len(c.legs)]]

AllocateOne(s, c) ==
  LET size == OpportunitySize(c, s.plan) IN
  IF size <= 0 THEN s
  ELSE [plan |-> Advance(s.plan, c, size), taken |-> Append(s.taken, [of |-> c, size |-> size])]

optimizeCarryPortfolio(cs, portfolio) ==
  IF portfolio.nav <= 0 THEN <<>>
  ELSE FoldLeft(AllocateOne, [plan |-> portfolio, taken |-> <<>>],
                selectOpportunityCandidates(cs)).taken

-----------------------------------------------------------------------------
(* Intents.  The id is asset, type, order side and the millisecond: two     *)
(* opportunities of one asset and type in one cycle produce equal ids.      *)

buildIntentId(c, side, cycle) == <<c.asset, c.type, side, cycle>>

buildIntentsFromOpportunity(al, cycle) ==
  [i \in DOMAIN al.of.legs |->
     LET leg == al.of.legs[i]
         side == IF leg.side = "long" THEN "buy" ELSE "sell"
     IN  [id |-> buildIntentId(al.of, side, cycle), venue |-> leg.venue, asset |-> al.of.asset,
          side |-> side, notional |-> al.size \div 2, positionSize |-> al.size]]

generateIntents(allocations, cycle) ==
  FlattenSeq([i \in DOMAIN allocations |-> buildIntentsFromOpportunity(allocations[i], cycle)])
=============================================================================
