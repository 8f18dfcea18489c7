----------------------------- MODULE RiskChecks -----------------------------
(***************************************************************************)
(* Pre-trade risk checks of packages/risk-engine/src: checks.ts, the       *)
(* assessment and the summary of engine.ts, and the state after a fill.    *)
(* Percentages are compared by cross multiplication, so nothing rounds.    *)
(***************************************************************************)
EXTENDS Integers, Sequences, FiniteSets

CONSTANT Limits   \* RiskLimits: percentages; leverage is in hundredths

Verdicts == {"passed", "warning", "failed"}

Magnitude(x) == IF x < 0 THEN -x ELSE x

(* part / whole against a limit in percent: failed above it, a warning      *)
(* above nine tenths of it.                                                 *)
AgainstLimit(part, whole, limit) ==
  CASE whole = 0                          -> "failed"
    [] part * 100 > limit * whole         -> "failed"
    [] part * 1000 > limit * 9 * whole    -> "warning"
    [] OTHER                              -> "passed"

checkGrossExposure(gross, size, nav) == AgainstLimit(gross + size, nav, Limits.gross)

checkNetExposure(net, delta, nav) == AgainstLimit(Magnitude(net + delta), nav, Limits.net)

checkVenueConcentration(exposure, size, gross) ==
  AgainstLimit(exposure + size, gross + size, Limits.venue)

checkAssetConcentration(exposure, size, gross) ==
  AgainstLimit(exposure + size, gross + size, Limits.asset)

checkLeverage(gross, size, nav) == AgainstLimit(gross + size, nav, Limits.leverage)

checkLiquidityReserve(reserve, margin, nav) ==
  CASE nav = 0                                              -> "failed"
    [] (reserve - margin) * 100 < Limits.reserve * nav      -> "failed"
    [] (reserve - margin) * 1000 < Limits.reserve * 12 * nav -> "warning"
    [] OTHER                                                -> "passed"

checkDrawdown(drawdown, limit) ==
  CASE drawdown > limit          -> "failed"
    [] drawdown * 10 > limit * 9 -> "warning"
    [] OTHER                     -> "passed"

checkPriceStaleness(age) ==
  CASE age > Limits.priceAge          -> "failed"
    [] age * 10 > Limits.priceAge * 8 -> "warning"
    [] OTHER                          -> "passed"

checkPositionSize(size, sleeveNav) == AgainstLimit(size, sleeveNav, Limits.position)

maxOpportunityCount(open) ==
  CASE open >= Limits.count                -> "failed"
    [] open >= (Limits.count * 9) \div 10  -> "warning"
    [] OTHER                               -> "passed"

rollUpStatus(results) ==
  CASE "failed" \in results  -> "failed"
    [] "warning" \in results -> "warning"
    [] OTHER                 -> "passed"

(* assessOrderIntent.  The pipeline passes the size of the whole            *)
(* opportunity as the size, the delta and the margin of each leg, and the   *)
(* present moment as the time of the last price.  p is the tracker's        *)
(* portfolio, whose drawdowns are always zero.                              *)
assessOrderIntent(intent, p, breakerOpen) ==
  IF breakerOpen THEN "failed"
  ELSE LET size == intent.positionSize
           delta == IF intent.side = "buy" THEN size ELSE -size
       IN  rollUpStatus({checkPriceStaleness(0),
                         checkGrossExposure(p.gross, size, p.nav),
                         checkNetExposure(p.net, delta, p.nav),
                         checkVenueConcentration(p.venue[intent.venue], size, p.gross),
                         checkAssetConcentration(p.asset[intent.asset], size, p.gross),
                         checkLeverage(p.gross, size, p.nav),
                         checkLiquidityReserve(p.liquidity, size, p.nav),
                         checkDrawdown(0, Limits.daily),
                         checkDrawdown(0, Limits.weekly),
                         checkDrawdown(0, Limits.portfolio),
                         checkPositionSize(size, p.nav),
                         maxOpportunityCount(p.open)})

=============================================================================
