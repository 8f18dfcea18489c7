------------------------ MODULE ReconciliationChecks ------------------------
(***************************************************************************)
(* What one reconciliation run compares (reconciliation-engine.ts), as     *)
(* operators on the world w it reads.  A check has the dedupe key of its   *)
(* mismatch, <<finding type, venue, entity>>, and says whether the finding *)
(* is active.  A subject that is absent yields no check at all, neither an *)
(* active nor a resolving one.                                             *)
(***************************************************************************)
EXTENDS Naturals, SequencesExt

Check(type, venue, entity, active) == [key |-> <<type, venue, entity>>, active |-> active]

When(condition, check) == IF condition THEN <<check>> ELSE <<>>

Each(S, F(_)) == FlattenSeq([n \in DOMAIN SetToSeq(S) |-> F(SetToSeq(S)[n])])

-----------------------------------------------------------------------------
(* Projections.  w.runtime is the runtime_state row; w.latestRun the last  *)
(* successful run; w.projections gives, for portfolio and risk, the latest *)
(* durable snapshot and the current projection ("none" where there is no   *)
(* row).                                                                   *)
detectProjectionStateFindings(w) ==
  <<Check("stale_projection_state", "none", "runtime_state",
          \/ w.runtime.projection # "fresh"
          \/ w.latestRun # "none" /\ w.runtime.source # w.latestRun)>>
  \o Each({"portfolio", "risk"}, LAMBDA p :
       When(w.projections[p].snapshot # "none",
            Check("projection_state_mismatch", "none", p,
                  w.projections[p].current # w.projections[p].snapshot)))

(* Completed commands and what became of them.  c.run is the strategy or   *)
(* reconciliation run that the result names, w.outcomes its status.        *)
CommandIsOff(w, c) ==
  CASE c.type = "run_cycle" \/ c.type = "run_reconciliation" ->
         c.run = "none" \/ w.outcomes[c.run] # "completed"
    [] c.type = "rebuild_projections" ->
         \/ w.runtime.projection # "fresh"
         \/ c.projection # "none" /\ c.projection # w.runtime.projection
         \/ c.run # w.runtime.source

detectCommandOutcomeFindings(w) ==
  Each({c \in w.commands : c.status = "completed"
                           /\ c.type \in {"run_cycle", "rebuild_projections", "run_reconciliation"}},
       LAMBDA c : <<Check("command_outcome_mismatch", "none", c.id, CommandIsOff(w, c))>>)

(* Orders with a venue id, at the venues whose truth covers orders. *)
isOrderMismatch(local, actual) ==
  CASE actual = "none" -> local \notin {"failed", "cancelled"}
    [] actual # "none" /\ local = "filled" -> actual # "filled"
    [] actual # "none" /\ local \in {"failed", "cancelled"} ->
         actual \in {"filled", "partially_filled"}
    [] OTHER -> actual \notin {"submitted", "partially_filled"}

detectOrderStateFindings(w) ==
  Each({v \in DOMAIN w.adapters : w.adapters[v].orderState # "unsupported"}, LAMBDA v :
    Each({o \in w.adapters[v].orders : o.placed}, LAMBDA o :
      <<Check("order_state_mismatch", v, o.id, isOrderMismatch(o.local, o.actual))>>))

(* Positions: local and actual map assets to signed sizes, in units larger *)
(* than both tolerances.                                                   *)
isPositionMismatch(local, actual, asset) ==
  \/ (asset \in DOMAIN local) # (asset \in DOMAIN actual)
  \/ asset \in DOMAIN local \cap DOMAIN actual /\ local[asset] # actual[asset]

detectPositionExposureFindings(w) ==
  Each(DOMAIN w.adapters, LAMBDA v :
    LET a == w.adapters[v]
    IN Each(DOMAIN a.local \cup DOMAIN a.actual, LAMBDA asset :
         <<Check("position_exposure_mismatch", v, asset,
                 isPositionMismatch(a.local, a.actual, asset))>>))

-----------------------------------------------------------------------------
(* getActiveRealVenueIds *)
ActiveReal(w) ==
  {v \in DOMAIN w.adapters : w.adapters[v].mode = "real"}
  \cup {v \in DOMAIN w.truthAdapters : w.truthAdapters[v] = "real"}

(* Venues whose snapshots are inspected: all of them when none is real. *)
Inspected(w, active) ==
  {v \in DOMAIN w.venues : (active = {} \/ v \in active) /\ w.venues[v].mode = "real"}

CoverageSections == {"derivativeAccountState", "derivativePositionState", "derivativeHealthState",
                     "orderState"}

SnapshotChecks(v, r) ==
  <<Check("stale_venue_truth_snapshot", v, v, r.freshness = "stale"),
    Check("venue_truth_unavailable", v, v, r.health = "unavailable"),
    Check("venue_truth_partial_coverage", v, v,
          r.completeness # "complete" \/ \E s \in CoverageSections : r.coverage[s] = "partial")>>

ReferenceChecks(v, r) ==
  When(r.coverage.executionReferences = "available" /\ r.expected # {},
       Check("venue_execution_reference_mismatch", v, v, ~(r.expected \subseteq r.observed)))

detectVenueTruthFindings(w, active) ==
  Each({v \in DOMAIN w.truthAdapters : w.truthAdapters[v] = "real"}, LAMBDA v :
    <<Check("missing_venue_truth_snapshot", v, v,
            v \notin DOMAIN w.venues \/ ~w.venues[v].everSucceeded)>>)
  \o Each(Inspected(w, active), LAMBDA v :
       SnapshotChecks(v, w.venues[v]) \o ReferenceChecks(v, w.venues[v]))

(* The comparison of a derivative venue is a detail in the form            *)
(* DerivativeComparison builds; facts is the latest internal order or fill. *)
GapSections(r) ==
  {g \in {<<"subaccountIdentity", "derivativeAccountState">>,
          <<"positionInventory", "derivativePositionState">>,
          <<"marketIdentity", "derivativePositionState">>,
          <<"healthState", "derivativeHealthState">>,
          <<"orderInventory", "orderState">>} :
     r.coverage[g[2]] = "available" /\ r.detail.coverage[g[1]] # "available"}

Differs == {"mismatched", "internal_only", "external_only"}

SectionChecks(v, r) ==
  <<Check("drift_truth_comparison_gap", v, v, GapSections(r) # {}),
    Check("drift_subaccount_identity_mismatch", v, v, r.detail.account.status = "mismatched")>>

CoverageChecks(v, d) ==
  <<Check("drift_partial_health_comparison", v, v, d.coverage.healthState = "partial"),
    Check("drift_partial_market_identity_comparison", v, v, d.coverage.marketIdentity = "partial"),
    Check("drift_health_state_mismatch", v, v,
          d.coverage.healthState = "available" /\ d.health.status = "mismatched")>>

(* A pair of positions always shares a key, so its identities never count  *)
(* as mismatched and that check never appears.                             *)
PositionComparisonChecks(v, d) ==
  FlattenSeq([n \in DOMAIN d.positions |->
    LET c == d.positions[n]
    IN <<Check("drift_position_identity_gap", v, c.key, c.status = "not_comparable"),
         Check("drift_position_mismatch", v, c.key, c.status \in Differs)>>])

OrderComparisonChecks(v, d) ==
  Each(DOMAIN d.orders, LAMBDA o :
    <<Check("drift_market_identity_mismatch", v, o, d.orders[o].wrong /\ d.orders[o].mode = "exact"),
      Check("drift_order_inventory_mismatch", v, o, d.orders[o].status \in Differs)>>)

detectDerivativeComparisonFindings(w, active) ==
  Each({v \in Inspected(w, active) : w.venues[v].derivative}, LAMBDA v :
    LET r == w.venues[v]
    IN <<Check("stale_internal_derivative_state", v, v, r.facts > r.detail.internalAt)>>
       \o SectionChecks(v, r) \o CoverageChecks(v, r.detail)
       \o PositionComparisonChecks(v, r.detail) \o OrderComparisonChecks(v, r.detail))

Detectors == <<"projection", "command", "order", "position", "venue", "derivative">>

Detect(d, w, active) ==
  CASE d = "projection" -> detectProjectionStateFindings(w)
    [] d = "command"    -> detectCommandOutcomeFindings(w)
    [] d = "order"      -> detectOrderStateFindings(w)
    [] d = "position"   -> detectPositionExposureFindings(w)
    [] d = "venue"      -> detectVenueTruthFindings(w, active)
    [] d = "derivative" -> detectDerivativeComparisonFindings(w, active)

(* All checks of a run that reads w with these venues active. *)
ChecksOf(w, active) ==
  UNION {ToSet(Detect(Detectors[n], w, active)) : n \in DOMAIN Detectors}

ChecksOK(w, active) ==
  /\ \A n \in DOMAIN Detectors : Detect(Detectors[n], w, active) \in Seq(ChecksOf(w, active))
  /\ \A c \in ChecksOf(w, active) : c.active \in BOOLEAN
=============================================================================
