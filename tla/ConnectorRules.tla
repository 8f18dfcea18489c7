---------------------------- MODULE ConnectorRules ----------------------------
(***************************************************************************)
(* What the store derives from the latest snapshot of a venue connector:   *)
(* its capability class, the state of its read-only validation, the        *)
(* blockers of a promotion, the evidence, and the posture that follows     *)
(* from a promotion's status.  A venue is a record of what these           *)
(* functions read; its missing prerequisites and its configuration markers *)
(* are represented by whether there are any, and whether all are ready.    *)
(***************************************************************************)
EXTENDS Naturals, FiniteSets

TruthModes    == {"simulated", "real"}
HealthStates  == {"healthy", "degraded", "unavailable"}
Freshness     == {"fresh", "stale", "missing"}
Completeness  == {"complete", "partial", "minimal"}
Confirmations == {"not_required", "confirmed", "blocked"}

(* snapshots a connector can record; healthy is derived from healthState *)
Venues ==
  [truthMode : TruthModes, executionSupport : BOOLEAN, freshness : Freshness,
   completeness : Completeness, healthState : HealthStates, healthy : BOOLEAN,
   succeeded : BOOLEAN, missing : BOOLEAN, configured : BOOLEAN, confirmation : Confirmations]

inferConnectorCapabilityClass(v) ==
  IF v.truthMode = "simulated" THEN "simulated_only"
  ELSE IF v.executionSupport THEN "execution_capable" ELSE "real_readonly"

inferReadOnlyValidationState(v) ==
  IF v.truthMode = "simulated" THEN "not_applicable"
  ELSE IF v.freshness = "fresh" /\ v.healthState = "healthy" /\ v.completeness = "complete"
       THEN "complete"
  ELSE IF v.freshness = "fresh" /\ v.healthState # "unavailable" /\ v.completeness # "minimal"
       THEN "partial"
  ELSE "insufficient"

(* mutant: a blocked confirmation does not block *)
BlockersWithoutConfirmation(v) ==
  {b \in {"missing_prerequisites", "capability", "truth_mode", "never_succeeded", "stale",
          "unhealthy", "incomplete", "not_validated", "not_configured"} :
     \/ b = "missing_prerequisites" /\ v.missing
     \/ b = "capability" /\ inferConnectorCapabilityClass(v) # "execution_capable"
     \/ b = "truth_mode" /\ v.truthMode # "real"
     \/ b = "never_succeeded" /\ ~v.succeeded
     \/ b = "stale" /\ v.freshness # "fresh"
     \/ b = "unhealthy" /\ (~v.healthy \/ v.healthState # "healthy")
     \/ b = "incomplete" /\ v.completeness # "complete"
     \/ b = "not_validated" /\ inferReadOnlyValidationState(v) # "complete"
     \/ b = "not_configured" /\ ~v.configured}

buildConnectorEligibilityBlockers(v) ==
  {b \in {"missing_prerequisites", "capability", "truth_mode", "never_succeeded", "stale",
          "unhealthy", "incomplete", "not_validated", "not_configured", "unconfirmed"} :
     \/ b = "missing_prerequisites" /\ v.missing
     \/ b = "capability" /\ inferConnectorCapabilityClass(v) # "execution_capable"
     \/ b = "truth_mode" /\ v.truthMode # "real"
     \/ b = "never_succeeded" /\ ~v.succeeded
     \/ b = "stale" /\ v.freshness # "fresh"
     \/ b = "unhealthy" /\ (~v.healthy \/ v.healthState # "healthy")
     \/ b = "incomplete" /\ v.completeness # "complete"
     \/ b = "not_validated" /\ inferReadOnlyValidationState(v) # "complete"
     \/ b = "not_configured" /\ ~v.configured
     \/ /\ b = "unconfirmed"
        /\ inferConnectorCapabilityClass(v) = "execution_capable"
        /\ v.confirmation = "blocked"}

buildConnectorReadinessEvidence(v) ==
  [capabilityClass |-> inferConnectorCapabilityClass(v),
   blockers |-> buildConnectorEligibilityBlockers(v),
   eligible |-> /\ inferConnectorCapabilityClass(v) = "execution_capable"
                /\ buildConnectorEligibilityBlockers(v) = {}]

Postures ==
  {"suspended", "simulated_only", "real_readonly", "approved_for_live", "promotion_pending",
   "rejected", "execution_capable_unapproved"}

deriveEffectivePosture(capabilityClass, status) ==
  IF status = "suspended" THEN "suspended"
  ELSE IF capabilityClass # "execution_capable" THEN capabilityClass
  ELSE IF status = "approved" THEN "approved_for_live"
  ELSE IF status = "pending_review" THEN "promotion_pending"
  ELSE IF status = "rejected" THEN "rejected"
  ELSE "execution_capable_unapproved"

(* A summary is computed from the latest promotion of the venue and from   *)
(* the evidence of now; status not_requested stands for no promotion.      *)
PromotionSummary(status, evidence) ==
  [status |-> status,
   posture |-> deriveEffectivePosture(evidence.capabilityClass, status),
   approvedForLiveUse |-> status = "approved",
   sensitiveExecutionEligible |->
     /\ status = "approved"
     /\ deriveEffectivePosture(evidence.capabilityClass, status) = "approved_for_live"
     /\ evidence.eligible]

=============================================================================
