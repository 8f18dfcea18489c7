----------------------------- MODULE ApiRoutes -----------------------------
(***************************************************************************)
(* The HTTP interface of apps/api: every route registered by                *)
(* src/apps/api/src/routes/*.ts, as a record of what its handler decides    *)
(* before and after the call of the control plane.                          *)
(*                                                                          *)
(*   role   the role requireOperatorRole asks for in the signed operator    *)
(*          headers; "none" where the API key alone is enough               *)
(*   op     the control-plane method called (the last of them, where the    *)
(*          handler looks the subject up first)                             *)
(*   does   "body"         the handler reads the request body, which is     *)
(*                         undefined when the request carries none          *)
(*          "missing"      a null result, or a subject not found, is        *)
(*                         answered 404                                     *)
(*          "conflict"     an exception is answered 403, 404 or 409         *)
(*          "bad_request"  an exception is answered 400; in a route with    *)
(*                         neither, errorHandler answers 500                *)
(*                                                                          *)
(* Query parameters, paging limits and the shape of the answers are left    *)
(* out. Parameters of a path are written :id, the root of a group /.        *)
(***************************************************************************)

Route(method, group, path, role, op, does) ==
    [method |-> method, group |-> group, path |-> path,
     role |-> role, op |-> op, does |-> does]

Get(group, path, op, does) == Route("GET", group, path, "none", op, does)

Post(group, path, role, op, does) == Route("POST", group, path, role, op, does)

AllocatorReads ==
    { Get("allocator", "/summary", "getAllocatorSummary", {}),
      Get("allocator", "/targets", "listAllocatorTargets", {}),
      Get("allocator", "/decisions", "listAllocatorRuns", {}),
      Get("allocator", "/runs", "listAllocatorRuns", {}),
      Get("allocator", "/decisions/:id", "getAllocatorDecision", {"missing"}) }

BundleQueueReads ==
    { Get("allocator", "/rebalance-bundles", "listRebalanceBundles", {}),
      Get("allocator", "/escalations", "listRebalanceEscalations", {}),
      Get("allocator", "/escalations/summary", "getRebalanceEscalationSummary", {}),
      Route("GET", "allocator", "/escalations/mine", "viewer", "listRebalanceEscalations", {}),
      Get("allocator", "/rebalance-bundles/:id", "getRebalanceBundle", {"missing"}) }

BundleResolutionReads ==
    { Get("allocator", "/rebalance-proposals/:id/bundle",
           "getRebalanceBundleForProposal", {"missing"}),
      Get("allocator", "/rebalance-bundles/:id/resolution-actions",
           "listRebalanceBundleResolutionActions", {"missing"}),
      Get("allocator", "/rebalance-bundles/:id/resolution-actions/:id",
           "getRebalanceBundleResolutionAction", {"missing"}),
      Get("allocator", "/rebalance-bundles/:id/resolution-options",
           "listRebalanceBundleResolutionOptions", {"missing"}) }

BundleResolutionRoutes ==
    { Post("allocator", "/rebalance-bundles/:id/resolution-actions",
           "operator", "requestRebalanceBundleResolutionAction", {"body", "missing", "conflict"}),
      Get("allocator", "/rebalance-bundles/:id/escalation", "getRebalanceBundle", {"missing"}),
      Get("allocator", "/rebalance-bundles/:id/escalation/history",
           "listRebalanceBundleEscalationHistory", {"missing"}) }

EscalationRoutes ==
    { Post("allocator", "/rebalance-bundles/:id/escalation/assign",
           "operator", "assignRebalanceBundleEscalation", {"body", "missing", "conflict"}),
      Post("allocator", "/rebalance-bundles/:id/escalation/acknowledge",
           "operator", "acknowledgeRebalanceBundleEscalation", {"body", "missing", "conflict"}),
      Post("allocator", "/rebalance-bundles/:id/escalation/start-review",
           "operator", "startRebalanceBundleEscalationReview", {"body", "missing", "conflict"}) }

EscalationCloseAndRecoveryReads ==
    { Post("allocator", "/rebalance-bundles/:id/escalation/close",
           "operator", "closeRebalanceBundleEscalation", {"body", "missing", "conflict"}),
      Get("allocator", "/rebalance-bundles/:id/recovery-actions",
           "listRebalanceBundleRecoveryActions", {"missing"}),
      Get("allocator", "/rebalance-bundles/:id/recovery-actions/:id",
           "getRebalanceBundleRecoveryAction", {"missing"}),
      Get("allocator", "/rebalance-bundles/:id/recovery-candidates",
           "listRebalanceBundleRecoveryCandidates", {"missing"}) }

RecoveryAndTimelineRoutes ==
    { Post("allocator", "/rebalance-bundles/:id/recovery-actions",
           "operator", "requestRebalanceBundleRecoveryAction", {"body", "missing", "conflict"}),
      Get("allocator", "/rebalance-bundles/:id/timeline", "getRebalanceBundle", {"missing"}),
      Get("allocator", "/rebalance-proposals", "listRebalanceProposals", {}),
      Get("allocator", "/decisions/:id/rebalance-proposals",
           "listRebalanceProposalsForDecision", {}) }

ProposalReads ==
    { Get("allocator", "/rebalance-proposals/:id/execution-graph",
           "getRebalanceExecutionGraph", {"missing"}),
      Get("allocator", "/rebalance-proposals/:id/timeline", "getRebalanceTimeline", {"missing"}),
      Get("allocator", "/rebalance-proposals/:id", "getRebalanceProposal", {"missing"}),
      Post("allocator", "/evaluate", "operator", "enqueueAllocatorEvaluation", {}) }

ProposalDecisionRoutes ==
    { Post("allocator", "/rebalance-proposals/:id/approve",
           "operator", "approveRebalanceProposal", {"missing", "conflict"}),
      Post("allocator", "/rebalance-proposals/:id/reject",
           "operator", "rejectRebalanceProposal", {"body", "missing", "conflict"}) }

CarryReads ==
    { Get("carry", "/strategy-profile", "getCarryStrategyProfile", {}),
      Get("carry", "/opportunity-evaluations", "listCarryOpportunityEvaluations", {}),
      Get("carry", "/recommendations", "listCarryRecommendations", {}),
      Get("carry", "/actions", "listCarryActions", {}),
      Get("carry", "/actions/:id/executions", "listCarryExecutionsForAction", {}),
      Get("carry", "/actions/:id", "getCarryAction", {"missing"}) }

CarryExecutionRoutes ==
    { Get("carry", "/executions", "listCarryExecutions", {}),
      Get("carry", "/executions/:id", "getCarryExecution", {"missing"}),
      Get("carry", "/venues", "listCarryVenues", {}),
      Post("carry", "/evaluate", "operator", "enqueueCarryEvaluation", {}),
      Post("carry", "/actions/:id/approve",
           "operator", "approveCarryAction", {"missing", "conflict"}) }

MultiLegReads ==
    { Get("carry", "/actions/:id/multi-leg-plans", "listMultiLegPlansForAction", {}),
      Get("carry", "/multi-leg-plans/:id", "getMultiLegPlan", {"missing"}),
      Get("carry", "/multi-leg-plans/:id/legs", "getLegExecutionsForPlan", {}),
      Get("carry", "/multi-leg-plans/:id/hedge-state", "getHedgeStateForPlan", {}),
      Get("carry", "/guardrail-config", "getGuardrailConfigSummary", {}),
      Get("carry", "/guardrail-violations", "listGuardrailViolations", {}) }

CexSessionRoutes ==
    { Get("cex-verification", "/sessions", "listCexVerificationSessions", {}),
      Get("cex-verification", "/sessions/:id", "getCexVerificationSession", {"missing"}),
      Post("cex-verification", "/sessions",
           "operator", "createCexVerificationSession", {"body", "bad_request"}),
      Post("cex-verification", "/validate-csv",
           "none", "validateCexCsv", {"body", "bad_request"}) }

CexPnlRoutes ==
    { Post("cex-verification", "/sessions/:id/calculate-pnl",
           "operator", "calculateCexPnl", {"body", "bad_request"}),
      Get("cex-verification", "/sessions/:id/submission-report",
           "generateCexSubmissionReport", {"bad_request"}),
      Route("PATCH", "cex-verification", "/sessions/:id",
           "operator", "updateCexVerificationStatus", {"body", "bad_request"}),
      Route("DELETE", "cex-verification", "/sessions/:id",
           "operator", "deleteCexVerificationSession", {"bad_request"}) }

CexApiRoutes ==
    { Post("cex-verification", "/api-credentials/validate",
           "operator", "validateCexApiCredentials", {"body", "bad_request"}),
      Post("cex-verification", "/api-trades/fetch",
           "operator", "fetchCexTradesFromApi", {"body", "bad_request"}) }

ControlRoutesByKey ==
    { Post("control", "/resume", "none", "resume", {"body"}) }

ControlRoutes ==
    { Post("control", "/kill-switch", "admin", "activateKillSwitch", {"body"}),
      Post("control", "/resume", "admin", "resume", {"body"}),
      Get("control", "/mode", "getWorkerStatus", {}),
      Post("control", "/mode", "admin", "setExecutionMode", {"body"}) }

EncryptRoutes ==
    { Get("encrypt", "/status", "getEncryptStatus", {}),
      Get("encrypt", "/strategy-state", "getEncryptedStrategyState", {}),
      Get("encrypt", "/audit", "listEncryptedStrategyAuditEvents", {}),
      Get("encrypt", "/sdk-demo/evidence", "listEncryptSdkDemoEvidence", {}),
      Post("encrypt", "/strategy-state",
           "operator", "createEncryptedStrategyState", {"body", "bad_request"}),
      Post("encrypt", "/strategy-state/update",
           "operator", "updateEncryptedStrategyState", {"body", "bad_request"}),
      Post("encrypt", "/reveal-request",
           "operator", "createEncryptRevealRequest", {"body", "bad_request"}),
      Post("encrypt", "/sdk-demo/create-input",
           "operator", "createEncryptSdkDemoInput", {"body", "bad_request"}) }

PusdRoutes ==
    { Get("pusd", "/vault", "getPusdVault", {}),
      Get("pusd", "/treasury-state", "getPusdTreasuryState", {}),
      Get("pusd", "/snapshots", "listPusdVaultSnapshots", {}),
      Get("pusd", "/intents", "listPusdOperatorIntents", {}),
      Post("pusd", "/deposit-intent",
           "operator", "createPusdOperatorIntent", {"body", "bad_request"}),
      Post("pusd", "/withdraw-intent",
           "operator", "createPusdOperatorIntent", {"body", "bad_request"}),
      Post("pusd", "/rebalance-intent",
           "operator", "createPusdOperatorIntent", {"body", "bad_request"}) }

PortfolioRoutes ==
    { Get("portfolio", "/", "getPortfolioSummary", {}),
      Get("portfolio", "/snapshots", "listPortfolioSnapshots", {}),
      Get("portfolio", "/pnl", "getPnlSummary", {}) }

OrderRoutes ==
    { Get("orders", "/", "listOrders", {}),
      Get("orders", "/:id", "getOrder", {"missing"}) }

PositionRoutes ==
    { Get("positions", "/", "listPositions", {}),
      Get("positions", "/:id", "getPosition", {"missing"}) }

OpportunityRoutes ==
    { Get("opportunities", "/", "listOpportunities", {}) }

EventRoutes ==
    { Get("events", "/", "listRecentEvents", {}) }

RiskRoutes ==
    { Get("risk", "/summary", "getRiskSummary", {}),
      Get("risk", "/limits", "getRuntimeStatus", {}),
      Get("risk", "/breaches", "listRiskBreaches", {}),
      Get("risk", "/circuit-breakers", "getRiskSummary", {}) }

BacktestRoutes ==
    { Post("backtest", "/run", "operator", "runBacktest", {"body", "bad_request"}) }

RuntimeTriggerRoutes ==
    { Get("runtime", "/status", "getRuntimeOverview", {}),
      Post("runtime", "/reconciliation/run", "operator", "enqueueReconciliationRun", {"body"}),
      Post("runtime", "/cycles/run", "operator", "enqueueCommand", {}),
      Post("runtime", "/projections/rebuild", "operator", "enqueueCommand", {}),
      Get("runtime", "/mismatches", "listMismatches", {}),
      Get("runtime", "/mismatches/summary", "summarizeMismatches", {}),
      Get("runtime", "/mismatches/:id", "getMismatchDetail", {"missing"}) }

MismatchActionRoutes ==
    { Post("runtime", "/mismatches/:id/acknowledge",
           "operator", "acknowledgeMismatch", {"body", "missing"}),
      Post("runtime", "/mismatches/:id/recover", "operator", "startMismatchRecovery", {"body"}),
      Post("runtime", "/mismatches/:id/remediate", "operator", "remediateMismatch", {"body"}),
      Get("runtime", "/mismatches/:id/remediation-history", "listMismatchRemediationHistory", {}),
      Get("runtime", "/mismatches/:id/remediation-latest", "getLatestMismatchRemediation", {}),
      Post("runtime", "/mismatches/:id/resolve", "operator", "resolveMismatch", {"body"}) }

MismatchReviewRoutes ==
    { Post("runtime", "/mismatches/:id/verify", "operator", "verifyMismatch", {"body"}),
      Post("runtime", "/mismatches/:id/reopen", "operator", "reopenMismatch", {"body"}),
      Get("runtime", "/reconciliation/runs", "listReconciliationRuns", {}),
      Get("runtime", "/reconciliation/runs/:id", "getReconciliationRun", {"missing"}),
      Get("runtime", "/reconciliation/findings", "listReconciliationFindings", {}) }

FindingReads ==
    { Get("runtime", "/reconciliation/findings/:id", "getReconciliationFinding", {"missing"}),
      Get("runtime", "/reconciliation/summary", "getReconciliationSummary", {}),
      Get("runtime", "/mismatches/:id/findings", "listMismatchFindings", {}),
      Get("runtime", "/recovery-events", "listRecoveryEvents", {}),
      Get("runtime", "/recovery-outcomes", "listRecoveryOutcomes", {}),
      Get("runtime", "/worker", "getWorkerStatus", {}) }

CommandReads ==
    { Get("runtime", "/commands", "listRuntimeCommands", {}),
      Get("runtime", "/commands/:id", "getCommand", {"missing"}) }

DossierRoutes ==
    { Get("submission", "/", "getSubmissionDossier", {}),
      Post("submission", "/", "operator", "upsertSubmissionDossier", {"body", "bad_request"}),
      Post("submission", "/ranger/vault", "admin", "createRangerVault", {"body", "bad_request"}),
      Post("submission", "/ranger/lp-metadata",
           "admin", "createRangerLpMetadata", {"body", "bad_request"}),
      Post("submission", "/ranger/adaptor", "admin", "addRangerAdaptor", {"body", "bad_request"}),
      Post("submission", "/ranger/strategy/init",
           "admin", "initializeRangerStrategy", {"body", "bad_request"}) }

DossierEvidenceRoutes ==
    { Post("submission", "/ranger/strategy/deposit",
           "operator", "depositRangerStrategy", {"body", "bad_request"}),
      Post("submission", "/ranger/strategy/withdraw",
           "operator", "withdrawRangerStrategy", {"body", "bad_request"}),
      Get("submission", "/evidence", "listSubmissionEvidence", {}),
      Post("submission", "/evidence",
           "operator", "recordSubmissionEvidence", {"body", "bad_request"}),
      Get("submission", "/export", "getSubmissionExportBundle", {}),
      Get("submission", "/completeness", "getSubmissionCompleteness", {}),
      Post("submission", "/report",
           "operator", "generatePerformanceReport", {"body", "bad_request"}) }

ReportRoutes ==
    { Get("submission", "/reports", "listPerformanceReports", {}),
      Get("submission", "/report/:id", "getPerformanceReport", {"missing"}),
      Post("submission", "/multi-leg-evidence",
           "operator", "recordMultiLegEvidence", {"body", "bad_request"}) }

TreasuryReads ==
    { Get("treasury", "/recommendations", "listTreasuryActions", {}),
      Get("treasury", "/summary", "getTreasurySummary", {}),
      Get("treasury", "/allocations", "listTreasuryAllocations", {}),
      Get("treasury", "/policy", "getTreasuryPolicy", {}),
      Get("treasury", "/actions", "listTreasuryActions", {}),
      Get("treasury", "/actions/:id/executions", "listTreasuryExecutionsForAction", {}),
      Get("treasury", "/actions/:id", "getTreasuryAction", {"missing"}) }

TreasuryVenueReads ==
    { Get("treasury", "/executions", "listTreasuryExecutions", {}),
      Get("treasury", "/executions/:id", "getTreasuryExecutionDetail", {"missing"}),
      Get("treasury", "/venues", "listTreasuryVenues", {}),
      Get("treasury", "/venues/:id", "getTreasuryVenue", {"missing"}),
      Post("treasury", "/evaluate", "operator", "enqueueTreasuryEvaluation", {}) }

TreasuryActionRoutes ==
    { Post("treasury", "/actions/:id/approve",
           "operator", "approveTreasuryAction", {"missing", "conflict"}),
      Post("treasury", "/actions/:id/execute",
           "operator", "enqueueTreasuryActionExecution", {"missing", "conflict"}) }

VaultRoutes ==
    { Get("vault", "/", "getVaultSummary", {}),
      Get("vault", "/depositors", "listVaultDepositors", {}),
      Get("vault", "/deposits", "listVaultDepositLots", {}),
      Get("vault", "/redemptions", "listVaultRedemptionRequests", {}),
      Post("vault", "/deposits", "operator", "recordVaultDeposit", {"body", "bad_request"}),
      Post("vault", "/redemptions", "operator", "requestVaultRedemption", {"body", "conflict"}) }

VenueReads ==
    { Get("venues", "/", "listVenues", {}),
      Get("venues", "/summary", "getVenueSummary", {}),
      Get("venues", "/promotion-summary", "getConnectorPromotionOverview", {}),
      Get("venues", "/truth-summary", "getVenueTruthSummary", {}),
      Get("venues", "/readiness", "listVenueReadiness", {}),
      Get("venues", "/:id/promotion", "getConnectorPromotion", {"missing"}),
      Get("venues", "/:id/promotion/history", "listConnectorPromotionHistory", {}) }

PromotionRequestRoutes ==
    { Get("venues", "/:id/promotion/eligibility",
           "getConnectorPromotionEligibility", {"missing"}),
      Post("venues", "/:id/promotion/request",
           "operator", "requestConnectorPromotion", {"body", "missing", "conflict"}),
      Post("venues", "/:id/promotion/approve",
           "admin", "approveConnectorPromotion", {"body", "missing", "conflict"}) }

PromotionDecisionRoutes ==
    { Post("venues", "/:id/promotion/reject",
           "admin", "rejectConnectorPromotion", {"body", "missing", "conflict"}),
      Post("venues", "/:id/promotion/suspend",
           "admin", "suspendConnectorPromotion", {"body", "missing", "conflict"}),
      Get("venues", "/:id", "getVenue", {"missing"}) }

VenueTruthReads ==
    { Get("venues", "/:id/internal-state", "getVenueInternalState", {"missing"}),
      Get("venues", "/:id/comparison-summary", "getVenueComparisonSummary", {"missing"}),
      Get("venues", "/:id/comparison-detail", "getVenueComparisonDetail", {"missing"}),
      Get("venues", "/:id/snapshots", "listVenueSnapshots", {}) }

Routes ==
    UNION { AllocatorReads, BundleQueueReads, BundleResolutionReads, BundleResolutionRoutes,
            EscalationRoutes, EscalationCloseAndRecoveryReads, RecoveryAndTimelineRoutes,
            ProposalReads, ProposalDecisionRoutes, CarryReads, CarryExecutionRoutes,
            MultiLegReads, CexSessionRoutes, CexPnlRoutes, CexApiRoutes, ControlRoutes,
            EncryptRoutes, PusdRoutes, PortfolioRoutes, OrderRoutes, PositionRoutes,
            OpportunityRoutes, EventRoutes, RiskRoutes, BacktestRoutes, RuntimeTriggerRoutes,
            MismatchActionRoutes, MismatchReviewRoutes, FindingReads, CommandReads, DossierRoutes,
            DossierEvidenceRoutes, ReportRoutes, TreasuryReads, TreasuryVenueReads,
            TreasuryActionRoutes, VaultRoutes, VenueReads, PromotionRequestRoutes,
            PromotionDecisionRoutes, VenueTruthReads }

\* The liveness and readiness probes, open to everyone, are left out of Routes.

\* The routes a request selects: at most one, because no two routes share a
\* method and a path.
Matching(method, group, path) ==
    { r \in Routes : r.method = method /\ r.group = group /\ r.path = path }

=============================================================================
