--------------------------- MODULE DashboardCalls ---------------------------
(***************************************************************************)
(* What the operator dashboard (apps/ops-dashboard) asks of the API: the    *)
(* mutations its buttons send from the browser (runtime-api.client.ts),     *)
(* each with the condition its component puts on the button, and the reads  *)
(* its server-side pages make (runtime-api.server.ts).                      *)
(*                                                                          *)
(*   gate  "operate"      canOperate: the role shown is operator or admin   *)
(*         "admin"        isAdmin                                           *)
(*         "requirement"  canOperate, and isAdmin when the subject's        *)
(*                        approvalRequirement is admin                      *)
(*         "any"          always enabled                                    *)
(*   sends whether the call carries a JSON body                             *)
(* Loading flags, confirmations and the subject's own status, on which the  *)
(* components also gate, are left out.                                      *)
(***************************************************************************)
EXTENDS ApiRoutes

Call(method, group, path, gate, sends) ==
    [method |-> method, group |-> group, path |-> path, gate |-> gate, sends |-> sends]

Send(group, path, gate) == Call("POST", group, path, gate, TRUE)

SendEmpty(group, path, gate) == Call("POST", group, path, gate, FALSE)

TriggerCalls ==
    { SendEmpty("runtime", "/cycles/run", "operate"),
      SendEmpty("runtime", "/projections/rebuild", "operate"),
      Send("runtime", "/reconciliation/run", "operate"),
      SendEmpty("allocator", "/evaluate", "operate"),
      SendEmpty("carry", "/evaluate", "operate"),
      Send("encrypt", "/sdk-demo/create-input", "operate") }

SubmissionCallsForOperators ==
    { Send("submission", "/ranger/vault", "operate") }

SubmissionCalls ==
    { Send("submission", "/ranger/vault", "admin"),
      Send("submission", "/", "operate"),
      Send("submission", "/ranger/lp-metadata", "admin"),
      Send("submission", "/ranger/adaptor", "admin"),
      Send("submission", "/ranger/strategy/init", "admin"),
      Send("submission", "/ranger/strategy/deposit", "operate"),
      Send("submission", "/ranger/strategy/withdraw", "operate") }

ApprovalCalls ==
    { SendEmpty("carry", "/actions/:id/approve", "requirement"),
      SendEmpty("allocator", "/rebalance-proposals/:id/approve", "operate"),
      Send("allocator", "/rebalance-proposals/:id/reject", "operate"),
      Send("allocator", "/rebalance-bundles/:id/recovery-actions", "operate"),
      Send("allocator", "/rebalance-bundles/:id/resolution-actions", "operate") }

EscalationCallsMisspelt ==
    { Send("allocator", "/rebalance-bundles/:id/escalation/review", "operate") }

EscalationCalls ==
    { Send("allocator", "/rebalance-bundles/:id/escalation/assign", "operate"),
      Send("allocator", "/rebalance-bundles/:id/escalation/acknowledge", "operate"),
      Send("allocator", "/rebalance-bundles/:id/escalation/start-review", "operate"),
      Send("allocator", "/rebalance-bundles/:id/escalation/close", "operate") }

TreasuryCalls ==
    { SendEmpty("treasury", "/evaluate", "operate"),
      SendEmpty("treasury", "/actions/:id/approve", "requirement"),
      SendEmpty("treasury", "/actions/:id/execute", "requirement") }

PromotionCalls ==
    { Send("venues", "/:id/promotion/request", "operate"),
      Send("venues", "/:id/promotion/approve", "admin"),
      Send("venues", "/:id/promotion/reject", "admin"),
      Send("venues", "/:id/promotion/suspend", "admin") }

MismatchCalls ==
    { Send("runtime", "/mismatches/:id/acknowledge", "operate"),
      Send("runtime", "/mismatches/:id/recover", "operate"),
      Send("runtime", "/mismatches/:id/resolve", "operate"),
      Send("runtime", "/mismatches/:id/verify", "operate"),
      Send("runtime", "/mismatches/:id/reopen", "operate"),
      Send("runtime", "/mismatches/:id/remediate", "operate") }

CexCalls ==
    { Send("cex-verification", "/validate-csv", "any"),
      Send("cex-verification", "/sessions", "operate"),
      Send("cex-verification", "/sessions/:id/calculate-pnl", "operate"),
      Call("GET", "cex-verification", "/sessions/:id/submission-report", "operate", FALSE) }

Calls ==
    UNION { TriggerCalls, SubmissionCalls, ApprovalCalls, EscalationCalls, TreasuryCalls,
            PromotionCalls, MismatchCalls, CexCalls }

-----------------------------------------------------------------------------
(* Reads: the path each get and list function of runtime-api.server.ts asks *)
(* for, with the API key and no operator headers.                           *)

RuntimeReads ==
    [ getRuntimeOverview         |-> <<"runtime", "/status">>,
      listRuntimeCommands        |-> <<"runtime", "/commands">>,
      listMismatches             |-> <<"runtime", "/mismatches">>,
      getMismatchDetail          |-> <<"runtime", "/mismatches/:id">>,
      listRecoveryEvents         |-> <<"runtime", "/recovery-events">>,
      listRecoveryOutcomes       |-> <<"runtime", "/recovery-outcomes">>,
      listReconciliationRuns     |-> <<"runtime", "/reconciliation/runs">>,
      listReconciliationFindings |-> <<"runtime", "/reconciliation/findings">>,
      getReconciliationSummary   |-> <<"runtime", "/reconciliation/summary">> ]

AllocatorPageReads ==
    [ getAllocatorSummary            |-> <<"allocator", "/summary">>,
      listAllocatorTargets           |-> <<"allocator", "/targets">>,
      listAllocatorDecisions         |-> <<"allocator", "/decisions">>,
      getAllocatorDecisionDetail     |-> <<"allocator", "/decisions/:id">>,
      listRebalanceProposals         |-> <<"allocator", "/rebalance-proposals">>,
      listDecisionRebalanceProposals |-> <<"allocator", "/decisions/:id/rebalance-proposals">>,
      getRebalanceBundleForProposal  |-> <<"allocator", "/rebalance-proposals/:id/bundle">>,
      getRebalanceBundleDetail       |-> <<"allocator", "/rebalance-bundles/:id">>,
      listRebalanceEscalations       |-> <<"allocator", "/escalations">>,
      getRebalanceEscalationSummary  |-> <<"allocator", "/escalations/summary">> ]

VenueAndCarryReads ==
    [ listVenues                      |-> <<"venues", "/">>,
      getVenueSummary                 |-> <<"venues", "/summary">>,
      getVenueTruthSummary            |-> <<"venues", "/truth-summary">>,
      getVenueDetail                  |-> <<"venues", "/:id">>,
      getCarryStrategyProfile         |-> <<"carry", "/strategy-profile">>,
      listCarryOpportunityEvaluations |-> <<"carry", "/opportunity-evaluations">>,
      listCarryRecommendations        |-> <<"carry", "/recommendations">>,
      listCarryActions                |-> <<"carry", "/actions">>,
      getCarryActionDetail            |-> <<"carry", "/actions/:id">>,
      listCarryExecutions             |-> <<"carry", "/executions">>,
      getCarryExecutionDetail         |-> <<"carry", "/executions/:id">>,
      listCarryVenues                 |-> <<"carry", "/venues">>,
      getSubmissionDossier            |-> <<"submission", "/">>,
      listSubmissionEvidence          |-> <<"submission", "/evidence">>,
      getSubmissionExportBundle       |-> <<"submission", "/export">> ]

TreasuryPageReads ==
    [ getTreasurySummary         |-> <<"treasury", "/summary">>,
      listTreasuryAllocations    |-> <<"treasury", "/allocations">>,
      getTreasuryPolicy          |-> <<"treasury", "/policy">>,
      listTreasuryActions        |-> <<"treasury", "/actions">>,
      getTreasuryActionDetail    |-> <<"treasury", "/actions/:id">>,
      listTreasuryExecutions     |-> <<"treasury", "/executions">>,
      getTreasuryExecutionDetail |-> <<"treasury", "/executions/:id">>,
      listTreasuryVenues         |-> <<"treasury", "/venues">>,
      getTreasuryVenueDetail     |-> <<"treasury", "/venues/:id">> ]

PusdAndEncryptReads ==
    [ getPusdVault                     |-> <<"pusd", "/vault">>,
      listPusdVaultSnapshots           |-> <<"pusd", "/snapshots">>,
      listPusdOperatorIntents          |-> <<"pusd", "/intents">>,
      getEncryptStatus                 |-> <<"encrypt", "/status">>,
      getEncryptedStrategyState        |-> <<"encrypt", "/strategy-state">>,
      listEncryptedStrategyAuditEvents |-> <<"encrypt", "/audit">>,
      listEncryptSdkDemoEvidence       |-> <<"encrypt", "/sdk-demo/evidence">>,
      listAuditEvents                  |-> <<"events", "/">> ]

All(reads) == { reads[f] : f \in DOMAIN reads }

\* The reads of each page's loader: the page shows an error, and none of its
\* data, as soon as one of them fails.
AllocatorPages ==
    [ overview |-> { RuntimeReads[f] : f \in
                       {"getRuntimeOverview", "listMismatches", "listRuntimeCommands",
                        "listRecoveryOutcomes", "listReconciliationRuns",
                        "listReconciliationFindings"} },
      allocator |-> { AllocatorPageReads[f] : f \in
                       {"getAllocatorSummary", "listAllocatorTargets",
                        "listAllocatorDecisions", "listRebalanceProposals"} },
      submission |-> { VenueAndCarryReads[f] : f \in
                       {"getSubmissionDossier", "listSubmissionEvidence",
                        "getSubmissionExportBundle"} },
      decision |-> { AllocatorPageReads[f] : f \in
                       {"getAllocatorDecisionDetail", "listDecisionRebalanceProposals"} },
      proposal |-> { AllocatorPageReads["getRebalanceBundleForProposal"] },
      bundle |-> { AllocatorPageReads["getRebalanceBundleDetail"] } ]

VenueAndCarryPages ==
    [ escalations |-> { AllocatorPageReads[f] : f \in
                       {"listRebalanceEscalations", "getRebalanceEscalationSummary"} },
      venues |-> { VenueAndCarryReads[f] : f \in
                       {"listVenues", "getVenueSummary", "getVenueTruthSummary"} },
      venue |-> { VenueAndCarryReads["getVenueDetail"] },
      carry |-> { VenueAndCarryReads[f] : f \in
                       {"getCarryStrategyProfile", "listCarryOpportunityEvaluations",
                        "listCarryRecommendations", "listCarryActions",
                        "listCarryExecutions", "listCarryVenues"} },
      carryAction |-> { VenueAndCarryReads["getCarryActionDetail"] },
      carryExecutions |-> { VenueAndCarryReads["listCarryExecutions"] },
      carryExecution |-> { VenueAndCarryReads["getCarryExecutionDetail"] } ]

TreasuryPages ==
    [ treasury |-> { TreasuryPageReads[f] : f \in
                       {"getTreasurySummary", "listTreasuryAllocations", "getTreasuryPolicy",
                        "listTreasuryActions", "listTreasuryExecutions",
                        "listTreasuryVenues"} },
      pusd |-> { PusdAndEncryptReads[f] : f \in
                       {"getPusdVault", "listPusdVaultSnapshots", "listPusdOperatorIntents",
                        "listAuditEvents"} },
      encrypt |-> { PusdAndEncryptReads[f] : f \in
                       {"getEncryptStatus", "getEncryptedStrategyState",
                        "listEncryptedStrategyAuditEvents", "listEncryptSdkDemoEvidence"} },
      treasuryAction |-> { TreasuryPageReads["getTreasuryActionDetail"] },
      treasuryExecution |-> { TreasuryPageReads["getTreasuryExecutionDetail"] },
      treasuryExecutions |-> { TreasuryPageReads["listTreasuryExecutions"] } ]

OperationsPages ==
    [ treasuryVenues |-> { TreasuryPageReads["listTreasuryVenues"] },
      treasuryVenue |-> { TreasuryPageReads["getTreasuryVenueDetail"] },
      reconciliation |-> { RuntimeReads[f] : f \in
                       {"getReconciliationSummary", "listReconciliationRuns",
                        "listReconciliationFindings"} },
      operations |-> { RuntimeReads[f] : f \in
                       {"listRuntimeCommands", "listRecoveryEvents", "listRecoveryOutcomes"} } ]

PageReads == UNION { All(AllocatorPages), All(VenueAndCarryPages), All(TreasuryPages),
                     All(OperationsPages) }

-----------------------------------------------------------------------------
(* Calls, pages and routes together.                                       *)

RoutesOf == [c \in Calls |-> Matching(c.method, c.group, c.path)]

ReadsWithoutRoute ==
    { r \in UNION PageReads : Matching("GET", r[1], r[2]) = {} }

\* The dashboard's proxy routes: app/api/<group>/[...path]/route.ts, a
\* catch-all that needs at least one path segment, with GET and POST handlers.
Proxied(call) ==
    /\ call.group \in {"runtime", "allocator", "encrypt", "carry", "venues", "treasury",
                       "submission"}
    /\ call.path # "/"
    /\ call.method \in {"GET", "POST"}

\* Calls of the dashboard that reach no route today: the CEX import, whose calls
\* have no proxy, and the dossier form, whose call has no path segment for the
\* catch-all proxy to match.
KnownDead ==
    { <<c.method, <<c.group, c.path>> >> : c \in { d \in Calls : ~Proxied(d) } }

OpenToKey == { r \in Routes : r.method # "GET" /\ r.role = "none" }
=============================================================================
