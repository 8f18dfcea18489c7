---------------------------- MODULE EngineProofs ----------------------------
(***************************************************************************)
(* Proofs about the parts that Engines sets side by side: the dashboard's  *)
(* calls and the API's routes, the operators' way in, the guardrails, the  *)
(* allocator, post-trade confirmation, reconciliation and the carry        *)
(* planner.                                                                *)
(***************************************************************************)
EXTENDS Engines, ListTheorems

-----------------------------------------------------------------------------
(***************************************************************************)
(* The operators' way in.  First the tables: the routes of the API and the *)
(* calls of the dashboard fit each other, call by call and route by route. *)
(***************************************************************************)
(* The route a call of the dashboard selects, by method and path.          *)
Selects(c, m) == c.method = m.method /\ c.group = m.group /\ c.path = m.path

(* A route asks for no more than the button of the call does: no role      *)
(* above the one the button is enabled for, a check of the subject's       *)
(* requirement only where the button knows it or is known not to, a body   *)
(* only where one is sent.                                                 *)
Fits(c, m) ==
  /\ c.gate \in {"operate", "admin", "requirement"}
  /\ c.gate # "admin" => m.role \in {"none", "viewer", "operator"}
  /\ m.op \in Og!CheckedOps => c.gate # "operate" \/ m.op \in Og!RequirementNotShown
  /\ "body" \in m.does => c.sends

(* What every route of the API satisfies.                                  *)
RouteFits(m) ==
  /\ m.role \in {"none", "viewer", "operator", "admin"}
  /\ m.method # "GET" /\ m.role = "none" => m.op = "validateCexCsv"
  /\ \A c \in Og!Calls : Og!Proxied(c) /\ Selects(c, m) => Fits(c, m)

(* The groups of calls are the calls of the dashboard. *)
LEMMA CallGroups ==
  \A c \in Og!Calls :
    \/ c \in Og!TriggerCalls \/ c \in Og!SubmissionCalls \/ c \in Og!ApprovalCalls
    \/ c \in Og!EscalationCalls \/ c \in Og!TreasuryCalls \/ c \in Og!PromotionCalls
    \/ c \in Og!MismatchCalls \/ c \in Og!CexCalls
BY DEF Og!Calls

(* The calls to each part of the API that the proxy lets through: they are *)
(* posts, and each part has its own. *)
LEMMA ProxiedCalls ==
  ASSUME NEW c \in Og!Calls, Og!Proxied(c)
  PROVE  /\ c.method = "POST"
         /\ c.group = "runtime" => c \in Og!TriggerCalls \/ c \in Og!MismatchCalls
         /\ c.group = "allocator" =>
              c \in Og!TriggerCalls \/ c \in Og!ApprovalCalls \/ c \in Og!EscalationCalls
         /\ c.group = "carry" => c \in Og!TriggerCalls \/ c \in Og!ApprovalCalls
         /\ c.group = "encrypt" => c \in Og!TriggerCalls
         /\ c.group = "venues" => c \in Og!PromotionCalls
         /\ c.group = "treasury" => c \in Og!TreasuryCalls
         /\ c.group = "submission" => c \in Og!SubmissionCalls
<1>1. /\ c \in Og!TriggerCalls =>
           c.method = "POST" /\ c.group \in {"runtime", "allocator", "carry", "encrypt"}
      /\ c \in Og!SubmissionCalls => c.method = "POST" /\ c.group = "submission"
      /\ c \in Og!ApprovalCalls => c.method = "POST" /\ c.group \in {"carry", "allocator"}
  BY DEF Og!TriggerCalls, Og!SubmissionCalls, Og!ApprovalCalls, Og!Call, Og!Send, Og!SendEmpty
<1>2. /\ c \in Og!EscalationCalls => c.method = "POST" /\ c.group = "allocator"
      /\ c \in Og!TreasuryCalls => c.method = "POST" /\ c.group = "treasury"
      /\ c \in Og!PromotionCalls => c.method = "POST" /\ c.group = "venues"
  BY DEF Og!EscalationCalls, Og!TreasuryCalls, Og!PromotionCalls, Og!Call, Og!Send, Og!SendEmpty
<1>3. /\ c \in Og!MismatchCalls => c.method = "POST" /\ c.group = "runtime"
      /\ c \in Og!CexCalls => c.group = "cex-verification"
  BY DEF Og!MismatchCalls, Og!CexCalls, Og!Call, Og!Send, Og!SendEmpty
<1>4. c.group \in {"runtime", "allocator", "encrypt", "carry", "venues", "treasury", "submission"}
  BY DEF Og!Proxied
<1> QED BY <1>1, <1>2, <1>3, <1>4, CallGroups

(* Routes of the runtime. *)
LEMMA RuntimeRoutesFit ==
  ASSUME NEW m, m \in Og!RuntimeTriggerRoutes \/ m \in Og!MismatchActionRoutes \/ m \in
         Og!MismatchReviewRoutes \/ m \in Og!FindingReads \/ m \in Og!CommandReads
  PROVE  RouteFits(m)
<1>1. /\ m.group = "runtime" /\ m.role \in {"none", "viewer", "operator", "admin"}
      /\ m.method # "GET" => m.role # "none"
  BY DEF Og!RuntimeTriggerRoutes, Og!MismatchActionRoutes, Og!MismatchReviewRoutes, Og!FindingReads,
         Og!CommandReads, Og!Route, Og!Get, Og!Post
<1>2. (m \in Og!FindingReads \/ m \in Og!CommandReads) => m.method = "GET"
  BY DEF Og!FindingReads, Og!CommandReads, Og!Route, Og!Get, Og!Post
<1>3. ASSUME NEW c, c \in Og!TriggerCalls \/ c \in Og!MismatchCalls,
             m \in Og!RuntimeTriggerRoutes, Selects(c, m)
      PROVE  Fits(c, m)
  <2>1. CASE c \in Og!TriggerCalls
    BY <1>3, <2>1 DEF Og!TriggerCalls, Og!RuntimeTriggerRoutes, Og!Route, Og!Get, Og!Post, Og!Call, Og!Send,
           Og!SendEmpty, Selects, Fits, Og!CheckedOps, Og!RequirementNotShown
  <2>2. CASE c \in Og!MismatchCalls
    BY <1>3, <2>2 DEF Og!MismatchCalls, Og!RuntimeTriggerRoutes, Og!Route, Og!Get, Og!Post, Og!Call, Og!Send,
           Og!SendEmpty, Selects, Fits, Og!CheckedOps, Og!RequirementNotShown
  <2> QED BY <1>3, <2>1, <2>2
<1>4. ASSUME NEW c, c \in Og!TriggerCalls \/ c \in Og!MismatchCalls,
             m \in Og!MismatchActionRoutes, Selects(c, m)
      PROVE  Fits(c, m)
  <2>1. CASE c \in Og!TriggerCalls
    BY <1>4, <2>1 DEF Og!TriggerCalls, Og!MismatchActionRoutes, Og!Route, Og!Get, Og!Post, Og!Call, Og!Send,
           Og!SendEmpty, Selects, Fits, Og!CheckedOps, Og!RequirementNotShown
  <2>2. CASE c \in Og!MismatchCalls
    BY <1>4, <2>2 DEF Og!MismatchCalls, Og!MismatchActionRoutes, Og!Route, Og!Get, Og!Post, Og!Call, Og!Send,
           Og!SendEmpty, Selects, Fits, Og!CheckedOps, Og!RequirementNotShown
  <2> QED BY <1>4, <2>1, <2>2
<1>5. ASSUME NEW c, c \in Og!TriggerCalls \/ c \in Og!MismatchCalls,
             m \in Og!MismatchReviewRoutes, Selects(c, m)
      PROVE  Fits(c, m)
  <2>1. CASE c \in Og!TriggerCalls
    BY <1>5, <2>1 DEF Og!TriggerCalls, Og!MismatchReviewRoutes, Og!Route, Og!Get, Og!Post, Og!Call, Og!Send,
           Og!SendEmpty, Selects, Fits, Og!CheckedOps, Og!RequirementNotShown
  <2>2. CASE c \in Og!MismatchCalls
    BY <1>5, <2>2 DEF Og!MismatchCalls, Og!MismatchReviewRoutes, Og!Route, Og!Get, Og!Post, Og!Call, Og!Send,
           Og!SendEmpty, Selects, Fits, Og!CheckedOps, Og!RequirementNotShown
  <2> QED BY <1>5, <2>1, <2>2
<1> QED BY <1>1, <1>2, <1>3, <1>4, <1>5, ProxiedCalls DEF RouteFits, Selects

(* Routes of the allocator. *)
LEMMA AllocatorRoutesFit ==
  ASSUME NEW m, m \in Og!AllocatorReads \/ m \in Og!BundleQueueReads \/ m \in
         Og!BundleResolutionReads \/ m \in Og!BundleResolutionRoutes \/ m \in
         Og!EscalationRoutes \/ m \in Og!EscalationCloseAndRecoveryReads \/ m \in
         Og!RecoveryAndTimelineRoutes \/ m \in Og!ProposalReads \/ m \in
         Og!ProposalDecisionRoutes
  PROVE  RouteFits(m)
<1>1. /\ m.group = "allocator" /\ m.role \in {"none", "viewer", "operator", "admin"}
      /\ m.method # "GET" => m.role # "none"
  BY DEF Og!AllocatorReads, Og!BundleQueueReads, Og!BundleResolutionReads,
         Og!BundleResolutionRoutes, Og!EscalationRoutes, Og!EscalationCloseAndRecoveryReads,
         Og!RecoveryAndTimelineRoutes, Og!ProposalReads, Og!ProposalDecisionRoutes, Og!Route,
         Og!Get, Og!Post
<1>2. (m \in Og!AllocatorReads \/ m \in Og!BundleQueueReads \/ m \in
       Og!BundleResolutionReads) => m.method = "GET"
  BY DEF Og!AllocatorReads, Og!BundleQueueReads, Og!BundleResolutionReads, Og!Route, Og!Get, Og!Post
<1>3. ASSUME NEW c, c \in Og!TriggerCalls \/ c \in Og!ApprovalCalls \/ c \in Og!EscalationCalls,
             m \in Og!BundleResolutionRoutes, Selects(c, m)
      PROVE  Fits(c, m)
  <2>1. CASE c \in Og!TriggerCalls
    BY <1>3, <2>1 DEF Og!TriggerCalls, Og!BundleResolutionRoutes, Og!Route, Og!Get, Og!Post, Og!Call, Og!Send,
           Og!SendEmpty, Selects, Fits, Og!CheckedOps, Og!RequirementNotShown
  <2>2. CASE c \in Og!ApprovalCalls
    BY <1>3, <2>2 DEF Og!ApprovalCalls, Og!BundleResolutionRoutes, Og!Route, Og!Get, Og!Post, Og!Call, Og!Send,
           Og!SendEmpty, Selects, Fits, Og!CheckedOps, Og!RequirementNotShown
  <2>3. CASE c \in Og!EscalationCalls
    BY <1>3, <2>3 DEF Og!EscalationCalls, Og!BundleResolutionRoutes, Og!Route, Og!Get, Og!Post, Og!Call, Og!Send,
           Og!SendEmpty, Selects, Fits, Og!CheckedOps, Og!RequirementNotShown
  <2> QED BY <1>3, <2>1, <2>2, <2>3
<1>4. ASSUME NEW c, c \in Og!TriggerCalls \/ c \in Og!ApprovalCalls \/ c \in Og!EscalationCalls,
             m \in Og!EscalationRoutes, Selects(c, m)
      PROVE  Fits(c, m)
  <2>1. CASE c \in Og!TriggerCalls
    BY <1>4, <2>1 DEF Og!TriggerCalls, Og!EscalationRoutes, Og!Route, Og!Get, Og!Post, Og!Call, Og!Send,
           Og!SendEmpty, Selects, Fits, Og!CheckedOps, Og!RequirementNotShown
  <2>2. CASE c \in Og!ApprovalCalls
    BY <1>4, <2>2 DEF Og!ApprovalCalls, Og!EscalationRoutes, Og!Route, Og!Get, Og!Post, Og!Call, Og!Send,
           Og!SendEmpty, Selects, Fits, Og!CheckedOps, Og!RequirementNotShown
  <2>3. CASE c \in Og!EscalationCalls
    BY <1>4, <2>3 DEF Og!EscalationCalls, Og!EscalationRoutes, Og!Route, Og!Get, Og!Post, Og!Call, Og!Send,
           Og!SendEmpty, Selects, Fits, Og!CheckedOps, Og!RequirementNotShown
  <2> QED BY <1>4, <2>1, <2>2, <2>3
<1>5. ASSUME NEW c, c \in Og!TriggerCalls \/ c \in Og!ApprovalCalls \/ c \in Og!EscalationCalls,
             m \in Og!EscalationCloseAndRecoveryReads, Selects(c, m)
      PROVE  Fits(c, m)
  <2>1. CASE c \in Og!TriggerCalls
    BY <1>5, <2>1 DEF Og!TriggerCalls, Og!EscalationCloseAndRecoveryReads, Og!Route, Og!Get, Og!Post, Og!Call,
           Og!Send, Og!SendEmpty, Selects, Fits, Og!CheckedOps, Og!RequirementNotShown
  <2>2. CASE c \in Og!ApprovalCalls
    BY <1>5, <2>2 DEF Og!ApprovalCalls, Og!EscalationCloseAndRecoveryReads, Og!Route, Og!Get, Og!Post, Og!Call,
           Og!Send, Og!SendEmpty, Selects, Fits, Og!CheckedOps, Og!RequirementNotShown
  <2>3. CASE c \in Og!EscalationCalls
    BY <1>5, <2>3 DEF Og!EscalationCalls, Og!EscalationCloseAndRecoveryReads, Og!Route, Og!Get, Og!Post, Og!Call,
           Og!Send, Og!SendEmpty, Selects, Fits, Og!CheckedOps, Og!RequirementNotShown
  <2> QED BY <1>5, <2>1, <2>2, <2>3
<1>6. ASSUME NEW c, c \in Og!TriggerCalls \/ c \in Og!ApprovalCalls \/ c \in Og!EscalationCalls,
             m \in Og!RecoveryAndTimelineRoutes, Selects(c, m)
      PROVE  Fits(c, m)
  <2>1. CASE c \in Og!TriggerCalls
    BY <1>6, <2>1 DEF Og!TriggerCalls, Og!RecoveryAndTimelineRoutes, Og!Route, Og!Get, Og!Post, Og!Call, Og!Send,
           Og!SendEmpty, Selects, Fits, Og!CheckedOps, Og!RequirementNotShown
  <2>2. CASE c \in Og!ApprovalCalls
    BY <1>6, <2>2 DEF Og!ApprovalCalls, Og!RecoveryAndTimelineRoutes, Og!Route, Og!Get, Og!Post, Og!Call,
           Og!Send, Og!SendEmpty, Selects, Fits, Og!CheckedOps, Og!RequirementNotShown
  <2>3. CASE c \in Og!EscalationCalls
    BY <1>6, <2>3 DEF Og!EscalationCalls, Og!RecoveryAndTimelineRoutes, Og!Route, Og!Get, Og!Post, Og!Call,
           Og!Send, Og!SendEmpty, Selects, Fits, Og!CheckedOps, Og!RequirementNotShown
  <2> QED BY <1>6, <2>1, <2>2, <2>3
<1>7. ASSUME NEW c, c \in Og!TriggerCalls \/ c \in Og!ApprovalCalls \/ c \in Og!EscalationCalls,
             m \in Og!ProposalReads, Selects(c, m)
      PROVE  Fits(c, m)
  <2>1. CASE c \in Og!TriggerCalls
    BY <1>7, <2>1 DEF Og!TriggerCalls, Og!ProposalReads, Og!Route, Og!Get, Og!Post, Og!Call, Og!Send,
           Og!SendEmpty, Selects, Fits, Og!CheckedOps, Og!RequirementNotShown
  <2>2. CASE c \in Og!ApprovalCalls
    BY <1>7, <2>2 DEF Og!ApprovalCalls, Og!ProposalReads, Og!Route, Og!Get, Og!Post, Og!Call, Og!Send,
           Og!SendEmpty, Selects, Fits, Og!CheckedOps, Og!RequirementNotShown
  <2>3. CASE c \in Og!EscalationCalls
    BY <1>7, <2>3 DEF Og!EscalationCalls, Og!ProposalReads, Og!Route, Og!Get, Og!Post, Og!Call, Og!Send,
           Og!SendEmpty, Selects, Fits, Og!CheckedOps, Og!RequirementNotShown
  <2> QED BY <1>7, <2>1, <2>2, <2>3
<1>8. ASSUME NEW c, c \in Og!TriggerCalls \/ c \in Og!ApprovalCalls \/ c \in Og!EscalationCalls,
             m \in Og!ProposalDecisionRoutes, Selects(c, m)
      PROVE  Fits(c, m)
  <2>1. CASE c \in Og!TriggerCalls
    BY <1>8, <2>1 DEF Og!TriggerCalls, Og!ProposalDecisionRoutes, Og!Route, Og!Get, Og!Post, Og!Call, Og!Send,
           Og!SendEmpty, Selects, Fits, Og!CheckedOps, Og!RequirementNotShown
  <2>2. CASE c \in Og!ApprovalCalls
    BY <1>8, <2>2 DEF Og!ApprovalCalls, Og!ProposalDecisionRoutes, Og!Route, Og!Get, Og!Post, Og!Call, Og!Send,
           Og!SendEmpty, Selects, Fits, Og!CheckedOps, Og!RequirementNotShown
  <2>3. CASE c \in Og!EscalationCalls
    BY <1>8, <2>3 DEF Og!EscalationCalls, Og!ProposalDecisionRoutes, Og!Route, Og!Get, Og!Post, Og!Call, Og!Send,
           Og!SendEmpty, Selects, Fits, Og!CheckedOps, Og!RequirementNotShown
  <2> QED BY <1>8, <2>1, <2>2, <2>3
<1> QED BY <1>1, <1>2, <1>3, <1>4, <1>5, <1>6, <1>7, <1>8, ProxiedCalls DEF RouteFits, Selects

(* Routes of carry. *)
LEMMA CarryRoutesFit ==
  ASSUME NEW m, m \in Og!CarryReads \/ m \in Og!CarryExecutionRoutes \/ m \in Og!MultiLegReads
  PROVE  RouteFits(m)
<1>1. /\ m.group = "carry" /\ m.role \in {"none", "viewer", "operator", "admin"}
      /\ m.method # "GET" => m.role # "none"
  BY DEF Og!CarryReads, Og!CarryExecutionRoutes, Og!MultiLegReads, Og!Route, Og!Get, Og!Post
<1>2. (m \in Og!CarryReads \/ m \in Og!MultiLegReads) => m.method = "GET"
  BY DEF Og!CarryReads, Og!MultiLegReads, Og!Route, Og!Get, Og!Post
<1>3. ASSUME NEW c, c \in Og!TriggerCalls \/ c \in Og!ApprovalCalls,
             m \in Og!CarryExecutionRoutes, Selects(c, m)
      PROVE  Fits(c, m)
  <2>1. CASE c \in Og!TriggerCalls
    BY <1>3, <2>1 DEF Og!TriggerCalls, Og!CarryExecutionRoutes, Og!Route, Og!Get, Og!Post, Og!Call, Og!Send,
           Og!SendEmpty, Selects, Fits, Og!CheckedOps, Og!RequirementNotShown
  <2>2. CASE c \in Og!ApprovalCalls
    BY <1>3, <2>2 DEF Og!ApprovalCalls, Og!CarryExecutionRoutes, Og!Route, Og!Get, Og!Post, Og!Call, Og!Send,
           Og!SendEmpty, Selects, Fits, Og!CheckedOps, Og!RequirementNotShown
  <2> QED BY <1>3, <2>1, <2>2
<1> QED BY <1>1, <1>2, <1>3, ProxiedCalls DEF RouteFits, Selects

(* Routes of Encrypt. *)
LEMMA EncryptRoutesFit ==
  ASSUME NEW m, m \in Og!EncryptRoutes
  PROVE  RouteFits(m)
<1>1. /\ m.group = "encrypt" /\ m.role \in {"none", "viewer", "operator", "admin"}
      /\ m.method # "GET" => m.role # "none"
  BY DEF Og!EncryptRoutes, Og!Route, Og!Get, Og!Post
<1>2. ASSUME NEW c, c \in Og!TriggerCalls,
             m \in Og!EncryptRoutes, Selects(c, m)
      PROVE  Fits(c, m)
  <2>1. CASE c \in Og!TriggerCalls
    BY <1>2, <2>1 DEF Og!TriggerCalls, Og!EncryptRoutes, Og!Route, Og!Get, Og!Post, Og!Call, Og!Send,
           Og!SendEmpty, Selects, Fits, Og!CheckedOps, Og!RequirementNotShown
  <2> QED BY <1>2, <2>1
<1> QED BY <1>1, <1>2, ProxiedCalls DEF RouteFits, Selects

(* Routes of venues. *)
LEMMA VenuesRoutesFit ==
  ASSUME NEW m, m \in Og!VenueReads \/ m \in Og!PromotionRequestRoutes \/ m \in
         Og!PromotionDecisionRoutes \/ m \in Og!VenueTruthReads
  PROVE  RouteFits(m)
<1>1. /\ m.group = "venues" /\ m.role \in {"none", "viewer", "operator", "admin"}
      /\ m.method # "GET" => m.role # "none"
  BY DEF Og!VenueReads, Og!PromotionRequestRoutes, Og!PromotionDecisionRoutes, Og!VenueTruthReads,
         Og!Route, Og!Get, Og!Post
<1>2. (m \in Og!VenueReads \/ m \in Og!VenueTruthReads) => m.method = "GET"
  BY DEF Og!VenueReads, Og!VenueTruthReads, Og!Route, Og!Get, Og!Post
<1>3. ASSUME NEW c, c \in Og!PromotionCalls,
             m \in Og!PromotionRequestRoutes, Selects(c, m)
      PROVE  Fits(c, m)
  <2>1. CASE c \in Og!PromotionCalls
    BY <1>3, <2>1 DEF Og!PromotionCalls, Og!PromotionRequestRoutes, Og!Route, Og!Get, Og!Post, Og!Call, Og!Send,
           Og!SendEmpty, Selects, Fits, Og!CheckedOps, Og!RequirementNotShown
  <2> QED BY <1>3, <2>1
<1>4. ASSUME NEW c, c \in Og!PromotionCalls,
             m \in Og!PromotionDecisionRoutes, Selects(c, m)
      PROVE  Fits(c, m)
  <2>1. CASE c \in Og!PromotionCalls
    BY <1>4, <2>1 DEF Og!PromotionCalls, Og!PromotionDecisionRoutes, Og!Route, Og!Get, Og!Post, Og!Call, Og!Send,
           Og!SendEmpty, Selects, Fits, Og!CheckedOps, Og!RequirementNotShown
  <2> QED BY <1>4, <2>1
<1> QED BY <1>1, <1>2, <1>3, <1>4, ProxiedCalls DEF RouteFits, Selects

(* Routes of the treasury. *)
LEMMA TreasuryRoutesFit ==
  ASSUME NEW m, m \in Og!TreasuryReads \/ m \in Og!TreasuryVenueReads \/ m \in
         Og!TreasuryActionRoutes
  PROVE  RouteFits(m)
<1>1. /\ m.group = "treasury" /\ m.role \in {"none", "viewer", "operator", "admin"}
      /\ m.method # "GET" => m.role # "none"
  BY DEF Og!TreasuryReads, Og!TreasuryVenueReads, Og!TreasuryActionRoutes, Og!Route, Og!Get, Og!Post
<1>2. m \in Og!TreasuryReads => m.method = "GET"
  BY DEF Og!TreasuryReads, Og!Route, Og!Get, Og!Post
<1>3. ASSUME NEW c, c \in Og!TreasuryCalls,
             m \in Og!TreasuryVenueReads, Selects(c, m)
      PROVE  Fits(c, m)
  <2>1. CASE c \in Og!TreasuryCalls
    BY <1>3, <2>1 DEF Og!TreasuryCalls, Og!TreasuryVenueReads, Og!Route, Og!Get, Og!Post, Og!Call, Og!Send,
           Og!SendEmpty, Selects, Fits, Og!CheckedOps, Og!RequirementNotShown
  <2> QED BY <1>3, <2>1
<1>4. ASSUME NEW c, c \in Og!TreasuryCalls,
             m \in Og!TreasuryActionRoutes, Selects(c, m)
      PROVE  Fits(c, m)
  <2>1. CASE c \in Og!TreasuryCalls
    BY <1>4, <2>1 DEF Og!TreasuryCalls, Og!TreasuryActionRoutes, Og!Route, Og!Get, Og!Post, Og!Call, Og!Send,
           Og!SendEmpty, Selects, Fits, Og!CheckedOps, Og!RequirementNotShown
  <2> QED BY <1>4, <2>1
<1> QED BY <1>1, <1>2, <1>3, <1>4, ProxiedCalls DEF RouteFits, Selects

(* Routes of the submission. *)
LEMMA SubmissionRoutesFit ==
  ASSUME NEW m, m \in Og!DossierRoutes \/ m \in Og!DossierEvidenceRoutes \/ m \in Og!ReportRoutes
  PROVE  RouteFits(m)
<1>1. /\ m.group = "submission" /\ m.role \in {"none", "viewer", "operator", "admin"}
      /\ m.method # "GET" => m.role # "none"
  BY DEF Og!DossierRoutes, Og!DossierEvidenceRoutes, Og!ReportRoutes, Og!Route, Og!Get, Og!Post
<1>2. ASSUME NEW c, c \in Og!SubmissionCalls,
             m \in Og!DossierRoutes, Selects(c, m)
      PROVE  Fits(c, m)
  <2>1. CASE c \in Og!SubmissionCalls
    BY <1>2, <2>1 DEF Og!SubmissionCalls, Og!DossierRoutes, Og!Route, Og!Get, Og!Post, Og!Call, Og!Send,
           Og!SendEmpty, Selects, Fits, Og!CheckedOps, Og!RequirementNotShown
  <2> QED BY <1>2, <2>1
<1>3. ASSUME NEW c, c \in Og!SubmissionCalls,
             m \in Og!DossierEvidenceRoutes, Selects(c, m)
      PROVE  Fits(c, m)
  <2>1. CASE c \in Og!SubmissionCalls
    BY <1>3, <2>1 DEF Og!SubmissionCalls, Og!DossierEvidenceRoutes, Og!Route, Og!Get, Og!Post, Og!Call, Og!Send,
           Og!SendEmpty, Selects, Fits, Og!CheckedOps, Og!RequirementNotShown
  <2> QED BY <1>3, <2>1
<1>4. ASSUME NEW c, c \in Og!SubmissionCalls,
             m \in Og!ReportRoutes, Selects(c, m)
      PROVE  Fits(c, m)
  <2>1. CASE c \in Og!SubmissionCalls
    BY <1>4, <2>1 DEF Og!SubmissionCalls, Og!ReportRoutes, Og!Route, Og!Get, Og!Post, Og!Call, Og!Send,
           Og!SendEmpty, Selects, Fits, Og!CheckedOps, Og!RequirementNotShown
  <2> QED BY <1>4, <2>1
<1> QED BY <1>1, <1>2, <1>3, <1>4, ProxiedCalls DEF RouteFits, Selects

(* Routes of parts of the API that the dashboard sends nothing to through its proxy. *)
LEMMA OtherRoutesFit1 ==
  ASSUME NEW m,
         m \in Og!CexSessionRoutes \/ m \in Og!CexPnlRoutes \/ m \in Og!CexApiRoutes \/ m \in
         Og!ControlRoutes \/ m \in Og!PusdRoutes \/ m \in Og!PortfolioRoutes \/ m \in
         Og!OrderRoutes \/ m \in Og!PositionRoutes \/ m \in Og!OpportunityRoutes
  PROVE  RouteFits(m)
<1>1. /\ m.group \notin {"runtime", "allocator", "encrypt", "carry", "venues", "treasury",
                        "submission"}
      /\ m.role \in {"none", "viewer", "operator", "admin"}
      /\ m.method # "GET" /\ m.role = "none" => m.op = "validateCexCsv"
  BY DEF Og!CexSessionRoutes, Og!CexPnlRoutes, Og!CexApiRoutes, Og!ControlRoutes, Og!PusdRoutes,
         Og!PortfolioRoutes, Og!OrderRoutes, Og!PositionRoutes, Og!OpportunityRoutes, Og!Route,
         Og!Get, Og!Post
<1> QED BY <1>1 DEF RouteFits, Selects, Og!Proxied

(* Routes of parts of the API that the dashboard sends nothing to through its proxy. *)
LEMMA OtherRoutesFit2 ==
  ASSUME NEW m,
         m \in Og!EventRoutes \/ m \in Og!RiskRoutes \/ m \in Og!BacktestRoutes \/ m \in
         Og!VaultRoutes
  PROVE  RouteFits(m)
<1>1. /\ m.group \notin {"runtime", "allocator", "encrypt", "carry", "venues", "treasury",
                        "submission"}
      /\ m.role \in {"none", "viewer", "operator", "admin"}
      /\ m.method # "GET" /\ m.role = "none" => m.op = "validateCexCsv"
  BY DEF Og!EventRoutes, Og!RiskRoutes, Og!BacktestRoutes, Og!VaultRoutes, Og!Route, Og!Get, Og!Post
<1> QED BY <1>1 DEF RouteFits, Selects, Og!Proxied

(* Every route of the API fits the calls that select it. *)
LEMMA RoutesFit == \A m \in Og!Routes : RouteFits(m)
BY RuntimeRoutesFit, AllocatorRoutesFit, CarryRoutesFit, EncryptRoutesFit, VenuesRoutesFit,
   TreasuryRoutesFit, SubmissionRoutesFit, OtherRoutesFit1, OtherRoutesFit2 DEF Og!Routes
(* There is a route for what a call or a page asks for. *)
HasRoute(method, group, path) ==
  \E m \in Og!Routes : m.method = method /\ m.group = group /\ m.path = path
Reads(r, m) == m.method = "GET" /\ m.group = r[1] /\ m.path = r[2]

(* The calls of the dashboard that its proxy lets through reach a route.   *)
LEMMA CallsHaveRoutes ==
  ASSUME NEW c \in Og!Calls, Og!Proxied(c)
  PROVE  HasRoute(c.method, c.group, c.path)
<1>1. CASE c \in Og!TriggerCalls
  <2>1. \/ \E m \in Og!RuntimeTriggerRoutes : Selects(c, m)
        \/ \E m \in Og!ProposalReads : Selects(c, m)
        \/ \E m \in Og!CarryExecutionRoutes : Selects(c, m)
        \/ \E m \in Og!EncryptRoutes : Selects(c, m)
    BY <1>1 DEF Og!TriggerCalls, Og!RuntimeTriggerRoutes, Og!ProposalReads, Og!CarryExecutionRoutes,
           Og!EncryptRoutes, Og!Call, Og!Send, Og!SendEmpty, Og!Route, Og!Get, Og!Post, Selects
  <2> QED BY <2>1 DEF Og!Routes, HasRoute, Selects
<1>2. CASE c \in Og!SubmissionCalls
  <2>1. \/ \E m \in Og!DossierRoutes : Selects(c, m)
        \/ \E m \in Og!DossierEvidenceRoutes : Selects(c, m)
    BY <1>2 DEF Og!SubmissionCalls, Og!DossierRoutes, Og!DossierEvidenceRoutes, Og!Call, Og!Send,
           Og!SendEmpty, Og!Route, Og!Get, Og!Post, Selects
  <2> QED BY <2>1 DEF Og!Routes, HasRoute, Selects
<1>3. CASE c \in Og!ApprovalCalls
  <2>1. \/ \E m \in Og!CarryExecutionRoutes : Selects(c, m)
        \/ \E m \in Og!ProposalDecisionRoutes : Selects(c, m)
        \/ \E m \in Og!RecoveryAndTimelineRoutes : Selects(c, m)
        \/ \E m \in Og!BundleResolutionRoutes : Selects(c, m)
    BY <1>3 DEF Og!ApprovalCalls, Og!CarryExecutionRoutes, Og!ProposalDecisionRoutes,
           Og!RecoveryAndTimelineRoutes, Og!BundleResolutionRoutes, Og!Call, Og!Send,
           Og!SendEmpty, Og!Route, Og!Get, Og!Post, Selects
  <2> QED BY <2>1 DEF Og!Routes, HasRoute, Selects
<1>4. CASE c \in Og!EscalationCalls
  <2>1. \/ \E m \in Og!EscalationRoutes : Selects(c, m)
        \/ \E m \in Og!EscalationCloseAndRecoveryReads : Selects(c, m)
    BY <1>4 DEF Og!EscalationCalls, Og!EscalationRoutes, Og!EscalationCloseAndRecoveryReads, Og!Call,
           Og!Send, Og!SendEmpty, Og!Route, Og!Get, Og!Post, Selects
  <2> QED BY <2>1 DEF Og!Routes, HasRoute, Selects
<1>5. CASE c \in Og!TreasuryCalls
  <2>1. \/ \E m \in Og!TreasuryVenueReads : Selects(c, m)
        \/ \E m \in Og!TreasuryActionRoutes : Selects(c, m)
    BY <1>5 DEF Og!TreasuryCalls, Og!TreasuryVenueReads, Og!TreasuryActionRoutes, Og!Call, Og!Send,
           Og!SendEmpty, Og!Route, Og!Get, Og!Post, Selects
  <2> QED BY <2>1 DEF Og!Routes, HasRoute, Selects
<1>6. CASE c \in Og!PromotionCalls
  <2>1. \/ \E m \in Og!PromotionRequestRoutes : Selects(c, m)
        \/ \E m \in Og!PromotionDecisionRoutes : Selects(c, m)
    BY <1>6 DEF Og!PromotionCalls, Og!PromotionRequestRoutes, Og!PromotionDecisionRoutes, Og!Call, Og!Send,
           Og!SendEmpty, Og!Route, Og!Get, Og!Post, Selects
  <2> QED BY <2>1 DEF Og!Routes, HasRoute, Selects
<1>7. CASE c \in Og!MismatchCalls
  <2>1. \/ \E m \in Og!MismatchActionRoutes : Selects(c, m)
        \/ \E m \in Og!MismatchReviewRoutes : Selects(c, m)
    BY <1>7 DEF Og!MismatchCalls, Og!MismatchActionRoutes, Og!MismatchReviewRoutes, Og!Call, Og!Send,
           Og!SendEmpty, Og!Route, Og!Get, Og!Post, Selects
  <2> QED BY <2>1 DEF Og!Routes, HasRoute, Selects
<1>8. c \notin Og!CexCalls
  BY DEF Og!CexCalls, Og!Proxied, Og!Call, Og!Send
<1> QED BY <1>1, <1>2, <1>3, <1>4, <1>5, <1>6, <1>7, <1>8, CallGroups

(* Every page of AllocatorPages finds its routes. *)
LEMMA AllocatorPagesHaveRoutes ==
  ASSUME NEW p \in Og!All(Og!AllocatorPages), NEW r \in p
  PROVE  HasRoute("GET", r[1], r[2])
<1>1. \/ r \in {<<"runtime", "/status">>, <<"runtime", "/mismatches">>, <<"runtime", "/commands">>,
                <<"runtime", "/recovery-outcomes">>, <<"runtime", "/reconciliation/runs">>,
                <<"runtime", "/reconciliation/findings">>}
      \/ r \in {<<"allocator", "/summary">>, <<"allocator", "/targets">>,
                <<"allocator", "/decisions">>, <<"allocator", "/rebalance-proposals">>,
                <<"allocator", "/decisions/:id">>,
                <<"allocator", "/decisions/:id/rebalance-proposals">>,
                <<"allocator", "/rebalance-proposals/:id/bundle">>,
                <<"allocator", "/rebalance-bundles/:id">>}
      \/ r \in {<<"submission", "/">>, <<"submission", "/evidence">>, <<"submission", "/export">>}
  <2>1. \/ p = Og!AllocatorPages.overview \/ p = Og!AllocatorPages.allocator
        \/ p = Og!AllocatorPages.submission \/ p = Og!AllocatorPages.decision
        \/ p = Og!AllocatorPages.proposal \/ p = Og!AllocatorPages.bundle
    BY DEF Og!All, Og!AllocatorPages
  <2>2. CASE p = Og!AllocatorPages.overview
    BY <2>2 DEF Og!AllocatorPages, Og!RuntimeReads
  <2>3. CASE p = Og!AllocatorPages.submission
    BY <2>3 DEF Og!AllocatorPages, Og!VenueAndCarryReads
  <2>4. CASE p = Og!AllocatorPages.allocator
    BY <2>4 DEF Og!AllocatorPages, Og!AllocatorPageReads
  <2>5. CASE \/ p = Og!AllocatorPages.decision \/ p = Og!AllocatorPages.proposal
             \/ p = Og!AllocatorPages.bundle
    BY <2>5 DEF Og!AllocatorPages, Og!AllocatorPageReads
  <2> QED BY <2>1, <2>2, <2>3, <2>4, <2>5
<1>2. r[1] = "runtime" => \/ \E m \in Og!RuntimeTriggerRoutes : Reads(r, m)
                          \/ \E m \in Og!MismatchReviewRoutes : Reads(r, m)
                          \/ \E m \in Og!FindingReads : Reads(r, m)
                          \/ \E m \in Og!CommandReads : Reads(r, m)
  BY <1>1 DEF Og!RuntimeTriggerRoutes, Og!MismatchReviewRoutes, Og!FindingReads,
              Og!CommandReads, Og!Route, Og!Get, Og!Post, Reads
<1>3. r[1] = "allocator" => \/ \E m \in Og!AllocatorReads : Reads(r, m)
                            \/ \E m \in Og!RecoveryAndTimelineRoutes : Reads(r, m)
                            \/ \E m \in Og!BundleResolutionReads : Reads(r, m)
                            \/ \E m \in Og!BundleQueueReads : Reads(r, m)
  BY <1>1 DEF Og!AllocatorReads, Og!RecoveryAndTimelineRoutes, Og!BundleResolutionReads,
              Og!BundleQueueReads, Og!Route, Og!Get, Og!Post, Reads
<1>4. r[1] = "submission" => \/ \E m \in Og!DossierRoutes : Reads(r, m)
                             \/ \E m \in Og!DossierEvidenceRoutes : Reads(r, m)
  BY <1>1 DEF Og!DossierRoutes, Og!DossierEvidenceRoutes, Og!Route, Og!Get, Og!Post, Reads
<1>5. r[1] \in {"runtime", "allocator", "submission"}
  BY <1>1
<1> QED BY <1>2, <1>3, <1>4, <1>5 DEF Og!Routes, HasRoute, Reads

(* Every page of VenueAndCarryPages finds its routes. *)
LEMMA VenueAndCarryPagesHaveRoutes ==
  ASSUME NEW p \in Og!All(Og!VenueAndCarryPages), NEW r \in p
  PROVE  HasRoute("GET", r[1], r[2])
<1>1. \/ p = Og!VenueAndCarryPages.escalations
      \/ p = Og!VenueAndCarryPages.venues \/ p = Og!VenueAndCarryPages.venue
      \/ p = Og!VenueAndCarryPages.carry \/ p = Og!VenueAndCarryPages.carryAction
      \/ p = Og!VenueAndCarryPages.carryExecutions \/ p = Og!VenueAndCarryPages.carryExecution
  BY DEF Og!All, Og!VenueAndCarryPages
<1>2. CASE p = Og!VenueAndCarryPages.escalations
  <2>1. r \in {<<"allocator", "/escalations">>, <<"allocator", "/escalations/summary">>}
    BY <1>2 DEF Og!VenueAndCarryPages, Og!AllocatorPageReads
  <2>2. \E m \in Og!BundleQueueReads : Reads(r, m)
    BY <2>1 DEF Og!BundleQueueReads, Og!Route, Og!Get, Og!Post, Reads
  <2> QED BY <2>2 DEF Og!Routes, HasRoute, Reads
<1>3. CASE p = Og!VenueAndCarryPages.venues \/ p = Og!VenueAndCarryPages.venue
  <2>1. r \in {<<"venues", "/">>, <<"venues", "/summary">>, <<"venues", "/truth-summary">>,
               <<"venues", "/:id">>}
    BY <1>3 DEF Og!VenueAndCarryPages, Og!VenueAndCarryReads
  <2>2. \/ \E m \in Og!VenueReads : Reads(r, m)
        \/ \E m \in Og!PromotionDecisionRoutes : Reads(r, m)
    BY <2>1 DEF Og!VenueReads, Og!PromotionDecisionRoutes, Og!Route, Og!Get, Og!Post, Reads
  <2> QED BY <2>2 DEF Og!Routes, HasRoute, Reads
<1>4. CASE \/ p = Og!VenueAndCarryPages.carry \/ p = Og!VenueAndCarryPages.carryAction
           \/ p = Og!VenueAndCarryPages.carryExecutions
           \/ p = Og!VenueAndCarryPages.carryExecution
  <2>1. r \in {<<"carry", "/strategy-profile">>, <<"carry", "/opportunity-evaluations">>,
               <<"carry", "/recommendations">>, <<"carry", "/actions">>,
               <<"carry", "/actions/:id">>, <<"carry", "/executions">>,
               <<"carry", "/executions/:id">>, <<"carry", "/venues">>}
    BY <1>4 DEF Og!VenueAndCarryPages, Og!VenueAndCarryReads
  <2>2. \/ \E m \in Og!CarryReads : Reads(r, m)
        \/ \E m \in Og!CarryExecutionRoutes : Reads(r, m)
    BY <2>1 DEF Og!CarryReads, Og!CarryExecutionRoutes, Og!Route, Og!Get, Og!Post, Reads
  <2> QED BY <2>2 DEF Og!Routes, HasRoute, Reads
<1> QED BY <1>1, <1>2, <1>3, <1>4

(* Every page of TreasuryPages finds its routes. *)
LEMMA TreasuryPagesHaveRoutes ==
  ASSUME NEW p \in Og!All(Og!TreasuryPages), NEW r \in p
  PROVE  HasRoute("GET", r[1], r[2])
<1>1. \/ \E m \in Og!TreasuryReads : Reads(r, m)
      \/ \E m \in Og!TreasuryVenueReads : Reads(r, m)
      \/ \E m \in Og!PusdRoutes : Reads(r, m)
      \/ \E m \in Og!EventRoutes : Reads(r, m)
      \/ \E m \in Og!EncryptRoutes : Reads(r, m)
  BY DEF Og!All, Og!TreasuryPages, Og!TreasuryPageReads, Og!PusdAndEncryptReads, Og!TreasuryReads,
         Og!TreasuryVenueReads, Og!PusdRoutes, Og!EventRoutes, Og!EncryptRoutes, Og!Route,
         Og!Get, Og!Post, Reads
<1> QED BY <1>1 DEF Og!Routes, HasRoute, Reads

(* Every page of OperationsPages finds its routes. *)
LEMMA OperationsPagesHaveRoutes ==
  ASSUME NEW p \in Og!All(Og!OperationsPages), NEW r \in p
  PROVE  HasRoute("GET", r[1], r[2])
<1>1. \/ \E m \in Og!TreasuryVenueReads : Reads(r, m)
      \/ \E m \in Og!MismatchReviewRoutes : Reads(r, m)
      \/ \E m \in Og!FindingReads : Reads(r, m)
      \/ \E m \in Og!CommandReads : Reads(r, m)
  BY DEF Og!All, Og!OperationsPages, Og!TreasuryPageReads, Og!RuntimeReads, Og!TreasuryVenueReads,
         Og!MismatchReviewRoutes, Og!FindingReads, Og!CommandReads, Og!Route, Og!Get, Og!Post,
         Reads
<1> QED BY <1>1 DEF Og!Routes, HasRoute, Reads

(* No page of the dashboard reads what no route serves. *)
LEMMA PagesHaveRoutes == Og!ReadsWithoutRoute = {}
<1> SUFFICES ASSUME NEW p \in Og!PageReads, NEW r \in p
             PROVE  Og!Matching("GET", r[1], r[2]) # {}
  BY DEF Og!ReadsWithoutRoute
<1>1. \/ p \in Og!All(Og!AllocatorPages) \/ p \in Og!All(Og!VenueAndCarryPages)
      \/ p \in Og!All(Og!TreasuryPages) \/ p \in Og!All(Og!OperationsPages)
  BY DEF Og!PageReads
<1>2. HasRoute("GET", r[1], r[2])
  BY <1>1, AllocatorPagesHaveRoutes, VenueAndCarryPagesHaveRoutes, TreasuryPagesHaveRoutes,
     OperationsPagesHaveRoutes
<1> QED BY <1>2 DEF HasRoute, Og!Matching

(***************************************************************************)
(* Then the requests: GatewayInv of OperatorGateway is inductive.          *)
(***************************************************************************)
(* What the API may ask of a request, given what the button asked.         *)
LEMMA FitsIsAllowed ==
  ASSUME NEW c, NEW m, NEW role \in Og!OPS_OPERATOR_ROLES, NEW need \in {"operator", "admin"},
         Fits(c, m), RouteFits(m), Og!Enabled(c, role, need)
  PROVE  \/ /\ m.role = "none" \/ Og!canAssumeRole(role, m.role)
            /\ m.op \in Og!CheckedOps => Og!canAssumeRole(role, need)
         \/ m.op \in Og!RequirementNotShown /\ need = "admin"
BY DEF Fits, RouteFits, Og!Enabled, Og!canOperate, Og!isAdmin, Og!canAssumeRole, Og!RoleOrder,
       Og!OPS_OPERATOR_ROLES

(* The history variables after a step. *)
LEMMA Observed ==
  ASSUME Og!Types, Og!HistoryInv, Og!Observe, clock' \in Nat, clock' >= clock,
         DOMAIN sessions \subseteq DOMAIN sessions'
  PROVE  /\ lastHeld' \in [Operators -> [Og!OPS_OPERATOR_ROLES -> Int]]
         /\ lastLive' \in [DOMAIN sessions' -> Int]
         /\ Og!HistoryInv'
         /\ \A o \in Operators, role \in Og!OPS_OPERATOR_ROLES :
              lastHeld'[o][role] >= lastHeld[o][role]
         /\ \A s \in DOMAIN sessions : lastLive'[s] >= lastLive[s]
<1> USE DEF Og!Types, Og!HistoryInv, Og!Observe
<1>1. \A o \in Operators, role \in Og!OPS_OPERATOR_ROLES :
        /\ lastHeld[o][role] \in Int /\ lastHeld[o][role] <= clock
        /\ lastHeld'[o][role] = IF Og!Holds(o, role)' THEN clock' ELSE lastHeld[o][role]
  OBVIOUS
<1>2. \A s \in DOMAIN sessions' :
        lastLive'[s] = IF Og!Usable(s)' THEN clock'
                       ELSE IF s \in DOMAIN lastLive THEN lastLive[s] ELSE -1
  OBVIOUS
<1>3. \A s \in DOMAIN sessions : lastLive[s] \in Int /\ lastLive[s] <= clock
  OBVIOUS
<1>4. DOMAIN lastLive = DOMAIN sessions
  OBVIOUS
<1>5. lastHeld' \in [Operators -> [Og!OPS_OPERATOR_ROLES -> Int]]
  BY <1>1
<1>6. lastLive' \in [DOMAIN sessions' -> Int]
  BY <1>2, <1>3, <1>4
<1>7. \A o \in Operators, role \in Og!OPS_OPERATOR_ROLES :
        /\ lastHeld'[o][role] <= clock' /\ lastHeld'[o][role] >= lastHeld[o][role]
        /\ Og!Holds(o, role)' => lastHeld'[o][role] = clock'
  BY <1>1
<1>8. \A s \in DOMAIN sessions' :
        lastLive'[s] <= clock' /\ (Og!Usable(s)' => lastLive'[s] = clock')
  BY <1>2, <1>3, <1>4
<1>9. \A s \in DOMAIN sessions : lastLive'[s] >= lastLive[s]
  BY <1>2, <1>3, <1>4
<1> QED BY <1>5, <1>6, <1>7, <1>8, <1>9

(* A request that was in order stays in order. *)
LEMMA RequestStays ==
  ASSUME Og!Types, Og!Types', DOMAIN sessions \subseteq DOMAIN sessions',
         \A o \in Operators, role \in Og!OPS_OPERATOR_ROLES :
           lastHeld'[o][role] >= lastHeld[o][role],
         \A s \in DOMAIN sessions : lastLive'[s] >= lastLive[s],
         NEW r, Og!RequestOK(r)
  PROVE  Og!RequestOK(r)'
<1>1. \A role \in Og!OPS_OPERATOR_ROLES :
        /\ lastHeld[r.operatorId][role] \in Int /\ lastHeld'[r.operatorId][role] \in Int
        /\ lastHeld'[r.operatorId][role] >= lastHeld[r.operatorId][role]
  BY DEF Og!RequestOK, Og!Types
<1>2. /\ lastLive[r.session] \in Int /\ lastLive'[r.session] \in Int
      /\ lastLive'[r.session] >= lastLive[r.session]
  BY DEF Og!RequestOK, Og!Types
<1>3. r.issuedAt \in Int
  BY DEF Og!RequestOK
<1> QED BY <1>1, <1>2, <1>3 DEF Og!RequestOK

(* Bootstrapping an operator keeps ids and e-mails unique, and every       *)
(* session's operator. *)
LEMMA UpsertKeepsTables ==
  ASSUME Og!Types, Og!TypeOK,
         NEW o \in Operators, NEW e \in Emails, NEW role \in Og!OPS_OPERATOR_ROLES,
         NEW active \in BOOLEAN, Og!upsertOperator(o, e, role, active)
  PROVE  /\ rows' \subseteq [operatorId : Operators, email : Emails,
                             role : Og!OPS_OPERATOR_ROLES, active : BOOLEAN]
         /\ Og!TypeOK'
<1> DEFINE existing == Og!FindOperator(o, e)
           new == [operatorId |-> o, email |-> e, role |-> role, active |-> active]
<1>1. rows' = (rows \ existing) \cup {new}
  BY DEF Og!upsertOperator
<1>2. /\ \A q \in existing, s \in DOMAIN sessions :
           q.operatorId # o => sessions[s].operatorId # q.operatorId
      /\ UNCHANGED <<sessions, requests, attempts>>
  BY DEF Og!upsertOperator
<1>3. \A q \in rows \ existing : q.operatorId # o /\ q.email # e
  BY DEF Og!FindOperator
<1>4. ASSUME NEW s \in DOMAIN sessions
      PROVE  \E q \in rows' : q.operatorId = sessions[s].operatorId
  <2>1. PICK q \in rows : q.operatorId = sessions[s].operatorId
    BY DEF Og!TypeOK, Og!RowsOf
  <2>2. CASE q.operatorId = o
    <3>1. new \in rows' /\ new.operatorId = o
      BY <1>1
    <3> QED BY <2>1, <2>2, <3>1
  <2>3. CASE q \notin existing
    BY <1>1, <2>1, <2>3
  <2>4. q \in existing => q.operatorId = o
    BY <1>2, <2>1
  <2> QED BY <2>2, <2>3, <2>4
<1>5. \A r, q \in rows' : r # q => r.operatorId # q.operatorId /\ r.email # q.email
  BY <1>1, <1>3 DEF Og!TypeOK
<1>6. rows' \subseteq [operatorId : Operators, email : Emails, role : Og!OPS_OPERATOR_ROLES,
                       active : BOOLEAN]
  BY <1>1 DEF Og!Types
<1>7. \A r \in rows' : /\ r.operatorId \in Operators /\ r.email \in Emails
                       /\ r.role \in Og!OPS_OPERATOR_ROLES /\ r.active \in BOOLEAN
  BY <1>6
<1>8. \A s \in DOMAIN sessions' : {q \in rows' : q.operatorId = sessions'[s].operatorId} # {}
  BY <1>2, <1>4
<1>9. /\ \A r \in requests' : r.call \in Og!Calls /\ r.session \in DOMAIN sessions'
      /\ \A x \in Emails : attempts'[x].count \in 0..LoginMaxAttempts
  BY <1>2 DEF Og!TypeOK
<1> QED BY <1>5, <1>6, <1>7, <1>8, <1>9 DEF Og!TypeOK, Og!RowsOf

(* What a step keeps as long as time does not go back and no session is    *)
(* dropped. *)
LEMMA GatewayFrame ==
  ASSUME Og!GatewayInv, Og!Observe,
         rows' \subseteq [operatorId : Operators, email : Emails, role : Og!OPS_OPERATOR_ROLES,
                          active : BOOLEAN],
         sessions' \in Seq([operatorId : Operators, expiresAt : Int, revoked : BOOLEAN]),
         page' \in Seq(Og!OPS_OPERATOR_ROLES \cup {"none"}), Len(page') = Len(sessions'),
         attempts' \in [Emails -> [count : 0..LoginMaxAttempts, resetAt : Int]],
         clock' \in Nat, clock' >= clock, drift' = drift,
         DOMAIN sessions \subseteq DOMAIN sessions'
  PROVE  Og!Types' /\ Og!HistoryInv' /\ \A r \in requests : Og!RequestOK(r)'
<1>1. Og!Types /\ Og!HistoryInv
  BY DEF Og!GatewayInv
<1>2. /\ lastHeld' \in [Operators -> [Og!OPS_OPERATOR_ROLES -> Int]]
      /\ lastLive' \in [DOMAIN sessions' -> Int]
      /\ Og!HistoryInv'
      /\ \A o \in Operators, role \in Og!OPS_OPERATOR_ROLES :
           lastHeld'[o][role] >= lastHeld[o][role]
      /\ \A s \in DOMAIN sessions : lastLive'[s] >= lastLive[s]
  BY <1>1, Observed
<1>3. Og!Types'
  BY <1>1, <1>2 DEF Og!Types
<1>4. ASSUME NEW r \in requests PROVE Og!RequestOK(r)'
  <2>1. Og!RequestOK(r)
    BY DEF Og!GatewayInv
  <2> QED BY <1>1, <1>2, <1>3, <2>1, RequestStays
<1> QED BY <1>2, <1>3, <1>4

(* The tables stay in order when only sessions, sign-in counts or requests *)
(* change. *)
LEMMA TablesStay ==
  ASSUME Og!TypeOK, rows' = rows,
         \A s \in DOMAIN sessions' : Og!RowsOf(sessions'[s].operatorId) # {},
         \A r \in requests' : r.call \in Og!Calls /\ r.session \in DOMAIN sessions',
         \A e \in Emails : attempts'[e].count \in 0..LoginMaxAttempts
  PROVE  Og!TypeOK'
BY DEF Og!TypeOK, Og!RowsOf

(* A lookup keeps the sessions and whose they are. *)
LEMMA LookupKeeps ==
  ASSUME Og!Types, NEW s \in DOMAIN sessions
  PROVE  /\ Og!AfterLookup(s)
              \in Seq([operatorId : Operators, expiresAt : Int, revoked : BOOLEAN])
         /\ DOMAIN Og!AfterLookup(s) = DOMAIN sessions
         /\ Len(Og!AfterLookup(s)) = Len(sessions)
         /\ \A x \in DOMAIN sessions :
              Og!AfterLookup(s)[x].operatorId = sessions[x].operatorId
<1> DEFINE T == [operatorId : Operators, expiresAt : Int, revoked : BOOLEAN]
           ended == [sessions[s] EXCEPT !.revoked = TRUE]
           S == [sessions EXCEPT ![s] = ended]
<1>1. sessions \in Seq(T)
  BY DEF Og!Types
<1>2. /\ S \in Seq(T) /\ DOMAIN S = DOMAIN sessions /\ Len(S) = Len(sessions)
      /\ \A x \in DOMAIN sessions : S[x].operatorId = sessions[x].operatorId
  <2>1. sessions[s] \in T
    BY <1>1, EntryOf
  <2>2. ended \in T /\ ended.operatorId = sessions[s].operatorId
    BY <2>1
  <2>3. S \in Seq(T) /\ Updated(sessions, S, s, ended)
    <3> HIDE DEF T, ended
    <3> QED BY <1>1, <2>2, UpdatedTable
  <2> QED BY <1>1, <2>2, <2>3 DEF Updated
<1>3. Og!AfterLookup(s) = S \/ Og!AfterLookup(s) = sessions
  BY DEF Og!AfterLookup
<1> QED BY <1>1, <1>2, <1>3

(* The role of a usable session is one its operator holds. *)
LEMMA CurrentRoleHeld ==
  ASSUME Og!Types, NEW s \in DOMAIN sessions, Og!Usable(s)
  PROVE  /\ Og!CurrentRole(s) \in Og!OPS_OPERATOR_ROLES
         /\ sessions[s].operatorId \in Operators
         /\ \A role \in Og!OPS_OPERATOR_ROLES :
              Og!canAssumeRole(Og!CurrentRole(s), role)
              => Og!Holds(sessions[s].operatorId, role)
<1> DEFINE q == CHOOSE r \in Og!RowsOf(sessions[s].operatorId) : r.active
<1>1. q \in Og!RowsOf(sessions[s].operatorId) /\ q.active
  BY DEF Og!Usable
<1>2. q \in rows
  BY <1>1 DEF Og!RowsOf
<1>3. q.role \in Og!OPS_OPERATOR_ROLES
  BY <1>2 DEF Og!Types
<1>4. Og!CurrentRole(s) = q.role
  BY DEF Og!CurrentRole
<1>5. sessions[s].operatorId \in Operators
  <2>1. sessions[s] \in [operatorId : Operators, expiresAt : Int, revoked : BOOLEAN]
    BY EntryOf DEF Og!Types
  <2> QED BY <2>1
<1> QED BY <1>1, <1>3, <1>4, <1>5 DEF Og!Holds

(* An operator is registered or changed: requests on the way keep the      *)
(* role they were signed with.                                             *)
LEMMA UpsertKeeps ==
  ASSUME Og!GatewayInv, NEW o \in Operators, NEW e \in Emails,
         NEW role \in Og!OPS_OPERATOR_ROLES, NEW active \in BOOLEAN,
         Og!upsertOperator(o, e, role, active)
  PROVE  Og!GatewayInv'
<1>1. Og!Types /\ Og!TypeOK
  BY DEF Og!GatewayInv
<1>2. /\ rows' \subseteq [operatorId : Operators, email : Emails,
                          role : Og!OPS_OPERATOR_ROLES, active : BOOLEAN]
      /\ Og!TypeOK'
  BY <1>1, UpsertKeepsTables
<1>3. /\ UNCHANGED <<sessions, page, attempts, requests, applied, keyed, refusals, dead, clock, drift>>
      /\ Og!Observe
  BY DEF Og!upsertOperator
<1>4. Og!Types' /\ Og!HistoryInv' /\ \A r \in requests : Og!RequestOK(r)'
  BY <1>1, <1>2, <1>3, GatewayFrame DEF Og!Types
<1>5. /\ Og!RevocationIsBounded' /\ Og!EnabledIsAllowed' /\ Og!NoDeadCall'
      /\ Og!KeyAloneChangesNothing'
  BY <1>3 DEF Og!GatewayInv, Og!RevocationIsBounded, Og!EnabledIsAllowed, Og!NoDeadCall,
              Og!KeyAloneChangesNothing
<1> QED BY <1>2, <1>3, <1>4, <1>5 DEF Og!GatewayInv

(* A login counts failures up to the limit, or opens a session.            *)
LEMMA LoginKeeps ==
  ASSUME Og!GatewayInv, NEW e \in Emails, NEW correct \in BOOLEAN, Og!Login(e, correct)
  PROVE  Og!GatewayInv'
<1>1. Og!Types /\ Og!TypeOK
  BY DEF Og!GatewayInv
<1>2. /\ UNCHANGED <<rows, keyed, requests, applied, refusals, dead, clock, drift>>
      /\ Og!Observe
  BY DEF Og!Login
<1>3. Og!getActiveBucket(e) \in [count : 0..LoginMaxAttempts, resetAt : Int]
  BY <1>1, GatewayAssumption DEF Og!getActiveBucket, Og!Types
<1>4. Og!getActiveBucket(e).count + 1 \in 0..LoginMaxAttempts
  BY <1>3, GatewayAssumption DEF Og!Login, Og!isRateLimited
<1>5. attempts' \in [Emails -> [count : 0..LoginMaxAttempts, resetAt : Int]]
  <2> DEFINE B == [count : 0..LoginMaxAttempts, resetAt : Int]
             cleared == [count |-> 0, resetAt |-> 0]
             counted == [Og!getActiveBucket(e) EXCEPT !.count = @ + 1]
  <2>1. attempts \in [Emails -> B]
    BY <1>1 DEF Og!Types
  <2>2. cleared \in B
    BY GatewayAssumption
  <2>3. counted \in B
    BY <1>3, <1>4
  <2>4. \/ attempts' = [attempts EXCEPT ![e] = cleared]
        \/ attempts' = [attempts EXCEPT ![e] = counted]
    BY DEF Og!Login
  <2> HIDE DEF B, cleared, counted
  <2>5. attempts' \in [Emails -> B]
    BY <2>1, <2>2, <2>3, <2>4
  <2> QED BY <2>5 DEF B
<1> DEFINE new == [operatorId |-> (CHOOSE r \in rows : r.email = e).operatorId,
                   expiresAt |-> clock + SessionTtl, revoked |-> FALSE]
<1>6. \/ sessions' = sessions /\ page' = page
      \/ /\ sessions' = Append(sessions, new) /\ page' = Append(page, "none")
         /\ \E r \in rows : r.email = e
  BY DEF Og!Login
<1>7. (\E r \in rows : r.email = e) =>
        /\ new \in [operatorId : Operators, expiresAt : Int, revoked : BOOLEAN]
        /\ Og!RowsOf(new.operatorId) # {}
  <2> SUFFICES ASSUME \E r \in rows : r.email = e
               PROVE  /\ new \in [operatorId : Operators, expiresAt : Int, revoked : BOOLEAN]
                      /\ Og!RowsOf(new.operatorId) # {}
    OBVIOUS
  <2> DEFINE q == CHOOSE r \in rows : r.email = e
  <2>1. q \in rows
    OBVIOUS
  <2>2. q.operatorId \in Operators
    BY <1>1, <2>1 DEF Og!Types
  <2>3. clock + SessionTtl \in Int
    BY <1>1, GatewayAssumption DEF Og!Types
  <2> QED BY <2>1, <2>2, <2>3 DEF Og!RowsOf
<1>8. /\ sessions' \in Seq([operatorId : Operators, expiresAt : Int, revoked : BOOLEAN])
      /\ page' \in Seq(Og!OPS_OPERATOR_ROLES \cup {"none"}) /\ Len(page') = Len(sessions')
      /\ DOMAIN sessions \subseteq DOMAIN sessions'
      /\ \A s \in DOMAIN sessions' : Og!RowsOf(sessions'[s].operatorId) # {}
  <2>1. CASE sessions' = sessions /\ page' = page
    BY <1>1, <2>1 DEF Og!Types, Og!TypeOK
  <2>2. CASE /\ sessions' = Append(sessions, new) /\ page' = Append(page, "none")
             /\ \E r \in rows : r.email = e
    <3>1. /\ new \in [operatorId : Operators, expiresAt : Int, revoked : BOOLEAN]
          /\ Og!RowsOf(new.operatorId) # {}
      BY <1>7, <2>2
    <3> HIDE DEF new
    <3>2. \A s \in DOMAIN sessions : Og!RowsOf(sessions[s].operatorId) # {}
      BY <1>1 DEF Og!TypeOK
    <3> DEFINE T == [operatorId : Operators, expiresAt : Int, revoked : BOOLEAN]
               R == Og!OPS_OPERATOR_ROLES \cup {"none"}
    <3>3. sessions \in Seq(T) /\ page \in Seq(R) /\ "none" \in R /\ Len(page) = Len(sessions)
      BY <1>1 DEF Og!Types
    <3> HIDE DEF T, R
    <3>4. /\ sessions' \in Seq(T) /\ Extended(sessions, sessions', new)
          /\ page' \in Seq(R) /\ Extended(page, page', "none")
      BY <2>2, <3>1, <3>3, ExtendedTable DEF T
    <3> QED BY <3>1, <3>2, <3>3, <3>4 DEF Extended, T, R
  <2> QED BY <1>6, <2>1, <2>2
<1>9. Og!Types' /\ Og!HistoryInv' /\ \A r \in requests : Og!RequestOK(r)'
  BY <1>1, <1>2, <1>5, <1>8, GatewayFrame DEF Og!Types
<1>10. Og!TypeOK'
  <2>1. \A r \in requests' : r.call \in Og!Calls /\ r.session \in DOMAIN sessions'
    BY <1>1, <1>2, <1>8 DEF Og!TypeOK
  <2>2. \A x \in Emails : attempts'[x].count \in 0..LoginMaxAttempts
    BY <1>5
  <2> QED BY <1>1, <1>2, <1>8, <2>1, <2>2, TablesStay
<1>11. /\ Og!RevocationIsBounded' /\ Og!EnabledIsAllowed' /\ Og!NoDeadCall'
       /\ Og!KeyAloneChangesNothing'
  BY <1>2 DEF Og!GatewayInv, Og!RevocationIsBounded, Og!EnabledIsAllowed, Og!NoDeadCall,
              Og!KeyAloneChangesNothing
<1> QED BY <1>2, <1>9, <1>10, <1>11 DEF Og!GatewayInv

(* What a step that leaves the operators, the sign-in counts and the time  *)
(* alone keeps of the types. *)
TypesKept ==
  /\ rows' \subseteq [operatorId : Operators, email : Emails, role : Og!OPS_OPERATOR_ROLES,
                      active : BOOLEAN]
  /\ attempts' \in [Emails -> [count : 0..LoginMaxAttempts, resetAt : Int]]
  /\ clock' \in Nat /\ clock' >= clock /\ drift' = drift

(* A logout ends a session; its requests are counted from here.            *)
LEMMA LogoutKeeps ==
  ASSUME Og!GatewayInv, NEW s \in DOMAIN sessions, Og!Logout(s)
  PROVE  Og!GatewayInv'
<1> DEFINE T == [operatorId : Operators, expiresAt : Int, revoked : BOOLEAN]
           R == Og!OPS_OPERATOR_ROLES \cup {"none"}
           ended == [sessions[s] EXCEPT !.revoked = TRUE]
<1>1. Og!Types /\ Og!TypeOK
  BY DEF Og!GatewayInv
<1>2. /\ sessions' = [sessions EXCEPT ![s] = ended] /\ page' = [page EXCEPT ![s] = "none"]
      /\ UNCHANGED <<rows, keyed, attempts, requests, applied, refusals, dead, clock, drift>>
      /\ Og!Observe
  BY DEF Og!Logout
<1>3. sessions \in Seq(T) /\ page \in Seq(R) /\ "none" \in R /\ Len(page) = Len(sessions)
  BY <1>1 DEF Og!Types
<1>4. ended \in T /\ ended.operatorId = sessions[s].operatorId
  <2>1. sessions[s] \in T
    BY <1>3, EntryOf
  <2> QED BY <2>1
<1> HIDE DEF T, R, ended
<1>5. /\ sessions' \in Seq(T) /\ Updated(sessions, sessions', s, ended)
      /\ page' \in Seq(R) /\ Updated(page, page', s, "none")
  <2>1. s \in DOMAIN page
    BY <1>3
  <2> QED BY <1>2, <1>3, <1>4, <2>1, UpdatedTable
<1>6. /\ Len(page') = Len(sessions') /\ DOMAIN sessions' = DOMAIN sessions
      /\ \A x \in DOMAIN sessions' : sessions'[x].operatorId = sessions[x].operatorId
  BY <1>3, <1>4, <1>5 DEF Updated
<1>7. Og!Types' /\ Og!HistoryInv' /\ \A r \in requests : Og!RequestOK(r)'
  <2>1. TypesKept
    BY <1>1, <1>2 DEF Og!Types, TypesKept
  <2> QED BY <1>2, <1>5, <1>6, <2>1, GatewayFrame DEF T, R, TypesKept
<1>8. Og!TypeOK'
  BY <1>1, <1>2, <1>6, TablesStay DEF Og!TypeOK
<1>9. /\ Og!RevocationIsBounded' /\ Og!EnabledIsAllowed' /\ Og!NoDeadCall'
      /\ Og!KeyAloneChangesNothing'
  BY <1>2 DEF Og!GatewayInv, Og!RevocationIsBounded, Og!EnabledIsAllowed, Og!NoDeadCall,
              Og!KeyAloneChangesNothing
<1> QED BY <1>2, <1>7, <1>8, <1>9 DEF Og!GatewayInv

(* A page shows what its session may do at that moment.                    *)
LEMMA LoadPageKeeps ==
  ASSUME Og!GatewayInv, NEW s \in DOMAIN sessions, Og!LoadPage(s)
  PROVE  Og!GatewayInv'
<1> DEFINE R == Og!OPS_OPERATOR_ROLES \cup {"none"}
<1>1. Og!Types /\ Og!TypeOK
  BY DEF Og!GatewayInv
<1>2. /\ sessions' = Og!AfterLookup(s)
      /\ UNCHANGED <<rows, keyed, attempts, requests, applied, refusals, clock, drift>>
      /\ Og!Observe
  BY DEF Og!LoadPage
<1>3. dead' = dead
  BY PagesHaveRoutes DEF Og!LoadPage
<1>4. PICK shown \in R : page' = [page EXCEPT ![s] = shown]
  BY <1>1, CurrentRoleHeld DEF Og!LoadPage
<1>5. page \in Seq(R) /\ Len(page) = Len(sessions) /\ s \in DOMAIN page
  BY <1>1 DEF Og!Types
<1>6. page' \in Seq(R) /\ Len(page') = Len(page)
  <2> HIDE DEF R
  <2> QED BY <1>4, <1>5, UpdatedTable DEF Updated
<1>7. /\ sessions' \in Seq([operatorId : Operators, expiresAt : Int, revoked : BOOLEAN])
      /\ Len(page') = Len(sessions') /\ DOMAIN sessions' = DOMAIN sessions
      /\ \A x \in DOMAIN sessions' : sessions'[x].operatorId = sessions[x].operatorId
  BY <1>1, <1>2, <1>5, <1>6, LookupKeeps
<1>8. Og!Types' /\ Og!HistoryInv' /\ \A r \in requests : Og!RequestOK(r)'
  <2>1. TypesKept
    BY <1>1, <1>2 DEF Og!Types, TypesKept
  <2> QED BY <1>2, <1>6, <1>7, <2>1, GatewayFrame DEF TypesKept
<1>9. Og!TypeOK'
  BY <1>1, <1>2, <1>7, TablesStay DEF Og!TypeOK
<1>10. /\ Og!RevocationIsBounded' /\ Og!EnabledIsAllowed' /\ Og!NoDeadCall'
       /\ Og!KeyAloneChangesNothing'
  BY <1>2, <1>3 DEF Og!GatewayInv, Og!RevocationIsBounded, Og!EnabledIsAllowed, Og!NoDeadCall,
              Og!KeyAloneChangesNothing
<1> QED BY <1>2, <1>8, <1>9, <1>10 DEF Og!GatewayInv

(* A request signed now is in order. *)
LEMMA SignedIsOK ==
  ASSUME Og!GatewayInv, NEW s \in DOMAIN sessions, Og!Usable(s), page[s] # "none",
         NEW call \in Og!Calls, NEW need \in Og!Requirements(call),
         Og!Proxied(call), Og!Enabled(call, page[s], need),
         NEW r, r = [call |-> call, need |-> need, session |-> s,
                     operatorId |-> sessions[s].operatorId, role |-> Og!CurrentRole(s),
                     shown |-> page[s], issuedAt |-> clock]
  PROVE  Og!RequestOK(r)
<1>1. Og!Types /\ Og!HistoryInv
  BY DEF Og!GatewayInv
<1>2. /\ Og!CurrentRole(s) \in Og!OPS_OPERATOR_ROLES
      /\ sessions[s].operatorId \in Operators
      /\ \A role \in Og!OPS_OPERATOR_ROLES :
           Og!canAssumeRole(Og!CurrentRole(s), role) => Og!Holds(sessions[s].operatorId, role)
  BY <1>1, CurrentRoleHeld
<1>3. page[s] \in Og!OPS_OPERATOR_ROLES
  <2>1. page[s] \in Og!OPS_OPERATOR_ROLES \cup {"none"}
    BY <1>1, EntryOf DEF Og!Types
  <2> QED BY <2>1
<1>4. clock \in Nat
  BY <1>1 DEF Og!Types
<1>5. lastLive[s] = clock
  BY <1>1 DEF Og!HistoryInv
<1>6. \A role \in Og!OPS_OPERATOR_ROLES :
        Og!canAssumeRole(Og!CurrentRole(s), role) => lastHeld[sessions[s].operatorId][role] = clock
  BY <1>1, <1>2 DEF Og!HistoryInv
<1> QED BY <1>2, <1>3, <1>4, <1>5, <1>6 DEF Og!RequestOK

(* A button sends a call that the tables of routes know, signed now.       *)
LEMMA SendKeeps ==
  ASSUME Og!GatewayInv, NEW s \in DOMAIN sessions, page[s] # "none",
         NEW call \in Og!Calls, NEW need \in Og!Requirements(call), Og!SendCall(s, call, need)
  PROVE  Og!GatewayInv'
<1> DEFINE new == [call |-> call, need |-> need, session |-> s,
                   operatorId |-> sessions[s].operatorId, role |-> Og!CurrentRole(s),
                   shown |-> page[s], issuedAt |-> clock]
<1>1. Og!Types /\ Og!TypeOK
  BY DEF Og!GatewayInv
<1>2. /\ UNCHANGED <<rows, keyed, page, attempts, applied, refusals, clock, drift>>
      /\ Og!Observe /\ Og!Enabled(call, page[s], need)
  BY DEF Og!SendCall
<1>3. \/ /\ sessions' = sessions /\ requests' = requests
         /\ dead' = dead \cup {<<call.method, <<call.group, call.path>> >>} /\ ~Og!Proxied(call)
      \/ /\ sessions' = Og!AfterLookup(s) /\ dead' = dead /\ Og!Proxied(call)
         /\ requests' = requests \/ (Og!Usable(s) /\ requests' = requests \cup {new})
  BY DEF Og!SendCall
<1>4. /\ sessions' \in Seq([operatorId : Operators, expiresAt : Int, revoked : BOOLEAN])
      /\ Len(page') = Len(sessions') /\ DOMAIN sessions' = DOMAIN sessions
      /\ \A x \in DOMAIN sessions' : sessions'[x].operatorId = sessions[x].operatorId
  BY <1>1, <1>2, <1>3, LookupKeeps DEF Og!Types
<1>5. Og!Types' /\ Og!HistoryInv' /\ \A r \in requests : Og!RequestOK(r)'
  <2>1. TypesKept /\ page' \in Seq(Og!OPS_OPERATOR_ROLES \cup {"none"})
    BY <1>1, <1>2 DEF Og!Types, TypesKept
  <2> QED BY <1>2, <1>4, <2>1, GatewayFrame DEF TypesKept
<1>6. ASSUME NEW r, r = new, Og!Usable(s), Og!Proxied(call) PROVE Og!RequestOK(r)'
  <2>1. Og!RequestOK(r)
    BY <1>2, <1>6, SignedIsOK
  <2>2. /\ \A o \in Operators, role \in Og!OPS_OPERATOR_ROLES :
             lastHeld'[o][role] >= lastHeld[o][role]
        /\ \A x \in DOMAIN sessions : lastLive'[x] >= lastLive[x]
    <3>1. Og!HistoryInv /\ clock' \in Nat /\ clock' >= clock
      BY <1>1, <1>2 DEF Og!GatewayInv, Og!Types
    <3> QED BY <1>1, <1>2, <1>4, <3>1, Observed
  <2> HIDE DEF new
  <2> QED BY <1>1, <1>4, <1>5, <2>1, <2>2, RequestStays
<1> HIDE DEF new
<1>7. \A r \in requests' : Og!RequestOK(r)'
  BY <1>3, <1>5, <1>6
<1>8. Og!TypeOK'
  <2>1. \A r \in requests' : r.call \in Og!Calls /\ r.session \in DOMAIN sessions'
    BY <1>7 DEF Og!RequestOK
  <2> QED BY <1>1, <1>2, <1>4, <2>1, TablesStay DEF Og!TypeOK
<1>9. Og!NoDeadCall'
  BY <1>3 DEF Og!GatewayInv, Og!NoDeadCall, Og!KnownDead
<1>10. Og!RevocationIsBounded' /\ Og!EnabledIsAllowed' /\ Og!KeyAloneChangesNothing'
  BY <1>2 DEF Og!GatewayInv, Og!RevocationIsBounded, Og!EnabledIsAllowed,
              Og!KeyAloneChangesNothing
<1> QED BY <1>5, <1>7, <1>8, <1>9, <1>10 DEF Og!GatewayInv

(* The route of a request that is in order exists and fits its call. *)
LEMMA RouteOfRequest ==
  ASSUME NEW r, Og!RequestOK(r),
         NEW route, route = CHOOSE m \in Og!RoutesOf[r.call] : TRUE
  PROVE  /\ Og!RoutesOf[r.call] # {}
         /\ route.role \in {"none", "viewer", "operator", "admin"}
         /\ Fits(r.call, route) /\ RouteFits(route)
         /\ r.need \in {"operator", "admin"}
<1>1. Og!RoutesOf[r.call] = {m \in Og!Routes : Selects(r.call, m)}
  BY DEF Og!RequestOK, Og!RoutesOf, Og!Matching, Selects
<1>2. \E m \in Og!Routes : Selects(r.call, m)
  BY CallsHaveRoutes DEF Og!RequestOK, HasRoute, Selects
<1>3. route \in Og!Routes /\ Selects(r.call, route)
  BY <1>1, <1>2
<1>4. RouteFits(route)
  BY <1>3, RoutesFit
<1>5. r.need \in {"operator", "admin"}
  BY DEF Og!RequestOK, Og!Requirements
<1> QED BY <1>1, <1>2, <1>3, <1>4, <1>5 DEF RouteFits, Og!RequestOK

(* What the control plane does for a request whose signature is fresh is   *)
(* done within the signature's lifetime of the role and of the session.    *)
LEMMA FreshIsInTime ==
  ASSUME Og!Types, NEW r, Og!RequestOK(r), NEW route,
         route.role \in {"none", "viewer", "operator", "admin"},
         r.need \in {"operator", "admin"}, Og!Fresh(r), Og!Allowed(route, r)
  PROVE  /\ clock - lastHeld[r.operatorId][Og!Required(route, r)] <= MaxSkew - drift
         /\ clock - lastLive[r.session] <= MaxSkew - drift
<1> DEFINE q == Og!Required(route, r)
<1>1. q \in Og!OPS_OPERATOR_ROLES /\ Og!canAssumeRole(r.role, q)
  BY DEF Og!Required, Og!Allowed, Og!canAssumeRole, Og!RoleOrder, Og!OPS_OPERATOR_ROLES,
         Og!RequestOK
<1>2. lastHeld[r.operatorId][q] >= r.issuedAt /\ lastHeld[r.operatorId][q] \in Int
  BY <1>1 DEF Og!RequestOK, Og!Types
<1>3. lastLive[r.session] >= r.issuedAt /\ lastLive[r.session] \in Int
  BY DEF Og!RequestOK, Og!Types
<1>4. clock + drift - r.issuedAt <= MaxSkew
  BY DEF Og!Fresh
<1>5. r.issuedAt \in Int /\ clock \in Int /\ drift \in Int /\ MaxSkew \in Int
  BY GatewayAssumption DEF Og!RequestOK, Og!Types
<1> HIDE DEF q
<1>6. clock - lastHeld[r.operatorId][q] <= MaxSkew - drift
  BY <1>2, <1>4, <1>5
<1>7. clock - lastLive[r.session] <= MaxSkew - drift
  BY <1>3, <1>4, <1>5
<1> QED BY <1>6, <1>7 DEF q

(* The rest of a step that leaves operators, sessions and time alone. *)
LEMMA QuietStep ==
  ASSUME Og!GatewayInv, Og!Observe, requests' \subseteq requests,
         UNCHANGED <<rows, sessions, page, attempts, drift>>, clock' \in Nat, clock' >= clock
  PROVE  /\ Og!Types' /\ Og!TypeOK' /\ Og!HistoryInv'
         /\ \A r \in requests' : Og!RequestOK(r)'
<1>1. Og!Types /\ Og!TypeOK
  BY DEF Og!GatewayInv
<1>2. TypesKept
  BY <1>1 DEF Og!Types, TypesKept
<1>3. /\ page' \in Seq(Og!OPS_OPERATOR_ROLES \cup {"none"}) /\ Len(page') = Len(sessions')
      /\ sessions' \in Seq([operatorId : Operators, expiresAt : Int, revoked : BOOLEAN])
      /\ DOMAIN sessions \subseteq DOMAIN sessions'
  BY <1>1 DEF Og!Types
<1>4. Og!Types' /\ Og!HistoryInv' /\ \A r \in requests : Og!RequestOK(r)'
  BY <1>2, <1>3, GatewayFrame DEF TypesKept
<1>5. Og!TypeOK'
  BY <1>1, TablesStay DEF Og!TypeOK
<1> QED BY <1>4, <1>5

(* The API takes a request only while its signature lives.                 *)
LEMMA DeliverKeeps ==
  ASSUME Og!GatewayInv, NEW r \in requests, Og!Deliver(r)
  PROVE  Og!GatewayInv'
<1> DEFINE route == CHOOSE m \in Og!RoutesOf[r.call] : TRUE
           refusal == [op |-> route.op, need |-> r.need, stale |-> r.role # r.shown]
           lags == [roleLag |-> clock - lastHeld[r.operatorId][Og!Required(route, r)],
                    sessionLag |-> clock - lastLive[r.session]]
<1>1. Og!Types /\ Og!RequestOK(r)
  BY DEF Og!GatewayInv
<1>2. /\ Og!RoutesOf[r.call] # {}
      /\ route.role \in {"none", "viewer", "operator", "admin"}
      /\ Fits(r.call, route) /\ RouteFits(route)
      /\ r.need \in {"operator", "admin"}
  BY <1>1, RouteOfRequest
<1>3. /\ UNCHANGED <<rows, keyed, sessions, page, attempts, clock, drift>> /\ Og!Observe
      /\ requests' \subseteq requests
  BY DEF Og!Deliver
<1>4. \/ UNCHANGED <<dead, applied, refusals>>
      \/ ~Og!Allowed(route, r) /\ refusals' = refusals \cup {refusal} /\ UNCHANGED <<dead, applied>>
      \/ "body" \in route.does /\ ~r.call.sends
      \/ /\ Og!Fresh(r) /\ Og!Allowed(route, r)
         /\ applied' = applied \cup {lags} /\ UNCHANGED <<dead, refusals>>
  BY <1>2 DEF Og!Deliver
<1>5. ~("body" \in route.does /\ ~r.call.sends)
  BY <1>2 DEF Fits
<1>6. Og!Types' /\ Og!TypeOK' /\ Og!HistoryInv' /\ \A x \in requests' : Og!RequestOK(x)'
  BY <1>1, <1>3, QuietStep DEF Og!Types
<1>7. Og!NoDeadCall' /\ Og!KeyAloneChangesNothing'
  BY <1>3, <1>4, <1>5 DEF Og!GatewayInv, Og!NoDeadCall, Og!KeyAloneChangesNothing
<1>8. Og!RevocationIsBounded'
  <2>1. Og!Fresh(r) /\ Og!Allowed(route, r) =>
          lags.roleLag <= MaxSkew - drift /\ lags.sessionLag <= MaxSkew - drift
    BY <1>1, <1>2, FreshIsInTime
  <2> HIDE DEF lags
  <2> QED BY <1>3, <1>4, <1>5, <2>1 DEF Og!GatewayInv, Og!RevocationIsBounded
<1>9. Og!EnabledIsAllowed'
  <2>1. ~Og!Allowed(route, r) =>
          refusal.stale \/ (refusal.op \in Og!RequirementNotShown /\ refusal.need = "admin")
    BY <1>1, <1>2, FitsIsAllowed DEF Og!RequestOK, Og!Allowed
  <2> HIDE DEF refusal
  <2> QED BY <1>4, <1>5, <2>1 DEF Og!GatewayInv, Og!EnabledIsAllowed
<1> QED BY <1>6, <1>7, <1>8, <1>9 DEF Og!GatewayInv

(* A request is lost.                                                      *)
LEMMA LoseKeeps ==
  ASSUME Og!GatewayInv, NEW r \in requests, Og!Lose(r)
  PROVE  Og!GatewayInv'
<1>1. /\ UNCHANGED <<rows, keyed, sessions, page, attempts, clock, drift, applied, refusals, dead>>
      /\ Og!Observe /\ requests' \subseteq requests
  BY DEF Og!Lose
<1>2. Og!Types' /\ Og!TypeOK' /\ Og!HistoryInv' /\ \A x \in requests' : Og!RequestOK(x)'
  BY <1>1, QuietStep DEF Og!GatewayInv, Og!Types
<1> QED BY <1>1, <1>2 DEF Og!GatewayInv, Og!RevocationIsBounded, Og!EnabledIsAllowed,
                          Og!NoDeadCall, Og!KeyAloneChangesNothing

(* With the API key alone only the check of a CSV text can be had. *)
LEMMA CallWithKeyKeeps ==
  ASSUME Og!GatewayInv, NEW route \in Og!OpenToKey, Og!CallWithKey(route)
  PROVE  Og!GatewayInv'
<1>1. /\ UNCHANGED <<rows, sessions, page, attempts, requests, clock, drift, applied, refusals, dead>>
      /\ Og!Observe /\ keyed' = keyed \cup {route.op} /\ requests' \subseteq requests
  BY DEF Og!CallWithKey
<1>2. Og!Types' /\ Og!TypeOK' /\ Og!HistoryInv' /\ \A x \in requests' : Og!RequestOK(x)'
  <2>1. clock' \in Nat /\ clock' >= clock
    BY <1>1 DEF Og!GatewayInv, Og!Types
  <2> QED BY <1>1, <2>1, QuietStep
<1>3. route.op = "validateCexCsv"
  BY RoutesFit DEF Og!OpenToKey, RouteFits
<1> QED BY <1>1, <1>2, <1>3 DEF Og!GatewayInv, Og!RevocationIsBounded, Og!EnabledIsAllowed,
                                Og!NoDeadCall, Og!KeyAloneChangesNothing

(* Time passes.                                                            *)
LEMMA GatewayTickKeeps ==
  ASSUME Og!GatewayInv, Og!Tick
  PROVE  Og!GatewayInv'
<1>1. /\ UNCHANGED <<rows, keyed, sessions, page, attempts, requests, drift, applied, refusals, dead>>
      /\ Og!Observe /\ clock' = clock + 1
  BY DEF Og!Tick
<1>2. clock' \in Nat /\ clock' >= clock
  BY <1>1 DEF Og!GatewayInv, Og!Types
<1>3. Og!Types' /\ Og!TypeOK' /\ Og!HistoryInv' /\ \A x \in requests' : Og!RequestOK(x)'
  BY <1>1, <1>2, QuietStep
<1> QED BY <1>1, <1>3 DEF Og!GatewayInv, Og!RevocationIsBounded, Og!EnabledIsAllowed,
                          Og!NoDeadCall, Og!KeyAloneChangesNothing

(* The invariant of the way in holds initially ...                         *)
LEMMA GatewayInitially == Og!Init => Og!GatewayInv
<1> SUFFICES ASSUME Og!Init PROVE Og!GatewayInv
  OBVIOUS
<1> DEFINE o == CHOOSE x \in Operators : TRUE
           e == CHOOSE x \in Emails : TRUE
           first == [operatorId |-> o, email |-> e, role |-> FirstRole, active |-> TRUE]
<1>1. o \in Operators /\ e \in Emails
  BY GatewayAssumption
<1>2. rows = {first} /\ sessions = <<>> /\ page = <<>> /\ requests = {} /\ clock = 0
  BY DEF Og!Init
<1>3. /\ attempts = [x \in Emails |-> [count |-> 0, resetAt |-> 0]] /\ drift \in Drifts
      /\ lastHeld = [x \in Operators |-> [role \in Og!OPS_OPERATOR_ROLES |->
                       IF Og!Holds(x, role) THEN 0 ELSE -1]]
      /\ lastLive = <<>> /\ applied = {} /\ keyed = {} /\ refusals = {} /\ dead = {}
  BY DEF Og!Init
<1> HIDE DEF o, e
<1>4. Og!Types
  <2>1. rows \subseteq [operatorId : Operators, email : Emails, role : Og!OPS_OPERATOR_ROLES,
                        active : BOOLEAN]
    BY <1>1, <1>2, GatewayAssumption
  <2>2. attempts \in [Emails -> [count : 0..LoginMaxAttempts, resetAt : Int]]
    BY <1>3, GatewayAssumption
  <2>3. lastHeld \in [Operators -> [Og!OPS_OPERATOR_ROLES -> Int]]
    BY <1>3
  <2>4. clock \in Nat /\ drift \in Int
    BY <1>2, <1>3, GatewayAssumption
  <2>5. /\ sessions \in Seq([operatorId : Operators, expiresAt : Int, revoked : BOOLEAN])
        /\ page \in Seq(Og!OPS_OPERATOR_ROLES \cup {"none"}) /\ Len(page) = Len(sessions)
        /\ lastLive \in [DOMAIN sessions -> Int]
    BY <1>2, <1>3
  <2> QED BY <2>1, <2>2, <2>3, <2>4, <2>5 DEF Og!Types
<1>5. Og!TypeOK
  <2>1. attempts \in [Emails -> [count : 0..LoginMaxAttempts, resetAt : Int]]
    BY <1>4 DEF Og!Types
  <2>2. \A x \in Emails : attempts[x].count \in 0..LoginMaxAttempts
    BY <2>1
  <2> QED BY <1>1, <1>2, <2>2, GatewayAssumption DEF Og!TypeOK
<1>6. Og!HistoryInv
  BY <1>2, <1>3 DEF Og!HistoryInv
<1> QED BY <1>2, <1>3, <1>4, <1>5, <1>6 DEF Og!GatewayInv, Og!RevocationIsBounded,
          Og!EnabledIsAllowed, Og!NoDeadCall, Og!KeyAloneChangesNothing

(* ... and every step keeps it.                                            *)
LEMMA GatewayStep == Og!GatewayInv /\ [Og!Next]_Og!vars => Og!GatewayInv'
<1> SUFFICES ASSUME Og!GatewayInv, [Og!Next]_Og!vars PROVE Og!GatewayInv'
  OBVIOUS
<1>1. CASE UNCHANGED Og!vars
  BY <1>1 DEF Og!vars, Og!GatewayInv, Og!Types, Og!TypeOK, Og!HistoryInv, Og!RequestOK,
     Og!RowsOf, Og!Holds, Og!Usable, Og!RevocationIsBounded, Og!EnabledIsAllowed, Og!NoDeadCall,
     Og!KeyAloneChangesNothing
<1>2. CASE \E o \in Operators, e \in Emails, role \in Og!OPS_OPERATOR_ROLES, active \in BOOLEAN :
             Og!upsertOperator(o, e, role, active)
  BY <1>2, UpsertKeeps
<1>3. CASE \E e \in Emails, correct \in BOOLEAN : Og!Login(e, correct)
  BY <1>3, LoginKeeps
<1>4. CASE \E s \in DOMAIN sessions : Og!Logout(s) \/ Og!LoadPage(s)
  BY <1>4, LogoutKeeps, LoadPageKeeps
<1>5. CASE \E s \in DOMAIN sessions :
             /\ page[s] # "none"
             /\ \E call \in Og!Calls : \E need \in Og!Requirements(call) : Og!SendCall(s, call, need)
  BY <1>5, SendKeeps
<1>6. CASE \E r \in requests : Og!Deliver(r) \/ Og!Lose(r)
  BY <1>6, DeliverKeeps, LoseKeeps
<1>7. CASE \E route \in Og!OpenToKey : Og!CallWithKey(route)
  BY <1>7, CallWithKeyKeeps
<1>8. CASE Og!Tick
  BY <1>8, GatewayTickKeeps
<1> QED BY <1>1, <1>2, <1>3, <1>4, <1>5, <1>6, <1>7, <1>8 DEF Og!Next

-----------------------------------------------------------------------------
(***************************************************************************)
(* Execution guardrails and circuit breakers.                              *)
(***************************************************************************)
(* A configuration of the guardrail engine.                                *)
Config == [kill : BOOLEAN, failures : Nat, lastFailure : Int, daily : Nat, dailyReset : Nat]

(* A moment has a day, and the next one is on the same day or a later one. *)
LEMMA DaysPass ==
  ASSUME NEW t \in Int
  PROVE  Gr!DayOf(t) \in Int /\ Gr!DayOf(t) <= Gr!DayOf(t + 1)
<1>1. Day \in Int /\ Day > 0
  BY GuardrailsAssumption
<1>2. t \div Day \in Int /\ (t + 1) \div Day \in Int
  BY <1>1
<1>3. (t \div Day) <= (t + 1) \div Day
  BY <1>1, <1>2, Z3
<1> QED
  BY <1>2, <1>3 DEF Gr!DayOf

(* Rolling a configuration over leaves one whose day is not in the future, *)
(* and doing so again shows the same sum.                                  *)
LEMMA RollOver ==
  ASSUME NEW k \in Config, minute \in Nat, Gr!DayOf(k.dailyReset) <= Gr!DayOf(minute)
  PROVE  /\ Gr!DailyNow(k) \in Config
         /\ Gr!DayOf(Gr!DailyNow(k).dailyReset) = Gr!DayOf(minute)
         /\ Gr!DailyNow(k).kill = k.kill
<1>1. Gr!DayOf(k.dailyReset) \in Int /\ Gr!DayOf(minute) \in Int
  BY DaysPass DEF Config
<1>2. CASE Gr!DayOf(minute) > Gr!DayOf(k.dailyReset)
  BY <1>2 DEF Gr!DailyNow, Config
<1>3. CASE ~(Gr!DayOf(minute) > Gr!DayOf(k.dailyReset))
  BY <1>1, <1>3 DEF Gr!DailyNow, Config
<1> QED
  BY <1>2, <1>3

(* What a configuration shows after a roll-over depends on its day and its *)
(* sum only, and is the sum where the day is today's.                      *)
LEMMA ShownToday ==
  ASSUME NEW k \in Config, minute \in Nat, Gr!DayOf(k.dailyReset) <= Gr!DayOf(minute)
  PROVE  /\ Gr!DayOf(k.dailyReset) = Gr!DayOf(minute) => Gr!DailyNow(k).daily = k.daily
         /\ \A j \in Config : j.daily = k.daily /\ j.dailyReset = k.dailyReset =>
              Gr!DailyNow(j).daily = Gr!DailyNow(k).daily
<1>1. Gr!DayOf(k.dailyReset) \in Int /\ Gr!DayOf(minute) \in Int
  BY DaysPass DEF Config
<1> QED
  BY <1>1 DEF Gr!DailyNow, Config

(* The part of the invariant that is about one scope.                      *)
InDay(k, n) ==
  /\ k \in Config /\ n \in Nat
  /\ Gr!DayOf(k.dailyReset) <= Gr!DayOf(minute)
  /\ n = Gr!DailyNow(k).daily

(* A configuration with the same sum and day keeps it.                     *)
LEMMA SameSum ==
  ASSUME NEW k, NEW n, InDay(k, n), minute \in Nat,
         NEW j \in Config, j.daily = k.daily, j.dailyReset = k.dailyReset
  PROVE  InDay(j, n)
  BY ShownToday DEF InDay

(* A roll-over keeps it.                                                   *)
LEMMA RolledInDay ==
  ASSUME NEW k, NEW n, InDay(k, n), minute \in Nat
  PROVE  InDay(Gr!DailyNow(k), n)
<1>1. /\ Gr!DailyNow(k) \in Config
      /\ Gr!DayOf(Gr!DailyNow(k).dailyReset) = Gr!DayOf(minute)
  BY RollOver DEF InDay
<1>2. Gr!DayOf(minute) <= Gr!DayOf(minute)
  BY DaysPass
<1>3. Gr!DailyNow(Gr!DailyNow(k)).daily = Gr!DailyNow(k).daily
  BY <1>1, <1>2, ShownToday
<1> QED
  BY <1>1, <1>2, <1>3 DEF InDay

(* check() keeps it, and leaves the day's sum in the configuration where   *)
(* it admits an amount.                                                    *)
LEMMA CheckedInDay ==
  ASSUME NEW k, NEW n, InDay(k, n), minute \in Nat
  PROVE  /\ InDay(Gr!Checked(k), n)
         /\ \A m : Gr!Admits(k, m) => n + m <= MaxDaily
<1> DEFINE j == IF k.failures >= MaxFailures THEN [k EXCEPT !.failures = 0] ELSE k
<1>1. j \in Config /\ j.daily = k.daily /\ j.dailyReset = k.dailyReset
  BY DEF InDay, Config
<1>2. InDay(j, n)
  BY <1>1, SameSum
<1>3. InDay(Gr!DailyNow(j), n)
  BY <1>2, RolledInDay
<1>4. Gr!Checked(k) = k \/ Gr!Checked(k) = Gr!DailyNow(j)
  BY DEF Gr!Checked
<1>5. ASSUME NEW m, Gr!Admits(k, m)
      PROVE  n + m <= MaxDaily
  <2>1. Gr!Checked(k) = Gr!DailyNow(j)
    BY <1>5 DEF Gr!Admits, Gr!Checked, Gr!isCircuitBreakerOpen
  <2>2. n = Gr!DailyNow(j).daily
    BY <1>2 DEF InDay
  <2> QED
    BY <1>5, <2>1, <2>2 DEF Gr!Admits
<1> QED
  BY <1>3, <1>4, <1>5

(* recordSuccess() adds to the day's sum.                                  *)
LEMMA SuccessInDay ==
  ASSUME NEW k, NEW n, InDay(k, n), minute \in Nat, NEW m \in Nat
  PROVE  InDay(Gr!recordSuccess(k, m), n + m)
<1> DEFINE d == Gr!DailyNow(k)
           j == Gr!recordSuccess(k, m)
<1>1. d \in Config /\ Gr!DayOf(d.dailyReset) = Gr!DayOf(minute) /\ n = d.daily /\ n \in Nat
  BY RollOver DEF InDay
<1>2. j \in Config /\ j.daily = n + m /\ j.dailyReset = d.dailyReset
  <2> DEFINE l == IF k.failures > 0 THEN Gr!None ELSE d.lastFailure
  <2>1. l \in Int
    BY <1>1 DEF Config, Gr!None
  <2>2. j = [d EXCEPT !.daily = d.daily + m, !.failures = 0, !.lastFailure = l]
    BY DEF Gr!recordSuccess
  <2> HIDE DEF l, d, j
  <2>3. n + m \in Nat /\ 0 \in Nat
    BY <1>1
  <2>4. j \in Config
    BY <1>1, <2>1, <2>2, <2>3, Zenon DEF Config
  <2> QED
    BY <1>1, <2>1, <2>2, <2>4, SMT DEF Config
<1>3. Gr!DayOf(minute) <= Gr!DayOf(minute)
  BY DaysPass
<1>4. Gr!DailyNow(j).daily = j.daily
  BY <1>1, <1>2, <1>3, ShownToday
<1> QED
  BY <1>1, <1>2, <1>3, <1>4 DEF InDay

(* recordFailure() keeps it.                                               *)
LEMMA FailureInDay ==
  ASSUME NEW k, NEW n, InDay(k, n), minute \in Nat
  PROVE  InDay(Gr!recordFailure(k), n)
<1>1. /\ Gr!recordFailure(k) \in Config
      /\ Gr!recordFailure(k).daily = k.daily
      /\ Gr!recordFailure(k).dailyReset = k.dailyReset
  <2> DEFINE f == IF Gr!Expired(k) THEN 1 ELSE k.failures + 1
  <2>1. f \in Nat /\ k \in Config
    BY DEF InDay, Config
  <2>2. Gr!recordFailure(k) = [k EXCEPT !.failures = f, !.lastFailure = minute]
    BY DEF Gr!recordFailure
  <2> HIDE DEF f
  <2>3. minute \in Int
    OBVIOUS
  <2>4. Gr!recordFailure(k) \in Config
    BY <2>1, <2>2, <2>3, Zenon DEF Config
  <2> QED
    BY <2>1, <2>2, <2>4, SMT DEF Config
<1> QED
  BY <1>1, SameSum

(* The invariant, with its part about one scope gathered.                  *)
LEMMA GuardrailsParts ==
  Gr!GuardrailsInv <=>
    /\ Gr!Types /\ Gr!ExecutionInv /\ Gr!DailyLimitHolds /\ Gr!TrippedStaysTripped
    /\ \A s \in Scopes : InDay(config[s], spent[s])
  BY DEF Gr!GuardrailsInv, Gr!DayInv, Gr!Types, InDay, Config

(* The same after a step.                                                  *)
LEMMA GuardrailsPartsNext ==
  ASSUME Gr!Types', Gr!ExecutionInv', Gr!DailyLimitHolds', Gr!TrippedStaysTripped',
         \A s \in Scopes : InDay(config[s], spent[s])'
  PROVE  Gr!GuardrailsInv'
  BY DEF Gr!GuardrailsInv, Gr!DayInv, InDay

(* Initially.                                                              *)
LEMMA GuardrailsInitially ==
  ASSUME Gr!Init
  PROVE  Gr!GuardrailsInv
<1>1. Gr!Fresh \in Config /\ Gr!Fresh.daily = 0 /\ Gr!Fresh.dailyReset = 0
  BY DEF Gr!Fresh, Config, Gr!None
<1>2. Gr!Types
  <2>1. config \in [Scopes -> Config]
    BY <1>1 DEF Gr!Init
  <2>2. Gr!Rest \in [pc : {"idle", "executing"}, scopes : SUBSET Scopes, notional : Nat]
    BY DEF Gr!Rest
  <2>3. caller \in [Callers -> [pc : {"idle", "executing"}, scopes : SUBSET Scopes, notional : Nat]]
    BY <2>2 DEF Gr!Init
  <2>4. breaker \in [Gr!Breakers -> [state : {"open", "half_open", "closed"}, resetAt : Int]]
    BY DEF Gr!Init, Gr!None
  <2> QED
    BY <2>1, <2>3, <2>4 DEF Gr!Init, Gr!Types, Config
<1>3. Gr!DayOf(0) <= Gr!DayOf(0)
  BY DaysPass
<1>4. InDay(Gr!Fresh, 0)
  BY <1>1, <1>3, ShownToday DEF InDay, Gr!Init
<1>5. Gr!ExecutionInv /\ Gr!DailyLimitHolds /\ Gr!TrippedStaysTripped
  BY GuardrailsAssumption DEF Gr!Init, Gr!ExecutionInv, Gr!DailyLimitHolds, Gr!TrippedStaysTripped,
     Gr!Rest
<1> QED
  BY <1>2, <1>4, <1>5, GuardrailsParts DEF Gr!Init

(* check() keeps the invariant.                                            *)
LEMMA CheckKeeps ==
  ASSUME Gr!GuardrailsInv, NEW c \in Callers, NEW venue \in Scopes, NEW n \in Notionals,
         Gr!Check(c, venue, n)
  PROVE  Gr!GuardrailsInv'
<1> DEFINE A == Gr!Applicable(venue)
<1>1. /\ Gr!Types /\ Gr!ExecutionInv /\ Gr!DailyLimitHolds /\ Gr!TrippedStaysTripped
      /\ minute \in Nat /\ n \in Nat /\ MaxDaily \in Nat /\ A \subseteq Scopes
      /\ \A s \in Scopes : InDay(config[s], spent[s])
  BY GuardrailsParts, GuardrailsAssumption DEF Gr!Types, Gr!Applicable
<1>2. /\ config' = [s \in Scopes |-> IF s \in A THEN Gr!Checked(config[s]) ELSE config[s]]
      /\ UNCHANGED <<minute, breaker, spent, tripped>>
  BY DEF Gr!Check
<1>3. \A s \in Scopes : /\ InDay(Gr!Checked(config[s]), spent[s])
                        /\ Gr!Admits(config[s], n) => spent[s] + n <= MaxDaily
  BY <1>1, CheckedInDay
<1>4. \A s \in Scopes : InDay(config'[s], spent[s])
  BY <1>1, <1>2, <1>3
<1>5. \A s \in Scopes : InDay(config[s], spent[s])'
  BY <1>2, <1>4 DEF InDay, Gr!DayOf, Gr!DailyNow
<1>6. config' \in [Scopes -> Config]
  BY <1>2, <1>4 DEF InDay
<1>7. CASE UNCHANGED <<caller, crossing>>
  <2>1. Gr!Types' /\ Gr!ExecutionInv' /\ Gr!DailyLimitHolds' /\ Gr!TrippedStaysTripped'
    BY <1>1, <1>2, <1>6, <1>7
    DEF Gr!Types, Gr!ExecutionInv, Gr!DailyLimitHolds, Gr!TrippedStaysTripped, Config
  <2> QED
    BY <2>1, <1>5, GuardrailsPartsNext
<1>8. CASE /\ \A s \in A : Gr!Admits(config[s], n)
           /\ caller' = [caller EXCEPT ![c] = [pc |-> "executing", scopes |-> A, notional |-> n]]
           /\ crossing' = (crossing \/ \E d \in Callers : caller[d].pc = "executing")
  <2>1. Gr!Types'
    BY <1>1, <1>2, <1>6, <1>8 DEF Gr!Types, Config
  <2>2. Gr!DailyLimitHolds' /\ Gr!TrippedStaysTripped'
    BY <1>1, <1>2, <1>8 DEF Gr!Types, Gr!DailyLimitHolds, Gr!TrippedStaysTripped
  <2>3. Gr!ExecutionInv'
    <3>1. SUFFICES ASSUME ~crossing'
                   PROVE  Gr!ExecutionInv'
      BY DEF Gr!ExecutionInv
    <3>2. /\ \A d \in Callers : caller[d].pc # "executing"
          /\ \A d \in Callers : d # c => caller'[d] = caller[d]
          /\ caller'[c].scopes = A /\ caller'[c].notional = n
      BY <1>1, <1>8, <3>1 DEF Gr!Types
    <3>3. \A s \in A : spent'[s] + n <= MaxDaily
      BY <1>1, <1>2, <1>3, <1>8
    <3> QED
      BY <3>2, <3>3 DEF Gr!ExecutionInv
  <2> QED
    BY <2>1, <2>2, <2>3, <1>5, GuardrailsPartsNext
<1> QED
  BY <1>7, <1>8 DEF Gr!Check

(* recordSuccess() for the scopes an execution was checked with keeps it.  *)
LEMMA SucceedKeeps ==
  ASSUME Gr!GuardrailsInv, NEW c \in Callers, Gr!Succeed(c)
  PROVE  Gr!GuardrailsInv'
<1> DEFINE A == caller[c].scopes
           n == caller[c].notional
<1>1. /\ Gr!Types /\ Gr!ExecutionInv /\ Gr!DailyLimitHolds /\ Gr!TrippedStaysTripped
      /\ minute \in Nat /\ n \in Nat /\ MaxDaily \in Nat /\ A \subseteq Scopes
      /\ \A s \in Scopes : InDay(config[s], spent[s]) /\ spent[s] \in Nat
  BY GuardrailsParts, GuardrailsAssumption DEF Gr!Types
<1>2. /\ caller[c].pc = "executing"
      /\ config' = [s \in Scopes |-> IF s \in A THEN Gr!recordSuccess(config[s], n) ELSE config[s]]
      /\ spent' = [s \in Scopes |-> IF s \in A THEN spent[s] + n ELSE spent[s]]
      /\ caller' = [caller EXCEPT ![c] = Gr!Rest]
      /\ UNCHANGED <<minute, breaker, crossing, tripped>>
  BY DEF Gr!Succeed
<1>3. \A s \in Scopes : InDay(Gr!recordSuccess(config[s], n), spent[s] + n)
  BY <1>1, SuccessInDay
<1>4. \A s \in Scopes : InDay(config'[s], spent'[s])
  BY <1>1, <1>2, <1>3
<1>5. \A s \in Scopes : InDay(config[s], spent[s])'
  BY <1>2, <1>4 DEF InDay, Gr!DayOf, Gr!DailyNow
<1>6. config' \in [Scopes -> Config] /\ spent' \in [Scopes -> Nat]
  BY <1>1, <1>2, <1>4 DEF InDay
<1>7. Gr!Types' /\ Gr!TrippedStaysTripped'
  BY <1>1, <1>2, <1>6 DEF Gr!Types, Config, Gr!TrippedStaysTripped, Gr!Rest
<1>8. Gr!DailyLimitHolds'
  BY <1>1, <1>2 DEF Gr!DailyLimitHolds, Gr!ExecutionInv
<1>9. Gr!ExecutionInv'
  <2>1. SUFFICES ASSUME ~crossing
                 PROVE  Gr!ExecutionInv'
    BY <1>2 DEF Gr!ExecutionInv
  <2>2. \A d \in Callers : caller'[d].pc # "executing"
    BY <1>1, <1>2, <2>1 DEF Gr!Types, Gr!ExecutionInv, Gr!Rest
  <2> QED
    BY <2>2 DEF Gr!ExecutionInv
<1> QED
  BY <1>5, <1>7, <1>8, <1>9, GuardrailsPartsNext

(* So does recordFailure().                                                *)
LEMMA FailKeeps ==
  ASSUME Gr!GuardrailsInv, NEW c \in Callers, Gr!Fail(c)
  PROVE  Gr!GuardrailsInv'
<1> DEFINE A == caller[c].scopes
<1>1. /\ Gr!Types /\ Gr!ExecutionInv /\ Gr!DailyLimitHolds /\ Gr!TrippedStaysTripped
      /\ minute \in Nat
      /\ \A s \in Scopes : InDay(config[s], spent[s])
  BY GuardrailsParts DEF Gr!Types
<1>2. /\ config' = [s \in Scopes |-> IF s \in A THEN Gr!recordFailure(config[s]) ELSE config[s]]
      /\ caller' = [caller EXCEPT ![c] = Gr!Rest]
      /\ UNCHANGED <<minute, breaker, spent, crossing, tripped>>
  BY DEF Gr!Fail
<1>3. \A s \in Scopes : InDay(Gr!recordFailure(config[s]), spent[s])
  BY <1>1, FailureInDay
<1>4. \A s \in Scopes : InDay(config'[s], spent[s])
  BY <1>1, <1>2, <1>3
<1>5. \A s \in Scopes : InDay(config[s], spent[s])'
  BY <1>2, <1>4 DEF InDay, Gr!DayOf, Gr!DailyNow
<1>6. config' \in [Scopes -> Config]
  BY <1>1, <1>2, <1>4 DEF InDay
<1>7. Gr!Types' /\ Gr!DailyLimitHolds' /\ Gr!TrippedStaysTripped'
  BY <1>1, <1>2, <1>6
  DEF Gr!Types, Config, Gr!DailyLimitHolds, Gr!TrippedStaysTripped, Gr!Rest
<1>8. Gr!ExecutionInv'
  BY <1>1, <1>2 DEF Gr!Types, Gr!ExecutionInv, Gr!Rest
<1> QED
  BY <1>5, <1>7, <1>8, GuardrailsPartsNext

(* The kill switch of a scope touches neither its day nor its sum.         *)
LEMMA SwitchKeeps ==
  ASSUME Gr!GuardrailsInv, NEW s \in Scopes, NEW on \in BOOLEAN,
         config' = [config EXCEPT ![s].kill = on],
         UNCHANGED <<minute, caller, breaker, spent, crossing, tripped>>
  PROVE  Gr!GuardrailsInv'
<1>1. /\ Gr!Types /\ Gr!ExecutionInv /\ Gr!DailyLimitHolds /\ Gr!TrippedStaysTripped
      /\ minute \in Nat /\ config \in [Scopes -> Config]
      /\ \A t \in Scopes : InDay(config[t], spent[t])
  BY GuardrailsParts DEF Gr!Types, Config
<1>2. /\ config' \in [Scopes -> Config]
      /\ \A t \in Scopes : /\ config'[t].daily = config[t].daily
                           /\ config'[t].dailyReset = config[t].dailyReset
  BY <1>1 DEF Config
<1>3. \A t \in Scopes : InDay(config'[t], spent[t])
  BY <1>1, <1>2, SameSum
<1>4. \A t \in Scopes : InDay(config[t], spent[t])'
  BY <1>3 DEF InDay, Gr!DayOf, Gr!DailyNow
<1>5. Gr!Types' /\ Gr!ExecutionInv' /\ Gr!DailyLimitHolds' /\ Gr!TrippedStaysTripped'
  BY <1>1, <1>2 DEF Gr!Types, Gr!ExecutionInv, Gr!DailyLimitHolds, Gr!TrippedStaysTripped, Config
<1> QED
  BY <1>4, <1>5, GuardrailsPartsNext

(* A step of the circuit breakers' registry leaves the guardrails alone.   *)
LEMMA RegistryKeeps ==
  ASSUME Gr!GuardrailsInv, UNCHANGED <<config, minute, caller, spent, crossing>>,
         breaker' \in [Gr!Breakers -> [state : {"open", "half_open", "closed"}, resetAt : Int]],
         tripped' \subseteq Gr!Breakers, Gr!TrippedStaysTripped'
  PROVE  Gr!GuardrailsInv'
  BY DEF Gr!GuardrailsInv, Gr!Types, Gr!DayInv, Gr!ExecutionInv, Gr!DailyLimitHolds, Gr!DayOf,
     Gr!DailyNow

(* Tripping, resetting and the automatic resets keep the invariant.        *)
LEMMA BreakersKeep ==
  ASSUME Gr!GuardrailsInv,
         \/ Gr!evaluateAutoResets
         \/ \E b \in Gr!Breakers : Gr!trip(b) \/ Gr!reset(b) \/ Gr!confirmReset(b)
  PROVE  Gr!GuardrailsInv'
<1>1. Gr!Types /\ Gr!TrippedStaysTripped /\ minute \in Nat
  BY DEF Gr!GuardrailsInv, Gr!Types
<1>2. CASE Gr!evaluateAutoResets
  <2>1. breaker' \in [Gr!Breakers -> [state : {"open", "half_open", "closed"}, resetAt : Int]]
    BY <1>1, <1>2 DEF Gr!evaluateAutoResets, Gr!Types
  <2>2. \A b \in Gr!Breakers :
          \/ breaker'[b] = breaker[b]
          \/ /\ breaker'[b].state = "half_open" /\ breaker'[b].resetAt = breaker[b].resetAt
             /\ breaker[b].resetAt # Gr!None /\ minute >= breaker[b].resetAt
    BY <1>1, <1>2 DEF Gr!evaluateAutoResets, Gr!Types, Gr!AutoReset
  <2>3. Gr!TrippedStaysTripped'
    BY <1>1, <1>2, <2>2 DEF Gr!evaluateAutoResets, Gr!Types, Gr!TrippedStaysTripped
  <2> QED
    BY <1>1, <1>2, <2>1, <2>3, RegistryKeeps DEF Gr!evaluateAutoResets, Gr!Types
<1>3. ASSUME NEW b \in Gr!Breakers, Gr!trip(b)
      PROVE  Gr!GuardrailsInv'
  <2> DEFINE at == IF Gr!defaultAutoReset(b) = Gr!None THEN Gr!None
                   ELSE minute + Gr!defaultAutoReset(b)
  <2>1. at \in Int
    BY <1>1 DEF Gr!defaultAutoReset, Gr!None
  <2>2. /\ breaker' = [breaker EXCEPT ![b] = [state |-> "open", resetAt |-> at]]
        /\ tripped' = tripped \cup {b}
        /\ UNCHANGED <<config, minute, caller, spent, crossing>>
    BY <1>3 DEF Gr!trip
  <2> HIDE DEF at
  <2>3. /\ breaker' \in [Gr!Breakers -> [state : {"open", "half_open", "closed"}, resetAt : Int]]
        /\ tripped' \subseteq Gr!Breakers
    BY <1>1, <2>1, <2>2 DEF Gr!Types
  <2>4. Gr!TrippedStaysTripped'
    BY <1>1, <2>2 DEF Gr!Types, Gr!TrippedStaysTripped
  <2> QED
    BY <2>2, <2>3, <2>4, RegistryKeeps
<1>4. ASSUME NEW b \in Gr!Breakers, Gr!reset(b)
      PROVE  Gr!GuardrailsInv'
  <2>1. /\ breaker' = [breaker EXCEPT ![b] = [state |-> "closed", resetAt |-> Gr!None]]
        /\ tripped' = tripped \ {b}
        /\ UNCHANGED <<config, minute, caller, spent, crossing>>
    BY <1>4 DEF Gr!reset
  <2>2. /\ breaker' \in [Gr!Breakers -> [state : {"open", "half_open", "closed"}, resetAt : Int]]
        /\ tripped' \subseteq Gr!Breakers
    BY <1>1, <2>1 DEF Gr!Types, Gr!None
  <2>3. Gr!TrippedStaysTripped'
    BY <1>1, <2>1 DEF Gr!Types, Gr!TrippedStaysTripped
  <2> QED
    BY <2>1, <2>2, <2>3, RegistryKeeps
<1> QED
  BY <1>2, <1>3, <1>4 DEF Gr!confirmReset

(* A minute passes: what was spent today is forgotten exactly when every   *)
(* configuration would be rolled over.                                     *)
LEMMA MinuteKeeps ==
  ASSUME Gr!GuardrailsInv, Gr!Tick
  PROVE  Gr!GuardrailsInv'
<1>1. /\ Gr!Types /\ Gr!ExecutionInv /\ Gr!DailyLimitHolds /\ Gr!TrippedStaysTripped
      /\ minute \in Nat /\ config \in [Scopes -> Config] /\ spent \in [Scopes -> Nat]
      /\ \A s \in Scopes : InDay(config[s], spent[s])
  BY GuardrailsParts DEF Gr!Types, Config
<1>2. /\ minute' = minute + 1
      /\ spent' = IF Gr!DayOf(minute') > Gr!DayOf(minute) THEN [s \in Scopes |-> 0] ELSE spent
      /\ UNCHANGED <<config, caller, breaker, crossing, tripped>>
  BY DEF Gr!Tick
<1>3. /\ Gr!DayOf(minute) \in Int /\ Gr!DayOf(minute + 1) \in Int
      /\ Gr!DayOf(minute) <= Gr!DayOf(minute + 1)
      /\ \A s \in Scopes : Gr!DayOf(config[s].dailyReset) \in Int
  BY <1>1, DaysPass DEF Config
<1>4. /\ spent' \in [Scopes -> Nat]
      /\ \A s \in Scopes : spent'[s] <= spent[s]
  BY <1>1, <1>2
<1>5. ASSUME NEW s \in Scopes
      PROVE  InDay(config[s], spent[s])'
  <2>1. Gr!DayOf(config[s].dailyReset) <= Gr!DayOf(minute)
        /\ spent[s] = Gr!DailyNow(config[s]).daily /\ config[s] \in Config
    BY <1>1 DEF InDay
  <2>2. spent'[s] = (IF Gr!DayOf(minute + 1) > Gr!DayOf(config[s].dailyReset)
                     THEN [config[s] EXCEPT !.daily = 0, !.dailyReset = minute + 1]
                     ELSE config[s]).daily
    <3>1. CASE Gr!DayOf(minute + 1) > Gr!DayOf(minute)
      <4>1. Gr!DayOf(minute + 1) > Gr!DayOf(config[s].dailyReset)
        BY <1>3, <2>1, <3>1
      <4> QED
        BY <1>2, <2>1, <3>1, <4>1 DEF Config
    <3>2. CASE ~(Gr!DayOf(minute + 1) > Gr!DayOf(minute))
      <4>1. Gr!DayOf(minute + 1) = Gr!DayOf(minute) /\ spent' = spent
        BY <1>2, <1>3, <3>2
      <4> QED
        BY <2>1, <4>1 DEF Config, Gr!DailyNow
    <3> QED
      BY <3>1, <3>2
  <2>3. Gr!DayOf(config[s].dailyReset) <= Gr!DayOf(minute + 1)
    BY <1>3, <2>1
  <2> QED
    BY <1>2, <1>4, <2>1, <2>2, <2>3 DEF InDay, Gr!DayOf, Gr!DailyNow
<1>6. Gr!Types' /\ Gr!DailyLimitHolds' /\ Gr!TrippedStaysTripped'
  <2>1. Gr!Types'
    BY <1>1, <1>2, <1>4 DEF Gr!Types
  <2>2. Gr!DailyLimitHolds'
    BY <1>1, <1>2, <1>4, GuardrailsAssumption DEF Gr!DailyLimitHolds
  <2>3. Gr!TrippedStaysTripped'
    BY <1>1, <1>2 DEF Gr!TrippedStaysTripped, Gr!Types
  <2> QED
    BY <2>1, <2>2, <2>3
<1>7. Gr!ExecutionInv'
  <2>1. \A c \in Callers : caller[c].notional \in Nat /\ caller[c].scopes \subseteq Scopes
    BY <1>1 DEF Gr!Types
  <2> QED
    BY <1>1, <1>2, <1>4, <2>1, GuardrailsAssumption DEF Gr!ExecutionInv
<1> QED
  BY <1>5, <1>6, <1>7, GuardrailsPartsNext

(* Every step of the guardrails keeps the invariant.                       *)
LEMMA GuardrailsStep ==
  ASSUME Gr!GuardrailsInv, Gr!Next
  PROVE  Gr!GuardrailsInv'
<1>1. CASE Gr!Tick
  BY <1>1, MinuteKeeps
<1>2. CASE \/ Gr!evaluateAutoResets
           \/ \E b \in Gr!Breakers : Gr!trip(b) \/ Gr!reset(b) \/ Gr!confirmReset(b)
  BY <1>2, BreakersKeep
<1>3. ASSUME NEW c \in Callers,
             \/ \E venue \in Scopes, n \in Notionals : Gr!Check(c, venue, n)
             \/ Gr!Succeed(c) \/ Gr!Fail(c)
      PROVE  Gr!GuardrailsInv'
  BY <1>3, CheckKeeps, SucceedKeeps, FailKeeps
<1>4. ASSUME NEW s \in Scopes, Gr!triggerKillSwitch(s) \/ Gr!resetKillSwitch(s)
      PROVE  Gr!GuardrailsInv'
  BY <1>4, SwitchKeeps DEF Gr!triggerKillSwitch, Gr!resetKillSwitch
<1> QED
  BY <1>1, <1>2, <1>3, <1>4 DEF Gr!Next

-----------------------------------------------------------------------------
(***************************************************************************)
(* The allocator.                                                          *)
(***************************************************************************)
(* The least and the greatest element, where there is one.                 *)
LEMMA LeastAndGreatest ==
  ASSUME NEW S, S \subseteq Int, NEW m \in S
  PROVE  /\ (\A x \in S : m <= x) => Al!Min(S) = m
         /\ (\A x \in S : x <= m) => Al!Max(S) = m
<1>1. ASSUME \A x \in S : m <= x
      PROVE  Al!Min(S) = m
  <2>1. Al!Min(S) \in S /\ \A x \in S : Al!Min(S) <= x
    BY <1>1 DEF Al!Min
  <2>2. Al!Min(S) \in Int /\ m \in Int
    BY <2>1
  <2> QED
    BY <1>1, <2>1, <2>2
<1>2. ASSUME \A x \in S : x <= m
      PROVE  Al!Max(S) = m
  <2>1. Al!Max(S) \in S /\ \A x \in S : Al!Max(S) >= x
    BY <1>2 DEF Al!Max
  <2>2. Al!Max(S) \in Int /\ m \in Int
    BY <2>1
  <2> QED
    BY <1>2, <2>1, <2>2
<1> QED
  BY <1>1, <1>2

(* What clampPct computes.                                                 *)
LEMMA Clamped ==
  ASSUME NEW v \in Int, NEW low \in Int, NEW high \in Int, low <= high
  PROVE  Al!clampPct(v, low, high) = IF v < low THEN low ELSE IF v > high THEN high ELSE v
<1> DEFINE m == IF high <= v THEN high ELSE v
<1>1. Al!Min({high, v}) = m
  BY LeastAndGreatest
<1>2. m \in Int
  OBVIOUS
<1>3. Al!Max({low, m}) = IF m < low THEN low ELSE m
  <2> HIDE DEF m
  <2>1. CASE m < low
    BY <1>2, <2>1, LeastAndGreatest
  <2>2. CASE ~(m < low)
    BY <1>2, <2>2, LeastAndGreatest
  <2> QED
    BY <2>1, <2>2
<1> QED
  BY <1>1, <1>3 DEF Al!clampPct

(* The numbers of a snapshot the targets depend on.                        *)
Numbers(s) ==
  /\ s.score \in Int /\ s.shortfall \in Nat /\ s.critical \in Nat
  /\ s.open \in Nat /\ s.issues \in Nat

(* The share of carry, by the first of the reasons that lower it.          *)
Weak(s) == s.halted \/ s.lifecycle = "degraded" \/ s.critical > 0 \/ s.score < 35
Elevated(s) == s.open >= 3 \/ s.issues > 0 \/ s.reason
CarryShare(s) ==
  IF s.shortfall > 0 THEN 15
  ELSE IF Weak(s) THEN 20
  ELSE IF s.lifecycle \in {"paused", "stopped"} THEN 25
  ELSE IF Elevated(s) THEN 35
  ELSE IF s.score >= 70 /\ s.treasuryKnown THEN 60 ELSE 55

(* The caps and the uplift of a snapshot give that share.                  *)
LEMMA CapsOf ==
  ASSUME NEW s, Numbers(s)
  PROVE  /\ Al!Caps(s) \subseteq {15, 20, 25, 35, 55} /\ 55 \in Al!Caps(s)
         /\ 15 \in Al!Caps(s) <=> s.shortfall > 0
         /\ 20 \in Al!Caps(s) <=> Weak(s)
         /\ 25 \in Al!Caps(s) <=> Al!HighPressure(s)
         /\ 35 \in Al!Caps(s) <=> ~Al!HighPressure(s) /\ (s.lifecycle = "degraded" \/ Elevated(s))
         /\ Al!Uplift(s) = IF s.score >= 70 /\ ~Al!HighPressure(s) /\ s.lifecycle # "degraded"
                              /\ ~Elevated(s) THEN 5 ELSE 0
<1>1. /\ Al!Policy.carry = 55 /\ Al!Policy.shortfallCap = 15 /\ Al!Policy.degradedCap = 25
      /\ Al!Policy.elevatedCap = 35 /\ Al!Policy.weakCap = 20 /\ Al!Policy.scoreFloor = 35
      /\ Al!Policy.scoreStrong = 70
  BY DEF Al!Policy
<1>2. Al!Throttle(s) # "normal" \/ s.score < 35 <=> Weak(s)
  BY <1>1 DEF Al!Throttle, Weak
<1>3. /\ Al!pressureFromInput(s) = "high" <=> Al!HighPressure(s)
      /\ Al!pressureFromInput(s) = "elevated" <=>
           ~Al!HighPressure(s) /\ (s.lifecycle = "degraded" \/ Elevated(s))
      /\ Al!pressureFromInput(s) \in {"high", "elevated", "normal"}
  BY DEF Al!pressureFromInput, Elevated
<1> DEFINE P == CASE Al!pressureFromInput(s) = "high"     -> {25}
                  [] Al!pressureFromInput(s) = "elevated" -> {35}
                  [] OTHER                                -> {}
<1>4. Al!Caps(s) = {55} \cup (IF s.shortfall > 0 THEN {15} ELSE {}) \cup P
                   \cup (IF Weak(s) THEN {20} ELSE {})
  BY <1>1, <1>2 DEF Al!Caps
<1>5. P = IF Al!HighPressure(s) THEN {25}
          ELSE IF s.lifecycle = "degraded" \/ Elevated(s) THEN {35} ELSE {}
  BY <1>3
<1>6. Al!Uplift(s) = IF s.score >= 70 /\ ~Al!HighPressure(s) /\ s.lifecycle # "degraded"
                        /\ ~Elevated(s) THEN 5 ELSE 0
  BY <1>1, <1>3 DEF Al!Uplift
<1> HIDE DEF P
<1> QED
  BY <1>4, <1>5, <1>6

(* The least cap, raised by the uplift.                                    *)
LEMMA FirstShare ==
  ASSUME NEW s, Numbers(s)
  PROVE  Al!Min(Al!Caps(s)) + Al!Uplift(s) =
           IF CarryShare(s) = 55 /\ s.score >= 70 THEN 60 ELSE CarryShare(s)
<1> DEFINE C == Al!Caps(s)
<1>1. /\ C \subseteq Int
      /\ \A m \in C : (\A x \in C : m <= x) => Al!Min(C) = m
  <2>1. C \subseteq Int
    BY CapsOf
  <2> QED
    BY <2>1, LeastAndGreatest
<1> HIDE DEF C
<1>2. /\ C \subseteq {15, 20, 25, 35, 55} /\ 55 \in C
      /\ 15 \in C <=> s.shortfall > 0
      /\ 20 \in C <=> Weak(s)
      /\ 25 \in C <=> Al!HighPressure(s)
      /\ 35 \in C <=> ~Al!HighPressure(s) /\ (s.lifecycle = "degraded" \/ Elevated(s))
      /\ Al!Uplift(s) = IF s.score >= 70 /\ ~Al!HighPressure(s) /\ s.lifecycle # "degraded"
                           /\ ~Elevated(s) THEN 5 ELSE 0
  BY CapsOf DEF C
<1>3. Al!HighPressure(s) <=> \/ s.halted \/ s.lifecycle \in {"paused", "stopped"}
                             \/ s.critical > 0 \/ s.shortfall > 0
  BY DEF Al!HighPressure
<1>4. CASE s.shortfall > 0
  <2>1. Al!Min(C) = 15
    BY <1>1, <1>2, <1>4
  <2> QED
    BY <1>2, <1>3, <1>4, <2>1 DEF CarryShare, C
<1>5. CASE ~(s.shortfall > 0) /\ Weak(s)
  <2>1. Al!Min(C) = 20
    BY <1>1, <1>2, <1>5
  <2>2. Al!Uplift(s) = 0
    BY <1>2, <1>3, <1>5 DEF Weak, Numbers
  <2> QED
    BY <1>5, <2>1, <2>2 DEF CarryShare, C
<1>6. CASE ~(s.shortfall > 0) /\ ~Weak(s) /\ s.lifecycle \in {"paused", "stopped"}
  <2>1. Al!Min(C) = 25
    BY <1>1, <1>2, <1>3, <1>6
  <2> QED
    BY <1>2, <1>3, <1>6, <2>1 DEF CarryShare, C
<1>7. CASE /\ ~(s.shortfall > 0) /\ ~Weak(s) /\ s.lifecycle \notin {"paused", "stopped"}
           /\ Elevated(s)
  <2>1. Al!Min(C) = 35
    BY <1>1, <1>2, <1>3, <1>7 DEF Weak
  <2> QED
    BY <1>2, <1>7, <2>1 DEF CarryShare, C
<1>8. CASE /\ ~(s.shortfall > 0) /\ ~Weak(s) /\ s.lifecycle \notin {"paused", "stopped"}
           /\ ~Elevated(s)
  <2>1. ~Al!HighPressure(s) /\ s.lifecycle # "degraded"
    BY <1>3, <1>8 DEF Weak
  <2>2. Al!Min(C) = 55
    BY <1>1, <1>2, <1>8, <2>1
  <2> QED
    BY <1>2, <1>8, <2>1, <2>2 DEF CarryShare, C
<1> QED
  BY <1>4, <1>5, <1>6, <1>7, <1>8

(* The targets of a snapshot.                                              *)
LEMMA TargetsOf ==
  ASSUME NEW s, Numbers(s)
  PROVE  /\ Al!Targets(s).carry = CarryShare(s)
         /\ Al!Targets(s).treasury = 100 - CarryShare(s)
         /\ Al!Targets(s)["carry"] = CarryShare(s)
         /\ Al!Targets(s)["treasury"] = 100 - CarryShare(s)
         /\ CarryShare(s) \in {15, 20, 25, 35, 55, 60}
         /\ 100 - CarryShare(s) >= Al!treasuryFloor(s)
<1> DEFINE share == CarryShare(s)
           first == IF share = 55 /\ s.score >= 70 THEN 60 ELSE share
           floor == Al!treasuryFloor(s)
           short == ~s.treasuryKnown \/ s.shortfall > 0
<1>1. share \in {15, 20, 25, 35, 55, 60}
  BY DEF CarryShare
<1>2. Al!Policy.maximumCarry = 65 /\ Al!Policy.minimumTreasury = 35
  BY DEF Al!Policy
<1>3. floor = IF short THEN 45 ELSE 35
  BY <1>2 DEF Al!treasuryFloor
<1>4. /\ short => share # 60
      /\ ~short /\ s.score >= 70 => share # 55
  BY DEF CarryShare
<1>5. Al!Min(Al!Caps(s)) + Al!Uplift(s) = first /\ first \in {15, 20, 25, 35, 55, 60}
  BY <1>1, FirstShare
<1> DEFINE treasury == IF 100 - first < floor THEN floor ELSE 100 - first
<1>6. Al!clampPct(first, 0, 65) = first
  BY <1>5, Clamped
<1>7. Al!clampPct(100 - first, floor, 100) = treasury
  BY <1>3, <1>5, Clamped
<1>8. treasury = 100 - share /\ 100 - share >= floor
  BY <1>1, <1>3, <1>4
<1>9. Al!clampPct(100 - treasury, 0, 65) = share
  BY <1>1, <1>8, Clamped
<1> HIDE DEF first, treasury, floor, share
<1>10. Al!Targets(s) = [carry |-> share, treasury |-> treasury]
  BY <1>2, <1>5, <1>6, <1>7, <1>9 DEF Al!Targets, floor
<1> QED
  BY <1>1, <1>8, <1>10 DEF share, floor

(* A share of the capital in whole units.                                  *)
LEMMA ShareOf ==
  ASSUME NEW s, s.capital \in Nat, s.capital % 20 = 0, NEW c \in {15, 20, 25, 35, 55, 60}
  PROVE  /\ Al!toUsd(s, c) \in Nat /\ Al!toUsd(s, 100 - c) \in Nat
         /\ Al!toUsd(s, c) + Al!toUsd(s, 100 - c) = s.capital
         /\ Al!toUsd(s, c) <= Al!toUsd(s, 60) /\ Al!toUsd(s, 60) <= s.capital
         /\ Al!toUsd(s, 100 - c) >= Al!toUsd(s, 35)
<1> DEFINE q == s.capital \div 20
<1>1. q \in Nat /\ s.capital = 20 * q
  BY Z3
<1> HIDE DEF q
<1>2. /\ (s.capital * 15) \div 100 = 3 * q /\ (s.capital * 85) \div 100 = 17 * q
      /\ (s.capital * 20) \div 100 = 4 * q /\ (s.capital * 80) \div 100 = 16 * q
      /\ (s.capital * 25) \div 100 = 5 * q /\ (s.capital * 75) \div 100 = 15 * q
  BY <1>1, Z3
<1>3. /\ (s.capital * 35) \div 100 = 7 * q /\ (s.capital * 65) \div 100 = 13 * q
      /\ (s.capital * 55) \div 100 = 11 * q /\ (s.capital * 45) \div 100 = 9 * q
      /\ (s.capital * 60) \div 100 = 12 * q /\ (s.capital * 40) \div 100 = 8 * q
  BY <1>1, Z3
<1>4. /\ 100 - 15 = 85 /\ 100 - 20 = 80 /\ 100 - 25 = 75 /\ 100 - 35 = 65 /\ 100 - 55 = 45
      /\ 100 - 60 = 40
  OBVIOUS
<1> DEFINE U(p) == (s.capital * p) \div 100
<1>5. Al!toUsd(s, c) = U(c) /\ Al!toUsd(s, 100 - c) = U(100 - c) /\ Al!toUsd(s, 60) = 12 * q
      /\ Al!toUsd(s, 35) = 7 * q
  BY <1>2, <1>3 DEF Al!toUsd
<1>6. \/ U(c) = 3 * q /\ U(100 - c) = 17 * q
      \/ U(c) = 4 * q /\ U(100 - c) = 16 * q
      \/ U(c) = 5 * q /\ U(100 - c) = 15 * q
      \/ U(c) = 7 * q /\ U(100 - c) = 13 * q
      \/ U(c) = 11 * q /\ U(100 - c) = 9 * q
      \/ U(c) = 12 * q /\ U(100 - c) = 8 * q
  BY <1>2, <1>3, <1>4
<1> HIDE DEF U
<1> QED
  BY <1>1, <1>5, <1>6

(* What each sleeve is to gain.                                            *)
LEMMA DeltaOf ==
  ASSUME NEW s, Al!SnapshotOK(s)
  PROVE  /\ Numbers(s) /\ s.capital \in Nat /\ s.capital % 20 = 0 /\ s.carryNav \in Int
         /\ Al!Delta(s)["carry"] = Al!toUsd(s, CarryShare(s)) - s.carryNav
         /\ s.carryNav <= s.capital =>
              /\ Al!Current(s)["treasury"] = s.capital - s.carryNav
              /\ Al!Delta(s)["treasury"] = s.carryNav - Al!toUsd(s, CarryShare(s))
<1>1. /\ Numbers(s) /\ s.capital \in Nat /\ s.capital % 20 = 0 /\ s.carryNav \in Int
  BY DEF Al!SnapshotOK, Numbers
<1>2. Al!Current(s)["carry"] = s.carryNav
  BY DEF Al!Current
<1>3. Al!Targets(s)["carry"] = CarryShare(s) /\ Al!Targets(s)["treasury"] = 100 - CarryShare(s)
      /\ CarryShare(s) \in {15, 20, 25, 35, 55, 60}
  BY <1>1, TargetsOf
<1>4. /\ Al!Delta(s)["carry"] = Al!toUsd(s, Al!Targets(s)["carry"]) - Al!Current(s)["carry"]
      /\ Al!Delta(s)["treasury"] =
           Al!toUsd(s, Al!Targets(s)["treasury"]) - Al!Current(s)["treasury"]
  BY DEF Al!Delta
<1>5. ASSUME s.carryNav <= s.capital
      PROVE  Al!Current(s)["treasury"] = s.capital - s.carryNav
  <2>1. s.capital - s.carryNav \in Int /\ 0 <= s.capital - s.carryNav
    BY <1>1, <1>5
  <2>2. Al!Max({s.capital - s.carryNav, 0}) = s.capital - s.carryNav
    BY <2>1, LeastAndGreatest
  <2> QED
    BY <2>2 DEF Al!Current
<1>6. /\ Al!toUsd(s, CarryShare(s)) \in Nat /\ Al!toUsd(s, 100 - CarryShare(s)) \in Nat
      /\ Al!toUsd(s, CarryShare(s)) + Al!toUsd(s, 100 - CarryShare(s)) = s.capital
  BY <1>1, <1>3, ShareOf
<1> HIDE DEF Al!toUsd
<1> QED
  BY <1>1, <1>2, <1>3, <1>4, <1>5, <1>6

(* The shares of a decision add up, and treasury has its floor.            *)
LEMMA AddsUp ==
  ASSUME Al!SnapshotOK(reading)
  PROVE  Al!DecisionAddsUp
<1>1. /\ Al!evaluate(reading).targets = Al!Targets(reading)
      /\ Al!evaluate(reading).delta = Al!Delta(reading)
  BY DEF Al!evaluate
<1>2. Numbers(reading)
  BY DeltaOf
<1>3. /\ Al!Targets(reading)["carry"] = CarryShare(reading)
      /\ Al!Targets(reading)["treasury"] = 100 - CarryShare(reading)
      /\ CarryShare(reading) \in {15, 20, 25, 35, 55, 60}
      /\ 100 - CarryShare(reading) >= Al!treasuryFloor(reading)
  BY <1>2, TargetsOf
<1>4. /\ Al!toUsd(reading, CarryShare(reading)) \in Nat /\ reading.carryNav \in Int
      /\ Al!Delta(reading)["carry"] = Al!toUsd(reading, CarryShare(reading)) - reading.carryNav
      /\ reading.carryNav <= reading.capital =>
           Al!Delta(reading)["treasury"] = reading.carryNav - Al!toUsd(reading, CarryShare(reading))
  BY <1>3, DeltaOf, ShareOf
<1>5. reading.carryNav <= reading.capital =>
        Al!Delta(reading)["carry"] = -Al!Delta(reading)["treasury"]
  BY <1>4
<1> QED
  BY <1>1, <1>3, <1>5 DEF Al!DecisionAddsUp

(* What is no better about w than about s.                                 *)
NoBetter(w, s) ==
  /\ Numbers(w)
  /\ s.halted => w.halted
  /\ s.critical > 0 => w.critical > 0
  /\ s.shortfall > 0 => w.shortfall > 0
  /\ s.reason => w.reason
  /\ s.open >= 3 => w.open >= 3
  /\ s.issues > 0 => w.issues > 0
  /\ w.score <= s.score
  /\ w.treasuryKnown => s.treasuryKnown
  /\ w.lifecycle # s.lifecycle =>
       s.lifecycle = "ready" /\ w.lifecycle \in {"degraded", "paused", "stopped"}

(* The share of carry does not rise when something gets worse.             *)
LEMMA WorseShare ==
  ASSUME NEW s, NEW w, Numbers(s), NoBetter(w, s)
  PROVE  CarryShare(w) <= CarryShare(s)
  BY DEF CarryShare, Weak, Elevated, Numbers, NoBetter

(* Worse news never raises the share of carry.                             *)
LEMMA WorseIsLower ==
  ASSUME Al!SnapshotOK(reading)
  PROVE  Al!WorseNeverRaisesCarry
<1> DEFINE s == reading
<1>1. SUFFICES ASSUME NEW w \in Al!Worse(s), w.treasuryKnown \/ s.shortfall = 0
               PROVE  Al!Targets(w)["carry"] <= Al!Targets(s)["carry"]
  BY DEF Al!WorseNeverRaisesCarry
<1>2. /\ s \in [lifecycle : STRING, halted : BOOLEAN, open : Nat, critical : Nat, issues : Nat,
                reason : BOOLEAN, treasuryKnown : BOOLEAN, shortfall : Nat, idle : Nat,
                capital : Nat, carryNav : Int, score : Int, mode : STRING, liveEnabled : BOOLEAN]
      /\ Numbers(s)
  BY DEF Al!SnapshotOK, Numbers
<1> DEFINE Other == [s EXCEPT !.treasuryKnown = FALSE, !.shortfall = 0, !.idle = 0]
<1>3. \/ w = [s EXCEPT !.halted = TRUE] \/ w = [s EXCEPT !.open = 3] \/ w = [s EXCEPT !.critical = 1]
      \/ w = [s EXCEPT !.issues = 1] \/ w = [s EXCEPT !.reason = TRUE]
      \/ w = [s EXCEPT !.shortfall = 1, !.idle = 0] \/ w = Other
      \/ \E x \in Int : x <= s.score /\ w = [s EXCEPT !.score = x]
      \/ \E l \in {"degraded", "paused", "stopped"} :
           s.lifecycle = "ready" /\ w = [s EXCEPT !.lifecycle = l]
  BY <1>2 DEF Al!Worse
<1>4. NoBetter(w, s)
  <2>1. CASE w = [s EXCEPT !.halted = TRUE]
    BY <1>2, <2>1, SMT DEF Numbers, NoBetter
  <2>2. CASE w = [s EXCEPT !.open = 3]
    BY <1>2, <2>2, SMT DEF Numbers, NoBetter
  <2>3. CASE w = [s EXCEPT !.critical = 1]
    BY <1>2, <2>3, SMT DEF Numbers, NoBetter
  <2>4. CASE w = [s EXCEPT !.issues = 1]
    BY <1>2, <2>4, SMT DEF Numbers, NoBetter
  <2>5. CASE w = [s EXCEPT !.reason = TRUE]
    BY <1>2, <2>5, SMT DEF Numbers, NoBetter
  <2>6. CASE w = [s EXCEPT !.shortfall = 1, !.idle = 0]
    BY <1>2, <2>6, SMT DEF Numbers, NoBetter
  <2>7. CASE w = Other
    <3>1. ~w.treasuryKnown /\ s.shortfall = 0
      BY <1>1, <1>2, <2>7
    <3> QED
      BY <1>2, <2>7, <3>1, SMT DEF Numbers, NoBetter
  <2>8. ASSUME NEW x \in Int, x <= s.score, w = [s EXCEPT !.score = x]
        PROVE  NoBetter(w, s)
    BY <1>2, <2>8, SMT DEF Numbers, NoBetter
  <2>9. ASSUME NEW l \in {"degraded", "paused", "stopped"},
               s.lifecycle = "ready" /\ w = [s EXCEPT !.lifecycle = l]
        PROVE  NoBetter(w, s)
    BY <1>2, <2>9, SMT DEF Numbers, NoBetter
  <2> QED
    BY <1>3, <2>1, <2>2, <2>3, <2>4, <2>5, <2>6, <2>7, <2>8, <2>9
<1>5. CarryShare(w) <= CarryShare(s) /\ Numbers(w)
  BY <1>2, <1>4, WorseShare DEF NoBetter
<1> QED
  BY <1>2, <1>5, TargetsOf

(* An executable proposal into carry is paid from idle capital and leaves  *)
(* treasury its floor.                                                     *)
LEMMA Funded ==
  ASSUME NEW s, Al!SnapshotOK(s), Al!blockedReasons(s) = {}, Al!IntoCarry(s)
  PROVE  /\ s.treasuryKnown /\ s.shortfall = 0
         /\ Al!Current(s)["treasury"] - Al!Amount(s) >= Al!toUsd(s, Al!Policy.minimumTreasury)
         /\ Al!Amount(s) <= s.idle
         /\ s.carryNav + Al!Amount(s) <= Al!toUsd(s, 60)
<1> DEFINE c == CarryShare(s)
           u == Al!toUsd(s, c)
<1>1. /\ Numbers(s) /\ s.capital \in Nat /\ s.capital % 20 = 0 /\ s.carryNav \in Int
      /\ Al!Delta(s)["carry"] = u - s.carryNav
  BY DeltaOf
<1>2. c \in {15, 20, 25, 35, 55, 60}
  BY <1>1, TargetsOf
<1>3. /\ u \in Nat /\ Al!toUsd(s, 100 - c) \in Nat /\ u + Al!toUsd(s, 100 - c) = s.capital
      /\ u <= Al!toUsd(s, 60) /\ Al!toUsd(s, 60) <= s.capital
      /\ Al!toUsd(s, 100 - c) >= Al!toUsd(s, 35)
  BY <1>1, <1>2, ShareOf
<1>4. /\ Al!toUsd(s, 60) \in Int /\ Al!toUsd(s, 35) \in Int
  BY <1>1, Z3 DEF Al!toUsd
<1> HIDE DEF c, u
<1>5. s.carryNav < u /\ s.carryNav <= s.capital
  BY <1>1, <1>3, <1>4 DEF Al!IntoCarry
<1>6. /\ Al!Current(s)["treasury"] = s.capital - s.carryNav
      /\ Al!Delta(s)["treasury"] = s.carryNav - u
  BY <1>5, DeltaOf DEF c, u
<1>7. Al!Amount(s) = u - s.carryNav
  <2>1. Al!Abs(Al!Delta(s)["carry"]) = u - s.carryNav /\ Al!Abs(Al!Delta(s)["treasury"]) = u - s.carryNav
    BY <1>1, <1>3, <1>5, <1>6 DEF Al!Abs
  <2> DEFINE d == u - s.carryNav
  <2>2. d \in Int /\ d <= d
    BY <1>1, <1>3
  <2> HIDE DEF d
  <2>3. Al!Max({d, d}) = d
    BY <2>2, LeastAndGreatest
  <2> QED
    BY <2>1, <2>3 DEF Al!Amount, d
<1>8. /\ ~(Al!Amount(s) < Al!MinimumActionable)
      /\ ~(s.shortfall > 0) /\ ~(s.idle < Al!Amount(s))
  BY DEF Al!blockedReasons, Al!Reason
<1>9. s.shortfall \in Nat /\ s.idle \in Nat /\ (~s.treasuryKnown => s.idle = 0)
  BY DEF Al!SnapshotOK
<1>10. /\ s.treasuryKnown /\ s.shortfall = 0 /\ Al!Amount(s) <= s.idle
  BY <1>1, <1>3, <1>7, <1>8, <1>9 DEF Al!MinimumActionable
<1>11. Al!Policy.minimumTreasury = 35
  BY DEF Al!Policy
<1> QED
  BY <1>1, <1>3, <1>4, <1>6, <1>7, <1>10, <1>11

(* Rows as they are written, and the next statement after one.             *)
Rows == [run : BOOLEAN, targets : BOOLEAN, recommendations : BOOLEAN]

(* Initially.                                                              *)
LEMMA AllocatorInitially ==
  ASSUME Al!Init
  PROVE  Al!AllocatorInv
<1>1. allocatorRuns = <<>> /\ allocatorCurrent = 0 /\ proposals = {} /\ reading \in Al!Reads
      /\ evaluating = [e \in Evaluators |-> Al!NoEvaluation]
  BY DEF Al!Init, Al!Reads
<1>2. Al!SummaryIsComplete
  BY <1>1 DEF Al!SummaryIsComplete
<1> QED
  BY <1>1, <1>2 DEF Al!AllocatorInv

(* Rows that are never taken back: what the invariant says of evaluations  *)
(* and of the summary survives a change of the rows.                       *)
LEMMA RowsGrow ==
  ASSUME Al!AllocatorInv, allocatorRuns' \in Seq(Rows),
         DOMAIN allocatorRuns \subseteq DOMAIN allocatorRuns',
         \A i \in DOMAIN allocatorRuns :
           /\ allocatorRuns[i].run => allocatorRuns'[i].run
           /\ allocatorRuns[i].targets => allocatorRuns'[i].targets
           /\ allocatorRuns[i].recommendations => allocatorRuns'[i].recommendations,
         allocatorCurrent' = allocatorCurrent
  PROVE  /\ Al!Evaluation \subseteq Al!Evaluation'
         /\ \A v \in Al!Evaluation : Al!RowsBefore(v) =>
              /\ v.next # "run" => allocatorRuns'[v.at].run
              /\ v.next \notin {"run", "targets"} => allocatorRuns'[v.at].targets
              /\ v.next \in {"current", "proposal"} => allocatorRuns'[v.at].recommendations
         /\ allocatorCurrent' \in {0} \cup DOMAIN allocatorRuns'
         /\ Al!SummaryIsComplete'
<1>1. Al!Evaluation \subseteq Al!Evaluation'
  BY DEF Al!Evaluation, Al!Reads
<1>2. \A v \in Al!Evaluation : v.at \in DOMAIN allocatorRuns
  BY DEF Al!Evaluation
<1>3. \A v \in Al!Evaluation : Al!RowsBefore(v) =>
        /\ v.next # "run" => allocatorRuns'[v.at].run
        /\ v.next \notin {"run", "targets"} => allocatorRuns'[v.at].targets
        /\ v.next \in {"current", "proposal"} => allocatorRuns'[v.at].recommendations
  BY <1>2 DEF Al!RowsBefore
<1>4. allocatorCurrent \in {0} \cup DOMAIN allocatorRuns
  BY DEF Al!AllocatorInv
<1>5. Al!SummaryIsComplete'
  <2>1. SUFFICES ASSUME allocatorCurrent # 0
                 PROVE  allocatorRuns'[allocatorCurrent] =
                          [run |-> TRUE, targets |-> TRUE, recommendations |-> TRUE]
    BY DEF Al!SummaryIsComplete
  <2>2. /\ allocatorCurrent \in DOMAIN allocatorRuns
        /\ allocatorRuns[allocatorCurrent] =
             [run |-> TRUE, targets |-> TRUE, recommendations |-> TRUE]
    BY <1>4, <2>1 DEF Al!AllocatorInv, Al!SummaryIsComplete
  <2> DEFINE r == allocatorRuns'[allocatorCurrent]
  <2>3. r \in Rows /\ r.run /\ r.targets /\ r.recommendations
    BY <2>2
  <2> HIDE DEF r
  <2>4. r = [run |-> TRUE, targets |-> TRUE, recommendations |-> TRUE]
    BY <2>3 DEF Rows
  <2> QED
    BY <2>4 DEF r
<1> QED
  BY <1>1, <1>3, <1>4, <1>5

(* The invariant after a step, from what the evaluations then are.         *)
LEMMA AllocatorNext ==
  ASSUME allocatorRuns' \in Seq(Rows), reading' \in Al!Reads,
         allocatorCurrent' \in {0} \cup DOMAIN allocatorRuns', Al!SummaryIsComplete',
         \A p \in proposals' : p.read \in Al!Reads /\ p.proposal = Al!createProposal(p.read),
         evaluating' \in [Evaluators -> Al!Evaluation' \cup {Al!NoEvaluation}],
         \A e \in Evaluators : evaluating'[e] # Al!NoEvaluation =>
           /\ evaluating'[e].next # "run" => allocatorRuns'[evaluating'[e].at].run
           /\ evaluating'[e].next \notin {"run", "targets"} =>
                allocatorRuns'[evaluating'[e].at].targets
           /\ evaluating'[e].next \in {"current", "proposal"} =>
                allocatorRuns'[evaluating'[e].at].recommendations
  PROVE  Al!AllocatorInv'
<1>1. Al!Reads' = Al!Reads
  BY DEF Al!Reads
<1>2. Al!NoEvaluation' = Al!NoEvaluation
  BY DEF Al!NoEvaluation
<1> QED
  BY <1>1, <1>2 DEF Al!AllocatorInv, Al!RowsBefore, Rows

(* An evaluation under way is a record of its own kind.                    *)
LEMMA UnderWay ==
  ASSUME Al!AllocatorInv, NEW e \in Evaluators, evaluating[e] # Al!NoEvaluation
  PROVE  /\ evaluating[e] \in Al!Evaluation /\ Al!RowsBefore(evaluating[e])
         /\ evaluating[e].at \in DOMAIN allocatorRuns /\ evaluating[e].read \in Al!Reads
         /\ evaluating[e].next \in {"run", "targets", "recommendations", "current", "proposal"}
<1>1. evaluating[e] \in Al!Evaluation /\ Al!RowsBefore(evaluating[e])
  BY DEF Al!AllocatorInv
<1> QED
  BY <1>1 DEF Al!Evaluation

(* The world moves on: only what is read changes.                          *)
LEMMA MoveKeeps ==
  ASSUME Al!AllocatorInv, Al!Move
  PROVE  Al!AllocatorInv'
<1>1. reading' \in Al!Reads
  BY DEF Al!Move, Al!Reads
<1> QED
  BY <1>1 DEF Al!Move, Al!AllocatorInv, Al!Evaluation, Al!Reads, Al!RowsBefore,
     Al!SummaryIsComplete

(* An evaluation begins with a run of no rows.                             *)
LEMMA BeginKeeps ==
  ASSUME Al!AllocatorInv, NEW e \in Evaluators, Al!runAllocatorEvaluation(e)
  PROVE  Al!AllocatorInv'
<1> DEFINE v == [next |-> "run", at |-> Len(allocatorRuns) + 1, read |-> reading]
<1>1. /\ allocatorRuns \in Seq(Rows) /\ reading \in Al!Reads
      /\ evaluating \in [Evaluators -> Al!Evaluation \cup {Al!NoEvaluation}]
      /\ \A p \in proposals : p.read \in Al!Reads /\ p.proposal = Al!createProposal(p.read)
  BY DEF Al!AllocatorInv, Rows
<1>2. /\ allocatorRuns' = Append(allocatorRuns, Al!NoRows)
      /\ evaluating' = [evaluating EXCEPT ![e] = v]
      /\ UNCHANGED <<reading, allocatorCurrent, proposals>>
  BY DEF Al!runAllocatorEvaluation
<1>3. Al!NoRows \in Rows
  BY DEF Al!NoRows, Rows
<1>4. /\ allocatorRuns' \in Seq(Rows) /\ Len(allocatorRuns) + 1 \in DOMAIN allocatorRuns'
      /\ DOMAIN allocatorRuns \subseteq DOMAIN allocatorRuns'
      /\ \A i \in DOMAIN allocatorRuns : allocatorRuns'[i] = allocatorRuns[i]
  BY <1>1, <1>2, <1>3
<1>5. /\ Al!Evaluation \subseteq Al!Evaluation'
      /\ \A x \in Al!Evaluation : Al!RowsBefore(x) =>
           /\ x.next # "run" => allocatorRuns'[x.at].run
           /\ x.next \notin {"run", "targets"} => allocatorRuns'[x.at].targets
           /\ x.next \in {"current", "proposal"} => allocatorRuns'[x.at].recommendations
      /\ allocatorCurrent' \in {0} \cup DOMAIN allocatorRuns'
      /\ Al!SummaryIsComplete'
  BY <1>2, <1>4, RowsGrow
<1>6. v \in Al!Evaluation' /\ v.next = "run" /\ v # Al!NoEvaluation
  <2>1. v \in [next : {"run", "targets", "recommendations", "current", "proposal"},
               at : DOMAIN allocatorRuns', read : Al!Reads]
    BY <1>1, <1>4
  <2>2. v.next # Al!NoEvaluation.next
    BY DEF Al!NoEvaluation
  <2> QED
    BY <2>1, <2>2 DEF Al!Evaluation, Al!Reads
<1> HIDE DEF v
<1>7. evaluating' \in [Evaluators -> Al!Evaluation' \cup {Al!NoEvaluation}]
  BY <1>1, <1>2, <1>5, <1>6
<1>8. \A x \in Evaluators : evaluating'[x] = IF x = e THEN v ELSE evaluating[x]
  BY <1>1, <1>2
<1> QED
  BY <1>1, <1>2, <1>4, <1>5, <1>6, <1>7, <1>8, AllocatorNext, UnderWay

(* Rows of a run are inserted.                                             *)
LEMMA InsertKeeps ==
  ASSUME Al!AllocatorInv, NEW e \in Evaluators, Al!InsertRows(e)
  PROVE  Al!AllocatorInv'
<1> DEFINE v == evaluating[e]
           r == [allocatorRuns[v.at] EXCEPT ![v.next] = TRUE]
           w == [v EXCEPT !.next = Al!StatementAfter[v.next]]
<1>1. /\ allocatorRuns \in Seq(Rows) /\ reading \in Al!Reads
      /\ evaluating \in [Evaluators -> Al!Evaluation \cup {Al!NoEvaluation}]
      /\ \A p \in proposals : p.read \in Al!Reads /\ p.proposal = Al!createProposal(p.read)
  BY DEF Al!AllocatorInv, Rows
<1>2. /\ v.next \in {"run", "targets", "recommendations"}
      /\ allocatorRuns' = [allocatorRuns EXCEPT ![v.at] = r]
      /\ evaluating' = [evaluating EXCEPT ![e] = w]
      /\ UNCHANGED <<reading, allocatorCurrent, proposals>>
  BY DEF Al!InsertRows
<1>3. v # Al!NoEvaluation
  BY <1>2 DEF Al!NoEvaluation
<1>4. v \in Al!Evaluation /\ Al!RowsBefore(v) /\ v.at \in DOMAIN allocatorRuns /\ v.read \in Al!Reads
  BY <1>3, UnderWay
<1>5. allocatorRuns[v.at] \in Rows
  BY <1>1, <1>4
<1>6. /\ r \in Rows /\ r[v.next]
      /\ allocatorRuns[v.at].run => r.run
      /\ allocatorRuns[v.at].targets => r.targets
      /\ allocatorRuns[v.at].recommendations => r.recommendations
  <2> DEFINE q == allocatorRuns[v.at]
             n == v.next
  <2> HIDE DEF q, n
  <2>1. q \in Rows /\ n \in {"run", "targets", "recommendations"} /\ r = [q EXCEPT ![n] = TRUE]
    BY <1>2, <1>5 DEF q, n
  <2> HIDE DEF r
  <2>2. r \in Rows
    BY <2>1 DEF Rows
  <2>3. r[n] /\ (q.run => r.run) /\ (q.targets => r.targets) /\ (q.recommendations => r.recommendations)
    BY <2>1 DEF Rows
  <2> QED
    BY <2>2, <2>3 DEF q, n
<1> HIDE DEF r
<1>7. /\ allocatorRuns' \in Seq(Rows)
      /\ DOMAIN allocatorRuns' = DOMAIN allocatorRuns
      /\ \A i \in DOMAIN allocatorRuns : allocatorRuns'[i] = IF i = v.at THEN r ELSE allocatorRuns[i]
  BY <1>1, <1>2, <1>4, <1>6, UpdatedTable DEF Updated
<1>8. /\ Al!Evaluation \subseteq Al!Evaluation'
      /\ \A x \in Al!Evaluation : Al!RowsBefore(x) =>
           /\ x.next # "run" => allocatorRuns'[x.at].run
           /\ x.next \notin {"run", "targets"} => allocatorRuns'[x.at].targets
           /\ x.next \in {"current", "proposal"} => allocatorRuns'[x.at].recommendations
      /\ allocatorCurrent' \in {0} \cup DOMAIN allocatorRuns'
      /\ Al!SummaryIsComplete'
  BY <1>2, <1>6, <1>7, RowsGrow
<1>9. /\ w \in Al!Evaluation' /\ w # Al!NoEvaluation
      /\ w.next # "run" => allocatorRuns'[w.at].run
      /\ w.next \notin {"run", "targets"} => allocatorRuns'[w.at].targets
      /\ w.next \in {"current", "proposal"} => allocatorRuns'[w.at].recommendations
  <2> DEFINE k == Al!StatementAfter[v.next]
             K == {"run", "targets", "recommendations", "current", "proposal"}
  <2>1. \/ v.next = "run" /\ k = "targets"
        \/ v.next = "targets" /\ k = "recommendations"
        \/ v.next = "recommendations" /\ k = "current"
    BY <1>2 DEF Al!StatementAfter
  <2> HIDE DEF k
  <2>2. v \in [next : K, at : DOMAIN allocatorRuns, read : Al!Reads]
    BY <1>4 DEF Al!Evaluation
  <2>3. w = [next |-> k, at |-> v.at, read |-> v.read]
    BY <2>2 DEF k
  <2>4. /\ w.next = k /\ w.at = v.at
        /\ w \in [next : K, at : DOMAIN allocatorRuns', read : Al!Reads]
    BY <1>4, <1>7, <2>1, <2>3
  <2>5. w \in Al!Evaluation'
    BY <2>4 DEF Al!Evaluation, Al!Reads
  <2>6. w # Al!NoEvaluation
    BY <2>1, <2>4 DEF Al!NoEvaluation
  <2>7. allocatorRuns'[v.at] = r
    BY <1>4, <1>7
  <2> HIDE DEF w, v
  <2> QED
    BY <1>4, <1>6, <2>1, <2>4, <2>5, <2>6, <2>7 DEF Al!RowsBefore
<1> HIDE DEF w
<1>10. evaluating' \in [Evaluators -> Al!Evaluation' \cup {Al!NoEvaluation}]
  BY <1>1, <1>2, <1>8, <1>9
<1>11. \A x \in Evaluators : evaluating'[x] = IF x = e THEN w ELSE evaluating[x]
  BY <1>1, <1>2
<1> QED
  BY <1>1, <1>2, <1>7, <1>8, <1>9, <1>10, <1>11, AllocatorNext, UnderWay

(* The primary row names a run that has its rows.                          *)
LEMMA CurrentKeeps ==
  ASSUME Al!AllocatorInv, NEW e \in Evaluators, Al!UpsertCurrent(e)
  PROVE  Al!AllocatorInv'
<1> DEFINE v == evaluating[e]
           w == [v EXCEPT !.next = Al!StatementAfter["current"]]
<1>1. /\ allocatorRuns \in Seq(Rows) /\ reading \in Al!Reads
      /\ evaluating \in [Evaluators -> Al!Evaluation \cup {Al!NoEvaluation}]
      /\ \A p \in proposals : p.read \in Al!Reads /\ p.proposal = Al!createProposal(p.read)
  BY DEF Al!AllocatorInv, Rows
<1>2. /\ v.next = "current" /\ allocatorCurrent' = v.at
      /\ evaluating' = [evaluating EXCEPT ![e] = w]
      /\ UNCHANGED <<reading, allocatorRuns, proposals>>
  BY DEF Al!UpsertCurrent
<1>3. v # Al!NoEvaluation
  BY <1>2 DEF Al!NoEvaluation
<1>4. v \in Al!Evaluation /\ Al!RowsBefore(v) /\ v.at \in DOMAIN allocatorRuns /\ v.read \in Al!Reads
  BY <1>3, UnderWay
<1>5. /\ allocatorRuns[v.at] \in Rows
      /\ allocatorRuns[v.at].run /\ allocatorRuns[v.at].targets /\ allocatorRuns[v.at].recommendations
  BY <1>1, <1>2, <1>4 DEF Al!RowsBefore
<1>6. allocatorRuns[v.at] = [run |-> TRUE, targets |-> TRUE, recommendations |-> TRUE]
  <2> DEFINE r == allocatorRuns[v.at]
  <2>1. r \in Rows /\ r.run /\ r.targets /\ r.recommendations
    BY <1>5
  <2> HIDE DEF r
  <2>2. r = [run |-> TRUE, targets |-> TRUE, recommendations |-> TRUE]
    BY <2>1 DEF Rows
  <2> QED
    BY <2>2 DEF r
<1>7. Al!SummaryIsComplete' /\ allocatorCurrent' \in {0} \cup DOMAIN allocatorRuns'
  BY <1>2, <1>4, <1>6 DEF Al!SummaryIsComplete
<1>8. Al!Evaluation' = Al!Evaluation
  BY <1>2 DEF Al!Evaluation, Al!Reads
<1>9. w \in Al!Evaluation /\ w.at = v.at /\ w # Al!NoEvaluation
  <2> DEFINE K == {"run", "targets", "recommendations", "current", "proposal"}
  <2>1. v \in [next : K, at : DOMAIN allocatorRuns, read : Al!Reads]
    BY <1>4 DEF Al!Evaluation
  <2>2. w = [next |-> "proposal", at |-> v.at, read |-> v.read]
    BY <2>1 DEF Al!StatementAfter
  <2>3. w \in [next : K, at : DOMAIN allocatorRuns, read : Al!Reads] /\ w.next # "idle" /\ w.at = v.at
    BY <1>4, <2>2
  <2> QED
    BY <2>3 DEF Al!Evaluation, Al!NoEvaluation
<1> HIDE DEF w
<1>10. evaluating' \in [Evaluators -> Al!Evaluation' \cup {Al!NoEvaluation}]
  BY <1>1, <1>2, <1>8, <1>9
<1>11. \A x \in Evaluators : evaluating'[x] = IF x = e THEN w ELSE evaluating[x]
  BY <1>1, <1>2
<1>12. \A x \in Evaluators : evaluating[x] # Al!NoEvaluation => Al!RowsBefore(evaluating[x])
  BY UnderWay
<1> QED
  BY <1>1, <1>2, <1>5, <1>7, <1>9, <1>10, <1>11, <1>12, AllocatorNext DEF Al!RowsBefore

(* An evaluation ends, with a proposal or without, or its process stops.   *)
LEMMA EndKeeps ==
  ASSUME Al!AllocatorInv, NEW e \in Evaluators, Al!createRebalanceProposal(e) \/ Al!Stop(e)
  PROVE  Al!AllocatorInv'
<1>1. /\ allocatorRuns \in Seq(Rows) /\ reading \in Al!Reads
      /\ evaluating \in [Evaluators -> Al!Evaluation \cup {Al!NoEvaluation}]
      /\ \A p \in proposals : p.read \in Al!Reads /\ p.proposal = Al!createProposal(p.read)
      /\ allocatorCurrent \in {0} \cup DOMAIN allocatorRuns /\ Al!SummaryIsComplete
  BY DEF Al!AllocatorInv, Rows
<1>2. /\ evaluating' = [evaluating EXCEPT ![e] = Al!NoEvaluation]
      /\ UNCHANGED <<reading, allocatorRuns, allocatorCurrent>>
  BY DEF Al!createRebalanceProposal, Al!Stop
<1>3. \A p \in proposals' : p.read \in Al!Reads /\ p.proposal = Al!createProposal(p.read)
  <2>1. CASE Al!Stop(e)
    BY <1>1, <2>1 DEF Al!Stop
  <2>2. CASE Al!createRebalanceProposal(e)
    <3> DEFINE v == evaluating[e]
               p0 == [at |-> v.at, read |-> v.read, proposal |-> Al!createProposal(v.read)]
    <3>1. v.next = "proposal" /\ (proposals' = proposals \/ proposals' = proposals \cup {p0})
      BY <2>2 DEF Al!createRebalanceProposal
    <3>2. v # Al!NoEvaluation
      BY <3>1 DEF Al!NoEvaluation
    <3>3. v.read \in Al!Reads
      BY <3>2, UnderWay
    <3>4. p0.read = v.read /\ p0.proposal = Al!createProposal(v.read)
      OBVIOUS
    <3> HIDE DEF p0, v
    <3> QED
      BY <1>1, <3>1, <3>3, <3>4
  <2> QED
    BY <2>1, <2>2
<1>4. Al!Evaluation' = Al!Evaluation /\ Al!SummaryIsComplete'
  BY <1>1, <1>2 DEF Al!Evaluation, Al!Reads, Al!SummaryIsComplete
<1>5. evaluating' \in [Evaluators -> Al!Evaluation' \cup {Al!NoEvaluation}]
  BY <1>1, <1>2, <1>4
<1>6. \A x \in Evaluators : evaluating'[x] = IF x = e THEN Al!NoEvaluation ELSE evaluating[x]
  BY <1>1, <1>2
<1>7. \A x \in Evaluators : evaluating[x] # Al!NoEvaluation => Al!RowsBefore(evaluating[x])
  BY UnderWay
<1> QED
  BY <1>1, <1>2, <1>3, <1>4, <1>5, <1>6, <1>7, AllocatorNext DEF Al!RowsBefore

(* Every step of the allocator keeps the invariant.                        *)
LEMMA AllocatorStep ==
  ASSUME Al!AllocatorInv, Al!Next
  PROVE  Al!AllocatorInv'
  BY MoveKeeps, BeginKeeps, InsertKeeps, CurrentKeeps, EndKeeps DEF Al!Next

(* The invariant gives what the allocator promises.                        *)
LEMMA AllocatorSound ==
  ASSUME Al!AllocatorInv
  PROVE  /\ Al!SummaryIsComplete /\ Al!DecisionAddsUp /\ Al!WorseNeverRaisesCarry
         /\ Al!ExecutableIsFunded
<1>1. \A s \in Al!Reads : Al!SnapshotOK(s)
  BY AllocatorAssumption DEF Al!Reads
<1>2. Al!SnapshotOK(reading) /\ Al!SummaryIsComplete
  BY <1>1 DEF Al!AllocatorInv
<1>3. Al!ExecutableIsFunded
  <2>1. SUFFICES ASSUME NEW p \in proposals, p.proposal.executable, p.proposal.intoCarry
                 PROVE  /\ p.read.treasuryKnown /\ p.read.shortfall = 0
                        /\ Al!Current(p.read)["treasury"] - p.proposal.amount
                             >= Al!toUsd(p.read, Al!Policy.minimumTreasury)
                        /\ p.proposal.amount <= p.read.idle
                        /\ p.read.carryNav + p.proposal.amount <= Al!toUsd(p.read, 60)
    BY DEF Al!ExecutableIsFunded
  <2> DEFINE s == p.read
  <2>2. Al!SnapshotOK(s) /\ p.proposal = Al!createProposal(s)
    BY <1>1 DEF Al!AllocatorInv
  <2>3. /\ p.proposal.executable = (Al!blockedReasons(s) = {})
        /\ p.proposal.intoCarry = Al!IntoCarry(s)
        /\ p.proposal.amount = Al!Amount(s)
    BY <2>2 DEF Al!createProposal
  <2> HIDE DEF s
  <2>4. /\ s.treasuryKnown /\ s.shortfall = 0
        /\ Al!Current(s)["treasury"] - Al!Amount(s) >= Al!toUsd(s, Al!Policy.minimumTreasury)
        /\ Al!Amount(s) <= s.idle
        /\ s.carryNav + Al!Amount(s) <= Al!toUsd(s, 60)
    BY <2>1, <2>2, <2>3, Funded
  <2> QED
    BY <2>3, <2>4 DEF s
<1> QED
  BY <1>2, <1>3, AddsUp, WorseIsLower

-----------------------------------------------------------------------------
(***************************************************************************)
(* Post-trade confirmation.                                                *)
(***************************************************************************)
(* A record of a position, an order, and a step.                           *)
Ctx == [captured : BOOLEAN, side : {"long", "short", "flat", "none"}, size : Nat]
Order ==
  [side : {"buy", "sell"}, reduceOnly : BOOLEAN, size : Nat \ {0}, filled : Nat, ctx : Ctx]
Step == [status : {"submitted", "partially_filled", "filled"}, filledSize : Nat]

(* A record that was captured: flat exactly when it has no size.           *)
Taken(c) ==
  /\ c.captured /\ c.side \in {"flat", "long", "short"} /\ c.size \in Nat
  /\ c.side = "flat" <=> c.size = 0

(* What a capture records, and what the snapshot shows as a boundary.      *)
LEMMA Captured ==
  ASSUME NEW p \in Int
  PROVE  LET c == Pt!capturePreTradePositionContext(p)
         IN /\ c \in Ctx /\ Taken(c) /\ Pt!Signed(c) = p
            /\ c.side = Pt!SideOf(p) /\ (p # 0 => c.side \in {"long", "short"})
<1> DEFINE c == Pt!capturePreTradePositionContext(p)
<1>1. c.captured = TRUE /\ c.side = Pt!SideOf(p) /\ c.size = Pt!Magnitude(p)
  BY DEF Pt!capturePreTradePositionContext
<1>2. /\ Pt!Magnitude(p) \in Nat /\ Pt!SideOf(p) \in {"flat", "long", "short"}
      /\ Pt!SideOf(p) = "flat" <=> p = 0
      /\ Pt!Magnitude(p) = 0 <=> p = 0
  BY DEF Pt!Magnitude, Pt!SideOf
<1>3. c \in Ctx
  BY <1>2 DEF Pt!capturePreTradePositionContext, Ctx
<1>4. Pt!Signed(c) = p
  BY <1>1 DEF Pt!Signed, Pt!SideOf, Pt!Magnitude
<1> QED
  BY <1>1, <1>2, <1>3, <1>4 DEF Taken

(* The least index of a set of them.                                       *)
LEMMA LeastIndex ==
  ASSUME NEW T, T \subseteq Nat, T # {}
  PROVE  Pt!Min(T) \in T /\ \A m \in T : Pt!Min(T) <= m
<1>1. PICK n \in T : \A m \in T : n <= m
  BY LeastNat
<1> QED
  BY <1>1 DEF Pt!Min

(* Where the position moved by the fills of the order, on the side of its  *)
(* group, the change of position is what was filled, unless the order was  *)
(* against the position: then nothing is confirmed.                        *)
LEMMA MovedIsFilled ==
  ASSUME NEW o \in Order, NEW b, Taken(o.ctx), Taken(b), o.filled <= o.size,
         o.reduceOnly => o.ctx.side = Pt!expectedPositionSideForOrder(o.side, TRUE),
         b.side \in {"flat", Pt!candidateGroupKey(o)},
         Pt!Signed(b) = Pt!Signed(o.ctx) + Pt!Added(o)
  PROVE  /\ Pt!PositionConfirmed(o, b) <= o.filled
         /\ Pt!InTurn(o) => /\ Pt!PositionConfirmed(o, b) = o.filled
                            /\ ~Pt!Contradicted(o, b)
<1> DEFINE target == Pt!expectedPositionSideForOrder(o.side, o.reduceOnly)
           change == IF o.reduceOnly THEN o.ctx.size - b.size
                     ELSE Pt!positionExposureForSide(b, target)
                            - Pt!positionExposureForSide(o.ctx, target)
<1>1. /\ o.side \in {"buy", "sell"} /\ o.reduceOnly \in BOOLEAN /\ o.size \in Nat /\ o.filled \in Nat
      /\ o.ctx.size \in Nat /\ b.size \in Nat
      /\ o.ctx.side \in {"flat", "long", "short"} /\ b.side \in {"flat", "long", "short"}
      /\ o.ctx.side = "flat" <=> o.ctx.size = 0
      /\ b.side = "flat" <=> b.size = 0
  BY DEF Order, Taken
<1>2. Pt!PositionConfirmed(o, b) = Pt!Least(Pt!decimalMax(change, 0), o.size)
  BY DEF Pt!PositionConfirmed
<1>3. ASSUME change = o.filled
      PROVE  Pt!PositionConfirmed(o, b) = o.filled
  <2> HIDE DEF change
  <2> QED
    BY <1>1, <1>2, <1>3 DEF Pt!Least, Pt!decimalMax
<1>4. ASSUME change = 0
      PROVE  Pt!PositionConfirmed(o, b) = 0
  <2> HIDE DEF change
  <2> QED
    BY <1>1, <1>2, <1>4 DEF Pt!Least, Pt!decimalMax
<1> DEFINE key == Pt!candidateGroupKey(o)
<1>5. CASE o.reduceOnly
  <2>1. o.ctx.side = IF o.side = "buy" THEN "short" ELSE "long"
    BY <1>1, <1>5 DEF Pt!expectedPositionSideForOrder
  <2>2. key = o.ctx.side
    BY <1>1, <2>1 DEF Pt!candidateGroupKey
  <2>3. Pt!Signed(b) = (IF o.ctx.side = "long" THEN b.size ELSE -b.size)
    BY <1>1, <2>1, <2>2 DEF Pt!Signed
  <2>4. Pt!Signed(o.ctx) = (IF o.ctx.side = "long" THEN o.ctx.size ELSE -o.ctx.size)
    BY <1>1, <2>1 DEF Pt!Signed
  <2>5. o.ctx.size - b.size = o.filled
    BY <1>1, <2>1, <2>3, <2>4 DEF Pt!Added
  <2>6. ~Pt!Contradicted(o, b)
    BY <1>1, <1>5, <2>2, <2>5 DEF Pt!Contradicted
  <2>7. change = o.filled
    BY <1>5, <2>5
  <2> QED
    BY <1>1, <1>3, <2>6, <2>7
<1>6. CASE ~o.reduceOnly /\ key = target
  <2>1. target = IF o.side = "buy" THEN "long" ELSE "short"
    BY <1>1, <1>6 DEF Pt!expectedPositionSideForOrder
  <2>2. o.ctx.side \in {"flat", target}
    BY <1>1, <1>6 DEF Pt!candidateGroupKey
  <2>3. /\ Pt!positionExposureForSide(b, target) = b.size
        /\ Pt!positionExposureForSide(o.ctx, target) = o.ctx.size
    BY <1>1, <1>6, <2>2 DEF Pt!positionExposureForSide
  <2>4. /\ Pt!Signed(b) = (IF o.side = "buy" THEN b.size ELSE -b.size)
        /\ Pt!Signed(o.ctx) = (IF o.side = "buy" THEN o.ctx.size ELSE -o.ctx.size)
    BY <1>1, <1>6, <2>1, <2>2 DEF Pt!Signed
  <2>5. b.size - o.ctx.size = o.filled
    <3>1. CASE o.side = "buy"
      BY <1>1, <2>4, <3>1 DEF Pt!Added
    <3>2. CASE o.side # "buy"
      BY <1>1, <2>4, <3>2 DEF Pt!Added
    <3> QED
      BY <3>1, <3>2
  <2>6. ~Pt!Contradicted(o, b)
    BY <1>1, <1>6, <2>2, <2>3, <2>5 DEF Pt!Contradicted
  <2>7. change = o.filled
    BY <1>6, <2>3, <2>5
  <2> QED
    BY <1>1, <1>3, <2>6, <2>7
<1>7. CASE ~o.reduceOnly /\ key # target
  <2>1. key = o.ctx.side /\ o.ctx.side \in {"long", "short"} /\ b.side \in {"flat", o.ctx.side}
    BY <1>1, <1>7 DEF Pt!candidateGroupKey
  <2>2. target \in {"long", "short"}
    BY DEF Pt!expectedPositionSideForOrder
  <2>3. Pt!positionExposureForSide(b, target) = 0 /\ Pt!positionExposureForSide(o.ctx, target) = 0
    BY <1>7, <2>1, <2>2 DEF Pt!positionExposureForSide
  <2>4. ~Pt!InTurn(o)
    <3>1. o.reduceOnly = FALSE
      BY <1>1, <1>7
    <3>2. target = Pt!expectedPositionSideForOrder(o.side, FALSE)
      BY <3>1
    <3> QED
      BY <1>7, <2>1, <3>2 DEF Pt!InTurn
  <2>5. change = 0
    BY <1>7, <2>3
  <2> QED
    BY <1>1, <1>4, <2>4, <2>5
<1> QED
  BY <1>5, <1>6, <1>7

(* Where the position has never been on the side of the order's group,     *)
(* nothing was filled and nothing is confirmed.                            *)
LEMMA UnmovedIsNothing ==
  ASSUME NEW o \in Order, NEW b, Taken(o.ctx), Taken(b), o.filled = 0, o.ctx.side = "flat",
         o.reduceOnly => o.ctx.side = Pt!expectedPositionSideForOrder(o.side, TRUE),
         b.side # Pt!candidateGroupKey(o)
  PROVE  Pt!PositionConfirmed(o, b) = 0
<1> DEFINE target == Pt!expectedPositionSideForOrder(o.side, o.reduceOnly)
<1>1. ~o.reduceOnly
  BY DEF Pt!expectedPositionSideForOrder
<1>2. target \in {"long", "short"} /\ Pt!candidateGroupKey(o) = target
  BY DEF Pt!expectedPositionSideForOrder, Pt!candidateGroupKey
<1>3. Pt!positionExposureForSide(b, target) = 0 /\ Pt!positionExposureForSide(o.ctx, target) = 0
  BY <1>2 DEF Pt!positionExposureForSide
<1>4. o.size \in Nat /\ o.size > 0
  BY DEF Order
<1> HIDE DEF target
<1>5. Pt!PositionConfirmed(o, b) = Pt!Least(Pt!decimalMax(0 - 0, 0), o.size)
  BY <1>1, <1>3 DEF Pt!PositionConfirmed, target
<1> QED
  BY <1>4, <1>5 DEF Pt!Least, Pt!decimalMax

(* The boundary of an order: the next record of its group, or the snapshot. *)
LEMMA BoundaryOf ==
  ASSUME Pt!Types, NEW i \in DOMAIN orders
  PROVE  \/ /\ Pt!Boundary(i) = Pt!capturePreTradePositionContext(pos)
            /\ \A k \in DOMAIN orders : k > i =>
                 Pt!candidateGroupKey(orders[k]) # Pt!candidateGroupKey(orders[i])
         \/ \E j \in DOMAIN orders :
              /\ j > i /\ Pt!Boundary(i) = orders[j].ctx
              /\ Pt!candidateGroupKey(orders[j]) = Pt!candidateGroupKey(orders[i])
              /\ \A k \in DOMAIN orders : i < k /\ k < j =>
                   Pt!candidateGroupKey(orders[k]) # Pt!candidateGroupKey(orders[i])
<1> DEFINE later == {j \in DOMAIN orders :
                       j > i /\ Pt!candidateGroupKey(orders[j]) = Pt!candidateGroupKey(orders[i])}
<1>1. DOMAIN orders \subseteq Nat \ {0}
  BY DEF Pt!Types
<1>2. Pt!NextInGroup(i) = IF later = {} THEN 0 ELSE Pt!Min(later)
  BY DEF Pt!NextInGroup
<1>3. CASE later = {}
  <2>1. Pt!Boundary(i) = Pt!capturePreTradePositionContext(pos)
    BY <1>2, <1>3 DEF Pt!Boundary, Pt!findSnapshotPositionBoundary, Pt!capturePreTradePositionContext
  <2> QED
    BY <1>3, <2>1
<1>4. CASE later # {}
  <2> DEFINE j == Pt!Min(later)
  <2>1. j \in later /\ \A m \in later : j <= m
    BY <1>1, <1>4, LeastIndex
  <2>2. j \in DOMAIN orders /\ j > i /\ j # 0
        /\ Pt!candidateGroupKey(orders[j]) = Pt!candidateGroupKey(orders[i])
    BY <1>1, <2>1
  <2>3. Pt!Boundary(i) = orders[j].ctx
    BY <1>2, <1>4, <2>2 DEF Pt!Boundary
  <2>4. ASSUME NEW k \in DOMAIN orders, i < k, k < j
        PROVE  Pt!candidateGroupKey(orders[k]) # Pt!candidateGroupKey(orders[i])
    <3>1. k \in Nat /\ j \in Nat
      BY <1>1, <2>2
    <3>2. k \notin later
      BY <2>1, <2>4, <3>1
    <3> QED
      BY <2>4, <3>2
  <2> QED
    BY <2>2, <2>3, <2>4
<1> QED
  BY <1>3, <1>4

(* What the invariant says of the record of an order.                      *)
LEMMA RecordOf ==
  ASSUME Pt!ConfirmationInv, NEW i \in DOMAIN orders
  PROVE  /\ orders[i] \in Order /\ orders[i].filled <= orders[i].size
         /\ orders[i].ctx.captured =>
              /\ Taken(orders[i].ctx)
              /\ orders[i].ctx.side # "flat" => orders[i].ctx.side \in sides
              /\ orders[i].reduceOnly =>
                   orders[i].ctx.side = Pt!expectedPositionSideForOrder(orders[i].side, TRUE)
              /\ ~late /\ orders[i].filled > 0 => Pt!candidateGroupKey(orders[i]) \in sides
<1>1. orders \in Seq(Order)
  BY DEF Pt!ConfirmationInv, Pt!Types, Order, Ctx
<1>2. orders[i] \in Order
  BY <1>1
<1>3. i \in DOMAIN steps
  <2>1. Len(steps) = Len(orders) /\ \E S : steps \in Seq(S)
    BY DEF Pt!ConfirmationInv, Pt!TypeOK, Pt!Types
  <2> QED
    BY <1>1, <2>1
<1>4. orders[i].filled <= orders[i].size
  BY <1>2, <1>3 DEF Pt!ConfirmationInv, Pt!TypeOK, Order
<1>5. orders[i].ctx \in Ctx
  BY <1>2 DEF Order
<1>6. orders[i].ctx.captured =>
        /\ orders[i].ctx.side \in {"flat"} \cup (sides \cap {"long", "short"})
        /\ orders[i].ctx.side = "flat" <=> orders[i].ctx.size = 0
        /\ orders[i].reduceOnly =>
             orders[i].ctx.side = Pt!expectedPositionSideForOrder(orders[i].side, TRUE)
        /\ ~late /\ orders[i].filled > 0 => Pt!candidateGroupKey(orders[i]) \in sides
  BY DEF Pt!ConfirmationInv, Pt!RecordsInv
<1> QED
  BY <1>2, <1>4, <1>5, <1>6 DEF Taken, Ctx

(* A group is that of one of the two sides.                                *)
LEMMA GroupIsASide ==
  ASSUME NEW o
  PROVE  Pt!candidateGroupKey(o) \in {"long", "short"}
  BY DEF Pt!candidateGroupKey, Pt!expectedPositionSideForOrder

(* The judgement of an order where changes of position are attributable.   *)
LEMMA Judged ==
  ASSUME Pt!ConfirmationInv, Pt!Attributable, NEW i \in DOMAIN orders
  PROVE  /\ Taken(Pt!Boundary(i)) /\ Taken(orders[i].ctx)
         /\ Pt!PositionConfirmed(orders[i], Pt!Boundary(i)) <= orders[i].filled
         /\ Pt!InTurn(orders[i]) =>
              /\ Pt!PositionConfirmed(orders[i], Pt!Boundary(i)) = orders[i].filled
              /\ orders[i].filled > 0 => ~Pt!Contradicted(orders[i], Pt!Boundary(i))
<1> DEFINE o == orders[i]
           b == Pt!Boundary(i)
           key == Pt!candidateGroupKey(o)
<1>1. /\ ~late /\ ~({"long", "short"} \subseteq sides)
      /\ \A k \in DOMAIN orders : orders[k].ctx.captured
  BY DEF Pt!Attributable, Pt!OneSided
<1>2. /\ o \in Order /\ o.filled \in Nat /\ o.filled <= o.size /\ Taken(o.ctx)
      /\ o.ctx.side # "flat" => o.ctx.side \in sides
      /\ o.reduceOnly => o.ctx.side = Pt!expectedPositionSideForOrder(o.side, TRUE)
      /\ o.filled > 0 => key \in sides
  BY <1>1, RecordOf DEF Order
<1>3. Pt!Types /\ pos \in Int /\ (pos # 0 => Pt!SideOf(pos) \in sides) /\ Pt!ChainInv
  BY DEF Pt!ConfirmationInv, Pt!Types, Pt!RecordsInv
<1>4. key \in {"long", "short"}
  BY GroupIsASide
<1>5. /\ \/ /\ b = Pt!capturePreTradePositionContext(pos)
            /\ \A k \in DOMAIN orders : k > i => Pt!candidateGroupKey(orders[k]) # key
         \/ \E j \in DOMAIN orders :
              /\ j > i /\ b = orders[j].ctx /\ Pt!candidateGroupKey(orders[j]) = key
              /\ \A k \in DOMAIN orders : i < k /\ k < j => Pt!candidateGroupKey(orders[k]) # key
  BY <1>3, BoundaryOf
<1>6. Taken(b) /\ (b.side # "flat" => b.side \in sides)
  <2>1. CASE b = Pt!capturePreTradePositionContext(pos)
    <3>1. /\ Taken(b) /\ b.side = Pt!SideOf(pos)
      BY <1>3, <2>1, Captured
    <3>2. pos = 0 => b.side = "flat"
      BY <3>1 DEF Pt!SideOf
    <3> QED
      BY <1>3, <3>1, <3>2
  <2>2. CASE \E j \in DOMAIN orders : b = orders[j].ctx
    BY <1>1, <2>2, RecordOf
  <2> QED
    BY <1>5, <2>1, <2>2
<1>7. CASE key \in sides
  <2>1. \A k \in DOMAIN orders : Pt!candidateGroupKey(orders[k]) # key => orders[k].filled = 0
    <3>1. SUFFICES ASSUME NEW k \in DOMAIN orders, Pt!candidateGroupKey(orders[k]) # key,
                          orders[k].filled # 0
                   PROVE  FALSE
      OBVIOUS
    <3>2. Pt!candidateGroupKey(orders[k]) \in {"long", "short"}
      BY GroupIsASide
    <3>3. orders[k].filled \in Nat
      BY RecordOf DEF Order
    <3>4. orders[k].filled > 0 /\ orders[k].ctx.captured
      BY <1>1, <3>1, <3>3
    <3>5. Pt!candidateGroupKey(orders[k]) \in sides
      BY <1>1, <3>4, RecordOf
    <3> QED
      BY <1>1, <1>4, <1>7, <3>1, <3>2, <3>5
  <2>2. Pt!Signed(b) = Pt!Signed(o.ctx) + Pt!Added(o)
    <3>1. /\ \A j \in DOMAIN orders :
               /\ i < j
               /\ \A k \in DOMAIN orders : i < k /\ k < j => orders[k].filled = 0
               => Pt!Signed(orders[j].ctx) = Pt!Signed(o.ctx) + Pt!Added(o)
          /\ (\A k \in DOMAIN orders : i < k => orders[k].filled = 0) =>
               pos = Pt!Signed(o.ctx) + Pt!Added(o)
      BY <1>1, <1>3 DEF Pt!ChainInv
    <3>2. DOMAIN orders \subseteq Nat
      BY <1>3 DEF Pt!Types
    <3>3. CASE /\ b = Pt!capturePreTradePositionContext(pos)
               /\ \A k \in DOMAIN orders : k > i => Pt!candidateGroupKey(orders[k]) # key
      <4>1. Pt!Signed(b) = pos
        BY <1>3, <3>3, Captured
      <4>2. \A k \in DOMAIN orders : i < k => orders[k].filled = 0
        BY <2>1, <3>2, <3>3
      <4> QED
        BY <3>1, <4>1, <4>2
    <3>4. ASSUME NEW j \in DOMAIN orders, j > i, b = orders[j].ctx,
                 \A k \in DOMAIN orders : i < k /\ k < j => Pt!candidateGroupKey(orders[k]) # key
          PROVE  Pt!Signed(b) = Pt!Signed(o.ctx) + Pt!Added(o)
      <4>1. \A k \in DOMAIN orders : i < k /\ k < j => orders[k].filled = 0
        BY <2>1, <3>4
      <4>2. i < j
        BY <3>2, <3>4
      <4> QED
        BY <3>1, <3>4, <4>1, <4>2
    <3> QED
      BY <1>5, <3>3, <3>4
  <2>3. b.side \in {"flat", key}
    BY <1>1, <1>4, <1>6, <1>7 DEF Taken
  <2>4. /\ Pt!PositionConfirmed(o, b) <= o.filled
        /\ Pt!InTurn(o) => /\ Pt!PositionConfirmed(o, b) = o.filled
                           /\ ~Pt!Contradicted(o, b)
    BY <1>2, <1>6, <2>2, <2>3, MovedIsFilled
  <2> QED
    BY <1>2, <1>6, <2>4
<1>8. CASE key \notin sides
  <2>1. o.filled = 0
    BY <1>2, <1>8
  <2>2. o.ctx.side = "flat"
    <3>1. SUFFICES ASSUME o.ctx.side # "flat" PROVE FALSE
      OBVIOUS
    <3>2. key = o.ctx.side
      BY <1>2, <3>1 DEF Taken, Pt!candidateGroupKey
    <3> QED
      BY <1>2, <1>8, <3>1, <3>2
  <2>3. b.side # key
    BY <1>4, <1>6, <1>8
  <2>4. Pt!PositionConfirmed(o, b) = 0
    BY <1>2, <1>6, <2>1, <2>2, <2>3, UnmovedIsNothing
  <2> QED
    BY <1>2, <1>6, <2>1, <2>4
<1> QED
  BY <1>7, <1>8

(* The change of position that is confirmed is between nothing and the     *)
(* size of the order.                                                      *)
LEMMA ConfirmedInRange ==
  ASSUME Pt!ConfirmationInv, NEW i \in DOMAIN orders
  PROVE  Pt!PositionConfirmed(orders[i], Pt!Boundary(i)) \in 0..orders[i].size
<1> DEFINE o == orders[i]
           b == Pt!Boundary(i)
           target == Pt!expectedPositionSideForOrder(o.side, o.reduceOnly)
           change == IF o.reduceOnly THEN o.ctx.size - b.size
                     ELSE Pt!positionExposureForSide(b, target)
                            - Pt!positionExposureForSide(o.ctx, target)
<1>1. o \in Order /\ \A j \in DOMAIN orders : orders[j] \in Order
  BY RecordOf
<1>2. Pt!Types /\ pos \in Int
  BY DEF Pt!ConfirmationInv, Pt!Types
<1>3. b \in Ctx
  <2>1. Pt!capturePreTradePositionContext(pos) \in Ctx
    BY <1>2, Captured
  <2>2. \A j \in DOMAIN orders : orders[j].ctx \in Ctx
    BY <1>1 DEF Order
  <2> QED
    BY <1>2, <2>1, <2>2, BoundaryOf
<1>4. o.size \in Nat /\ o.size > 0 /\ o.ctx.size \in Nat /\ b.size \in Nat
  BY <1>1, <1>3 DEF Order, Ctx
<1>5. change \in Int
  BY <1>4 DEF Pt!positionExposureForSide
<1>6. Pt!PositionConfirmed(o, b) = Pt!Least(Pt!decimalMax(change, 0), o.size)
  BY DEF Pt!PositionConfirmed
<1> HIDE DEF change
<1> QED
  BY <1>4, <1>5, <1>6 DEF Pt!Least, Pt!decimalMax

(* The verdicts that raise a step report the change of position; a full    *)
(* confirmation needs all of it.                                           *)
LEMMA VerdictOf ==
  ASSUME NEW i, NEW e,
         Pt!PositionConfirmed(orders[i], Pt!Boundary(i)) \in 0..orders[i].size,
         orders[i].size \in Nat, orders[i].size > 0
  PROVE  LET v == Pt!evaluatePostTradeConfirmationGroup(i, e)
             c == Pt!PositionConfirmed(orders[i], Pt!Boundary(i))
         IN /\ v.confirmed \in {0, c, orders[i].size}
            /\ v.status = "confirmed_full" => c = orders[i].size
            /\ v.status \in {"confirmed_partial", "confirmed_partial_event_only",
                             "confirmed_partial_position_only", "pending_position_delta"} =>
                 v.confirmed = c
<1> DEFINE o == orders[i]
           b == Pt!Boundary(i)
           c == Pt!PositionConfirmed(o, b)
           v == Pt!evaluatePostTradeConfirmationGroup(i, e)
<1>1. \/ v = Pt!Verdict("insufficient_context", 0)
      \/ v = Pt!Verdict("missing_reference", 0)
      \/ v = Pt!Verdict("conflicting_event_vs_position", c)
      \/ v = Pt!Verdict("conflicting_event", c)
      \/ v = Pt!Verdict("conflicting_event_vs_position", 0)
      \/ v = Pt!Verdict("invalid_position_delta", 0)
      \/ c = 0 /\ v = Pt!Verdict("pending_position_delta", 0)
      \/ v = Pt!Verdict("confirmed_partial_event_only", c)
      \/ c = o.size /\ v = Pt!Verdict("confirmed_full", o.size)
      \/ v = Pt!Verdict("confirmed_partial", c)
      \/ v = Pt!Verdict("confirmed_partial_position_only", c)
      \/ v = Pt!Verdict("pending_event", 0)
  BY DEF Pt!evaluatePostTradeConfirmationGroup
<1> HIDE DEF v, c
<1>2. /\ v.confirmed \in {0, c, orders[i].size}
      /\ v.status = "confirmed_full" => c = orders[i].size
      /\ v.status \in {"confirmed_partial", "confirmed_partial_event_only",
                       "confirmed_partial_position_only", "pending_position_delta"} =>
           v.confirmed = c
  BY <1>1 DEF Pt!Verdict
<1> QED
  BY <1>2 DEF v, c

(* A patch leaves the step as it is, fills it, or shows the larger of the  *)
(* change of position and what the events report.                          *)
LEMMA PatchOf ==
  ASSUME Pt!ConfirmationInv, NEW i \in DOMAIN orders, NEW e
  PROVE  LET c == Pt!PositionConfirmed(orders[i], Pt!Boundary(i))
             t == Pt!deriveConfirmationPatch(i, e)
         IN \/ t = steps[i]
            \/ c = orders[i].size /\ t = [status |-> "filled", filledSize |-> orders[i].size]
            \/ \E n \in {0, orders[i].filled} :
                 t = [status |-> "partially_filled", filledSize |-> IF c > n THEN c ELSE n]
<1> DEFINE o == orders[i]
           c == Pt!PositionConfirmed(o, Pt!Boundary(i))
           v == Pt!evaluatePostTradeConfirmationGroup(i, e)
           t == Pt!deriveConfirmationPatch(i, e)
           n == Pt!EventFill(o, e, 0)
<1>1. o \in Order /\ o.size \in Nat /\ o.size > 0 /\ o.filled \in Nat /\ o.filled <= o.size
  <2>1. o \in Order /\ o.filled <= o.size
    BY RecordOf
  <2> QED
    BY <2>1 DEF Order
<1>2. c \in 0..o.size
  BY ConfirmedInRange
<1>3. /\ v.status = "confirmed_full" => c = o.size
      /\ v.status \in {"confirmed_partial", "confirmed_partial_event_only",
                       "confirmed_partial_position_only", "pending_position_delta"} =>
           v.confirmed = c
  BY <1>1, <1>2, VerdictOf
<1>4. n \in {0, o.filled}
  BY <1>1 DEF Pt!EventFill, Pt!Least
<1>5. \/ t = steps[i]
      \/ v.status = "confirmed_full" /\ t = [status |-> "filled", filledSize |-> o.size]
      \/ /\ v.status \in {"confirmed_partial", "confirmed_partial_event_only",
                          "confirmed_partial_position_only", "pending_position_delta"}
         /\ t = [status |-> "partially_filled", filledSize |-> Pt!decimalMax(v.confirmed, n)]
  BY DEF Pt!deriveConfirmationPatch
<1> HIDE DEF v, t, n, c
<1>6. \/ t = steps[i]
      \/ c = o.size /\ t = [status |-> "filled", filledSize |-> o.size]
      \/ t = [status |-> "partially_filled", filledSize |-> IF c > n THEN c ELSE n]
  BY <1>3, <1>5 DEF Pt!decimalMax
<1> QED
  BY <1>4, <1>6 DEF t, c

(* Nothing, with either sign.                                              *)
LEMMA MinusNothing ==
  ASSUME NEW x \in Int, x = 0
  PROVE  -x = 0
<1>1. x <= 0 /\ x >= 0
  OBVIOUS
<1>2. \A y \in Int : y <= 0 /\ y >= 0 => -y = 0
  OBVIOUS
<1> QED
  BY <1>1, <1>2, Zenon

(* Initially.                                                              *)
LEMMA ConfirmationInitially ==
  ASSUME Pt!Init
  PROVE  Pt!ConfirmationInv
<1>1. pos = 0 /\ orders = <<>> /\ steps = <<>> /\ late = FALSE
  BY DEF Pt!Init
<1>2. Pt!Types
  <2>1. orders \in Seq(Order) /\ steps \in Seq(Step)
    BY <1>1
  <2>2. pos \in Int /\ late \in BOOLEAN
    <3>1. pos \in Int
      BY <1>1
    <3>2. late \in BOOLEAN
      BY <1>1, Zenon
    <3> QED
      BY <3>1, <3>2
  <2> QED
    BY <2>1, <2>2 DEF Pt!Types, Order, Step, Ctx
<1>3. Pt!TypeOK /\ Pt!RecordsInv /\ Pt!ChainInv /\ Pt!NeverOverstated
  BY <1>1 DEF Pt!TypeOK, Pt!RecordsInv, Pt!ChainInv, Pt!NeverOverstated
<1> QED
  BY <1>2, <1>3 DEF Pt!ConfirmationInv

(* The tables of orders and steps go together.                             *)
LEMMA Together ==
  ASSUME Pt!ConfirmationInv
  PROVE  /\ orders \in Seq(Order) /\ steps \in Seq(Step) /\ Len(steps) = Len(orders)
         /\ DOMAIN steps = DOMAIN orders /\ DOMAIN orders = 1..Len(orders) /\ Len(orders) \in Nat
         /\ pos \in Int /\ late \in BOOLEAN
         /\ \A i \in DOMAIN orders : /\ steps[i] \in Step /\ steps[i].filledSize <= orders[i].size
                                     /\ orders[i].filled \in 0..orders[i].size
<1>1. /\ orders \in Seq(Order) /\ steps \in Seq(Step) /\ Len(steps) = Len(orders)
      /\ pos \in Int /\ late \in BOOLEAN
  BY DEF Pt!ConfirmationInv, Pt!Types, Pt!TypeOK, Order, Step, Ctx
<1>2. DOMAIN steps = DOMAIN orders /\ DOMAIN orders = 1..Len(orders) /\ Len(orders) \in Nat
  BY <1>1
<1>3. \A i \in DOMAIN orders : steps[i] \in Step
  BY <1>1, <1>2
<1>4. \A i \in DOMAIN orders : /\ steps[i].filledSize \in 0..orders[i].size
                               /\ orders[i].filled \in 0..orders[i].size
  BY <1>2 DEF Pt!ConfirmationInv, Pt!TypeOK
<1>5. \A i \in DOMAIN orders : orders[i].size \in Nat
  <2>1. \A i \in DOMAIN orders : orders[i] \in Order
    BY <1>1
  <2> QED
    BY <2>1 DEF Order
<1> QED
  BY <1>1, <1>2, <1>3, <1>4, <1>5

(* A new order starts from the position as it is.                          *)
LEMMA SubmitKeeps ==
  ASSUME Pt!ConfirmationInv, NEW side \in {"buy", "sell"}, NEW reduceOnly \in BOOLEAN,
         NEW size \in 1..MaxSize, Pt!Submit(side, reduceOnly, size)
  PROVE  Pt!ConfirmationInv'
<1>1. PICK ctx \in {Pt!capturePreTradePositionContext(pos), Pt!Unavailable} :
        orders' = Append(orders, [side |-> side, reduceOnly |-> reduceOnly, size |-> size,
                                  filled |-> 0, ctx |-> ctx])
  BY DEF Pt!Submit
<1>2. /\ steps' = Append(steps, [status |-> "submitted", filledSize |-> 0])
      /\ reduceOnly => Pt!SideOf(pos) = Pt!expectedPositionSideForOrder(side, TRUE)
      /\ UNCHANGED <<pos, late, sides>>
  BY DEF Pt!Submit
<1> DEFINE o == [side |-> side, reduceOnly |-> reduceOnly, size |-> size, filled |-> 0, ctx |-> ctx]
           s == [status |-> "submitted", filledSize |-> 0]
           m == Len(orders) + 1
<1>3. /\ orders \in Seq(Order) /\ steps \in Seq(Step) /\ Len(steps) = Len(orders)
      /\ DOMAIN steps = DOMAIN orders /\ DOMAIN orders = 1..Len(orders) /\ Len(orders) \in Nat
      /\ pos \in Int /\ late \in BOOLEAN
      /\ \A i \in DOMAIN orders : /\ steps[i] \in Step /\ steps[i].filledSize <= orders[i].size
                                  /\ orders[i].filled \in 0..orders[i].size
  BY Together
<1>4. ctx \in Ctx /\ (ctx.captured => /\ Taken(ctx) /\ Pt!Signed(ctx) = pos
                                      /\ ctx.side = Pt!SideOf(pos))
  <2>1. Pt!Unavailable \in Ctx /\ ~Pt!Unavailable.captured
    BY DEF Pt!Unavailable, Ctx
  <2> QED
    BY <1>1, <1>3, <2>1, Captured
<1>5. o \in Order /\ s \in Step
  <2>1. size \in Nat \ {0} /\ 0 \in Nat
    OBVIOUS
  <2> QED
    BY <1>4, <2>1 DEF Order, Step
<1>6. /\ o.filled = 0 /\ o.ctx = ctx /\ o.reduceOnly = reduceOnly /\ o.side = side /\ s.filledSize = 0
      /\ o.size = size /\ s.status = "submitted" /\ size \in Nat
  OBVIOUS
<1> HIDE DEF o, s
<1>7. /\ orders' \in Seq(Order) /\ steps' \in Seq(Step)
      /\ Len(orders') = m /\ Len(steps') = m
      /\ DOMAIN orders' = DOMAIN orders \cup {m} /\ DOMAIN steps' = DOMAIN orders \cup {m}
      /\ orders'[m] = o /\ steps'[m] = s
      /\ \A i \in DOMAIN orders : orders'[i] = orders[i] /\ steps'[i] = steps[i] /\ i < m /\ i \in Nat
  <2>1. orders' = Append(orders, o) /\ steps' = Append(steps, s)
    BY <1>1, <1>2 DEF o, s
  <2> QED
    BY <1>3, <1>5, <2>1
<1>8. Pt!Types'
  BY <1>2, <1>3, <1>7 DEF Pt!Types, Order, Step, Ctx
<1>9. Pt!TypeOK'
  <2>1. \A i \in DOMAIN orders : steps[i].status \in {"submitted", "partially_filled", "filled"}
                                 /\ steps[i].filledSize \in 0..orders[i].size
    BY <1>3 DEF Pt!ConfirmationInv, Pt!TypeOK
  <2> QED
    BY <1>3, <1>6, <1>7, <2>1 DEF Pt!TypeOK
<1>10. Pt!NeverOverstated'
  <2>1. Pt!Attributable' => Pt!Attributable
    BY <1>2, <1>7 DEF Pt!Attributable, Pt!OneSided
  <2>2. Pt!Attributable => \A i \in DOMAIN orders : steps[i].filledSize <= orders[i].filled
    BY <1>3 DEF Pt!ConfirmationInv, Pt!NeverOverstated
  <2> QED
    BY <1>6, <1>7, <2>1, <2>2 DEF Pt!NeverOverstated
<1>11. Pt!RecordsInv'
  <2>1. /\ pos # 0 => Pt!SideOf(pos) \in sides
        /\ \A i \in DOMAIN orders : LET q == orders[i] IN q.ctx.captured =>
             /\ q.ctx.side \in {"flat"} \cup (sides \cap {"long", "short"})
             /\ q.ctx.side = "flat" <=> q.ctx.size = 0
             /\ q.reduceOnly => q.ctx.side = Pt!expectedPositionSideForOrder(q.side, TRUE)
             /\ ~late /\ q.filled > 0 => Pt!candidateGroupKey(q) \in sides
    BY DEF Pt!ConfirmationInv, Pt!RecordsInv
  <2>2. o.ctx.captured =>
          /\ o.ctx.side \in {"flat"} \cup (sides \cap {"long", "short"})
          /\ o.ctx.side = "flat" <=> o.ctx.size = 0
          /\ o.reduceOnly => o.ctx.side = Pt!expectedPositionSideForOrder(o.side, TRUE)
          /\ ~late /\ o.filled > 0 => Pt!candidateGroupKey(o) \in sides
    <3>1. pos = 0 => Pt!SideOf(pos) = "flat"
      BY DEF Pt!SideOf
    <3>2. ctx.captured => /\ ctx.side \in {"flat"} \cup (sides \cap {"long", "short"})
                          /\ ctx.side = "flat" <=> ctx.size = 0
      BY <1>4, <2>1, <3>1 DEF Taken
    <3>3. ctx.captured /\ reduceOnly => ctx.side = Pt!expectedPositionSideForOrder(side, TRUE)
      BY <1>2, <1>4
    <3>4. ~(o.filled > 0)
      BY <1>6
    <3>5. o.ctx = ctx /\ o.side = side /\ o.reduceOnly = reduceOnly
      BY <1>6
    <3> QED
      BY <3>2, <3>3, <3>4, <3>5, Zenon
  <2>3. \A i \in DOMAIN orders' : LET q == orders'[i] IN q.ctx.captured =>
          /\ q.ctx.side \in {"flat"} \cup (sides \cap {"long", "short"})
          /\ q.ctx.side = "flat" <=> q.ctx.size = 0
          /\ q.reduceOnly => q.ctx.side = Pt!expectedPositionSideForOrder(q.side, TRUE)
          /\ ~late /\ q.filled > 0 => Pt!candidateGroupKey(q) \in sides
    BY <1>7, <2>1, <2>2
  <2> QED
    BY <1>2, <2>1, <2>3 DEF Pt!RecordsInv, Pt!candidateGroupKey, Pt!expectedPositionSideForOrder,
       Pt!SideOf
<1>12. Pt!ChainInv'
  <2>1. SUFFICES ASSUME ~late
                 PROVE  \A i \in DOMAIN orders' : orders'[i].ctx.captured =>
                   /\ \A j \in DOMAIN orders' :
                        /\ i < j /\ orders'[j].ctx.captured
                        /\ \A k \in DOMAIN orders' : i < k /\ k < j => orders'[k].filled = 0
                        => Pt!Signed(orders'[j].ctx) = Pt!Signed(orders'[i].ctx) + Pt!Added(orders'[i])
                   /\ (\A k \in DOMAIN orders' : i < k => orders'[k].filled = 0) =>
                        pos = Pt!Signed(orders'[i].ctx) + Pt!Added(orders'[i])
    BY <1>2 DEF Pt!ChainInv, Pt!Signed, Pt!Added
  <2>2. \A i \in DOMAIN orders : orders[i].ctx.captured =>
          /\ \A j \in DOMAIN orders :
               /\ i < j /\ orders[j].ctx.captured
               /\ \A k \in DOMAIN orders : i < k /\ k < j => orders[k].filled = 0
               => Pt!Signed(orders[j].ctx) = Pt!Signed(orders[i].ctx) + Pt!Added(orders[i])
          /\ (\A k \in DOMAIN orders : i < k => orders[k].filled = 0) =>
               pos = Pt!Signed(orders[i].ctx) + Pt!Added(orders[i])
    BY <2>1 DEF Pt!ConfirmationInv, Pt!ChainInv
  <2>3. Pt!Added(o) = 0
    <3>1. o.filled = 0 /\ o.filled \in Int
      BY <1>6
    <3>2. -o.filled = 0
      BY <3>1, MinusNothing, Zenon
    <3> QED
      BY <3>1, <3>2, Zenon DEF Pt!Added
  <2>4. ASSUME NEW i \in DOMAIN orders, orders[i].ctx.captured,
               \A k \in DOMAIN orders' : i < k => orders'[k].filled = 0
        PROVE  pos = Pt!Signed(orders[i].ctx) + Pt!Added(orders[i])
    BY <1>7, <2>2, <2>4
  <2>5. ASSUME NEW i \in DOMAIN orders, orders[i].ctx.captured, ctx.captured,
               \A k \in DOMAIN orders' : i < k /\ k < m => orders'[k].filled = 0
        PROVE  Pt!Signed(ctx) = Pt!Signed(orders[i].ctx) + Pt!Added(orders[i])
    <3>1. \A k \in DOMAIN orders : i < k => orders[k].filled = 0
      BY <1>7, <2>5
    <3> QED
      BY <1>4, <2>2, <2>5, <3>1
  <2>6. ASSUME NEW i \in DOMAIN orders, orders[i].ctx.captured, NEW j \in DOMAIN orders,
               i < j, orders[j].ctx.captured,
               \A k \in DOMAIN orders' : i < k /\ k < j => orders'[k].filled = 0
        PROVE  Pt!Signed(orders[j].ctx) = Pt!Signed(orders[i].ctx) + Pt!Added(orders[i])
    <3>1. \A k \in DOMAIN orders : i < k /\ k < j => orders[k].filled = 0
      BY <1>7, <2>6
    <3> QED
      BY <2>2, <2>6, <3>1
  <2>7. ctx.captured => pos = Pt!Signed(ctx) + Pt!Added(o)
    BY <1>3, <1>4, <2>3
  <2>8. ASSUME NEW i \in DOMAIN orders', orders'[i].ctx.captured, NEW j \in DOMAIN orders',
               i < j, orders'[j].ctx.captured,
               \A k \in DOMAIN orders' : i < k /\ k < j => orders'[k].filled = 0
        PROVE  Pt!Signed(orders'[j].ctx) = Pt!Signed(orders'[i].ctx) + Pt!Added(orders'[i])
    <3>1. i \in DOMAIN orders /\ orders'[i] = orders[i]
      BY <1>3, <1>7, <2>8
    <3>2. CASE j = m
      BY <1>6, <1>7, <2>5, <2>8, <3>1, <3>2
    <3>3. CASE j \in DOMAIN orders
      BY <1>7, <2>6, <2>8, <3>1, <3>3
    <3> QED
      BY <1>7, <3>2, <3>3
  <2>9. ASSUME NEW i \in DOMAIN orders', orders'[i].ctx.captured,
               \A k \in DOMAIN orders' : i < k => orders'[k].filled = 0
        PROVE  pos = Pt!Signed(orders'[i].ctx) + Pt!Added(orders'[i])
    <3>1. CASE i = m
      BY <1>6, <1>7, <2>7, <2>9, <3>1
    <3>2. CASE i \in DOMAIN orders
      BY <1>7, <2>4, <2>9, <3>2
    <3> QED
      BY <1>7, <3>1, <3>2
  <2> QED
    BY <2>8, <2>9
<1> QED
  BY <1>8, <1>9, <1>10, <1>11, <1>12 DEF Pt!ConfirmationInv

(* The venue fills a unit of an order.                                     *)
LEMMA FillKeeps ==
  ASSUME Pt!ConfirmationInv, NEW n \in DOMAIN orders, Pt!Fill(n)
  PROVE  Pt!ConfirmationInv'
<1> DEFINE o == orders[n]
           q == [o EXCEPT !.filled = o.filled + 1]
<1>1. /\ o.filled < o.size
      /\ pos' = IF o.side = "buy" THEN pos + 1 ELSE pos - 1
      /\ orders' = [orders EXCEPT ![n] = q]
      /\ late' = (late \/ n < Len(orders))
      /\ sides' = sides \cup {Pt!SideOf(pos')}
      /\ UNCHANGED steps
  BY DEF Pt!Fill
<1>2. /\ orders \in Seq(Order) /\ steps \in Seq(Step) /\ Len(steps) = Len(orders)
      /\ DOMAIN steps = DOMAIN orders /\ DOMAIN orders = 1..Len(orders) /\ Len(orders) \in Nat
      /\ pos \in Int /\ late \in BOOLEAN
      /\ \A i \in DOMAIN orders : /\ steps[i] \in Step /\ steps[i].filledSize <= orders[i].size
                                  /\ orders[i].filled \in 0..orders[i].size
  BY Together
<1>3. o \in Order
  BY <1>2
<1>4. o.filled \in Nat /\ o.size \in Nat /\ o.filled + 1 \in Nat /\ o.side \in {"buy", "sell"}
      /\ o.ctx \in Ctx /\ o.reduceOnly \in BOOLEAN
  BY <1>3 DEF Order
<1>5. /\ q \in Order /\ q.filled = o.filled + 1 /\ q.size = o.size /\ q.side = o.side
      /\ q.ctx = o.ctx /\ q.reduceOnly = o.reduceOnly
  <2>1. q \in Order
    BY <1>3, <1>4, Zenon DEF Order
  <2>2. /\ q.filled = o.filled + 1 /\ q.size = o.size /\ q.side = o.side
        /\ q.ctx = o.ctx /\ q.reduceOnly = o.reduceOnly
    BY <1>3, SMT DEF Order
  <2> QED
    BY <2>1, <2>2
<1> HIDE DEF q, o
<1>6. /\ orders' \in Seq(Order) /\ Len(orders') = Len(orders) /\ DOMAIN orders' = DOMAIN orders
      /\ \A i \in DOMAIN orders : orders'[i] = IF i = n THEN q ELSE orders[i]
  BY <1>1, <1>2, <1>5, UpdatedTable DEF Updated
<1>7. pos' \in Int /\ late' \in BOOLEAN
  BY <1>1, <1>2
<1>8. Pt!Types'
  BY <1>1, <1>2, <1>6, <1>7 DEF Pt!Types, Order, Step, Ctx
<1>9. \A i \in DOMAIN orders : /\ orders'[i].size = orders[i].size /\ orders'[i].ctx = orders[i].ctx
                               /\ orders'[i].reduceOnly = orders[i].reduceOnly
                               /\ orders'[i].side = orders[i].side
                               /\ orders'[i].filled >= orders[i].filled
                               /\ orders'[i].filled \in 0..orders'[i].size
  <2>1. ASSUME NEW i \in DOMAIN orders, i # n
        PROVE  orders'[i] = orders[i] /\ orders[i].filled \in 0..orders[i].size
               /\ orders[i].filled >= orders[i].filled
    BY <1>2, <1>6, <2>1
  <2>2. orders'[n] = q /\ q.filled \in 0..q.size /\ q.filled >= o.filled
    BY <1>1, <1>4, <1>5, <1>6
  <2> QED
    BY <1>5, <2>1, <2>2 DEF o
<1>10. Pt!TypeOK'
  <2>1. \A i \in DOMAIN orders : /\ steps[i].status \in {"submitted", "partially_filled", "filled"}
                                 /\ steps[i].filledSize \in 0..orders[i].size
    BY <1>2 DEF Pt!ConfirmationInv, Pt!TypeOK
  <2> QED
    BY <1>1, <1>2, <1>6, <1>9, <2>1 DEF Pt!TypeOK
<1>11. Pt!NeverOverstated'
  <2>1. Pt!Attributable' => Pt!Attributable
    BY <1>1, <1>6, <1>9 DEF Pt!Attributable, Pt!OneSided
  <2>2. Pt!Attributable => \A i \in DOMAIN orders : steps[i].filledSize <= orders[i].filled
    BY <1>2 DEF Pt!ConfirmationInv, Pt!NeverOverstated
  <2>3. \A i \in DOMAIN orders : /\ steps[i].filledSize \in Int /\ orders[i].filled \in Int
                                 /\ orders'[i].filled \in Int
    BY <1>2, <1>9 DEF Step
  <2> QED
    BY <1>1, <1>2, <1>9, <2>1, <2>2, <2>3 DEF Pt!NeverOverstated
<1>12. /\ pos # 0 => Pt!SideOf(pos) \in sides
       /\ \A i \in DOMAIN orders : LET x == orders[i] IN x.ctx.captured =>
            /\ x.ctx.side \in {"flat"} \cup (sides \cap {"long", "short"})
            /\ x.ctx.side = "flat" <=> x.ctx.size = 0
            /\ x.reduceOnly => x.ctx.side = Pt!expectedPositionSideForOrder(x.side, TRUE)
            /\ ~late /\ x.filled > 0 => Pt!candidateGroupKey(x) \in sides
  BY DEF Pt!ConfirmationInv, Pt!RecordsInv
<1>13. ~late' => ~late /\ n = Len(orders)
  <2>1. ~late' => ~late /\ ~(n < Len(orders))
    BY <1>1, Zenon
  <2>2. ~(n < Len(orders)) => n = Len(orders)
    BY <1>2
  <2> QED
    BY <2>1, <2>2, Zenon
<1>14. ~late => \A i \in DOMAIN orders : orders[i].ctx.captured =>
         /\ \A j \in DOMAIN orders :
              /\ i < j /\ orders[j].ctx.captured
              /\ \A k \in DOMAIN orders : i < k /\ k < j => orders[k].filled = 0
              => Pt!Signed(orders[j].ctx) = Pt!Signed(orders[i].ctx) + Pt!Added(orders[i])
         /\ (\A k \in DOMAIN orders : i < k => orders[k].filled = 0) =>
              pos = Pt!Signed(orders[i].ctx) + Pt!Added(orders[i])
  BY DEF Pt!ConfirmationInv, Pt!ChainInv
<1>15. ~late' /\ o.ctx.captured => pos = Pt!Signed(o.ctx) + Pt!Added(o)
  BY <1>2, <1>13, <1>14 DEF o
<1>16. ~late' /\ o.ctx.captured => Pt!candidateGroupKey(q) \in sides'
  <2>1. SUFFICES ASSUME ~late', o.ctx.captured PROVE Pt!candidateGroupKey(q) \in sides'
    OBVIOUS
  <2>2. Pt!candidateGroupKey(q) = Pt!candidateGroupKey(o)
    BY <1>5 DEF Pt!candidateGroupKey
  <2>3. /\ o.ctx.side \in {"flat"} \cup (sides \cap {"long", "short"})
        /\ o.ctx.side = "flat" <=> o.ctx.size = 0
        /\ o.reduceOnly => o.ctx.side = Pt!expectedPositionSideForOrder(o.side, TRUE)
        /\ o.filled > 0 => Pt!candidateGroupKey(o) \in sides
    BY <1>12, <1>13, <2>1 DEF o
  <2>4. CASE o.ctx.side # "flat"
    BY <1>1, <2>2, <2>3, <2>4 DEF Pt!candidateGroupKey
  <2>5. CASE o.filled > 0
    BY <1>1, <2>2, <2>3, <2>5
  <2>6. CASE o.ctx.side = "flat" /\ ~(o.filled > 0)
    <3>1. o.filled = 0
      BY <1>4, <2>6
    <3>2. Pt!Signed(o.ctx) = 0
      BY <2>6 DEF Pt!Signed
    <3>3. Pt!Added(o) = 0
      <4>1. o.filled \in Int
        BY <1>4
      <4>2. -o.filled = 0
        BY <3>1, <4>1, MinusNothing, Zenon
      <4> QED
        BY <3>1, <4>2, Zenon DEF Pt!Added
    <3>4. pos = 0
      BY <1>15, <2>1, <3>2, <3>3
    <3>5. ~o.reduceOnly
      BY <2>3, <2>6 DEF Pt!expectedPositionSideForOrder
    <3>6. Pt!candidateGroupKey(o) = IF o.side = "buy" THEN "long" ELSE "short"
      BY <1>4, <2>6, <3>5 DEF Pt!candidateGroupKey, Pt!expectedPositionSideForOrder
    <3>7. Pt!SideOf(pos') = IF o.side = "buy" THEN "long" ELSE "short"
      BY <1>1, <3>4 DEF Pt!SideOf
    <3> QED
      BY <1>1, <2>2, <3>6, <3>7
  <2> QED
    BY <2>4, <2>5, <2>6
<1>17. Pt!RecordsInv'
  <2>1. sides \subseteq sides' /\ (pos' # 0 => Pt!SideOf(pos') \in sides')
    BY <1>1
  <2>2. ASSUME NEW i \in DOMAIN orders, orders[i].ctx.captured
        PROVE  /\ orders'[i].ctx.side \in {"flat"} \cup (sides' \cap {"long", "short"})
               /\ orders'[i].ctx.side = "flat" <=> orders'[i].ctx.size = 0
               /\ orders'[i].reduceOnly =>
                    orders'[i].ctx.side = Pt!expectedPositionSideForOrder(orders'[i].side, TRUE)
    <3>1. /\ orders[i].ctx.side \in {"flat"} \cup (sides \cap {"long", "short"})
          /\ orders[i].ctx.side = "flat" <=> orders[i].ctx.size = 0
          /\ orders[i].reduceOnly =>
               orders[i].ctx.side = Pt!expectedPositionSideForOrder(orders[i].side, TRUE)
      BY <1>12, <2>2
    <3>2. /\ orders'[i].ctx = orders[i].ctx /\ orders'[i].reduceOnly = orders[i].reduceOnly
          /\ orders'[i].side = orders[i].side
      BY <1>9
    <3> QED
      BY <2>1, <3>1, <3>2
  <2>3. ASSUME NEW i \in DOMAIN orders, orders'[i].ctx.captured, ~late', orders'[i].filled > 0
        PROVE  Pt!candidateGroupKey(orders'[i]) \in sides'
    <3>1. CASE i = n
      BY <1>5, <1>6, <1>16, <2>3, <3>1
    <3>2. CASE i # n
      BY <1>6, <1>12, <1>13, <2>1, <2>3, <3>2
    <3> QED
      BY <3>1, <3>2
  <2>4. \A i \in DOMAIN orders : orders'[i].ctx.captured = orders[i].ctx.captured
    BY <1>9
  <2> QED
    BY <1>6, <2>1, <2>2, <2>3, <2>4
    DEF Pt!RecordsInv, Pt!candidateGroupKey, Pt!expectedPositionSideForOrder, Pt!SideOf
<1>18. Pt!ChainInv'
  <2>1. SUFFICES ASSUME ~late'
                 PROVE  \A i \in DOMAIN orders' : orders'[i].ctx.captured =>
                   /\ \A j \in DOMAIN orders' :
                        /\ i < j /\ orders'[j].ctx.captured
                        /\ \A k \in DOMAIN orders' : i < k /\ k < j => orders'[k].filled = 0
                        => Pt!Signed(orders'[j].ctx) = Pt!Signed(orders'[i].ctx) + Pt!Added(orders'[i])
                   /\ (\A k \in DOMAIN orders' : i < k => orders'[k].filled = 0) =>
                        pos' = Pt!Signed(orders'[i].ctx) + Pt!Added(orders'[i])
    BY DEF Pt!ChainInv, Pt!Signed, Pt!Added
  <2>2. ~late /\ n = Len(orders) /\ \A i \in DOMAIN orders : i # n => i < n /\ orders'[i] = orders[i]
    BY <1>2, <1>6, <1>13, <2>1
  <2>3. ASSUME NEW i \in DOMAIN orders, orders'[i].ctx.captured, NEW j \in DOMAIN orders,
               i < j, orders'[j].ctx.captured,
               \A k \in DOMAIN orders : i < k /\ k < j => orders'[k].filled = 0
        PROVE  Pt!Signed(orders'[j].ctx) = Pt!Signed(orders'[i].ctx) + Pt!Added(orders'[i])
    <3>1. i # n /\ orders'[i] = orders[i]
      BY <1>2, <2>2, <2>3
    <3>2. \A k \in DOMAIN orders : i < k /\ k < j => orders[k].filled = 0
      BY <1>2, <2>2, <2>3
    <3>3. orders'[j].ctx = orders[j].ctx
      BY <1>9
    <3> QED
      BY <1>14, <2>2, <2>3, <3>1, <3>2, <3>3
  <2>4. ASSUME NEW i \in DOMAIN orders, orders'[i].ctx.captured,
               \A k \in DOMAIN orders : i < k => orders'[k].filled = 0
        PROVE  pos' = Pt!Signed(orders'[i].ctx) + Pt!Added(orders'[i])
    <3>1. orders'[n] = q
      BY <1>6
    <3>2. i = n
      <4>1. q.filled # 0
        BY <1>4, <1>5
      <4> QED
        BY <2>2, <2>4, <3>1, <4>1
    <3>3. pos = Pt!Signed(o.ctx) + Pt!Added(o)
      BY <1>5, <1>15, <2>1, <2>4, <3>1, <3>2
    <3>4. Pt!Signed(o.ctx) \in Int
      BY <1>4 DEF Pt!Signed, Ctx
    <3>5. CASE o.side = "buy"
      <4>1. Pt!Added(q) = o.filled + 1 /\ Pt!Added(o) = o.filled
        BY <1>5, <3>5 DEF Pt!Added
      <4> QED
        BY <1>1, <1>2, <1>4, <1>5, <3>1, <3>2, <3>3, <3>4, <3>5, <4>1
    <3>6. CASE o.side # "buy"
      <4>1. Pt!Added(q) = -(o.filled + 1) /\ Pt!Added(o) = -o.filled
        BY <1>5, <3>6 DEF Pt!Added
      <4> QED
        BY <1>1, <1>2, <1>4, <1>5, <3>1, <3>2, <3>3, <3>4, <3>6, <4>1
    <3> QED
      BY <3>5, <3>6
  <2> QED
    BY <1>6, <2>3, <2>4
<1> QED
  BY <1>8, <1>10, <1>11, <1>17, <1>18 DEF Pt!ConfirmationInv

(* A refresh patches a step.                                               *)
LEMMA EnrichKeeps ==
  ASSUME Pt!ConfirmationInv, NEW i \in DOMAIN orders, NEW e \in Pt!Evidence,
         Pt!enrichVenueSnapshotWithExecutionConfirmation(i, e)
  PROVE  /\ Pt!ConfirmationInv'
         /\ Pt!Attributable /\ Pt!InTurn(orders[i]) =>
              \A k \in DOMAIN steps : steps'[k].filledSize >= steps[k].filledSize
<1> DEFINE o == orders[i]
           t == Pt!deriveConfirmationPatch(i, e)
           c == Pt!PositionConfirmed(o, Pt!Boundary(i))
<1>1. steps' = [steps EXCEPT ![i] = t] /\ UNCHANGED <<pos, orders, late, sides>>
  BY DEF Pt!enrichVenueSnapshotWithExecutionConfirmation
<1>2. /\ orders \in Seq(Order) /\ steps \in Seq(Step) /\ Len(steps) = Len(orders)
      /\ DOMAIN steps = DOMAIN orders
      /\ \A k \in DOMAIN orders : /\ steps[k] \in Step /\ steps[k].filledSize <= orders[k].size
                                  /\ orders[k].filled \in 0..orders[k].size
  BY Together
<1>3. /\ o.size \in Nat /\ o.filled \in Nat /\ o.filled <= o.size
      /\ steps[i].filledSize \in Nat /\ steps[i].filledSize <= o.size
  <2>1. o \in Order /\ steps[i] \in Step
    BY <1>2
  <2> QED
    BY <1>2, <2>1 DEF Order, Step
<1>4. c \in 0..o.size
  BY ConfirmedInRange
<1>5. /\ Pt!Attributable => c <= o.filled
      /\ Pt!Attributable /\ Pt!InTurn(o) => c = o.filled
  BY Judged
<1>6. Pt!Attributable => steps[i].filledSize <= o.filled
  BY <1>2 DEF Pt!ConfirmationInv, Pt!NeverOverstated
<1>7. \/ t = steps[i]
      \/ c = o.size /\ t = [status |-> "filled", filledSize |-> o.size]
      \/ \E n \in {0, o.filled} :
           t = [status |-> "partially_filled", filledSize |-> IF c > n THEN c ELSE n]
  BY PatchOf
<1> HIDE DEF t, c
<1>8. /\ t \in Step /\ t.filledSize <= o.size
      /\ Pt!Attributable => t.filledSize <= o.filled
      /\ Pt!Attributable /\ Pt!InTurn(o) => t.filledSize >= steps[i].filledSize
  <2>1. CASE t = steps[i]
    BY <1>2, <1>3, <1>6, <2>1
  <2>2. CASE c = o.size /\ t = [status |-> "filled", filledSize |-> o.size]
    BY <1>3, <1>5, <1>6, <2>2 DEF Step
  <2>3. ASSUME NEW n \in {0, o.filled},
               t = [status |-> "partially_filled", filledSize |-> IF c > n THEN c ELSE n]
        PROVE  /\ t \in Step /\ t.filledSize <= o.size
               /\ Pt!Attributable => t.filledSize <= o.filled
               /\ Pt!Attributable /\ Pt!InTurn(o) => t.filledSize >= steps[i].filledSize
    <3> DEFINE f == IF c > n THEN c ELSE n
    <3>1. /\ f \in Nat /\ f <= o.size
          /\ Pt!Attributable => f <= o.filled
          /\ Pt!Attributable /\ Pt!InTurn(o) => f >= steps[i].filledSize
      BY <1>3, <1>4, <1>5, <1>6
    <3> HIDE DEF f
    <3>2. t = [status |-> "partially_filled", filledSize |-> f]
      BY <2>3 DEF f
    <3> QED
      BY <3>1, <3>2 DEF Step
  <2> QED
    BY <1>7, <2>1, <2>2, <2>3
<1>9. /\ steps' \in Seq(Step) /\ Len(steps') = Len(steps) /\ DOMAIN steps' = DOMAIN steps
      /\ \A k \in DOMAIN steps : steps'[k] = IF k = i THEN t ELSE steps[k]
  BY <1>1, <1>2, <1>8, UpdatedTable DEF Updated
<1>10. Pt!Types'
  <2>1. /\ pos' \in Int /\ orders' \in Seq(Order) /\ late' \in BOOLEAN
    BY <1>1, <1>2, Together
  <2> QED
    BY <1>9, <2>1 DEF Pt!Types, Order, Step, Ctx
<1>11. Pt!TypeOK'
  <2>1. \A k \in DOMAIN steps : /\ steps[k].status \in {"submitted", "partially_filled", "filled"}
                                /\ steps[k].filledSize \in 0..orders[k].size
                                /\ orders[k].filled \in 0..orders[k].size
    BY DEF Pt!ConfirmationInv, Pt!TypeOK
  <2>2. t.status \in {"submitted", "partially_filled", "filled"} /\ t.filledSize \in 0..o.size
    BY <1>3, <1>8 DEF Step
  <2> QED
    BY <1>1, <1>2, <1>9, <2>1, <2>2 DEF Pt!TypeOK
<1>12. Pt!NeverOverstated'
  <2>1. Pt!Attributable' = Pt!Attributable
    BY <1>1 DEF Pt!Attributable, Pt!OneSided
  <2>2. Pt!Attributable => \A k \in DOMAIN steps : steps[k].filledSize <= orders[k].filled
    BY DEF Pt!ConfirmationInv, Pt!NeverOverstated
  <2> QED
    BY <1>1, <1>8, <1>9, <2>1, <2>2 DEF Pt!NeverOverstated
<1>13. Pt!RecordsInv' /\ Pt!ChainInv'
  BY <1>1 DEF Pt!ConfirmationInv, Pt!RecordsInv, Pt!ChainInv, Pt!SideOf, Pt!candidateGroupKey,
     Pt!expectedPositionSideForOrder, Pt!Signed, Pt!Added
<1>14. Pt!Attributable /\ Pt!InTurn(o) =>
         \A k \in DOMAIN steps : steps'[k].filledSize >= steps[k].filledSize
  <2>1. \A k \in DOMAIN steps : steps[k].filledSize \in Nat
    BY <1>2 DEF Step
  <2> QED
    BY <1>8, <1>9, <2>1
<1> QED
  BY <1>10, <1>11, <1>12, <1>13, <1>14 DEF Pt!ConfirmationInv

(* Every step of the confirmation keeps the invariant, and none shrinks    *)
(* what a step shows while positions can be attributed.                    *)
LEMMA ConfirmationStep ==
  ASSUME Pt!ConfirmationInv, Pt!Next
  PROVE  /\ Pt!ConfirmationInv'
         /\ (Pt!Attributable /\ \A i \in DOMAIN orders : Pt!InTurn(orders[i])) =>
              \A i \in DOMAIN steps : steps'[i].filledSize >= steps[i].filledSize
<1> DEFINE Grows == \A i \in DOMAIN steps : steps'[i].filledSize >= steps[i].filledSize
<1>1. /\ steps \in Seq(Step) /\ DOMAIN steps = DOMAIN orders
      /\ \A i \in DOMAIN steps : steps[i].filledSize \in Nat
  <2>1. /\ steps \in Seq(Step) /\ DOMAIN steps = DOMAIN orders
        /\ \A i \in DOMAIN steps : steps[i] \in Step
    BY Together
  <2> QED
    BY <2>1 DEF Step
<1>2. ASSUME NEW side \in {"buy", "sell"}, NEW reduceOnly \in BOOLEAN, NEW size \in 1..MaxSize,
             Pt!Submit(side, reduceOnly, size)
      PROVE  Pt!ConfirmationInv' /\ Grows
  <2>1. Pt!ConfirmationInv'
    BY <1>2, SubmitKeeps
  <2>2. steps' = Append(steps, [status |-> "submitted", filledSize |-> 0])
    BY <1>2 DEF Pt!Submit
  <2>3. [status |-> "submitted", filledSize |-> 0] \in Step
    BY DEF Step
  <2>4. \A i \in DOMAIN steps : steps'[i] = steps[i]
    BY <1>1, <2>2, <2>3
  <2> QED
    BY <1>1, <2>1, <2>4
<1>3. ASSUME NEW i \in DOMAIN orders, Pt!Fill(i)
      PROVE  Pt!ConfirmationInv' /\ Grows
  <2>1. Pt!ConfirmationInv'
    BY <1>3, FillKeeps
  <2>2. steps' = steps
    BY <1>3 DEF Pt!Fill
  <2> QED
    BY <1>1, <2>1, <2>2
<1>4. ASSUME NEW i \in DOMAIN orders, NEW e \in Pt!Evidence,
             Pt!enrichVenueSnapshotWithExecutionConfirmation(i, e)
      PROVE  /\ Pt!ConfirmationInv'
             /\ Pt!Attributable /\ Pt!InTurn(orders[i]) => Grows
  BY <1>4, EnrichKeeps
<1> HIDE DEF Grows
<1>5. /\ Pt!ConfirmationInv'
      /\ (Pt!Attributable /\ \A i \in DOMAIN orders : Pt!InTurn(orders[i])) => Grows
  BY <1>2, <1>3, <1>4, Zenon DEF Pt!Next
<1> QED
  BY <1>5 DEF Grows

(* The invariant gives what the confirmation promises.                     *)
LEMMA ConfirmationSound ==
  ASSUME Pt!ConfirmationInv
  PROVE  /\ Pt!TypeOK /\ Pt!NeverOverstated /\ Pt!FilledIsConfirmed /\ Pt!ConfirmedOwesNothing
<1>1. Pt!TypeOK /\ Pt!NeverOverstated
  BY DEF Pt!ConfirmationInv
<1>2. ASSUME NEW i \in DOMAIN orders
      PROVE  /\ orders[i].size \in Nat /\ orders[i].size > 0 /\ orders[i].filled \in Nat
             /\ orders[i].filled <= orders[i].size /\ orders[i].reduceOnly \in BOOLEAN
             /\ Pt!PositionConfirmed(orders[i], Pt!Boundary(i)) \in 0..orders[i].size
  <2>1. orders[i] \in Order /\ orders[i].filled <= orders[i].size
    BY RecordOf
  <2>2. Pt!PositionConfirmed(orders[i], Pt!Boundary(i)) \in 0..orders[i].size
    BY ConfirmedInRange
  <2> QED
    BY <2>1, <2>2 DEF Order
<1>3. Pt!ConfirmedOwesNothing
  <2>1. SUFFICES ASSUME Pt!Attributable, NEW i \in DOMAIN orders, NEW e \in Pt!Evidence,
                        Pt!evaluatePostTradeConfirmationGroup(i, e).status = "confirmed_full"
                 PROVE  orders[i].filled = orders[i].size
    BY DEF Pt!ConfirmedOwesNothing
  <2> DEFINE c == Pt!PositionConfirmed(orders[i], Pt!Boundary(i))
  <2>2. c = orders[i].size
    BY <1>2, <2>1, VerdictOf
  <2>3. c <= orders[i].filled
    BY <2>1, Judged
  <2> HIDE DEF c
  <2> QED
    BY <1>2, <2>2, <2>3
<1>4. Pt!FilledIsConfirmed
  <2> DEFINE ev == [seen |-> TRUE, correlation |-> "event_matched_strong", amount |-> TRUE]
  <2>1. SUFFICES ASSUME orders # <<>>, Pt!Attributable,
                        \A i \in DOMAIN orders : Pt!InTurn(orders[i])
                                                 /\ orders[i].filled = orders[i].size
                 PROVE  Pt!executionConfirmationState([i \in DOMAIN orders |-> ev]) = "confirmed"
    BY DEF Pt!FilledIsConfirmed
  <2>2. SUFFICES ASSUME NEW i \in DOMAIN orders
                 PROVE  Pt!evaluatePostTradeConfirmationGroup(i, ev).status = "confirmed_full"
    BY <2>1 DEF Pt!executionConfirmationState
  <2> DEFINE o == orders[i]
             b == Pt!Boundary(i)
             c == Pt!PositionConfirmed(o, b)
  <2>3. /\ o.size \in Nat /\ o.size > 0 /\ o.filled = o.size /\ Pt!InTurn(o)
    BY <1>2, <2>1
  <2>4. Taken(b) /\ Taken(o.ctx) /\ c = o.filled /\ ~Pt!Contradicted(o, b)
    BY <2>1, <2>3, Judged
  <2>5. Pt!Usable(o)
    <3>1. o.reduceOnly => o.ctx.side = Pt!expectedPositionSideForOrder(o.side, TRUE)
      BY <2>4, RecordOf DEF Taken
    <3> QED
      BY <2>4, <3>1 DEF Pt!Usable, Taken, Pt!expectedPositionSideForOrder
  <2>6. /\ ev.seen /\ ev.correlation = "event_matched_strong" /\ ev.amount
    OBVIOUS
  <2> HIDE DEF ev, c, b, o
  <2>7. Pt!EventFill(o, ev, o.size) = o.size
    BY <2>3, <2>6 DEF Pt!EventFill, Pt!Least
  <2>8. b.captured /\ c = o.size /\ c # 0 /\ ~(Pt!EventFill(o, ev, o.size) > c)
    BY <2>3, <2>4, <2>7 DEF Taken
  <2>9. Pt!evaluatePostTradeConfirmationGroup(i, ev) = Pt!Verdict("confirmed_full", o.size)
    BY <2>4, <2>5, <2>6, <2>8 DEF Pt!evaluatePostTradeConfirmationGroup, o, b, c
  <2> QED
    BY <2>9 DEF Pt!Verdict
<1> QED
  BY <1>1, <1>3, <1>4
-----------------------------------------------------------------------------
(* Reconciliation.                                                         *)

(* There are six detectors.                                                *)
LEMMA SixDetectors == DOMAIN Rc!Detectors = 1..6 /\ Len(Rc!Detectors) = 6
  BY DEF Rc!Detectors

(* What a detector pushes: the checks that are candidates, and no others.  *)
LEMMA CandidatesOf ==
  ASSUME NEW S, NEW checks \in Seq(S)
  PROVE  /\ Rc!Candidates(checks) \in Seq(S)
         /\ Rc!ToSet(Rc!Candidates(checks)) = {c \in Rc!ToSet(checks) : Rc!toCandidateFinding(c)}
<1> DEFINE N == Len(checks)
           Is(n) == Rc!toCandidateFinding(checks[n])
           Pushed(x, n) == IF Is(n) THEN Append(x, checks[n]) ELSE x
           Entries(x) == {x[i] : i \in DOMAIN x}
           First(n) == {checks[i] : i \in {j \in 1..n : Is(j)}}
           F == [n \in 1..N |-> [x \in Seq(S) |-> Pushed(x, n)]]
           V == [n \in 0..N |-> {x \in Seq(S) : Entries(x) = First(n)}]
           Body(f, n) == IF n = 0 THEN <<>>
                         ELSE IF Is(n) THEN Append(f[n - 1], checks[n]) ELSE f[n - 1]
           Def(f) == f = [n \in 0..N |-> Body(f, n)]
           pushed == CHOOSE f : Def(f)
<1>0. /\ N \in Nat /\ DOMAIN checks = 1..N
      /\ \A n \in 1..N : checks[n] \in S /\ n \in 0..N /\ n - 1 \in 0..N
  OBVIOUS
<1>1. ASSUME NEW n \in 1..N, NEW x \in V[n - 1]
      PROVE  x \in Seq(S) /\ Pushed(x, n) \in V[n]
  <2>1. n \in Nat /\ n - 1 \in 0..N /\ x \in Seq(S) /\ Entries(x) = First(n - 1)
    <3> HIDE DEF Entries, First, N
    <3> QED BY <1>0
  <2>2. First(n) = First(n - 1) \cup (IF Is(n) THEN {checks[n]} ELSE {})
    <3> HIDE DEF Is, N
    <3> QED BY <1>0
  <2>3. CASE Is(n)
    <3>1. Append(x, checks[n]) \in Seq(S)
      BY <1>0, <2>1
    <3>2. Entries(Append(x, checks[n])) = Entries(x) \cup {checks[n]}
      <4>1. /\ Len(Append(x, checks[n])) = Len(x) + 1 /\ Len(x) \in Nat
            /\ DOMAIN x = 1..Len(x) /\ DOMAIN Append(x, checks[n]) = 1..(Len(x) + 1)
            /\ \A i \in 1..Len(x) : Append(x, checks[n])[i] = x[i]
            /\ Append(x, checks[n])[Len(x) + 1] = checks[n]
        BY <1>0, <2>1
      <4> QED BY <4>1
    <3> HIDE DEF Entries, First, Is, N
    <3>3. Append(x, checks[n]) \in V[n]
      BY <1>0, <2>1, <2>2, <2>3, <3>1, <3>2
    <3> QED BY <2>1, <2>3, <3>3
  <2>4. CASE ~Is(n)
    <3> HIDE DEF Entries, First, Is, N
    <3> QED BY <1>0, <2>1, <2>2, <2>4
  <2> QED BY <2>3, <2>4
<1>2. V \in [0..N -> SUBSET Seq(S)] /\ <<>> \in V[0] /\ Leads(F, N, V)
  <2>1. First(0) = {} /\ Entries(<<>>) = {} /\ <<>> \in Seq(S)
    OBVIOUS
  <2>2. <<>> \in V[0]
    <3>1. 0 \in 0..N
      BY <1>0
    <3>2. <<>> \in {x \in Seq(S) : Entries(x) = First(0)}
      BY <2>1
    <3> HIDE DEF First, Entries, N
    <3> QED BY <3>1, <3>2
  <2> HIDE DEF Pushed, First, Entries, N
  <2>3. V \in [0..N -> SUBSET Seq(S)]
    OBVIOUS
  <2>4. ASSUME NEW n \in 1..N, NEW x \in V[n - 1] PROVE F[n][x] \in V[n]
    <3>1. x \in Seq(S) /\ Pushed(x, n) \in V[n]
      BY <1>1
    <3>2. F[n][x] = Pushed(x, n)
      BY <3>1
    <3> HIDE DEF F, V
    <3> QED BY <3>1, <3>2
  <2> QED BY <2>2, <2>3, <2>4 DEF Leads
<1>3. PICK f \in [0..N -> Seq(S)] : IsLoop(f, N, <<>>, F)
  <2> HIDE DEF F, V, N
  <2> QED BY <1>0, <1>2, Recursion
<1>4. ASSUME NEW n \in 0..N PROVE f[n] = Body(f, n)
  <2>1. CASE n = 0
    BY <1>3, <2>1 DEF IsLoop
  <2>2. CASE n # 0
    <3>1. n \in 1..N /\ n - 1 \in 0..N
      BY <1>0, <2>2
    <3>2. f[n - 1] \in Seq(S)
      BY <1>3, <3>1
    <3> HIDE DEF Is, N
    <3> QED BY <1>3, <2>2, <3>1, <3>2 DEF IsLoop
  <2> QED BY <2>1, <2>2
<1>5. Def(f)
  <2> HIDE DEF Body, N
  <2> QED BY <1>3, <1>4
<1>6. Def(pushed)
  <2> HIDE DEF Def
  <2> QED BY <1>5
<1>7. \A n \in 0..N : pushed[n] = Body(pushed, n)
  <2> HIDE DEF Body, pushed, N
  <2> QED BY <1>6
<1>8. \A n \in 0..N : pushed[n] \in V[n]
  <2>1. pushed[0] \in V[0]
    <3>1. pushed[0] = <<>>
      <4>1. 0 \in 0..N
        BY <1>0
      <4> HIDE DEF pushed, Is, N
      <4> QED BY <1>7, <4>1
    <3> QED BY <1>2, <3>1
  <2>2. ASSUME NEW n \in 1..N, pushed[n - 1] \in V[n - 1] PROVE pushed[n] \in V[n]
    <3>1. pushed[n] = Pushed(pushed[n - 1], n)
      <4> HIDE DEF pushed, Is, N
      <4> QED BY <1>0, <1>7
    <3> HIDE DEF pushed, Pushed, V, N
    <3> QED BY <1>1, <2>2, <3>1
  <2> HIDE DEF pushed, V, N
  <2> QED BY <1>0, <2>1, <2>2, LoopInvariant
<1>9. Rc!Candidates(checks) = pushed[N]
  BY DEF Rc!Candidates
<1>10. pushed[N] \in Seq(S) /\ Entries(pushed[N]) = First(N)
  <2> HIDE DEF pushed, First, Entries, N
  <2> QED BY <1>0, <1>8
<1>11. First(N) = {c \in Entries(checks) : Rc!toCandidateFinding(c)}
  <2> HIDE DEF N
  <2> QED BY <1>0
<1> HIDE DEF pushed, First
<1> QED BY <1>9, <1>10, <1>11 DEF Rc!ToSet

(* The statuses a key can have, and the checks any run can make.           *)
Statuses  == Rc!Open \cup Rc!Closed \cup {"absent"}
AllChecks == UNION {Rc!ChecksOf(WorldOf[w], Rc!ActiveReal(WorldOf[v])) : w \in Worlds, v \in Worlds}

(* What applying a finding does to a status, also a second time.           *)
LEMMA AppliedStatus ==
  ASSUME NEW c, c.active \in BOOLEAN, NEW s \in Statuses
  PROVE  /\ Rc!Applied(c, s) \in Statuses
         /\ Rc!Applied(c, Rc!Applied(c, s)) = Rc!Applied(c, s)
         /\ c.active <=> Rc!Applied(c, s) \in Rc!Open
         /\ Rc!Applied(c, s) = "absent" => s = "absent"
         /\ c.active /\ s \in {"acknowledged", "recovering"} => Rc!Applied(c, s) = s
         /\ ~c.active /\ s = "verified" => Rc!Applied(c, s) = s
         /\ ~c.active /\ s \in {"absent", "verified"} => Rc!Applied(c, s) = s
  BY DEF Statuses, Rc!Applied, Rc!upsertMismatch, Rc!Open, Rc!Closed

(* Findings of the same kind do the same.                                  *)
LEMMA AppliedAlike ==
  ASSUME NEW c, NEW d, c.active = d.active, NEW s
  PROVE  Rc!Applied(c, s) = Rc!Applied(d, s)
  BY DEF Rc!Applied

(* The checks of one detector.                                             *)
LEMMA DetectedChecks ==
  ASSUME NEW w \in Worlds, NEW v \in Worlds, NEW n \in 1..6
  PROVE  LET a == Rc!ActiveReal(WorldOf[v])
             d == Rc!Detect(Rc!Detectors[n], WorldOf[w], a)
         IN /\ d \in Seq(AllChecks)
            /\ Rc!ToSet(d) \subseteq Rc!ChecksOf(WorldOf[w], a)
<1> DEFINE a == Rc!ActiveReal(WorldOf[v])
           d == Rc!Detect(Rc!Detectors[n], WorldOf[w], a)
<1>1. d \in Seq(Rc!ChecksOf(WorldOf[w], a))
  BY ReconciliationAssumption, SixDetectors DEF Rc!ChecksOK
<1>2. Rc!ChecksOf(WorldOf[w], a) \subseteq AllChecks
  BY DEF AllChecks
<1>3. Rc!ToSet(d) \subseteq Rc!ChecksOf(WorldOf[w], a)
  BY SixDetectors DEF Rc!ChecksOf
<1> HIDE DEF d, a
<1>4. d \in Seq(AllChecks)
  BY <1>1, <1>2
<1> QED BY <1>3, <1>4 DEF d, a

(* Every check is active or not.                                           *)
LEMMA CheckIsBoolean ==
  ASSUME NEW w \in Worlds, NEW v \in Worlds,
         NEW c \in Rc!ChecksOf(WorldOf[w], Rc!ActiveReal(WorldOf[v]))
  PROVE  c.active \in BOOLEAN
  BY ReconciliationAssumption DEF Rc!ChecksOK

(* The checks of all detectors so far, one detector later, and at the end. *)
LEMMA ChecksGrow ==
  ASSUME NEW n \in 1..6
  PROVE  Rc!ChecksBefore(n + 1) =
           Rc!ChecksBefore(n) \cup Rc!ToSet(Rc!Detect(Rc!Detectors[n], WorldOf[world], run.active))
<1>1. 1..((n + 1) - 1) = (1..(n - 1)) \cup {n}
  OBVIOUS
<1> QED BY <1>1 DEF Rc!ChecksBefore

(* After the sixth detector these are all checks.                          *)
LEMMA ChecksAtEnd ==
  /\ Rc!ChecksBefore(7) = Rc!ChecksOf(WorldOf[world], run.active)
  /\ \A n \in 0..7 : Rc!ChecksBefore(n) \subseteq Rc!ChecksOf(WorldOf[world], run.active)
  /\ Rc!ChecksBefore(1) = {}
<1>1. 1..(7 - 1) = DOMAIN Rc!Detectors /\ 1..(1 - 1) = {}
      /\ \A n \in 0..7 : 1..(n - 1) \subseteq DOMAIN Rc!Detectors
  BY SixDetectors
<1> QED BY <1>1 DEF Rc!ChecksBefore, Rc!ChecksOf

(* Entries of two lists one after the other, and of a list without its     *)
(* first.                                                                  *)
LEMMA EntriesOfBoth ==
  ASSUME NEW S, NEW s \in Seq(S), NEW t \in Seq(S)
  PROVE  s \o t \in Seq(S) /\ Rc!ToSet(s \o t) = Rc!ToSet(s) \cup Rc!ToSet(t)
<1>1. /\ s \o t \in Seq(S) /\ Len(s) \in Nat /\ Len(t) \in Nat
      /\ DOMAIN (s \o t) = 1..(Len(s) + Len(t)) /\ DOMAIN s = 1..Len(s) /\ DOMAIN t = 1..Len(t)
      /\ \A i \in 1..Len(s) : (s \o t)[i] = s[i]
      /\ \A i \in 1..Len(t) : (s \o t)[Len(s) + i] = t[i]
  OBVIOUS
<1>2. ASSUME NEW i \in 1..(Len(s) + Len(t))
      PROVE  (s \o t)[i] \in Rc!ToSet(s) \cup Rc!ToSet(t)
  <2>1. CASE i <= Len(s)
    BY <1>1, <2>1 DEF Rc!ToSet
  <2>2. CASE i > Len(s)
    <3>1. i - Len(s) \in 1..Len(t) /\ i = Len(s) + (i - Len(s))
      BY <1>1, <2>2
    <3> QED BY <1>1, <3>1 DEF Rc!ToSet
  <2> QED BY <1>1, <2>1, <2>2
<1>3. \A i \in 1..Len(s) : i \in 1..(Len(s) + Len(t))
  BY <1>1
<1>4. \A i \in 1..Len(t) : Len(s) + i \in 1..(Len(s) + Len(t))
  BY <1>1
<1>5. Rc!ToSet(s \o t) \subseteq Rc!ToSet(s) \cup Rc!ToSet(t)
  <2>1. \A x \in Rc!ToSet(s \o t) : \E i \in 1..(Len(s) + Len(t)) : x = (s \o t)[i]
    BY <1>1 DEF Rc!ToSet
  <2> QED BY <1>2, <2>1
<1>6. Rc!ToSet(s) \subseteq Rc!ToSet(s \o t)
  BY <1>1, <1>3 DEF Rc!ToSet
<1>7. Rc!ToSet(t) \subseteq Rc!ToSet(s \o t)
  BY <1>1, <1>4 DEF Rc!ToSet
<1> QED BY <1>1, <1>5, <1>6, <1>7

(* The entries of a list are its first and those of the rest.              *)
LEMMA EntriesOfTail ==
  ASSUME NEW S, NEW s \in Seq(S), s # <<>>
  PROVE  /\ Tail(s) \in Seq(S) /\ Head(s) \in Rc!ToSet(s)
         /\ Rc!ToSet(s) = {Head(s)} \cup Rc!ToSet(Tail(s))
<1>1. /\ Tail(s) \in Seq(S) /\ Len(s) \in Nat \ {0} /\ Len(Tail(s)) = Len(s) - 1 /\ Head(s) = s[1]
      /\ DOMAIN s = 1..Len(s) /\ DOMAIN Tail(s) = 1..(Len(s) - 1)
      /\ \A i \in 1..(Len(s) - 1) : Tail(s)[i] = s[i + 1]
  OBVIOUS
<1>2. 1 \in 1..Len(s) /\ \A i \in 1..(Len(s) - 1) : i + 1 \in 1..Len(s)
  BY <1>1
<1>3. ASSUME NEW i \in 1..Len(s) PROVE s[i] \in {Head(s)} \cup Rc!ToSet(Tail(s))
  <2>1. CASE i = 1
    BY <1>1, <2>1
  <2>2. CASE i # 1
    <3>1. i - 1 \in 1..(Len(s) - 1) /\ (i - 1) + 1 = i
      BY <1>1, <2>2
    <3> QED BY <1>1, <3>1 DEF Rc!ToSet
  <2> QED BY <2>1, <2>2
<1> QED BY <1>1, <1>2, <1>3 DEF Rc!ToSet

(* Statuses, at the start of a run and now.                                *)
LEMMA StatusesOf ==
  ASSUME Rc!ReconciliationInv, NEW k
  PROVE  /\ Rc!StatusOf(k) \in Statuses /\ Rc!AtStart(k) \in Statuses
         /\ k \notin DOMAIN mismatches => Rc!StatusOf(k) = "absent"
         /\ k \notin DOMAIN before => Rc!AtStart(k) = "absent"
<1>1. Rc!StatusOf(k) \in Statuses /\ (k \notin DOMAIN mismatches => Rc!StatusOf(k) = "absent")
  BY DEF Rc!ReconciliationInv, Rc!StatusOf, Statuses
<1>2. "resolved" \in Statuses
  BY DEF Statuses, Rc!Closed
<1>3. Rc!AtStart(k) \in Statuses /\ (k \notin DOMAIN before => Rc!AtStart(k) = "absent")
  BY <1>2 DEF Rc!ReconciliationInv, Rc!AtStart, Statuses
<1> QED BY <1>1, <1>3

(* The record of a run.                                                    *)
Run == [status : {"none", "running", "completed", "failed"},
        detector : 0..(Len(Rc!Detectors) + 1),
        active : {{}} \cup {Rc!ActiveReal(WorldOf[w]) : w \in Worlds}, candidates : Seq(AllChecks)]

(* The invariant, in parts.                                                *)
LEMMA ReconciliationParts ==
  Rc!ReconciliationInv <=>
    /\ world \in Worlds
    /\ \A k \in DOMAIN mismatches : mismatches[k] \in Rc!Open \cup Rc!Closed
    /\ \A k \in DOMAIN before : before[k] \in Rc!Open \cup Rc!Closed
    /\ run \in Run
    /\ run.status = "running" =>
         run.detector > 0 /\ \E w \in Worlds : run.active = Rc!ActiveReal(WorldOf[w])
    /\ quiet /\ run.status \in {"running", "completed"} => Rc!Undisturbed
  BY DEF Rc!ReconciliationInv, Run, AllChecks

(* The same after a step.                                                  *)
LEMMA ReconciliationPartsNext ==
  ASSUME world' \in Worlds,
         \A k \in DOMAIN mismatches' : mismatches'[k] \in Rc!Open \cup Rc!Closed,
         \A k \in DOMAIN before' : before'[k] \in Rc!Open \cup Rc!Closed,
         run' \in Run,
         run'.status = "running" =>
           run'.detector > 0 /\ \E w \in Worlds : run'.active = Rc!ActiveReal(WorldOf[w]),
         quiet' /\ run'.status \in {"running", "completed"} => Rc!Undisturbed'
  PROVE  Rc!ReconciliationInv'
  BY DEF Rc!ReconciliationInv, Run, AllChecks

(* Initially.                                                              *)
LEMMA ReconciliationInitially ==
  ASSUME Rc!Init
  PROVE  Rc!ReconciliationInv
<1>1. /\ run = [status |-> "none", detector |-> 0, active |-> {}, candidates |-> <<>>]
      /\ world \in Worlds /\ mismatches = <<>> /\ before = <<>>
  BY DEF Rc!Init, Rc!NoRun
<1>2. run \in Run
  <2>1. 0 \in 0..(Len(Rc!Detectors) + 1) /\ <<>> \in Seq(AllChecks)
    BY SixDetectors
  <2> QED BY <1>1, <2>1 DEF Run
<1>3. run.status = "none"
  BY <1>1
<1>4. DOMAIN mismatches = {} /\ DOMAIN before = {}
  BY <1>1
<1> QED BY <1>1, <1>2, <1>3, <1>4, ReconciliationParts

(* A run begins: nothing is seen yet, and what is inactive is resolved.    *)
LEMMA StartRunKeeps ==
  ASSUME Rc!ReconciliationInv, Rc!StartRun
  PROVE  Rc!ReconciliationInv'
<1> DEFINE a == Rc!ActiveReal(WorldOf[world])
<1>1. /\ run' = [status |-> "running", detector |-> 1, active |-> a, candidates |-> <<>>]
      /\ mismatches' = [k \in DOMAIN mismatches |->
                          IF Rc!Inactive(k, a) /\ mismatches[k] \in Rc!Open THEN "resolved"
                          ELSE mismatches[k]]
      /\ before' = mismatches /\ world' = world
  BY DEF Rc!StartRun
<1>2. world \in Worlds /\ \A k \in DOMAIN mismatches : mismatches[k] \in Rc!Open \cup Rc!Closed
  BY ReconciliationParts
<1> HIDE DEF a
<1>3. /\ run'.status = "running" /\ run'.detector = 1 /\ run'.active = a
      /\ run'.candidates = <<>>
  BY <1>1
<1>4. run' \in Run
  <2>1. 1 \in 0..(Len(Rc!Detectors) + 1) /\ <<>> \in Seq(AllChecks)
    BY SixDetectors
  <2>2. a \in {Rc!ActiveReal(WorldOf[w]) : w \in Worlds}
    BY <1>2 DEF a
  <2> QED BY <1>1, <2>1, <2>2 DEF Run
<1>5. \A k \in DOMAIN mismatches' : mismatches'[k] \in Rc!Open \cup Rc!Closed
  <2>1. "resolved" \in Rc!Closed
    BY DEF Rc!Closed
  <2> QED BY <1>1, <1>2, <2>1
<1>6. Rc!Undisturbed'
  <2>1. Rc!ChecksBefore(run.detector)' = {}
    <3>1. 1..(run'.detector - 1) = {}
      BY <1>3
    <3> QED BY <3>1 DEF Rc!ChecksBefore
  <2>2. Rc!ToSet(run.candidates)' = {}
    BY <1>3 DEF Rc!ToSet
  <2>3. ASSUME NEW k \in DOMAIN mismatches' \cup DOMAIN before'
        PROVE  Rc!StatusOf(k)' = Rc!AtStart(k)'
    <3>1. k \in DOMAIN mismatches /\ DOMAIN mismatches' = DOMAIN mismatches
      BY <1>1
    <3> QED BY <1>1, <1>3, <3>1 DEF Rc!StatusOf, Rc!AtStart
  <2>4. run'.active = Rc!ActiveReal(WorldOf[world])'
    BY <1>1, <1>3 DEF a
  <2>5. run'.status # "completed"
    BY <1>3
  <2> QED BY <2>1, <2>2, <2>3, <2>4, <2>5 DEF Rc!Undisturbed
<1>7. run'.detector > 0 /\ \E w \in Worlds : run'.active = Rc!ActiveReal(WorldOf[w])
  BY <1>2, <1>3 DEF a
<1> QED BY <1>1, <1>2, <1>4, <1>5, <1>6, <1>7, ReconciliationPartsNext

(* What is left alone when only the run moves on, with its venues.         *)
LEMMA StatusesStay ==
  ASSUME UNCHANGED <<world, mismatches, before>>, run'.active = run.active
  PROVE  /\ \A k : Rc!StatusOf(k)' = Rc!StatusOf(k) /\ Rc!AtStart(k)' = Rc!AtStart(k)
         /\ Rc!Disputed' = Rc!Disputed
         /\ \A n : Rc!ChecksBefore(n)' = Rc!ChecksBefore(n)
  BY DEF Rc!StatusOf, Rc!AtStart, Rc!Disputed, Rc!ChecksBefore

(* A detector adds its checks, those of which it made candidates waiting;  *)
(* the others would change nothing.                                        *)
LEMMA RunDetectorKeeps ==
  ASSUME Rc!ReconciliationInv, Rc!RunDetector
  PROVE  Rc!ReconciliationInv'
<1> DEFINE n == run.detector
           d == Rc!Detect(Rc!Detectors[n], WorldOf[world], run.active)
           new == Rc!Candidates(d)
<1>1. /\ run.status = "running" /\ n \in 1..6 /\ run \in Run
      /\ world \in Worlds
      /\ quiet => Rc!Undisturbed
  BY ReconciliationParts, SixDetectors DEF Rc!RunDetector, Run
<1>2. PICK v \in Worlds : run.active = Rc!ActiveReal(WorldOf[v])
  BY <1>1, ReconciliationParts
<1>3. /\ run' = [run EXCEPT !.detector = n + 1, !.candidates = run.candidates \o new]
      /\ UNCHANGED <<world, mismatches, before, quiet>>
  BY DEF Rc!RunDetector
<1>4. d \in Seq(AllChecks) /\ Rc!ToSet(d) \subseteq Rc!ChecksOf(WorldOf[world], run.active)
  BY <1>1, <1>2, DetectedChecks
<1>5. /\ Rc!ChecksBefore(n + 1) = Rc!ChecksBefore(n) \cup Rc!ToSet(d)
      /\ new \in Seq(AllChecks)
      /\ Rc!ToSet(new) = {c \in Rc!ToSet(d) : Rc!toCandidateFinding(c)}
  BY <1>1, <1>4, ChecksGrow, CandidatesOf
<1> HIDE DEF new, d
<1>6. run.candidates \in Seq(AllChecks) /\ n + 1 \in 0..(Len(Rc!Detectors) + 1)
  BY <1>1, SixDetectors DEF Run
<1>7. /\ run.candidates \o new \in Seq(AllChecks)
      /\ Rc!ToSet(run.candidates \o new) = Rc!ToSet(run.candidates) \cup Rc!ToSet(new)
  BY <1>5, <1>6, EntriesOfBoth
<1>8. /\ run'.status = "running" /\ run'.detector = n + 1 /\ run'.active = run.active
      /\ run'.candidates = run.candidates \o new
  BY <1>1, <1>3 DEF Run
<1>9. run' \in Run
  BY <1>1, <1>3, <1>6, <1>7, Zenon DEF Run
<1>10. ASSUME quiet PROVE Rc!Undisturbed'
  <2>1. /\ run.active = Rc!ActiveReal(WorldOf[world])
        /\ Rc!ToSet(run.candidates) \subseteq Rc!ChecksBefore(n)
        /\ \A k \in DOMAIN mismatches \cup DOMAIN before : Rc!StatusOf(k) = Rc!AtStart(k)
        /\ \A c \in {x \in Rc!ChecksBefore(n) : x.key \notin Rc!Disputed} :
             \/ Rc!StatusOf(c.key) = Rc!Applied(c, Rc!AtStart(c.key))
             \/ c \in Rc!ToSet(run.candidates) /\ Rc!StatusOf(c.key) = Rc!AtStart(c.key)
    BY <1>1, <1>10, SixDetectors DEF Rc!Undisturbed
  <2>2. \A k : Rc!StatusOf(k) = Rc!AtStart(k)
    BY <2>1, StatusesOf
  <2>3. ASSUME NEW c \in Rc!ToSet(d)
        PROVE  \/ c \in Rc!ToSet(new)
               \/ Rc!StatusOf(c.key) = Rc!Applied(c, Rc!AtStart(c.key))
    <3>1. CASE Rc!toCandidateFinding(c)
      BY <1>5, <3>1
    <3>2. CASE ~Rc!toCandidateFinding(c)
      <4>1. ~c.active /\ Rc!StatusOf(c.key) \in {"absent", "verified"}
        BY <3>2 DEF Rc!toCandidateFinding
      <4>2. c.active \in BOOLEAN
        BY <1>1, <1>2, <1>4, CheckIsBoolean
      <4>3. Rc!AtStart(c.key) \in Statuses /\ Rc!StatusOf(c.key) = Rc!AtStart(c.key)
        BY <2>2, StatusesOf
      <4> QED BY <4>1, <4>2, <4>3, AppliedStatus
    <3> QED BY <3>1, <3>2
  <2>4. /\ \A k : Rc!StatusOf(k)' = Rc!StatusOf(k) /\ Rc!AtStart(k)' = Rc!AtStart(k)
        /\ Rc!Disputed' = Rc!Disputed
    BY <1>3, <1>8, StatusesStay
  <2>5. Rc!ChecksBefore(run.detector)' = Rc!ChecksBefore(n) \cup Rc!ToSet(d)
    <3>1. PICK m \in 1..6 : run.detector = m
      BY <1>1
    <3>2. Rc!ChecksBefore(m + 1)' = Rc!ChecksBefore(m + 1)
      BY <1>3, <1>8, StatusesStay
    <3>3. run'.detector = m + 1
      BY <1>8, <3>1
    <3>4. Rc!ChecksBefore(run.detector)' = Rc!ChecksBefore(m + 1)'
      BY <3>3 DEF Rc!ChecksBefore
    <3> QED BY <1>5, <3>1, <3>2, <3>4
  <2>6. Rc!ToSet(run.candidates)' = Rc!ToSet(run.candidates) \cup Rc!ToSet(new)
    BY <1>7, <1>8 DEF Rc!ToSet
  <2>7. run'.active = Rc!ActiveReal(WorldOf[world])' /\ run'.status # "completed"
    BY <1>3, <1>8, <2>1
  <2>8. Rc!ToSet(run.candidates)' \subseteq Rc!ChecksBefore(run.detector)'
    BY <1>5, <2>1, <2>5, <2>6
  <2>9. \A k : Rc!StatusOf(k)' = Rc!AtStart(k)'
    BY <2>2, <2>4
  <2>10. ASSUME NEW c \in Rc!ChecksBefore(run.detector)', c.key \notin Rc!Disputed'
         PROVE  \/ Rc!StatusOf(c.key)' = Rc!Applied(c, Rc!AtStart(c.key))'
                \/ c \in Rc!ToSet(run.candidates)' /\ Rc!StatusOf(c.key)' = Rc!AtStart(c.key)'
    <3>1. \A s : Rc!Applied(c, s)' = Rc!Applied(c, s)
      BY DEF Rc!Applied
    <3>2. Rc!Applied(c, Rc!AtStart(c.key))' = Rc!Applied(c, Rc!AtStart(c.key))
      BY <2>4 DEF Rc!Applied, Rc!upsertMismatch
    <3> QED BY <2>1, <2>3, <2>4, <2>5, <2>6, <2>9, <2>10, <3>2
  <2> QED BY <2>7, <2>8, <2>9, <2>10 DEF Rc!Undisturbed
<1> QED BY <1>1, <1>2, <1>3, <1>8, <1>9, <1>10, ReconciliationParts, ReconciliationPartsNext

(* A finding is applied.  It was waiting, so the status of its key is what *)
(* it was at the start or what applying an equal finding made of it, and   *)
(* applying it (again) gives that; other keys stay.                        *)
LEMMA ApplyKeeps ==
  ASSUME Rc!ReconciliationInv, Rc!applyFindingToMismatch
  PROVE  Rc!ReconciliationInv'
<1>1. /\ run.status = "running" /\ run.detector = 7 /\ run \in Run
      /\ world \in Worlds /\ run.candidates # <<>> /\ run.candidates \in Seq(AllChecks)
      /\ quiet => Rc!Undisturbed
      /\ \A k \in DOMAIN before : before[k] \in Rc!Open \cup Rc!Closed
      /\ \A k \in DOMAIN mismatches : mismatches[k] \in Rc!Open \cup Rc!Closed
  BY ReconciliationParts, SixDetectors DEF Rc!applyFindingToMismatch, Run
<1>2. PICK v \in Worlds : run.active = Rc!ActiveReal(WorldOf[v])
  BY <1>1, ReconciliationParts
<1>3. PICK c0 \in AllChecks : c0 = Head(run.candidates)
  BY <1>1
<1>4. PICK status : status = Rc!Applied(c0, Rc!StatusOf(c0.key))
  OBVIOUS
<1>5. /\ mismatches' = IF status = "absent" THEN mismatches
                       ELSE [k \in DOMAIN mismatches \cup {c0.key} |->
                               IF k = c0.key THEN status ELSE mismatches[k]]
      /\ run' = [run EXCEPT !.candidates = Tail(run.candidates)]
      /\ UNCHANGED <<world, before, quiet>>
  BY <1>3, <1>4 DEF Rc!applyFindingToMismatch
<1>6. /\ run'.status = "running" /\ run'.detector = 7 /\ run'.active = run.active
      /\ run'.candidates = Tail(run.candidates)
  BY <1>1, <1>5 DEF Run
<1>7. /\ Tail(run.candidates) \in Seq(AllChecks) /\ c0 \in Rc!ToSet(run.candidates)
      /\ Rc!ToSet(run.candidates) = {c0} \cup Rc!ToSet(Tail(run.candidates))
  BY <1>1, <1>3, EntriesOfTail
<1>8. run' \in Run
  BY <1>1, <1>5, <1>7, Zenon DEF Run
<1>9. c0.active \in BOOLEAN
  BY CheckIsBoolean, <1>3 DEF AllChecks
<1>10. /\ Rc!StatusOf(c0.key) \in Statuses /\ status \in Statuses
       /\ status = "absent" => Rc!StatusOf(c0.key) = "absent"
  BY <1>4, <1>9, StatusesOf, AppliedStatus
<1>11. \A k \in DOMAIN mismatches' : mismatches'[k] \in Rc!Open \cup Rc!Closed
  BY <1>1, <1>5, <1>10 DEF Statuses
<1>12. /\ Rc!StatusOf(c0.key)' = status
       /\ \A k : k # c0.key => Rc!StatusOf(k)' = Rc!StatusOf(k)
  <2>1. CASE status = "absent"
    BY <1>5, <1>10, <2>1 DEF Rc!StatusOf
  <2>2. CASE status # "absent"
    BY <1>5, <2>2 DEF Rc!StatusOf
  <2> QED BY <2>1, <2>2
<1>13. /\ \A k : Rc!AtStart(k)' = Rc!AtStart(k)
       /\ Rc!Disputed' = Rc!Disputed
       /\ Rc!ChecksBefore(7)' = Rc!ChecksBefore(7)
  BY <1>5, <1>6 DEF Rc!AtStart, Rc!Disputed, Rc!ChecksBefore
<1>14. ASSUME quiet PROVE Rc!Undisturbed'
  <2> DEFINE seen == Rc!ChecksBefore(7)
             waiting == Rc!ToSet(run.candidates)
  <2>1. /\ run.active = Rc!ActiveReal(WorldOf[world])
        /\ waiting \subseteq seen
        /\ \A c \in {x \in seen : x.key \notin Rc!Disputed} :
             \/ Rc!StatusOf(c.key) = Rc!Applied(c, Rc!AtStart(c.key))
             \/ c \in waiting /\ Rc!StatusOf(c.key) = Rc!AtStart(c.key)
        /\ \A k \in DOMAIN mismatches \cup DOMAIN before :
             (\A c \in seen : c.key # k) => Rc!StatusOf(k) = Rc!AtStart(k)
    BY <1>1, <1>14 DEF Rc!Undisturbed
  <2>2. Rc!ChecksBefore(run.detector)' = seen
    <3>1. Rc!ChecksBefore(run.detector)' = Rc!ChecksBefore(7)'
      BY <1>6 DEF Rc!ChecksBefore
    <3> QED BY <1>13, <3>1
  <2>3. Rc!ToSet(run.candidates)' = Rc!ToSet(Tail(run.candidates))
    BY <1>6 DEF Rc!ToSet
  <2>4. seen = Rc!ChecksOf(WorldOf[world], run.active)
    BY ChecksAtEnd
  <2>5. c0 \in seen
    BY <1>7, <2>1
  <2> HIDE DEF seen, waiting
  <2>6. run'.active = Rc!ActiveReal(WorldOf[world])' /\ run'.status # "completed"
    BY <1>5, <1>6, <2>1
  <2>7. Rc!ToSet(run.candidates)' \subseteq Rc!ChecksBefore(run.detector)'
    BY <1>7, <2>1, <2>2, <2>3 DEF waiting
  <2>8. ASSUME NEW c \in seen, c.key \notin Rc!Disputed
        PROVE  \/ Rc!StatusOf(c.key)' = Rc!Applied(c, Rc!AtStart(c.key))
               \/ c \in Rc!ToSet(run.candidates)' /\ Rc!StatusOf(c.key)' = Rc!AtStart(c.key)
    <3>1. CASE c.key # c0.key
      BY <1>7, <1>12, <2>1, <2>3, <2>8, <3>1 DEF waiting
    <3>2. CASE c.key = c0.key
      <4>1. c.active = c0.active /\ c.active \in BOOLEAN
        BY <1>2, <1>1, <2>4, <2>5, <2>8, <3>2, CheckIsBoolean DEF Rc!Disputed
      <4>2. Rc!AtStart(c.key) \in Statuses
        BY StatusesOf
      <4>3. \/ Rc!StatusOf(c.key) = Rc!Applied(c, Rc!AtStart(c.key))
            \/ Rc!StatusOf(c.key) = Rc!AtStart(c.key)
        BY <2>1, <2>8
      <4>4. Rc!StatusOf(c.key)' = Rc!Applied(c, Rc!StatusOf(c.key))
        BY <1>4, <1>12, <3>2, <4>1, AppliedAlike
      <4> QED BY <4>1, <4>2, <4>3, <4>4, AppliedStatus
    <3> QED BY <3>1, <3>2
  <2>9. \A c : Rc!Applied(c, Rc!AtStart(c.key))' = Rc!Applied(c, Rc!AtStart(c.key))
    BY <1>13 DEF Rc!Applied, Rc!upsertMismatch
  <2>10. ASSUME NEW k \in DOMAIN mismatches' \cup DOMAIN before', \A c \in seen : c.key # k
         PROVE  Rc!StatusOf(k)' = Rc!AtStart(k)'
    <3>1. k # c0.key
      BY <2>5, <2>10
    <3>2. k \in DOMAIN mismatches \cup DOMAIN before
      BY <1>5, <3>1
    <3> QED BY <1>12, <1>13, <2>1, <2>10, <3>1, <3>2
  <2>11. ~(run'.detector <= Len(Rc!Detectors))
    BY <1>6, SixDetectors
  <2> QED BY <1>13, <2>2, <2>6, <2>7, <2>8, <2>9, <2>10, <2>11 DEF Rc!Undisturbed
<1>15. world' \in Worlds /\ \A k \in DOMAIN before' : before'[k] \in Rc!Open \cup Rc!Closed
  BY <1>1, <1>5
<1>16. run'.detector > 0 /\ \E w \in Worlds : run'.active = Rc!ActiveReal(WorldOf[w])
  BY <1>2, <1>6
<1>17. quiet' => Rc!Undisturbed'
  BY <1>5, <1>14
<1> QED BY <1>8, <1>11, <1>15, <1>16, <1>17, ReconciliationPartsNext

(* A run completes when no finding waits.                                  *)
LEMMA CompleteKeeps ==
  ASSUME Rc!ReconciliationInv, Rc!completeReconciliationRun
  PROVE  Rc!ReconciliationInv'
<1>1. /\ run.status = "running" /\ run.detector = 7 /\ run \in Run
      /\ world \in Worlds /\ run.candidates = <<>>
      /\ quiet => Rc!Undisturbed
      /\ \A k \in DOMAIN before : before[k] \in Rc!Open \cup Rc!Closed
      /\ \A k \in DOMAIN mismatches : mismatches[k] \in Rc!Open \cup Rc!Closed
  BY ReconciliationParts, SixDetectors DEF Rc!completeReconciliationRun, Run
<1>2. /\ run' = [run EXCEPT !.status = "completed"]
      /\ UNCHANGED <<world, mismatches, before, quiet>>
  BY DEF Rc!completeReconciliationRun
<1>3. /\ run'.status = "completed" /\ run'.detector = run.detector /\ run'.active = run.active
      /\ run'.candidates = run.candidates
  BY <1>1, <1>2 DEF Run
<1>4. run' \in Run
  BY <1>1, <1>2, Zenon DEF Run
<1>5. ASSUME quiet PROVE Rc!Undisturbed'
  <2>1. /\ \A k : Rc!StatusOf(k)' = Rc!StatusOf(k) /\ Rc!AtStart(k)' = Rc!AtStart(k)
        /\ Rc!Disputed' = Rc!Disputed
    BY <1>2, <1>3, StatusesStay
  <2>2. Rc!ChecksBefore(run.detector)' = Rc!ChecksBefore(run.detector)
    BY <1>2, <1>3 DEF Rc!ChecksBefore
  <2>3. Rc!ToSet(run.candidates)' = Rc!ToSet(run.candidates)
    BY <1>3 DEF Rc!ToSet
  <2>4. \A c : Rc!Applied(c, Rc!AtStart(c.key))' = Rc!Applied(c, Rc!AtStart(c.key))
    BY <2>1 DEF Rc!Applied, Rc!upsertMismatch
  <2>5. Rc!Undisturbed /\ run'.candidates = <<>> /\ run'.detector = Len(Rc!Detectors) + 1
    BY <1>1, <1>3, <1>5, SixDetectors
  <2> QED BY <1>2, <1>3, <2>1, <2>2, <2>3, <2>4, <2>5 DEF Rc!Undisturbed
<1>6. run'.status # "running"
  BY <1>3
<1> QED BY <1>1, <1>2, <1>4, <1>5, <1>6, ReconciliationPartsNext

(* A run fails: nothing is said of it.                                     *)
LEMMA FailRunKeeps ==
  ASSUME Rc!ReconciliationInv, Rc!failReconciliationRun
  PROVE  Rc!ReconciliationInv'
<1>1. /\ world \in Worlds /\ run \in Run
      /\ \A k \in DOMAIN before : before[k] \in Rc!Open \cup Rc!Closed
      /\ \A k \in DOMAIN mismatches : mismatches[k] \in Rc!Open \cup Rc!Closed
  BY ReconciliationParts
<1>2. /\ run' = [run EXCEPT !.status = "failed", !.candidates = <<>>]
      /\ UNCHANGED <<world, mismatches, before, quiet>>
  BY DEF Rc!failReconciliationRun
<1>3. run'.status = "failed"
  BY <1>1, <1>2 DEF Run
<1>4. <<>> \in Seq(AllChecks)
  OBVIOUS
<1>5. run' \in Run
  BY <1>1, <1>2, <1>4, Zenon DEF Run
<1> QED BY <1>1, <1>2, <1>3, <1>5, ReconciliationPartsNext

(* The world changes, or an operator moves: the run is no longer quiet.    *)
LEMMA ChangeKeeps ==
  ASSUME Rc!ReconciliationInv, Rc!Change
  PROVE  Rc!ReconciliationInv'
<1>1. ~quiet' /\ world' \in Worlds /\ UNCHANGED <<mismatches, run, before>>
  BY DEF Rc!Change
<1> QED BY <1>1, ReconciliationParts, ReconciliationPartsNext

(* See ChangeKeeps; what the operator makes of a mismatch is a status.     *)
LEMMA OperatorMovesKeeps ==
  ASSUME Rc!ReconciliationInv, NEW k \in DOMAIN mismatches, Rc!OperatorMoves(k)
  PROVE  Rc!ReconciliationInv'
<1>1. ~quiet' /\ UNCHANGED <<world, run, before>>
  BY DEF Rc!OperatorMoves
<1>2. \E s \in Rc!Open \cup Rc!Closed : mismatches' = [mismatches EXCEPT ![k] = s]
  BY DEF Rc!OperatorMoves, Rc!Open, Rc!Closed
<1>3. \A j \in DOMAIN mismatches' : mismatches'[j] \in Rc!Open \cup Rc!Closed
  BY <1>2, ReconciliationParts
<1> QED BY <1>1, <1>3, ReconciliationParts, ReconciliationPartsNext

(* Every step of the component keeps the invariant.                        *)
LEMMA ReconciliationStep ==
  ASSUME Rc!ReconciliationInv, Rc!Next
  PROVE  Rc!ReconciliationInv'
  BY StartRunKeeps, RunDetectorKeeps, ApplyKeeps, CompleteKeeps, FailRunKeeps, ChangeKeeps,
     OperatorMovesKeeps DEF Rc!Next

(* What a completed, undisturbed run found, key by key: where its checks   *)
(* agree the status is what they ask for, elsewhere it is untouched.       *)
LEMMA CompletedStatuses ==
  ASSUME Rc!ReconciliationInv, Rc!JustCompleted
  PROVE  LET checks == Rc!ChecksOf(WorldOf[world], run.active)
         IN /\ \E v \in Worlds : run.active = Rc!ActiveReal(WorldOf[v])
            /\ \A c \in checks : c.key \notin Rc!Disputed =>
                 Rc!StatusOf(c.key) = Rc!Applied(c, Rc!AtStart(c.key))
            /\ \A k \in DOMAIN mismatches \cup DOMAIN before :
                 (\A c \in checks : c.key # k) => Rc!StatusOf(k) = Rc!AtStart(k)
<1>1. Rc!Undisturbed /\ run.status = "completed" /\ world \in Worlds
  BY ReconciliationParts DEF Rc!JustCompleted
<1>2. run.active = Rc!ActiveReal(WorldOf[world]) /\ run.candidates = <<>> /\ run.detector = 7
  BY <1>1, SixDetectors DEF Rc!Undisturbed
<1>3. Rc!ChecksBefore(run.detector) = Rc!ChecksOf(WorldOf[world], run.active)
  BY <1>2, ChecksAtEnd
<1>4. Rc!ToSet(run.candidates) = {}
  BY <1>2 DEF Rc!ToSet
<1> QED BY <1>1, <1>2, <1>3, <1>4 DEF Rc!Undisturbed

(* A key that is not disputed has one verdict, that of each of its checks. *)
LEMMA VerdictOfKey ==
  ASSUME Rc!ReconciliationInv, Rc!JustCompleted, NEW k \in DOMAIN Rc!Verdicts \ Rc!Disputed
  PROVE  \E c \in Rc!ChecksOf(WorldOf[world], run.active) :
           /\ c.key = k /\ c.active \in BOOLEAN
           /\ Rc!Verdicts[k] <=> c.active
           /\ Rc!StatusOf(k) = Rc!Applied(c, Rc!AtStart(k))
<1> DEFINE checks == Rc!ChecksOf(WorldOf[world], run.active)
<1>1. /\ Rc!Verdicts = [j \in {c.key : c \in checks} |-> \E c \in checks : c.key = j /\ c.active]
      /\ Rc!Disputed = {c.key : c \in {x \in checks : \E d \in checks : d.key = x.key /\ d.active # x.active}}
  BY DEF Rc!Verdicts, Rc!Disputed
<1>2. PICK v \in Worlds : run.active = Rc!ActiveReal(WorldOf[v])
  BY CompletedStatuses
<1>3. world \in Worlds
  BY ReconciliationParts
<1>4. \A c \in checks : c.active \in BOOLEAN
  BY <1>2, <1>3, CheckIsBoolean
<1> HIDE DEF checks
<1>5. PICK c \in checks : c.key = k
  BY <1>1
<1>6. \A d \in checks : d.key = k => d.active = c.active
  BY <1>1, <1>5
<1>7. Rc!Verdicts[k] = (\E d \in checks : d.key = k /\ d.active)
  BY <1>1, <1>5, Zenon
<1>8. (\E d \in checks : d.key = k /\ d.active) <=> c.active
  BY <1>4, <1>5, <1>6, Zenon
<1>9. Rc!Verdicts[k] <=> c.active
  BY <1>7, <1>8, Zenon
<1>10. Rc!StatusOf(k) = Rc!Applied(c, Rc!AtStart(k))
  BY <1>5, CompletedStatuses DEF checks
<1> QED BY <1>4, <1>5, <1>9, <1>10 DEF checks

(* The domain of the verdicts are the keys of the checks.                  *)
LEMMA VerdictKeys ==
  DOMAIN Rc!Verdicts = {c.key : c \in Rc!ChecksOf(WorldOf[world], run.active)}
  BY DEF Rc!Verdicts

(* The three properties of reconciliation.                                 *)
LEMMA ReconciliationSound ==
  ASSUME Rc!ReconciliationInv
  PROVE  Rc!RunReflectsWorld /\ Rc!OpenIsBackedOrUnseen /\ Rc!DecisionsKept
<1> SUFFICES ASSUME Rc!JustCompleted
             PROVE  Rc!RunReflectsWorld /\ Rc!OpenIsBackedOrUnseen /\ Rc!DecisionsKept
  BY DEF Rc!RunReflectsWorld, Rc!OpenIsBackedOrUnseen, Rc!DecisionsKept
<1>1. ASSUME NEW k \in DOMAIN Rc!Verdicts \ Rc!Disputed
      PROVE  Rc!Verdicts[k] <=> Rc!StatusOf(k) \in Rc!Open
  <2>1. PICK c : /\ c.key = k /\ c.active \in BOOLEAN /\ (Rc!Verdicts[k] <=> c.active)
                 /\ Rc!StatusOf(k) = Rc!Applied(c, Rc!AtStart(k))
    BY VerdictOfKey
  <2>2. Rc!AtStart(k) \in Statuses
    BY StatusesOf
  <2>3. c.active <=> Rc!StatusOf(k) \in Rc!Open
    BY <2>1, <2>2, AppliedStatus
  <2> QED BY <2>1, <2>3, Zenon
<1>2. ASSUME NEW k \in DOMAIN mismatches \cup DOMAIN before, k \notin DOMAIN Rc!Verdicts
      PROVE  Rc!StatusOf(k) = Rc!AtStart(k)
  BY <1>2, VerdictKeys, CompletedStatuses
<1>3. Rc!RunReflectsWorld
  BY <1>1 DEF Rc!RunReflectsWorld
<1>4. Rc!OpenIsBackedOrUnseen
  <2>1. ASSUME NEW k \in DOMAIN mismatches, mismatches[k] \in Rc!Open, k \notin Rc!Disputed,
               k \in DOMAIN Rc!Verdicts
        PROVE  Rc!Verdicts[k]
    <3>1. Rc!StatusOf(k) \in Rc!Open
      BY <2>1 DEF Rc!StatusOf
    <3> QED BY <1>1, <2>1, <3>1
  <2>2. ASSUME NEW k \in DOMAIN mismatches, mismatches[k] \in Rc!Open,
               k \notin DOMAIN Rc!Verdicts
        PROVE  Rc!Followed(k)
    <3>1. Rc!AtStart(k) \in Rc!Open
      BY <1>2, <2>2 DEF Rc!StatusOf
    <3>2. ~Rc!Inactive(k, run.active)
      BY <3>1 DEF Rc!AtStart, Rc!Open
    <3> QED BY <3>2 DEF Rc!Inactive, Rc!Followed
  <2> QED BY <2>1, <2>2 DEF Rc!OpenIsBackedOrUnseen
<1>5. Rc!DecisionsKept
  <2> DEFINE Active(k) == k \in DOMAIN Rc!Verdicts /\ Rc!Verdicts[k]
  <2>1. ASSUME NEW k \in DOMAIN before, k \notin Rc!Disputed,
               before[k] \in {"acknowledged", "recovering"}, Active(k), Rc!Followed(k)
        PROVE  mismatches[k] = before[k]
    <3>1. Rc!AtStart(k) = before[k]
      BY <2>1 DEF Rc!AtStart, Rc!Followed, Rc!Inactive
    <3>2. PICK c : /\ c.key = k /\ c.active \in BOOLEAN /\ (Rc!Verdicts[k] <=> c.active)
                   /\ Rc!StatusOf(k) = Rc!Applied(c, Rc!AtStart(k))
      BY <2>1, VerdictOfKey
    <3>3. c.active
      BY <2>1, <3>2, Zenon
    <3>4. before[k] \in Statuses
      BY <3>1, StatusesOf
    <3>5. Rc!Applied(c, before[k]) = before[k]
      <4>1. ASSUME NEW s \in Statuses, s \in {"acknowledged", "recovering"}
            PROVE  Rc!Applied(c, s) = s
        BY <3>3, <4>1 DEF Rc!Applied, Rc!upsertMismatch, Rc!Closed
      <4> QED BY <2>1, <3>4, <4>1
    <3>6. Rc!StatusOf(k) = before[k] /\ before[k] # "absent"
      BY <2>1, <3>1, <3>2, <3>5
    <3> QED BY <3>6 DEF Rc!StatusOf
  <2>2. ASSUME NEW k \in DOMAIN before, k \notin Rc!Disputed, before[k] = "verified", ~Active(k)
        PROVE  mismatches[k] = "verified"
    <3>1. Rc!AtStart(k) = "verified"
      BY <2>2 DEF Rc!AtStart, Rc!Open
    <3>2. CASE k \in DOMAIN Rc!Verdicts
      <4>1. PICK c : /\ c.key = k /\ c.active \in BOOLEAN /\ (Rc!Verdicts[k] <=> c.active)
                     /\ Rc!StatusOf(k) = Rc!Applied(c, Rc!AtStart(k))
        BY <2>2, <3>2, VerdictOfKey
      <4>2. ~c.active
        BY <2>2, <3>2, <4>1, Zenon
      <4>3. "verified" \in Statuses
        BY DEF Statuses, Rc!Closed
      <4>4. Rc!StatusOf(k) = "verified"
        BY <3>1, <4>1, <4>2, <4>3, AppliedStatus
      <4> QED BY <4>4 DEF Rc!StatusOf
    <3>3. CASE k \notin DOMAIN Rc!Verdicts
      <4>1. Rc!StatusOf(k) = "verified"
        BY <1>2, <3>1, <3>3
      <4> QED BY <4>1 DEF Rc!StatusOf
    <3> QED BY <3>2, <3>3
  <2> QED BY <2>1, <2>2 DEF Rc!DecisionsKept
<1> QED BY <1>3, <1>4, <1>5
-----------------------------------------------------------------------------
(***************************************************************************)
(* The carry planner.                                                      *)
(***************************************************************************)
(* The running sums of a list of numbers.                                  *)
LEMMA RunningSums ==
  ASSUME NEW s \in Seq(Nat)
  PROVE  \E f \in [0..Len(s) -> Nat] :
           /\ f[0] = 0 /\ \A n \in 1..Len(s) : f[n] = f[n - 1] + s[n]
           /\ Ce!Total(s) = f[Len(s)]
<1> DEFINE N == Len(s)
           F == [n \in 1..N |-> [x \in Nat |-> x + s[n]]]
           V == [n \in 0..N |-> Nat]
           Body(f, n) == IF n = 0 THEN 0 ELSE f[n - 1] + s[n]
           Def(f) == f = [n \in 0..N |-> Body(f, n)]
           sum == CHOOSE f : Def(f)
<1>1. /\ N \in Nat /\ 0 \in 0..N /\ N \in 0..N
      /\ \A n \in 1..N : s[n] \in Nat /\ n \in 0..N /\ n - 1 \in 0..N
  OBVIOUS
<1>2. V \in [0..N -> SUBSET Nat] /\ 0 \in V[0] /\ Leads(F, N, V)
  <2> HIDE DEF N
  <2>1. 0 \in V[0]
    BY <1>1
  <2>2. \A n \in 1..N : \A x \in V[n - 1] : F[n][x] \in V[n]
    BY <1>1
  <2> QED BY <2>1, <2>2 DEF Leads
<1>3. PICK f \in [0..N -> Nat] : IsLoop(f, N, 0, F)
  <2> HIDE DEF F, V, N
  <2> QED BY <1>1, <1>2, Recursion
<1>4. f[0] = 0 /\ \A n \in 1..N : f[n] = f[n - 1] + s[n]
  <2>1. \A n \in 1..N : f[n - 1] \in Nat
    BY <1>1, <1>3
  <2> HIDE DEF N
  <2> QED BY <1>3, <2>1 DEF IsLoop
<1>5. Def(f)
  <2>1. \A n \in 0..N : f[n] = Body(f, n)
    <3> HIDE DEF N
    <3> QED BY <1>1, <1>4
  <2> HIDE DEF Body, N
  <2> QED BY <1>3, <2>1
<1>6. Def(sum)
  <2> HIDE DEF Def
  <2> QED BY <1>5
<1>7. \A n \in 0..N : sum[n] = Body(sum, n)
  <2> HIDE DEF Body, sum, N
  <2> QED BY <1>6
<1>8. sum[N] = f[N]
  <2> DEFINE W == [n \in 0..N |-> {f[n]}]
  <2>1. sum[0] \in W[0]
    <3> HIDE DEF sum, N
    <3> QED BY <1>1, <1>4, <1>7
  <2>2. ASSUME NEW n \in 1..N, sum[n - 1] \in W[n - 1] PROVE sum[n] \in W[n]
    <3> HIDE DEF sum, N
    <3>1. sum[n] = sum[n - 1] + s[n] /\ sum[n - 1] = f[n - 1]
      BY <1>1, <1>7, <2>2
    <3> QED BY <1>1, <1>4, <3>1
  <2>3. \A n \in 0..N : sum[n] \in W[n]
    <3> HIDE DEF sum, W, N
    <3> QED BY <1>1, <2>1, <2>2, LoopInvariant
  <2> HIDE DEF sum, N
  <2> QED BY <1>1, <2>3
<1>9. Ce!Total(s) = sum[N]
  BY DEF Ce!Total
<1> HIDE DEF sum
<1> QED BY <1>4, <1>8, <1>9

(* A number more adds that number.                                         *)
LEMMA TotalGrows ==
  ASSUME NEW s \in Seq(Nat), NEW x \in Nat
  PROVE  /\ Ce!Total(s) \in Nat /\ Ce!Total(Append(s, x)) = Ce!Total(s) + x
<1> DEFINE N == Len(s)
           t == Append(s, x)
<1>1. /\ t \in Seq(Nat) /\ Len(t) = N + 1 /\ t[N + 1] = x /\ N \in Nat
      /\ \A n \in 1..N : t[n] = s[n]
  OBVIOUS
<1> HIDE DEF t
<1>2. PICK f \in [0..N -> Nat] : /\ f[0] = 0 /\ \A n \in 1..N : f[n] = f[n - 1] + s[n]
                                 /\ Ce!Total(s) = f[N]
  BY RunningSums
<1>3. PICK g \in [0..(N + 1) -> Nat] : /\ g[0] = 0 /\ \A n \in 1..(N + 1) : g[n] = g[n - 1] + t[n]
                                       /\ Ce!Total(t) = g[N + 1]
  BY <1>1, RunningSums
<1> HIDE DEF N
<1>4. \A n \in 1..N : n \in 1..(N + 1) /\ n \in 0..N /\ n - 1 \in 0..N
  BY <1>1
<1>5. \A n \in 0..N : g[n] \in [m \in 0..N |-> {f[m]}][n]
  <2> DEFINE W == [m \in 0..N |-> {f[m]}]
  <2>1. g[0] \in W[0]
    BY <1>1, <1>2, <1>3
  <2>2. ASSUME NEW n \in 1..N, g[n - 1] \in W[n - 1] PROVE g[n] \in W[n]
    BY <1>1, <1>2, <1>3, <1>4, <2>2
  <2> HIDE DEF W
  <2>3. \A n \in 0..N : g[n] \in W[n]
    BY <1>1, <2>1, <2>2, LoopInvariant
  <2> QED BY <2>3 DEF W
<1>6. g[N] = f[N] /\ g[N + 1] = g[N] + x /\ f[N] \in Nat
  <2>1. N \in 0..N /\ N + 1 \in 1..(N + 1) /\ (N + 1) - 1 = N
    BY <1>1
  <2> QED BY <1>1, <1>2, <1>3, <1>5, <2>1
<1> QED BY <1>2, <1>3, <1>6 DEF t

(* The same of a sum over the rows of a table.                             *)
LEMMA SumsOfTable ==
  ASSUME NEW N \in Nat, NEW f \in [1..N -> Nat]
  PROVE  /\ Ce!Total(f) \in Nat
         /\ \A g \in [1..(N + 1) -> Nat] :
              (\A n \in 1..N : g[n] = f[n]) => Ce!Total(g) = Ce!Total(f) + g[N + 1]
<1>1. f \in Seq(Nat)
  BY SeqDef
<1>2. Ce!Total(f) \in Nat
  BY <1>1, TotalGrows
<1>3. ASSUME NEW g \in [1..(N + 1) -> Nat], \A n \in 1..N : g[n] = f[n]
      PROVE  Ce!Total(g) = Ce!Total(f) + g[N + 1]
  <2>1. g = Append(f, g[N + 1])
    BY <1>3, AppendedEntry
  <2>2. g[N + 1] \in Nat
    OBVIOUS
  <2> QED BY <1>1, <2>1, <2>2, TotalGrows
<1> QED BY <1>2, <1>3

(* Without its first number a list adds up to that much less.              *)
LEMMA TotalShrinks ==
  ASSUME NEW s \in Seq(Nat), s # <<>>
  PROVE  /\ Tail(s) \in Seq(Nat) /\ s[1] \in Nat
         /\ Ce!Total(s) = s[1] + Ce!Total(Tail(s)) /\ Ce!Total(Tail(s)) \in Nat
<1> DEFINE N == Len(s)
           t == Tail(s)
<1>1. /\ N \in Nat \ {0} /\ s[1] \in Nat /\ t \in Seq(Nat) /\ Len(t) = N - 1
      /\ \A n \in 1..(N - 1) : t[n] = s[n + 1]
  OBVIOUS
<1> HIDE DEF t
<1>2. PICK f \in [0..N -> Nat] : /\ f[0] = 0 /\ \A n \in 1..N : f[n] = f[n - 1] + s[n]
                                 /\ Ce!Total(s) = f[N]
  BY RunningSums
<1>3. PICK g \in [0..(N - 1) -> Nat] : /\ g[0] = 0 /\ \A n \in 1..(N - 1) : g[n] = g[n - 1] + t[n]
                                       /\ Ce!Total(t) = g[N - 1]
  BY <1>1, RunningSums
<1> HIDE DEF N
<1>4. PICK M \in Nat : M = N - 1 /\ N = M + 1
  BY <1>1
<1>5. \A n \in 0..M : g[n] \in [m \in 0..M |-> {f[m + 1] - s[1]}][n]
  <2> DEFINE W == [m \in 0..M |-> {f[m + 1] - s[1]}]
  <2>1. f[1] = s[1] /\ f[1] - s[1] = 0
    <3>1. 1 \in 1..N /\ 1 - 1 = 0
      BY <1>1
    <3> QED BY <1>1, <1>2, <3>1
  <2>2. g[0] \in W[0]
    BY <1>3, <1>4, <2>1
  <2>3. ASSUME NEW n \in 1..M, g[n - 1] \in W[n - 1] PROVE g[n] \in W[n]
    <3>1. /\ n - 1 \in 0..M /\ n \in 0..M /\ n \in 1..(N - 1) /\ n + 1 \in 1..N
          /\ (n - 1) + 1 = n /\ (n + 1) - 1 = n /\ n \in 0..N /\ n + 1 \in 0..N
      BY <1>4
    <3>2. g[n - 1] = f[n] - s[1]
      BY <2>3, <3>1
    <3>3. g[n] = g[n - 1] + t[n] /\ f[n + 1] = f[n] + s[n + 1] /\ t[n] = s[n + 1]
      BY <1>1, <1>2, <1>3, <3>1
    <3>4. f[n] \in Nat /\ s[n + 1] \in Nat /\ s[1] \in Nat
      <4>1. \A k \in 1..N : s[k] \in Nat
        BY DEF N
      <4> QED BY <1>1, <1>2, <3>1, <4>1
    <3>5. ASSUME NEW a \in Nat, NEW b \in Nat, NEW c \in Nat PROVE (a - b) + c = (a + c) - b
      OBVIOUS
    <3>6. g[n] = f[n + 1] - s[1]
      BY <3>2, <3>3, <3>4, <3>5
    <3> QED BY <3>1, <3>6
  <2> HIDE DEF W
  <2>4. \A n \in 0..M : g[n] \in W[n]
    BY <2>2, <2>3, LoopInvariant
  <2> QED BY <2>4 DEF W
<1>6. g[N - 1] = f[N] - s[1] /\ f[N] \in Nat /\ g[N - 1] \in Nat
  <2>1. M \in 0..M /\ N - 1 \in 0..(N - 1) /\ N \in 0..N
    BY <1>4
  <2> QED BY <1>1, <1>2, <1>3, <1>4, <1>5, <2>1
<1> QED BY <1>1, <1>2, <1>3, <1>6 DEF t

(* Nothing adds up to nothing.                                             *)
LEMMA TotalOfNothing ==
  ASSUME NEW N \in Nat, NEW f \in [1..N -> {0}]
  PROVE  Ce!Total(f) = 0
<1>1. f \in Seq(Nat) /\ Len(f) = N
  BY SeqDef
<1>2. PICK g \in [0..N -> Nat] : /\ g[0] = 0 /\ \A n \in 1..N : g[n] = g[n - 1] + f[n]
                                 /\ Ce!Total(f) = g[N]
  BY <1>1, RunningSums
<1> DEFINE W == [n \in 0..N |-> {0}]
<1>3. g[0] \in W[0]
  BY <1>2
<1>4. ASSUME NEW n \in 1..N, g[n - 1] \in W[n - 1] PROVE g[n] \in W[n]
  BY <1>2, <1>4
<1>5. \A n \in 0..N : g[n] \in W[n]
  <2> HIDE DEF W
  <2> QED BY <1>3, <1>4, LoopInvariant
<1> QED BY <1>2, <1>5

(* What the recommendations of a list ask for.                             *)
AskedBy(c) == Ce!Total([n \in DOMAIN c |-> c[n].notional])

(* One more recommendation asks for that much more.                        *)
LEMMA NotionalsGrow ==
  ASSUME NEW R, \A r \in R : r.notional \in Nat, NEW c \in Seq(R), NEW r \in R
  PROVE  AskedBy(c) \in Nat /\ AskedBy(Append(c, r)) = AskedBy(c) + r.notional
<1> DEFINE f == [n \in DOMAIN c |-> c[n].notional]
           t == Append(c, r)
           g == [n \in DOMAIN t |-> t[n].notional]
<1>1. PICK N \in Nat : N = Len(c) /\ DOMAIN c = 1..N /\ DOMAIN t = 1..(N + 1)
  OBVIOUS
<1>2. t \in Seq(R) /\ t[N + 1] = r /\ \A n \in 1..N : t[n] = c[n]
  BY <1>1
<1>3. f \in [1..N -> Nat]
  BY <1>1
<1> HIDE DEF t
<1>4. g \in [1..(N + 1) -> Nat]
  BY <1>1, <1>2
<1>5. g[N + 1] = r.notional /\ \A n \in 1..N : g[n] = f[n]
  BY <1>1, <1>2
<1> HIDE DEF f, g
<1>6. Ce!Total(f) \in Nat /\ Ce!Total(g) = Ce!Total(f) + r.notional
  BY <1>3, <1>4, <1>5, SumsOfTable
<1> QED BY <1>6 DEF f, g, t, AskedBy

(* A recommendation to deploy without orders asks for nothing.             *)
Advice(r) ==
  /\ r.notional \in Nat
  /\ ~Ce!IsReduction(r) /\ r.plannedOrders = <<>> => r.notional = 0

(* What a deployment is recommended from is such advice, and no reduction. *)
LEMMA RecommendedIsAdvice ==
  ASSUME NEW o, o.notional \in Nat, NEW linked
  PROVE  Advice(Ce!Recommended(o, linked)) /\ ~Ce!IsReduction(Ce!Recommended(o, linked))
BY DEF Advice, Ce!Recommended, Ce!IsReduction

(* What FillTarget chooses stays within the target.                        *)
LEMMA FilledTarget ==
  ASSUME NEW opps, opps \in Seq(Ce!ToSet(opps)), \A n \in DOMAIN opps : opps[n].notional \in Nat,
         NEW target \in Nat
  PROVE  /\ Ce!FillTarget(opps, target) \in Seq({Ce!Recommended(o, TRUE) : o \in Ce!ToSet(opps)})
         /\ AskedBy(Ce!FillTarget(opps, target)) <= target
<1> DEFINE N == Len(opps)
           R == {Ce!Recommended(o, TRUE) : o \in Ce!ToSet(opps)}
           U == [left : Int, chosen : Seq(R)]
           Good == {acc \in U : acc.left >= 0 /\ AskedBy(acc.chosen) + acc.left = target}
           Rec(n) == Ce!Recommended(opps[n], TRUE)
           Pass(acc, n) == IF acc.left <= 0 \/ Rec(n).notional > acc.left THEN acc
                           ELSE [left |-> acc.left - Rec(n).notional, chosen |-> Append(acc.chosen, Rec(n))]
           Start == [left |-> target, chosen |-> <<>>]
           F == [n \in 1..N |-> [x \in Good |-> Pass(x, n)]]
           V == [n \in 0..N |-> Good]
           Body(f, n) == IF n = 0 THEN Start ELSE Pass(f[n - 1], n)
           Def(f) == f = [n \in 0..N |-> Body(f, n)]
           fill == CHOOSE f : Def(f)
<1>0. /\ N \in Nat /\ 0 \in 0..N /\ N \in 0..N
      /\ \A n \in 1..N : n \in DOMAIN opps /\ n \in 0..N /\ n - 1 \in 0..N
  OBVIOUS
<1>1. \A n \in 1..N : Rec(n) \in R
  BY <1>0 DEF Ce!ToSet
<1>2. \A r \in R : r.notional \in Nat
  BY RecommendedIsAdvice DEF Ce!ToSet, Advice
<1> HIDE DEF Rec, R
<1>3. Start \in Good
  <2>1. <<>> \in Seq(R) /\ AskedBy(<<>>) = 0
    <3>1. [n \in DOMAIN <<>> |-> (<<>>)[n].notional] \in [1..0 -> {0}]
      OBVIOUS
    <3>2. Ce!Total([n \in DOMAIN <<>> |-> (<<>>)[n].notional]) = 0
      <4> DEFINE e == [n \in DOMAIN <<>> |-> (<<>>)[n].notional]
      <4> HIDE DEF e
      <4> QED BY <3>1, TotalOfNothing DEF e
    <3> QED BY <3>2 DEF AskedBy
  <2> QED BY <2>1
<1>4. ASSUME NEW n \in 1..N, NEW x \in Good PROVE Pass(x, n) \in Good
  <2>1. x \in U /\ x.left \in Int /\ x.chosen \in Seq(R) /\ x.left >= 0 /\ AskedBy(x.chosen) + x.left = target
    OBVIOUS
  <2>2. CASE x.left <= 0 \/ Rec(n).notional > x.left
    BY <2>2
  <2>3. CASE ~(x.left <= 0 \/ Rec(n).notional > x.left)
    <3>1. PICK k \in Nat : k = Rec(n).notional
      BY <1>1, <1>2
    <3>2. /\ AskedBy(x.chosen) \in Nat
          /\ AskedBy(Append(x.chosen, Rec(n))) = AskedBy(x.chosen) + k
      BY <1>1, <1>2, <2>1, <3>1, NotionalsGrow
    <3>3. Append(x.chosen, Rec(n)) \in Seq(R)
      BY <1>1, <2>1
    <3>4. PICK c : c = Append(x.chosen, Rec(n))
      OBVIOUS
    <3>5. x.left - k \in Int /\ x.left - k >= 0 /\ AskedBy(c) + (x.left - k) = target
      BY <2>1, <2>3, <3>1, <3>2, <3>4
    <3>6. Pass(x, n) = [left |-> x.left - k, chosen |-> c]
      BY <2>3, <3>1, <3>4
    <3>7. [left |-> x.left - k, chosen |-> c] \in Good
      BY <3>3, <3>4, <3>5
    <3> QED BY <3>6, <3>7
  <2> QED BY <2>2, <2>3
<1> HIDE DEF Pass, Start
<1>5. V \in [0..N -> SUBSET Good] /\ Start \in V[0] /\ Leads(F, N, V)
  <2> HIDE DEF N, Good
  <2>1. Start \in V[0]
    BY <1>0, <1>3
  <2>2. \A n \in 1..N : \A x \in V[n - 1] : F[n][x] \in V[n]
    BY <1>0, <1>4
  <2> QED BY <2>1, <2>2 DEF Leads
<1>6. PICK f \in [0..N -> Good] : IsLoop(f, N, Start, F)
  <2> HIDE DEF F, V, N, Good
  <2> QED BY <1>0, <1>5, Recursion
<1> HIDE DEF Good
<1>7. Def(f)
  <2>1. \A n \in 0..N : f[n] = Body(f, n)
    <3> HIDE DEF N
    <3>1. \A n \in 1..N : f[n - 1] \in Good
      BY <1>0, <1>6
    <3>2. f[0] = Start
      BY <1>6 DEF IsLoop
    <3>3. ASSUME NEW n \in 1..N PROVE f[n] = Pass(f[n - 1], n)
      BY <1>6, <3>1 DEF IsLoop
    <3>4. \A n \in 0..N : n = 0 \/ n \in 1..N
      BY <1>0
    <3> QED BY <3>2, <3>3, <3>4
  <2> HIDE DEF Body, N
  <2> QED BY <1>6, <2>1
<1>8. Def(fill)
  <2> HIDE DEF Def
  <2> QED BY <1>7
<1>9. \A n \in 0..N : fill[n] = Body(fill, n)
  <2> HIDE DEF Body, fill, N
  <2> QED BY <1>8
<1>10. \A n \in 0..N : fill[n] \in V[n]
  <2> HIDE DEF fill, N
  <2>1. fill[0] \in V[0]
    BY <1>0, <1>3, <1>9
  <2>2. ASSUME NEW n \in 1..N, fill[n - 1] \in V[n - 1] PROVE fill[n] \in V[n]
    <3>1. fill[n] = Pass(fill[n - 1], n) /\ fill[n - 1] \in Good
      BY <1>0, <1>9, <2>2
    <3> QED BY <1>0, <1>4, <3>1
  <2> HIDE DEF V
  <2> QED BY <1>0, <2>1, <2>2, LoopInvariant
<1>11. Ce!FillTarget(opps, target) = fill[N].chosen
  BY Zenon DEF Ce!FillTarget, Pass, Start, Rec
<1>12. fill[N] \in Good
  <2> HIDE DEF fill, N
  <2> QED BY <1>0, <1>10
<1> HIDE DEF fill
<1>13. PICK a \in Good : a = fill[N]
  BY <1>12
<1>14. a.chosen \in Seq(R) /\ a.left \in Int /\ a.left >= 0 /\ AskedBy(a.chosen) + a.left = target
  BY DEF Good
<1>15. AskedBy(a.chosen) \in Nat
  <2>1. \A c \in Seq({}) : c = <<>>
    OBVIOUS
  <2>2. CASE R # {}
    BY <1>2, <1>14, <2>2, NotionalsGrow
  <2>3. CASE R = {}
    <3>1. a.chosen = <<>>
      BY <1>14, <2>1, <2>3
    <3>2. AskedBy(<<>>) \in Nat
      <4>1. PICK r : r = [notional |-> 0]
        OBVIOUS
      <4>2. <<>> \in Seq({r}) /\ \A x \in {r} : x.notional \in Nat
        BY <4>1
      <4> QED BY <4>2, NotionalsGrow
    <3> QED BY <3>1, <3>2
  <2> QED BY <2>2, <2>3
<1> QED BY <1>11, <1>13, <1>14, <1>15 DEF R

(* A list is a list of its members.                                        *)
LEMMA ListOfMembers ==
  ASSUME NEW S, NEW s \in Seq(S)
  PROVE  s \in Seq(Ce!ToSet(s))
<1>1. \A i \in DOMAIN s : s[i] \in Ce!ToSet(s)
  BY DEF Ce!ToSet
<1> QED BY <1>1

(* What a list of intents asks for, and what is left without the first.    *)
Asked(s) == Ce!Total([k \in DOMAIN s |-> s[k].recommendation.notional])

(* Without its first intent a list asks for that much less.                *)
LEMMA AskedShrinks ==
  ASSUME NEW s, s \in Seq(Ce!ToSet(s)), s # <<>>,
         \A k \in DOMAIN s : s[k].recommendation.notional \in Nat
  PROVE  /\ Asked(s) = s[1].recommendation.notional + Asked(Tail(s)) /\ Asked(Tail(s)) \in Nat
         /\ Tail(s) \in Seq(Ce!ToSet(Tail(s))) /\ 1 \in DOMAIN s
         /\ \A k \in DOMAIN Tail(s) : k + 1 \in DOMAIN s /\ Tail(s)[k] = s[k + 1]
         /\ Len(s) # 1 => Tail(s) # <<>>
<1> DEFINE f == [k \in DOMAIN s |-> s[k].recommendation.notional]
           t == Tail(s)
           g == [k \in DOMAIN t |-> t[k].recommendation.notional]
<1>1. PICK N \in Nat : Len(s) = N + 1 /\ DOMAIN s = 1..(N + 1) /\ DOMAIN t = 1..N /\ Len(t) = N
  OBVIOUS
<1>2. /\ t \in Seq(Ce!ToSet(s)) /\ \A k \in 1..N : k + 1 \in 1..(N + 1) /\ t[k] = s[k + 1]
  BY <1>1
<1>3. t \in Seq(Ce!ToSet(t))
  BY <1>2, ListOfMembers
<1>4. f \in [1..(N + 1) -> Nat]
  BY <1>1
<1>5. f \in Seq(Nat) /\ Len(f) = N + 1
  <2> HIDE DEF f
  <2>1. N + 1 \in Nat
    OBVIOUS
  <2> QED BY <1>4, <2>1, SeqDef
<1>6. g = Tail(f)
  <2>1. \A k \in 1..N : g[k] = f[k + 1]
    BY <1>1, <1>2
  <2>2. g = [k \in 1..N |-> g[k]]
    BY <1>1
  <2> HIDE DEF f, g
  <2>3. Tail(f) \in Seq(Nat) /\ Len(Tail(f)) = N /\ \A k \in 1..N : Tail(f)[k] = f[k + 1]
    BY <1>5
  <2>4. Tail(f) \in [1..N -> Nat]
    BY <2>3, LenProperties
  <2> QED BY <2>1, <2>2, <2>3, <2>4
<1>7. f[1] = s[1].recommendation.notional
  BY <1>1
<1> HIDE DEF f, g
<1>8. Ce!Total(f) = f[1] + Ce!Total(g) /\ Ce!Total(g) \in Nat
  BY <1>5, <1>6, TotalShrinks
<1>9. Len(s) # 1 => t # <<>>
  BY <1>1
<1>10. Asked(s) = Ce!Total(f) /\ Asked(t) = Ce!Total(g)
  BY DEF f, g, Asked
<1> QED BY <1>1, <1>2, <1>3, <1>7, <1>8, <1>9, <1>10

(* The actions an evaluation has created, and what one more adds.          *)
LEMMA CreatedGrows ==
  ASSUME carryActions \in Seq(Ce!ToSet(carryActions)),
         \A n \in DOMAIN carryActions : carryActions[n].intent.recommendation.notional \in Nat,
         NEW a, a.intent.recommendation.notional \in Nat, carryActions' = Append(carryActions, a), NEW e
  PROVE  /\ Ce!Created(e) \in Nat
         /\ Ce!Created(e)' = Ce!Created(e) + (IF a.intent.executable /\ a.of = e
                                              THEN a.intent.recommendation.notional ELSE 0)
<1> DEFINE Counts(x) == IF x.intent.executable /\ x.of = e THEN x.intent.recommendation.notional ELSE 0
           f == [n \in DOMAIN carryActions |-> Counts(carryActions[n])]
           t == Append(carryActions, a)
           g == [n \in DOMAIN t |-> Counts(t[n])]
<1>1. Ce!Created(e) = Ce!Total(f)
  BY DEF Ce!Created, Ce!Notional
<1>2. Ce!Created(e)' = Ce!Total(g)
  BY DEF Ce!Created, Ce!Notional
<1>3. PICK N \in Nat : N = Len(carryActions) /\ DOMAIN carryActions = 1..N /\ DOMAIN t = 1..(N + 1)
  <2>1. PICK S : S = Ce!ToSet(carryActions) \cup {a}
    OBVIOUS
  <2>2. carryActions \in Seq(S) /\ a \in S
    BY <2>1
  <2>3. t \in Seq(S) /\ Len(t) = Len(carryActions) + 1
    BY <2>2
  <2> HIDE DEF t
  <2> QED BY <2>2, <2>3
<1>4. t[N + 1] = a /\ \A n \in 1..N : t[n] = carryActions[n]
  BY <1>3
<1>5. Counts(a) \in Nat /\ \A n \in 1..N : Counts(carryActions[n]) \in Nat
  BY <1>3
<1> HIDE DEF Counts, t
<1>6. \A n \in 1..(N + 1) : n \in 1..N \/ n = N + 1
  OBVIOUS
<1>7. /\ f \in [1..N -> Nat] /\ g \in [1..(N + 1) -> Nat] /\ g[N + 1] = Counts(a)
      /\ \A n \in 1..N : g[n] = f[n]
  BY <1>3, <1>4, <1>5, <1>6
<1> HIDE DEF f, g
<1>8. Ce!Total(f) \in Nat /\ Ce!Total(g) = Ce!Total(f) + g[N + 1]
  BY <1>7, SumsOfTable
<1> QED BY <1>1, <1>2, <1>7, <1>8 DEF Counts

(* Before its first action an evaluation has created nothing.              *)
LEMMA NothingCreated ==
  ASSUME carryActions \in Seq(Ce!ToSet(carryActions)), NEW e,
         \A n \in DOMAIN carryActions : carryActions[n].of # e
  PROVE  Ce!Created(e) = 0
<1> DEFINE f == [n \in DOMAIN carryActions |->
                   IF carryActions[n].intent.executable /\ carryActions[n].of = e
                   THEN carryActions[n].intent.recommendation.notional ELSE 0]
<1>1. Ce!Created(e) = Ce!Total(f)
  BY DEF Ce!Created, Ce!Notional
<1>2. PICK N \in Nat : DOMAIN carryActions = 1..N
  OBVIOUS
<1>3. f \in [1..N -> {0}]
  BY <1>2
<1> HIDE DEF f
<1> QED BY <1>1, <1>3, TotalOfNothing

(* Changes that leave intents and evaluations alone leave the sums alone.  *)
LEMMA CreatedStays ==
  ASSUME DOMAIN carryActions' = DOMAIN carryActions,
         \A n \in DOMAIN carryActions : /\ carryActions'[n].intent = carryActions[n].intent
                                        /\ carryActions'[n].of = carryActions[n].of
  PROVE  \A e : Ce!Created(e)' = Ce!Created(e)
BY DEF Ce!Created, Ce!Notional

(* Every intent was judged as the planner judges.                          *)
LEMMA JudgedIntents ==
  ASSUME NEW w, NEW recs, NEW budget, NEW current, \A n \in DOMAIN recs : Advice(recs[n]), NEW n \in DOMAIN recs
  PROVE  /\ DOMAIN Ce!createExecutionIntents(w, recs, budget, current) = DOMAIN recs
         /\ Ce!createExecutionIntents(w, recs, budget, current)[n].recommendation = recs[n]
         /\ Ce!Judged(Ce!createExecutionIntents(w, recs, budget, current)[n], w)
<1>1. PICK r : r = recs[n]
  OBVIOUS
<1>2. PICK i : i = [recommendation |-> r, executable |-> Ce!blockedReasons(w, r, budget, current) = {},
                    approvalRequirement |-> Ce!approvalRequirement(w, r)]
  OBVIOUS
<1>3. /\ DOMAIN Ce!createExecutionIntents(w, recs, budget, current) = DOMAIN recs
      /\ Ce!createExecutionIntents(w, recs, budget, current)[n] = i
  BY <1>1, <1>2 DEF Ce!createExecutionIntents
<1>4. /\ i.recommendation = r /\ i.approvalRequirement = Ce!approvalRequirement(w, r)
      /\ i.executable <=> Ce!blockedReasons(w, r, budget, current) = {}
  BY <1>2
<1>5. ASSUME Ce!blockedReasons(w, r, budget, current) = {}
      PROVE  /\ r.plannedOrders # <<>>
             /\ \A v \in Ce!TouchedVenues(r) : Ce!VenueReasons(w, r, v) = {}
  <2>1. /\ Ce!SizeReason(r) = {}
        /\ Ce!Code("no_open_positions", Ce!IsReduction(r) /\ r.plannedOrders = <<>>) = {}
        /\ UNION {Ce!VenueReasons(w, r, v) : v \in Ce!TouchedVenues(r)} = {}
    BY <1>5, Zenon DEF Ce!blockedReasons
  <2>2. r.notional # 0
    BY <2>1, PlannerAssumption DEF Ce!SizeReason, Ce!Code
  <2>3. ~(Ce!IsReduction(r) /\ r.plannedOrders = <<>>)
    BY <2>1 DEF Ce!Code
  <2>4. \A v \in Ce!TouchedVenues(r) : Ce!VenueReasons(w, r, v) = {}
    BY <2>1, Zenon
  <2> QED BY <1>1, <2>2, <2>3, <2>4 DEF Advice
<1>6. r.notional \in Nat
  BY <1>1 DEF Advice
<1> QED BY <1>1, <1>3, <1>4, <1>5, <1>6 DEF Ce!Judged

(* The invariant part by part.                                             *)
ActionOK(a) ==
  /\ a \in [intent : {a.intent}, orders : {a.orders}, of : 1..evaluated,
            target : {a.target}, linked : BOOLEAN, read : {a.read}]
  /\ Ce!Judged(a.intent, a.read)
  /\ a.orders # <<>> => a.orders = a.intent.recommendation.plannedOrders
  /\ \A e \in 1..evaluated : a.linked /\ a.of = e => a.target \in Nat /\ Ce!Created(e) <= a.target

(* The actions are listed, and each of them is in order.                   *)
LEMMA ActionsParts ==
  Ce!ActionsInv <=> /\ carryActions \in Seq(Ce!ToSet(carryActions)) /\ evaluated \in Nat
                    /\ \A n \in DOMAIN carryActions : ActionOK(carryActions[n])
BY DEF Ce!ActionsInv, ActionOK

(* The evaluation under way, by its parts: the intents to come were judged *)
(* and fit the target beside what was created.                             *)
InCreation(e, next, linked, target, its, read) ==
  /\ creating = [next |-> next, intents |-> its, of |-> e, linked |-> linked,
                 target |-> target, read |-> read]
  /\ its \in Seq(Ce!ToSet(its)) /\ its # <<>> /\ e > 0
  /\ \A k \in DOMAIN its : Ce!Judged(its[k], read)
  /\ \A n \in DOMAIN carryActions : carryActions[n].of = e =>
       carryActions[n].linked = linked /\ carryActions[n].target = target
  /\ linked => Ce!Created(e) + Asked(IF next = "orders" THEN Tail(its) ELSE its) <= target
  /\ next = "orders" => /\ carryActions # <<>>
                        /\ carryActions[Len(carryActions)].intent = its[1]

(* An evaluation under way has such parts.                                 *)
LEMMA CreatingParts ==
  ASSUME Ce!PlannerInv, creating # Ce!NotCreating
  PROVE  \E next \in {"action", "orders"}, linked \in BOOLEAN, target \in Nat :
           \E its, read : InCreation(evaluated, next, linked, target, its, read)
<1>1. creating \in [next : {"action", "orders"}, intents : Seq(Ce!ToSet(creating.intents)), of : {evaluated},
                    linked : BOOLEAN, target : Nat, read : {creating.read}]
  BY DEF Ce!PlannerInv, Ce!CreatingInv
<1>2. PICK next \in {"action", "orders"}, its \in Seq(Ce!ToSet(creating.intents)), linked \in BOOLEAN,
           target \in Nat, read \in {creating.read} :
        creating = [next |-> next, intents |-> its, of |-> evaluated, linked |-> linked,
                    target |-> target, read |-> read]
  BY <1>1
<1>3. /\ creating.next = next /\ creating.intents = its /\ creating.linked = linked
      /\ creating.target = target /\ creating.read = read
  BY <1>2
<1>4. its \in Seq(Ce!ToSet(its))
  BY <1>2, <1>3
<1>5. Ce!ToCome = Asked(IF next = "orders" THEN Tail(its) ELSE its)
  BY <1>3 DEF Ce!ToCome, Ce!Sequel, Asked
<1>6. /\ creating.intents # <<>> /\ evaluated > 0
      /\ \A k \in DOMAIN creating.intents : Ce!Judged(creating.intents[k], creating.read)
      /\ \A n \in DOMAIN carryActions : carryActions[n].of = evaluated =>
           carryActions[n].linked = creating.linked /\ carryActions[n].target = creating.target
      /\ creating.linked => Ce!Created(evaluated) + Ce!ToCome <= creating.target
      /\ creating.next = "orders" => /\ carryActions # <<>>
                                     /\ carryActions[Len(carryActions)].intent = creating.intents[1]
  BY DEF Ce!PlannerInv, Ce!CreatingInv
<1>7. InCreation(evaluated, next, linked, target, its, read)
  BY <1>2, <1>3, <1>4, <1>5, <1>6 DEF InCreation
<1> QED BY <1>7, Zenon

(* The evaluation under way after a step, from its parts.                  *)
LEMMA CreatingPartsNext ==
  ASSUME NEW next \in {"action", "orders"}, NEW linked \in BOOLEAN, NEW target \in Nat, NEW its, NEW read,
         NEW e, e = evaluated',
         creating' = [next |-> next, intents |-> its, of |-> e, linked |-> linked,
                      target |-> target, read |-> read],
         its \in Seq(Ce!ToSet(its)), its # <<>>, e > 0,
         \A k \in DOMAIN its : Ce!Judged(its[k], read),
         \A n \in DOMAIN carryActions' : carryActions'[n].of = e =>
           carryActions'[n].linked = linked /\ carryActions'[n].target = target,
         linked => Ce!Created(e)' + Asked(IF next = "orders" THEN Tail(its) ELSE its) <= target,
         next = "orders" => /\ carryActions' # <<>>
                            /\ carryActions'[Len(carryActions')].intent = its[1]
  PROVE  Ce!CreatingInv'
<1>1. /\ creating'.next = next /\ creating'.intents = its /\ creating'.linked = linked
      /\ creating'.target = target /\ creating'.read = read /\ creating'.of = e
  OBVIOUS
<1>2. creating' \in [next : {"action", "orders"}, intents : Seq(Ce!ToSet(its)), of : {e},
                     linked : BOOLEAN, target : Nat, read : {read}]
  OBVIOUS
<1>3. Ce!ToCome' = Asked(IF next = "orders" THEN Tail(its) ELSE its)
  BY <1>1 DEF Ce!ToCome, Ce!Sequel, Asked
<1>4. Ce!Created(evaluated)' = Ce!Created(e)'
  BY DEF Ce!Created
<1>5. creating' \in [next : {"action", "orders"}, intents : Seq(Ce!ToSet(creating'.intents)), of : {evaluated'},
                     linked : BOOLEAN, target : Nat, read : {creating'.read}]
  BY <1>1, <1>2
<1>6. creating'.linked => Ce!Created(evaluated)' + Ce!ToCome' <= creating'.target
  BY <1>1, <1>3, <1>4
<1>7. /\ creating'.intents # <<>> /\ evaluated' > 0
      /\ \A k \in DOMAIN creating'.intents : Ce!Judged(creating'.intents[k], creating'.read)
      /\ \A n \in DOMAIN carryActions' : carryActions'[n].of = evaluated' =>
           carryActions'[n].linked = creating'.linked /\ carryActions'[n].target = creating'.target
      /\ creating'.next = "orders" => /\ carryActions' # <<>>
                                      /\ carryActions'[Len(carryActions')].intent = creating'.intents[1]
  BY <1>1
<1> QED BY <1>5, <1>6, <1>7 DEF Ce!CreatingInv

(* Nothing is created at first.                                            *)
LEMMA PlannerInitially ==
  ASSUME Ce!Init
  PROVE  Ce!PlannerInv
<1>1. /\ carryWorld \in CarryWorlds /\ creating = Ce!NotCreating /\ carryActions = <<>> /\ evaluated = 0
  BY DEF Ce!Init
<1>2. carryActions \in Seq(Ce!ToSet(carryActions)) /\ \A n \in DOMAIN carryActions : ActionOK(carryActions[n])
  BY <1>1
<1> QED BY <1>1, <1>2, ActionsParts DEF Ce!PlannerInv, Ce!CreatingInv

(* A new evaluation: its intents were judged now and fit its target.       *)
LEMMA PlannerBeginKeeps ==
  ASSUME Ce!PlannerInv, NEW its, its \in Seq(Ce!ToSet(its)), NEW linked \in BOOLEAN, NEW target \in Nat,
         \A k \in DOMAIN its : Ce!Judged(its[k], carryWorld), linked => Asked(its) <= target,
         Asked(its) \in Nat, Ce!Begin(its, linked, target)
  PROVE  Ce!PlannerInv'
<1>1. /\ evaluated' = evaluated + 1 /\ UNCHANGED <<carryWorld, carryActions>>
      /\ creating' = IF its = <<>> THEN Ce!NotCreating
                     ELSE [next |-> "action", intents |-> its, of |-> evaluated + 1,
                           linked |-> linked, target |-> target, read |-> carryWorld]
  BY DEF Ce!Begin
<1>2. /\ carryWorld \in CarryWorlds /\ carryActions \in Seq(Ce!ToSet(carryActions)) /\ evaluated \in Nat
      /\ \A n \in DOMAIN carryActions : ActionOK(carryActions[n])
  BY ActionsParts DEF Ce!PlannerInv
<1>3. \A e : Ce!Created(e)' = Ce!Created(e)
  BY <1>1, CreatedStays
<1>4. ASSUME NEW n \in DOMAIN carryActions PROVE ActionOK(carryActions[n])'
  <2>1. PICK a : a = carryActions[n]
    OBVIOUS
  <2>2. ActionOK(a)
    BY <1>2, <2>1
  <2>3. \A e \in 1..(evaluated + 1) : a.of = e => e \in 1..evaluated
    BY <1>2, <2>2 DEF ActionOK
  <2>4. a \in [intent : {a.intent}, orders : {a.orders}, of : 1..(evaluated + 1),
               target : {a.target}, linked : BOOLEAN, read : {a.read}]
    <3>1. 1..evaluated \subseteq 1..(evaluated + 1)
      BY <1>2
    <3> QED BY <2>2, <3>1 DEF ActionOK
  <2>5. carryActions'[n] = a
    BY <1>1, <2>1
  <2> QED BY <1>1, <1>3, <2>2, <2>3, <2>4, <2>5 DEF ActionOK
<1>5. Ce!ActionsInv'
  <2>1. /\ carryActions' \in Seq(Ce!ToSet(carryActions')) /\ evaluated' \in Nat
        /\ \A n \in DOMAIN carryActions' : ActionOK(carryActions[n])'
    BY <1>1, <1>2, <1>4
  <2> QED BY <2>1 DEF Ce!ActionsInv, ActionOK
<1>6. Ce!CreatingInv'
  <2>1. CASE its = <<>>
    BY <1>1, <2>1 DEF Ce!CreatingInv
  <2>2. CASE its # <<>>
    <3>1. PICK e : e = evaluated + 1
      OBVIOUS
    <3>2. PICK read : read = carryWorld
      OBVIOUS
    <3>3. e = evaluated' /\ e > 0 /\ \A n \in DOMAIN carryActions : carryActions[n].of # e
      BY <1>1, <1>2, <3>1 DEF ActionOK
    <3>4. Ce!Created(e)' = 0
      BY <1>2, <1>3, <3>3, NothingCreated
    <3>5. "action" # "orders"
      OBVIOUS
    <3>6. /\ linked => Ce!Created(e)' + Asked(its) <= target
          /\ creating' = [next |-> "action", intents |-> its, of |-> e, linked |-> linked,
                          target |-> target, read |-> read]
          /\ \A k \in DOMAIN its : Ce!Judged(its[k], read)
          /\ \A n \in DOMAIN carryActions' : carryActions'[n].of # e
      BY <1>1, <2>2, <3>1, <3>2, <3>3, <3>4
    <3> QED BY <2>2, <3>3, <3>5, <3>6, CreatingPartsNext
  <2> QED BY <2>1, <2>2
<1> QED BY <1>1, <1>2, <1>5, <1>6 DEF Ce!PlannerInv

(* All opportunities, as many as fill a target, or one reduction.          *)
LEMMA EvaluationsKeep ==
  ASSUME Ce!PlannerInv,
         \/ Ce!runCarryEvaluation
         \/ \E t \in RestoreTargets : Ce!RestoreCarryBudget(t) \/ Ce!ReduceCarryExposure(t)
  PROVE  Ce!PlannerInv'
<1>1. PICK w \in CarryWorlds : w = carryWorld
  BY DEF Ce!PlannerInv
<1>2. /\ w.opportunities \in Seq(Ce!ToSet(w.opportunities))
      /\ \A n \in DOMAIN w.opportunities : w.opportunities[n].notional \in Nat
  BY PlannerAssumption
<1>3. ASSUME NEW recs, NEW R, recs \in Seq(R), \A r \in R : Advice(r), NEW linked \in BOOLEAN, NEW target \in Nat,
             linked => AskedBy(recs) <= target,
             Ce!Begin(Ce!createExecutionIntents(w, recs, w.budget, w.nav), linked, target)
      PROVE  Ce!PlannerInv'
  <2>1. \A n \in DOMAIN recs : Advice(recs[n])
    BY <1>3
  <2>2. PICK its : its = Ce!createExecutionIntents(w, recs, w.budget, w.nav)
    OBVIOUS
  <2>3. \A n \in DOMAIN recs : its[n].recommendation = recs[n] /\ Ce!Judged(its[n], carryWorld)
    BY <1>1, <2>1, <2>2, JudgedIntents
  <2>4. DOMAIN its = DOMAIN recs /\ its = [n \in DOMAIN recs |-> its[n]]
    BY <2>2 DEF Ce!createExecutionIntents
  <2>5. its \in Seq(Ce!ToSet(its))
    <3>1. PICK N \in Nat : DOMAIN recs = 1..N
      BY <1>3
    <3>2. its \in [1..N -> Ce!ToSet(its)]
      BY <2>4, <3>1 DEF Ce!ToSet
    <3> QED BY <3>1, <3>2, SeqDef
  <2>6. Asked(its) = AskedBy(recs)
    BY <2>3, <2>4 DEF Asked, AskedBy
  <2>7. AskedBy(recs) \in Nat
    <3>1. DOMAIN recs = 1..Len(recs) /\ Len(recs) \in Nat /\ \A n \in 1..Len(recs) : recs[n].notional \in Nat
      BY <1>3, <2>1 DEF Advice
    <3>2. PICK N \in Nat : N = Len(recs)
      BY <3>1
    <3>3. [n \in DOMAIN recs |-> recs[n].notional] \in [1..N -> Nat]
      BY <3>1, <3>2
    <3> QED BY <3>3, SumsOfTable DEF AskedBy
  <2> QED BY <1>3, <2>2, <2>3, <2>4, <2>5, <2>6, <2>7, PlannerBeginKeeps
<1>4. CASE Ce!runCarryEvaluation
  <2> DEFINE recs == [n \in DOMAIN w.opportunities |-> Ce!Recommended(w.opportunities[n], FALSE)]
             R == {Ce!Recommended(o, FALSE) : o \in Ce!ToSet(w.opportunities)}
  <2>1. recs \in Seq(R)
    <3>1. PICK N \in Nat : DOMAIN w.opportunities = 1..N
      BY <1>2
    <3>2. recs \in [1..N -> R]
      BY <3>1 DEF Ce!ToSet
    <3> HIDE DEF recs, R
    <3> QED BY <3>1, <3>2, SeqDef
  <2>2. \A r \in R : Advice(r)
    BY <1>2, RecommendedIsAdvice DEF Ce!ToSet
  <2>3. Ce!Begin(Ce!createExecutionIntents(w, recs, w.budget, w.nav), FALSE, 0)
    BY <1>1, <1>4, Zenon DEF Ce!runCarryEvaluation
  <2> HIDE DEF recs, R
  <2> QED BY <1>3, <2>1, <2>2, <2>3
<1>5. ASSUME NEW t \in RestoreTargets, Ce!RestoreCarryBudget(t) PROVE Ce!PlannerInv'
  <2>1. t \in Nat
    BY PlannerAssumption
  <2>2. PICK R : R = {Ce!Recommended(o, TRUE) : o \in Ce!ToSet(w.opportunities)}
    OBVIOUS
  <2>3. PICK recs : recs = Ce!FillTarget(w.opportunities, t)
    OBVIOUS
  <2>4. recs \in Seq(R) /\ AskedBy(recs) <= t
    BY <1>2, <2>1, <2>2, <2>3, FilledTarget
  <2>5. \A r \in R : Advice(r)
    BY <1>2, <2>2, RecommendedIsAdvice DEF Ce!ToSet
  <2>6. Ce!Begin(Ce!createExecutionIntents(w, recs, w.budget, w.nav), TRUE, t)
    BY <1>1, <1>5, <2>3, Zenon DEF Ce!RestoreCarryBudget
  <2> QED BY <1>3, <2>1, <2>4, <2>5, <2>6
<1>6. ASSUME NEW t \in RestoreTargets, Ce!ReduceCarryExposure(t) PROVE Ce!PlannerInv'
  <2>1. t \in Nat
    BY PlannerAssumption
  <2>2. PICK orders_ : orders_ = Ce!buildCarryReductionIntents(w.positions, t)
    OBVIOUS
  <2>3. PICK r : r = [actionType |-> "reduce_carry_exposure", notional |-> t, confidence |-> 100,
                      expired |-> FALSE, plannedOrders |-> orders_]
    OBVIOUS
  <2>4. r.notional = t /\ Ce!IsReduction(r)
    BY <2>3 DEF Ce!IsReduction
  <2>5. <<r>> \in Seq({r}) /\ \A x \in {r} : Advice(x)
    BY <2>1, <2>4 DEF Advice
  <2>6. AskedBy(<<r>>) = t
    <3>1. <<>> \in Seq({r}) /\ r \in {r} /\ \A x \in {r} : x.notional \in Nat
      BY <2>1, <2>4
    <3>2. AskedBy(<<>>) \in Nat /\ AskedBy(Append(<<>>, r)) = AskedBy(<<>>) + t
      BY <2>4, <3>1, NotionalsGrow
    <3>3. AskedBy(<<>>) = 0
      <4> DEFINE e == [n \in DOMAIN <<>> |-> (<<>>)[n].notional]
      <4>1. e \in [1..0 -> {0}]
        OBVIOUS
      <4> HIDE DEF e
      <4>2. Ce!Total(e) = 0
        BY <4>1, TotalOfNothing
      <4> QED BY <4>2 DEF e, AskedBy
    <3>4. Append(<<>>, r) = <<r>>
      OBVIOUS
    <3> QED BY <2>1, <3>2, <3>3, <3>4
  <2>7. Ce!Begin(Ce!createExecutionIntents(w, <<r>>, w.budget, w.nav), TRUE, t)
    BY <1>1, <1>6, <2>2, <2>3, Zenon DEF Ce!ReduceCarryExposure
  <2>8. AskedBy(<<r>>) <= t
    BY <2>1, <2>6
  <2>9. PICK recs, R : recs = <<r>> /\ R = {r}
    OBVIOUS
  <2>10. /\ recs \in Seq(R) /\ (\A x \in R : Advice(x)) /\ AskedBy(recs) <= t
         /\ Ce!Begin(Ce!createExecutionIntents(w, recs, w.budget, w.nav), TRUE, t)
    BY <2>5, <2>7, <2>8, <2>9
  <2> QED BY <1>3, <2>1, <2>10
<1> QED BY <1>4, <1>5, <1>6

(* An action joins the ones of its evaluation, and what it asks for is no  *)
(* longer to come.                                                         *)
LEMMA InsertActionKeeps ==
  ASSUME Ce!PlannerInv, Ce!InsertAction
  PROVE  Ce!PlannerInv'
<1>1. creating # Ce!NotCreating /\ creating.next = "action"
  BY DEF Ce!InsertAction, Ce!NotCreating
<1>2. PICK next \in {"action", "orders"}, linked \in BOOLEAN, target \in Nat :
           \E its, read : InCreation(evaluated, next, linked, target, its, read)
  BY <1>1, CreatingParts, Zenon
<1>3. PICK e : e = evaluated
  OBVIOUS
<1>3a. PICK its, read : InCreation(e, next, linked, target, its, read)
  BY <1>2, <1>3, Zenon
<1>4. /\ creating = [next |-> next, intents |-> its, of |-> e, linked |-> linked,
                     target |-> target, read |-> read]
      /\ its \in Seq(Ce!ToSet(its)) /\ its # <<>> /\ e > 0
      /\ \A k \in DOMAIN its : Ce!Judged(its[k], read)
      /\ \A n \in DOMAIN carryActions : carryActions[n].of = e =>
           carryActions[n].linked = linked /\ carryActions[n].target = target
      /\ linked => Ce!Created(e) + Asked(IF next = "orders" THEN Tail(its) ELSE its) <= target
  BY <1>3a DEF InCreation
<1>5. /\ creating.next = next /\ creating.intents = its /\ creating.linked = linked
      /\ creating.target = target /\ creating.read = read /\ creating.of = e
  BY <1>4
<1>6. next = "action" /\ (linked => Ce!Created(e) + Asked(its) <= target)
  BY <1>1, <1>4, <1>5
<1>7. PICK intent : intent = its[1]
  OBVIOUS
<1>8. PICK a : a = [intent |-> intent, orders |-> <<>>, of |-> e, target |-> target,
                    linked |-> linked, read |-> read]
  OBVIOUS
<1>9. /\ a.intent = intent /\ a.orders = <<>> /\ a.of = e /\ a.target = target
      /\ a.linked = linked /\ a.read = read
  BY <1>8
<1>10. /\ carryActions' = Append(carryActions, a)
       /\ creating' = IF intent.recommendation.plannedOrders # <<>> THEN [creating EXCEPT !.next = "orders"]
                      ELSE IF Len(its) = 1 THEN Ce!NotCreating
                      ELSE [creating EXCEPT !.intents = Tail(its)]
       /\ UNCHANGED <<carryWorld, evaluated>>
  BY <1>5, <1>7, <1>8 DEF Ce!InsertAction
<1>11. /\ carryWorld \in CarryWorlds /\ carryActions \in Seq(Ce!ToSet(carryActions)) /\ evaluated \in Nat
       /\ \A n \in DOMAIN carryActions : ActionOK(carryActions[n])
  BY ActionsParts DEF Ce!PlannerInv
<1>12. /\ \A k \in DOMAIN its : its[k].recommendation.notional \in Nat
       /\ \A n \in DOMAIN carryActions : carryActions[n].intent.recommendation.notional \in Nat
  BY <1>4, <1>11 DEF Ce!Judged, ActionOK
<1>13. /\ Asked(its) = intent.recommendation.notional + Asked(Tail(its)) /\ Asked(Tail(its)) \in Nat
       /\ Tail(its) \in Seq(Ce!ToSet(Tail(its))) /\ 1 \in DOMAIN its
       /\ \A k \in DOMAIN Tail(its) : Ce!Judged(Tail(its)[k], read)
       /\ Len(its) # 1 => Tail(its) # <<>>
  BY <1>4, <1>7, <1>12, AskedShrinks
<1>14. Ce!Judged(intent, read) /\ a.intent.recommendation.notional \in Nat
  BY <1>4, <1>7, <1>9, <1>12, <1>13
<1>15. \A x : /\ Ce!Created(x) \in Nat
              /\ Ce!Created(x)' = Ce!Created(x) + (IF a.intent.executable /\ a.of = x
                                                   THEN a.intent.recommendation.notional ELSE 0)
  BY <1>10, <1>11, <1>12, <1>14, CreatedGrows
<1>16. linked => Ce!Created(e)' + Asked(Tail(its)) <= target /\ Ce!Created(e)' <= target
  <2>1. PICK k \in Nat : k = intent.recommendation.notional
    BY <1>9, <1>14
  <2>2. PICK c, d \in Nat : c = Ce!Created(e) /\ d = Ce!Created(e)' /\ (d = c \/ d = c + k)
    BY <1>9, <1>15, <2>1
  <2>3. PICK t \in Nat : t = Asked(Tail(its)) /\ Asked(its) = k + t
    BY <1>13, <2>1
  <2>4. linked => c + (k + t) <= target
    BY <1>6, <2>2, <2>3
  <2>5. linked => d + t <= target /\ d <= target
    BY <2>2, <2>4
  <2> QED BY <2>2, <2>3, <2>5
<1>17. /\ carryActions' \in Seq(Ce!ToSet(carryActions')) /\ carryActions' # <<>>
       /\ carryActions'[Len(carryActions')] = a
       /\ \A n \in DOMAIN carryActions' : \/ carryActions'[n] = a
                                          \/ n \in DOMAIN carryActions /\ carryActions'[n] = carryActions[n]
  <2>1. PICK S : S = Ce!ToSet(carryActions) \cup {a}
    OBVIOUS
  <2>2. carryActions \in Seq(S) /\ a \in S
    BY <1>11, <2>1
  <2>3. PICK t : t = Append(carryActions, a)
    OBVIOUS
  <2>4. t \in Seq(S) /\ Extended(carryActions, t, a)
    BY <2>2, <2>3, ExtendedTable
  <2>5. t \in Seq(Ce!ToSet(t))
    BY <2>4, ListOfMembers
  <2>6. Len(t) = Len(carryActions) + 1 /\ t[Len(t)] = a /\ t # <<>>
    BY <2>2, <2>3
  <2>7. \A n \in DOMAIN t : t[n] = a \/ (n \in DOMAIN carryActions /\ t[n] = carryActions[n])
    BY <2>4, <2>6 DEF Extended
  <2> QED BY <1>10, <2>3, <2>5, <2>6, <2>7
<1>18. ASSUME NEW n \in DOMAIN carryActions' PROVE ActionOK(carryActions[n])'
  <2>1. CASE carryActions'[n] = a
    <3>1. e \in 1..evaluated
      BY <1>3, <1>4, <1>11
    <3>2. a \in [intent : {a.intent}, orders : {a.orders}, of : 1..evaluated,
                 target : {a.target}, linked : BOOLEAN, read : {a.read}]
      BY <1>8, <1>9, <3>1
    <3>3. \A x \in 1..evaluated : a.linked /\ a.of = x => a.target \in Nat /\ Ce!Created(x)' <= a.target
      BY <1>9, <1>16
    <3>4. Ce!Judged(a.intent, a.read) /\ a.orders = <<>>
      BY <1>9, <1>14
    <3> QED BY <1>10, <2>1, <3>2, <3>3, <3>4 DEF ActionOK
  <2>2. CASE n \in DOMAIN carryActions /\ carryActions'[n] = carryActions[n]
    <3>1. PICK b : b = carryActions[n]
      OBVIOUS
    <3>2. ActionOK(b) /\ (b.of = e => b.linked = linked /\ b.target = target)
      BY <1>4, <1>11, <2>2, <3>1
    <3>3. ASSUME NEW x \in 1..evaluated, b.linked, b.of = x PROVE b.target \in Nat /\ Ce!Created(x)' <= b.target
      <4>1. CASE x = e
        BY <1>16, <3>2, <3>3, <4>1
      <4>2. CASE x # e
        <5>1. Ce!Created(x)' = Ce!Created(x)
          BY <1>9, <1>15, <4>2
        <5> QED BY <3>2, <3>3, <5>1 DEF ActionOK
      <4> QED BY <4>1, <4>2
    <3>4. carryActions'[n] = b
      BY <2>2, <3>1
    <3> QED BY <1>10, <3>2, <3>3, <3>4 DEF ActionOK
  <2> QED BY <1>17, <2>1, <2>2
<1>19. Ce!ActionsInv'
  <2>1. evaluated' \in Nat
    BY <1>10, <1>11
  <2> QED BY <1>17, <1>18, <2>1 DEF Ce!ActionsInv, ActionOK
<1>20. \A n \in DOMAIN carryActions' : carryActions'[n].of = e =>
         carryActions'[n].linked = linked /\ carryActions'[n].target = target
  BY <1>4, <1>9, <1>17
<1>21. Ce!CreatingInv'
  <2>1. CASE intent.recommendation.plannedOrders # <<>>
    <3>1. creating' = [next |-> "orders", intents |-> its, of |-> e, linked |-> linked,
                       target |-> target, read |-> read]
      BY <1>4, <1>10, <2>1
    <3>2. carryActions'[Len(carryActions')].intent = its[1] /\ e = evaluated'
      BY <1>3, <1>7, <1>9, <1>10, <1>17
    <3>3. linked => Ce!Created(e)' + Asked(IF "orders" = "orders" THEN Tail(its) ELSE its) <= target
      BY <1>16
    <3> QED BY <1>4, <1>17, <1>20, <3>1, <3>2, <3>3, CreatingPartsNext
  <2>2. CASE intent.recommendation.plannedOrders = <<>> /\ Len(its) = 1
    BY <1>10, <2>2 DEF Ce!CreatingInv
  <2>3. CASE intent.recommendation.plannedOrders = <<>> /\ Len(its) # 1
    <3>1. PICK rest : rest = Tail(its)
      OBVIOUS
    <3>2. creating' = [next |-> "action", intents |-> rest, of |-> e, linked |-> linked,
                       target |-> target, read |-> read]
      BY <1>4, <1>6, <1>10, <2>3, <3>1
    <3>3. "action" # "orders" /\ (linked => Ce!Created(e)' + Asked(rest) <= target)
      BY <1>16, <3>1
    <3>4. rest \in Seq(Ce!ToSet(rest)) /\ rest # <<>> /\ e = evaluated' /\ \A k \in DOMAIN rest : Ce!Judged(rest[k], read)
      BY <1>3, <1>10, <1>13, <2>3, <3>1
    <3> QED BY <1>4, <1>20, <3>2, <3>3, <3>4, CreatingPartsNext
  <2> QED BY <2>1, <2>2, <2>3
<1> QED BY <1>10, <1>11, <1>19, <1>21 DEF Ce!PlannerInv

(* The orders of the last action are written: its own.                     *)
LEMMA InsertOrdersKeeps ==
  ASSUME Ce!PlannerInv, Ce!InsertOrders
  PROVE  Ce!PlannerInv'
<1>1. creating # Ce!NotCreating /\ creating.next = "orders"
  BY DEF Ce!InsertOrders, Ce!NotCreating
<1>2. PICK next \in {"action", "orders"}, linked \in BOOLEAN, target \in Nat :
           \E its, read : InCreation(evaluated, next, linked, target, its, read)
  BY <1>1, CreatingParts, Zenon
<1>3. PICK e : e = evaluated
  OBVIOUS
<1>3a. PICK its, read : InCreation(e, next, linked, target, its, read)
  BY <1>2, <1>3, Zenon
<1>4. /\ creating = [next |-> next, intents |-> its, of |-> e, linked |-> linked,
                     target |-> target, read |-> read]
      /\ its \in Seq(Ce!ToSet(its)) /\ its # <<>> /\ e > 0
      /\ \A k \in DOMAIN its : Ce!Judged(its[k], read)
      /\ \A n \in DOMAIN carryActions : carryActions[n].of = e =>
           carryActions[n].linked = linked /\ carryActions[n].target = target
      /\ linked => Ce!Created(e) + Asked(IF next = "orders" THEN Tail(its) ELSE its) <= target
      /\ next = "orders" => /\ carryActions # <<>>
                            /\ carryActions[Len(carryActions)].intent = its[1]
  BY <1>3a DEF InCreation
<1>5. creating.next = next /\ creating.intents = its
  BY <1>4
<1>6. next = "orders" /\ (linked => Ce!Created(e) + Asked(Tail(its)) <= target)
  BY <1>1, <1>4, <1>5
<1>7. /\ carryWorld \in CarryWorlds /\ carryActions \in Seq(Ce!ToSet(carryActions)) /\ evaluated \in Nat
      /\ \A n \in DOMAIN carryActions : ActionOK(carryActions[n])
  BY ActionsParts DEF Ce!PlannerInv
<1>8. PICK L : L = Len(carryActions)
  OBVIOUS
<1>9. carryActions # <<>> /\ L \in DOMAIN carryActions /\ carryActions[L].intent = its[1]
  BY <1>4, <1>6, <1>7, <1>8
<1>10. PICK a : a = carryActions[L]
  OBVIOUS
<1>11. PICK orders_ : orders_ = its[1].recommendation.plannedOrders
  OBVIOUS
<1>12. PICK b : b = [a EXCEPT !.orders = orders_]
  OBVIOUS
<1>13. /\ carryActions' = [carryActions EXCEPT ![L] = b]
       /\ creating' = IF Len(its) = 1 THEN Ce!NotCreating
                      ELSE [creating EXCEPT !.intents = Tail(its), !.next = "action"]
       /\ UNCHANGED <<carryWorld, evaluated>>
  BY <1>5, <1>8, <1>10, <1>11, <1>12 DEF Ce!InsertOrders
<1>14. ActionOK(a)
  BY <1>7, <1>9, <1>10
<1>15. /\ b.intent = a.intent /\ b.orders = orders_ /\ b.of = a.of /\ b.target = a.target
       /\ b.linked = a.linked /\ b.read = a.read
       /\ b \in [intent : {b.intent}, orders : {b.orders}, of : 1..evaluated,
                 target : {b.target}, linked : BOOLEAN, read : {b.read}]
  <2>1. a \in [intent : {a.intent}, orders : {a.orders}, of : 1..evaluated,
               target : {a.target}, linked : BOOLEAN, read : {a.read}]
    BY <1>14 DEF ActionOK
  <2>2. b = [intent |-> a.intent, orders |-> orders_, of |-> a.of, target |-> a.target,
             linked |-> a.linked, read |-> a.read]
    BY <1>12, <2>1
  <2> QED BY <2>1, <2>2
<1>16. /\ carryActions' \in Seq(Ce!ToSet(carryActions')) /\ DOMAIN carryActions' = DOMAIN carryActions
       /\ carryActions'[L] = b /\ \A n \in DOMAIN carryActions \ {L} : carryActions'[n] = carryActions[n]
  <2>1. PICK S : S = Ce!ToSet(carryActions) \cup {b}
    OBVIOUS
  <2>2. carryActions \in Seq(S) /\ b \in S
    BY <1>7, <2>1
  <2>3. PICK t : t = [carryActions EXCEPT ![L] = b]
    OBVIOUS
  <2>4. t \in Seq(S) /\ Updated(carryActions, t, L, b)
    BY <1>9, <2>2, <2>3, UpdatedTable
  <2>5. t \in Seq(Ce!ToSet(t))
    BY <2>4, ListOfMembers
  <2> QED BY <1>9, <1>13, <2>3, <2>4, <2>5 DEF Updated
<1>17. \A x : Ce!Created(x)' = Ce!Created(x)
  <2>1. \A n \in DOMAIN carryActions : /\ carryActions'[n].intent = carryActions[n].intent
                                       /\ carryActions'[n].of = carryActions[n].of
    BY <1>10, <1>15, <1>16
  <2> QED BY <1>16, <2>1, CreatedStays
<1>18. ASSUME NEW n \in DOMAIN carryActions PROVE ActionOK(carryActions[n])'
  <2>1. CASE n = L
    <3>1. b.orders = b.intent.recommendation.plannedOrders
      BY <1>9, <1>10, <1>11, <1>15
    <3>2. carryActions'[n] = b
      BY <1>16, <2>1
    <3> QED BY <1>13, <1>14, <1>15, <1>17, <3>1, <3>2 DEF ActionOK
  <2>2. CASE n # L
    <3>1. PICK c : c = carryActions[n]
      OBVIOUS
    <3>2. ActionOK(c) /\ carryActions'[n] = c
      BY <1>7, <1>16, <2>2, <3>1
    <3> QED BY <1>13, <1>17, <3>2 DEF ActionOK
  <2> QED BY <2>1, <2>2
<1>19. Ce!ActionsInv'
  <2>1. evaluated' \in Nat
    BY <1>7, <1>13
  <2> QED BY <1>16, <1>18, <2>1 DEF Ce!ActionsInv, ActionOK
<1>20. \A n \in DOMAIN carryActions' : carryActions'[n].of = e =>
         carryActions'[n].linked = linked /\ carryActions'[n].target = target
  BY <1>4, <1>10, <1>15, <1>16
<1>21. Ce!CreatingInv'
  <2>1. CASE Len(its) = 1
    BY <1>13, <2>1 DEF Ce!CreatingInv
  <2>2. CASE Len(its) # 1
    <3>0. \A k \in DOMAIN its : its[k].recommendation.notional \in Nat
      BY <1>4 DEF Ce!Judged
    <3>1. PICK rest : rest = Tail(its)
      OBVIOUS
    <3>2. creating' = [next |-> "action", intents |-> rest, of |-> e, linked |-> linked,
                       target |-> target, read |-> read]
      BY <1>4, <1>6, <1>13, <2>2, <3>1
    <3>3. "action" # "orders" /\ (linked => Ce!Created(e)' + Asked(rest) <= target)
      BY <1>6, <1>17, <3>1
    <3>4. rest \in Seq(Ce!ToSet(rest)) /\ rest # <<>> /\ e = evaluated' /\ \A k \in DOMAIN rest : Ce!Judged(rest[k], read)
      BY <1>3, <1>4, <1>13, <2>2, <3>0, <3>1, AskedShrinks
    <3> QED BY <1>4, <1>20, <3>2, <3>3, <3>4, CreatingPartsNext
  <2> QED BY <2>1, <2>2
<1> QED BY <1>7, <1>13, <1>19, <1>21 DEF Ce!PlannerInv

(* The world moves on, and the process may stop.                           *)
LEMMA ChangeAndStopKeep ==
  ASSUME Ce!PlannerInv, Ce!Change \/ Ce!StopCreating \/ UNCHANGED Ce!carryEvaluationVars
  PROVE  Ce!PlannerInv'
<1>1. /\ carryWorld' \in CarryWorlds /\ UNCHANGED <<carryActions, evaluated>>
      /\ creating' = creating \/ creating' = Ce!NotCreating
  BY DEF Ce!PlannerInv, Ce!Change, Ce!StopCreating, Ce!carryEvaluationVars
<1>2. \A e : Ce!Created(e)' = Ce!Created(e)
  BY <1>1, CreatedStays
<1>3. Ce!ActionsInv'
  BY <1>1, <1>2 DEF Ce!PlannerInv, Ce!ActionsInv
<1>4. Ce!CreatingInv'
  <2>1. CASE creating' = Ce!NotCreating
    BY <2>1 DEF Ce!CreatingInv
  <2>2. CASE creating' = creating
    <3>1. Ce!ToCome' = Ce!ToCome /\ Ce!Created(evaluated)' = Ce!Created(evaluated)
      BY <1>1, <2>2 DEF Ce!ToCome, Ce!Sequel, Ce!Created, Ce!Notional
    <3> QED BY <1>1, <2>2, <3>1 DEF Ce!PlannerInv, Ce!CreatingInv
  <2> QED BY <1>1, <2>1, <2>2
<1> QED BY <1>1, <1>3, <1>4 DEF Ce!PlannerInv

(* Every step keeps the invariant.                                         *)
LEMMA PlannerStepKeeps ==
  ASSUME Ce!PlannerInv, [Ce!Next]_Ce!carryEvaluationVars
  PROVE  Ce!PlannerInv'
BY EvaluationsKeep, InsertActionKeeps, InsertOrdersKeeps, ChangeAndStopKeep DEF Ce!Next

(* The invariant says what the planner promises.                           *)
LEMMA PlannerSound ==
  ASSUME Ce!PlannerInv
  PROVE  Ce!RestoreWithinTarget /\ Ce!ExecutableHasOrders /\ Ce!LiveNeedsAdmin
<1>1. \A n \in DOMAIN carryActions : ActionOK(carryActions[n])
  BY ActionsParts DEF Ce!PlannerInv
<1>2. Ce!RestoreWithinTarget
  <2>1. ASSUME NEW n \in DOMAIN carryActions, carryActions[n].linked
        PROVE  Ce!Created(carryActions[n].of) <= carryActions[n].target
    <3>1. ActionOK(carryActions[n]) /\ carryActions[n].of \in 1..evaluated
      BY <1>1 DEF ActionOK
    <3> QED BY <2>1, <3>1 DEF ActionOK
  <2> QED BY <2>1 DEF Ce!RestoreWithinTarget
<1>3. Ce!ExecutableHasOrders
  BY <1>1 DEF ActionOK, Ce!Judged, Ce!ExecutableHasOrders, Ce!Executable, Ce!Plan
<1>4. Ce!LiveNeedsAdmin
  <2> SUFFICES ASSUME NEW n \in DOMAIN carryActions, carryActions[n].intent.executable,
                      NEW v \in Ce!TouchedVenues(carryActions[n].intent.recommendation),
                      carryActions[n].read.venues[v].live
               PROVE  /\ carryActions[n].intent.approvalRequirement = "admin"
                      /\ carryActions[n].read.venues[v].eligible
                      /\ carryActions[n].read.mode = "live" /\ carryActions[n].read.liveEnabled
    BY DEF Ce!LiveNeedsAdmin, Ce!Executable
  <2>1. PICK w, i, r, c : /\ w = carryActions[n].read /\ i = carryActions[n].intent
                          /\ r = i.recommendation /\ c = w.venues[v]
    OBVIOUS
  <2>2. /\ i.approvalRequirement = Ce!approvalRequirement(w, r) /\ Ce!VenueReasons(w, r, v) = {}
        /\ c.live /\ v \in Ce!TouchedVenues(r)
    BY <1>1, <2>1 DEF ActionOK, Ce!Judged
  <2>3. c.executionSupported
    BY <2>1, <2>2 DEF Ce!VenueReasons
  <2>4. /\ Ce!Code("venue_live_unapproved", c.live /\ ~c.approved) = {}
        /\ Ce!Code("venue_live_ineligible", c.live /\ c.approved /\ ~c.eligible) = {}
        /\ Ce!Code("live_execution_disabled", c.live /\ (~w.liveEnabled \/ w.mode # "live")) = {}
    BY <2>1, <2>2, <2>3, Zenon DEF Ce!VenueReasons
  <2>5. c.approved /\ c.eligible /\ w.liveEnabled /\ w.mode = "live"
    BY <2>2, <2>4 DEF Ce!Code
  <2>6. i.approvalRequirement = "admin"
    BY <2>1, <2>2, <2>3 DEF Ce!approvalRequirement
  <2> QED BY <2>1, <2>5, <2>6
<1> QED BY <1>2, <1>3, <1>4
-----------------------------------------------------------------------------
(* The parts side by side.                                                 *)

engineVars == <<part, orders, attempts, confirmationOnly, cycleOnly, guardrailsOnly, truthOnly,
                reconciliationOnly, gatewayOnly, others>>

(* The part is chosen once, and a step is one of the part that was chosen. *)
LEMMA PartsApart ==
  ASSUME [Next]_engineVars
  PROVE  /\ UNCHANGED part
         /\ part = "confirmation" => [Pt!Next]_Pt!vars
         /\ part = "guardrails" => [Gr!Next]_<<guardrailsOnly, attempts>>
         /\ part = "gateway" => [Og!Next]_Og!vars
         /\ part = "allocator" => [Al!Next]_allocatorOnly
         /\ part = "reconciliation" => [Rc!Next]_reconciliationOnly
         /\ part = "planner" => [Ce!Next]_Ce!carryEvaluationVars
         /\ part # "confirmation" => UNCHANGED confirmationOnly
BY DEF engineVars, Next, Confirmation, Cycle, Guarded, Truth, Reconcile, Gateway, Allocate,
       PlanCarry, confirmationOnly, cycleOnly, guardrailsOnly, truthOnly, reconciliationOnly,
       gatewayOnly, allocatorOnly, plannerOnly, others, Og!vars, Pt!vars,
       Ce!carryEvaluationVars

(* Nothing done for an operator outlives a signature, the API key alone    *)
(* changes nothing, every call of the dashboard but the known ones has a   *)
(* route, and an enabled button is refused only for a stale role or a      *)
(* known approval requirement: for any operators, clocks, lifetimes and    *)
(* limits (ops-auth.ts verifySignedOperatorHeaders, routes/*.ts,           *)
(* runtime-api.client.ts, control-plane.ts canSatisfyApprovalRequirement). *)
THEOREM GatewayIsSoundHolds == Spec => []GatewayIsSound
<1> DEFINE Inv == part = "gateway" => Og!GatewayInv
<1>1. Init => Inv
  BY GatewayInitially DEF Init
<1>2. Inv /\ [Next]_engineVars => Inv'
  BY PartsApart, GatewayStep
<1>3. Inv => GatewayIsSound
  BY DEF GatewayIsSound, Og!GatewayInv
<1> QED
  BY <1>1, <1>2, <1>3, PTL DEF Spec, engineVars

(* The invariant of the confirmations, and of the parts without any.       *)
Confirmed ==
  /\ part = "confirmation" => Pt!ConfirmationInv
  /\ part # "confirmation" => late = TRUE

(* It holds initially.                                                     *)
LEMMA ConfirmedInitially == Init => Confirmed
  BY ConfirmationInitially DEF Init, Confirmed, ConfirmationOff

(* It is kept, and filled sizes grow.                                      *)
LEMMA ConfirmedStep ==
  ASSUME Confirmed, [Next]_engineVars
  PROVE  /\ Confirmed'
         /\ \/ UNCHANGED Pt!vars
            \/ (Pt!Attributable /\ \A i \in DOMAIN orders : Pt!InTurn(orders[i])) =>
                  \A i \in DOMAIN steps : steps'[i].filledSize >= steps[i].filledSize
<1>1. CASE part # "confirmation"
  <2>1. part' = part /\ late = TRUE /\ late' = late
    <3>1. late' = late
      BY <1>1, PartsApart DEF confirmationOnly
    <3>2. late = TRUE
      BY <1>1, Zenon DEF Confirmed
    <3> QED
      BY <3>1, <3>2, PartsApart
  <2>2. Confirmed'
    BY <1>1, <2>1 DEF Confirmed
  <2>3. ~Pt!Attributable
    BY <2>1 DEF Pt!Attributable
  <2> QED
    BY <2>2, <2>3
<1>2. CASE part = "confirmation" /\ Pt!Next
  BY <1>2, PartsApart, ConfirmationStep DEF Confirmed
<1>3. CASE part = "confirmation" /\ UNCHANGED Pt!vars
  <2>1. Pt!ConfirmationInv'
    BY <1>3 DEF Confirmed, Pt!vars, Pt!ConfirmationInv, Pt!Types, Pt!TypeOK, Pt!RecordsInv,
       Pt!ChainInv, Pt!NeverOverstated, Pt!Attributable, Pt!OneSided
  <2> QED
    BY <1>3, <2>1, PartsApart DEF Confirmed
<1> QED
  BY <1>1, <1>2, <1>3, PartsApart

(* Where changes of position can be attributed, a step shows no more than  *)
(* was filled, what is confirmed in full owes nothing and full fills are   *)
(* confirmed: for any number of orders of any size (runtime.ts             *)
(* evaluatePostTradeConfirmationGroup, deriveConfirmationPatch).           *)
THEOREM ConfirmationIsHonestHolds == Spec => []ConfirmationIsHonest
<1>1. Confirmed /\ [Next]_engineVars => Confirmed'
  BY ConfirmedStep
<1>2. Confirmed => ConfirmationIsHonest
  BY ConfirmationSound DEF Confirmed, ConfirmationIsHonest
<1> QED
  BY ConfirmedInitially, <1>1, <1>2, PTL DEF Spec, engineVars

(* A later evaluation never shrinks the filled size a step shows, as long  *)
(* as positions can be attributed and orders are in turn (runtime.ts       *)
(* deriveConfirmationPatch).                                               *)
THEOREM FilledSizeKeptHolds == Spec => FilledSizeKept
<1>1. Confirmed /\ [Next]_engineVars => Confirmed'
  BY ConfirmedStep
<1>2. Confirmed /\ [Next]_engineVars =>
        [(Pt!Attributable /\ \A i \in DOMAIN orders : Pt!InTurn(orders[i])) =>
           \A i \in DOMAIN steps : steps'[i].filledSize >= steps[i].filledSize]_Pt!vars
  BY ConfirmedStep
<1> QED
  BY ConfirmedInitially, <1>1, <1>2, PTL DEF Spec, engineVars, FilledSizeKept, Pt!FilledSizeKept

(* Within a day no scope executes more than its limit unless executions    *)
(* overlap, and a tripped breaker blocks until its delay or a reset; the   *)
(* allocator's shares add up, worse news never raises the share of carry,  *)
(* what may be executed is funded, and the summary names a run with all    *)
(* its rows; an evaluation linked to a target creates actions for no more  *)
(* than the target, an executable action has orders, and one on a live     *)
(* venue waits for an administrator: for any callers, limits, capital,     *)
(* targets, sizes and number of evaluators (execution-guardrails.ts,       *)
(* circuit-breakers.ts, policy.ts, rebalance.ts, store.ts                  *)
(* persistAllocatorEvaluation, runtime.ts runCarryEvaluation,              *)
(* controlled-execution.ts).                                               *)
THEOREM LimitsHoldHolds == Spec => []LimitsHold
<1> DEFINE Inv == /\ part = "guardrails" => Gr!GuardrailsInv
                  /\ part = "allocator" => Al!AllocatorInv
                  /\ part = "planner" => Ce!PlannerInv
<1>1. Init => Inv
  BY GuardrailsInitially, AllocatorInitially, PlannerInitially DEF Init
<1>2. Inv /\ [Next]_engineVars => Inv'
  <2> SUFFICES ASSUME Inv, [Next]_engineVars PROVE Inv'
    OBVIOUS
  <2>1. part = "guardrails" => Gr!GuardrailsInv'
    <3>1. CASE part = "guardrails" /\ Gr!Next
      BY <3>1, GuardrailsStep
    <3>2. CASE part = "guardrails" /\ UNCHANGED guardrailsOnly
      BY <3>2 DEF guardrailsOnly, Gr!GuardrailsInv, Gr!Types, Gr!DayInv, Gr!ExecutionInv,
         Gr!DailyLimitHolds, Gr!TrippedStaysTripped, Gr!DailyNow
    <3> QED
      BY <3>1, <3>2, PartsApart
  <2>2. part = "allocator" => Al!AllocatorInv'
    <3>1. CASE part = "allocator" /\ Al!Next
      BY <3>1, AllocatorStep
    <3>2. CASE part = "allocator" /\ UNCHANGED allocatorOnly
      BY <3>2 DEF allocatorOnly, Al!AllocatorInv, Al!Evaluation, Al!RowsBefore,
         Al!SummaryIsComplete
    <3> QED
      BY <3>1, <3>2, PartsApart
  <2>3. part = "planner" => Ce!PlannerInv'
    BY PartsApart, PlannerStepKeeps
  <2> QED
    BY <2>1, <2>2, <2>3, PartsApart
<1>3. Inv => LimitsHold
  BY AllocatorSound, PlannerSound DEF LimitsHold, Gr!GuardrailsInv
<1> QED
  BY <1>1, <1>2, <1>3, PTL DEF Spec, engineVars

(* A completed run that nobody disturbed left open what is wrong and       *)
(* nothing it found settled, what is open without cause is no longer       *)
(* inspected, and what operators decided is kept: for any worlds a run can *)
(* meet, whatever earlier runs left behind (reconciliation-engine.ts run,  *)
(* resolveInactiveVenueMismatches; store.ts upsertMismatch).               *)
THEOREM FindingsAreTrueHolds == Spec => []FindingsAreTrue
<1> DEFINE Inv == part = "reconciliation" => Rc!ReconciliationInv
<1>1. Init => Inv
  BY ReconciliationInitially DEF Init
<1>2. Inv /\ [Next]_engineVars => Inv'
  <2> SUFFICES ASSUME Inv, [Next]_engineVars, part = "reconciliation"
               PROVE  Rc!ReconciliationInv'
    BY PartsApart
  <2>1. CASE Rc!Next
    BY <2>1, ReconciliationStep
  <2>2. CASE UNCHANGED reconciliationOnly
    BY <2>2 DEF reconciliationOnly, Rc!ReconciliationInv, Rc!Undisturbed, Rc!StatusOf,
       Rc!AtStart, Rc!Disputed, Rc!ChecksBefore
  <2> QED
    BY <2>1, <2>2, PartsApart
<1>3. Inv => FindingsAreTrue
  BY ReconciliationSound DEF FindingsAreTrue
<1> QED
  BY <1>1, <1>2, <1>3, PTL DEF Spec, engineVars
=============================================================================
