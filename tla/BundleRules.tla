---------------------------- MODULE BundleRules ----------------------------
(***************************************************************************)
(* What the runtime store derives from the rows of one rebalance proposal: *)
(* the state of each child action, the status of the bundle, which child   *)
(* may be requeued, and which manual resolutions and escalation            *)
(* transitions are open.                                                   *)
(*                                                                         *)
(* A child is a record with its sleeve, its status, whether it is          *)
(* executable (executable, and no blocked reasons), the statuses of its    *)
(* executions, oldest first, and whether progress is on record: a venue    *)
(* reference of an execution, or a step with a reference, an order id or a *)
(* status other than pending and failed.  A bundle is a set of children    *)
(* under the status of its proposal.                                       *)
(***************************************************************************)
EXTENDS Naturals, Sequences

SeqHas(seq, x)  == \E i \in DOMAIN seq : seq[i] = x
SeqAll(seq, x)  == \A i \in DOMAIN seq : seq[i] = x

ActionStatuses ==
  {"recommended", "approved", "queued", "executing", "completed", "failed", "cancelled"}

(* deriveBundleChildState: a failed execution decides, also when a later   *)
(* one completed.                                                          *)
ChildState(c) ==
  IF SeqHas(c.executions, "failed") THEN "failed"
  ELSE IF c.executions # <<>>
       THEN IF SeqAll(c.executions, "completed") THEN "completed" ELSE "executing"
  ELSE IF c.status \in {"failed", "completed"} THEN c.status
  ELSE IF ~c.executable THEN "blocked"
  ELSE IF c.status \in {"executing", "queued", "approved"} THEN "executing"
  ELSE "pending"

(* A count of the children in these states is not zero. *)
AnyIn(kids, states) == \E k \in DOMAIN kids : ChildState(kids[k]) \in states

Derived(status, completion, outcome, recommendation) ==
  [status |-> status, completion |-> completion, outcome |-> outcome,
   recommendation |-> recommendation]

(* deriveRebalanceBundleSnapshot of an executed proposal, by the states of *)
(* its children kids, a function.                                          *)
SnapshotOfChildren(proposal, kids) ==
  LET completed == AnyIn(kids, {"completed"})
      failed    == AnyIn(kids, {"failed"})
      blocked   == AnyIn(kids, {"blocked"})
  IN IF failed /\ completed
     THEN Derived("requires_intervention", "finalized", "partial_application",
                  "inspect_child_failures")
     ELSE IF blocked /\ completed
     THEN Derived("requires_intervention", "finalized", "partial_application",
                  "unresolved_partial_application")
     ELSE IF failed THEN Derived("failed", "finalized", "failed", "inspect_child_failures")
     ELSE IF blocked THEN Derived("blocked", "finalized", "blocked", "operator_review_required")
     ELSE IF completed /\ \E k \in DOMAIN kids : ChildState(kids[k]) # "completed"
     THEN Derived("partially_completed", "finalized", "partial_application",
                  "unresolved_partial_application")
     ELSE IF proposal = "failed" /\ completed
     THEN Derived("requires_intervention", "finalized", "partial_application",
                  "unresolved_partial_application")
     ELSE IF proposal = "failed"
     THEN Derived("failed", "finalized", "failed", "inspect_child_failures")
     ELSE Derived(IF completed \/ DOMAIN kids = {} THEN "completed" ELSE "partially_completed",
                  "finalized", "safe_complete", "no_action_needed")

(* deriveRebalanceBundleSnapshot. *)
Snapshot(proposal, kids) ==
  IF proposal = "rejected"
  THEN Derived("rejected", "finalized", "rejected", "no_action_needed")
  ELSE IF proposal \in {"proposed", "approved"}
  THEN Derived("proposed", "open", "pending", "operator_review_required")
  ELSE IF proposal = "queued"
  THEN Derived("queued", "open", "pending", "wait_for_inflight_children")
  ELSE IF proposal = "executing" \/ AnyIn(kids, {"pending", "executing"})
  THEN Derived("executing", "open",
               IF AnyIn(kids, {"completed"}) THEN "partial_application" ELSE "pending",
               "wait_for_inflight_children")
  ELSE SnapshotOfChildren(proposal, kids)

(* A recorded decision replaces the derived recommendation. *)
RecommendationForResolutionState(resolution, derived) ==
  CASE resolution = "accepted_partial" -> "accepted_partial_application"
    [] resolution = "manually_resolved" -> "manually_resolved"
    [] resolution = "escalated" -> "escalated_for_review"
    [] resolution = "unresolved" -> derived

ActionableBundleStatuses == {"failed", "blocked", "requires_intervention", "partially_completed"}

Completed(c) == c.status = "completed" \/ SeqHas(c.executions, "completed")
InFlight(c)  == c.status \in {"queued", "executing"}

(* mutant: what was executed does not stop a retry *)
RecoveryBlocksUnexecuted(bundleStatus, ready, c) ==
  {r \in {"bundle_not_actionable", "runtime_not_ready", "target_child_has_inflight_command",
          "target_child_not_retryable", "target_child_remains_blocked"} :
     CASE r = "bundle_not_actionable" -> bundleStatus \notin ActionableBundleStatuses
       [] r = "runtime_not_ready" -> ~ready
       [] r = "target_child_has_inflight_command" -> InFlight(c)
       [] r = "target_child_not_retryable" -> c.status = "cancelled"
       [] r = "target_child_remains_blocked" -> ~c.executable}

(* buildCarryRecoveryCandidate and buildTreasuryRecoveryCandidate: every   *)
(* reason that blocks the requeueing of a child.                           *)
RecoveryBlocks(bundleStatus, ready, c) ==
  {r \in {"bundle_not_actionable", "runtime_not_ready", "target_child_already_completed",
          "target_child_has_inflight_command", "target_child_not_retryable",
          "target_child_remains_blocked", "partial_progress_detected"} :
     CASE r = "bundle_not_actionable" -> bundleStatus \notin ActionableBundleStatuses
       [] r = "runtime_not_ready" -> ~ready
       [] r = "target_child_already_completed" -> Completed(c)
       [] r = "target_child_has_inflight_command" -> InFlight(c)
       [] r = "target_child_not_retryable" -> c.status = "cancelled"
       [] r = "target_child_remains_blocked" -> ~c.executable
       [] r = "partial_progress_detected" -> c.progress}

Eligible(bundleStatus, ready, c) == RecoveryBlocks(bundleStatus, ready, c) = {}

TargetResolutionState ==
  [accept_partial_application    |-> "accepted_partial",
   mark_bundle_manually_resolved |-> "manually_resolved",
   escalate_bundle_for_review    |-> "escalated"]

(* buildBundleResolutionOptions: why a manual resolution is not open. *)
ResolutionBlocks(type, bundleStatus, outcome, pending, inflight, resolution) ==
  {r \in {"bundle_not_actionable", "bundle_has_inflight_children",
          "bundle_not_partial_application", "resolution_state_already_current"} :
     CASE r = "bundle_not_actionable" -> bundleStatus \notin ActionableBundleStatuses
       [] r = "bundle_has_inflight_children" -> pending > 0 \/ inflight > 0
       [] r = "bundle_not_partial_application" ->
            type = "accept_partial_application" /\ outcome # "partial_application"
       [] r = "resolution_state_already_current" -> resolution = TargetResolutionState[type]}

EscalationTransitions == {"assign", "acknowledge", "start_review", "close"}

(* buildBundleEscalationTransitions, for the latest escalation; a record   *)
(* with status "none" stands for no escalation.                            *)
EscalationBlocks(type, resolution, esc) ==
  {r \in {"bundle_not_escalated", "escalation_not_found", "escalation_already_resolved",
          "escalation_owner_required", "invalid_status_transition"} :
     CASE r = "bundle_not_escalated" -> resolution # "escalated"
       [] r = "escalation_not_found" -> esc.status = "none"
       [] r = "escalation_already_resolved" -> esc.status = "resolved"
       [] r = "escalation_owner_required" ->
            esc.status # "none" /\ type # "assign" /\ esc.owner = "none"
       [] r = "invalid_status_transition" ->
            \/ type = "acknowledge" /\ esc.status \notin {"open", "none"}
            \/ type = "start_review" /\ esc.status \notin {"open", "acknowledged", "none"}}

=============================================================================
