------------------------- MODULE ConnectorPromotion -------------------------
(***************************************************************************)
(* The review that lets a venue connector be used live: an operator asks   *)
(* for it, an admin approves, rejects or suspends it.  Each handler reads  *)
(* the venue's latest promotion and evidence and judges the request; the   *)
(* store then reads them again, writes the promotion, and records the      *)
(* event.  Meanwhile the runtime records new snapshots of the venue, and   *)
(* the process that serves the requests may stop between two writes.       *)
(***************************************************************************)
EXTENDS ConnectorRules, Sequences, SequencesExt

CONSTANTS Sessions,      \* clients of the API
          RoleOf,        \* [Sessions -> {"viewer", "operator", "admin"}]
          Snapshots,     \* the snapshots the venue's connector may record, a subset of Venues
          MaxRequests, MaxPromotions, MaxSnapshots

VARIABLES venue,       \* the latest snapshot of the venue
          promotions,  \* its promotions: status and when it was updated
          history,     \* recorded events, oldest first
          session,     \* per session, the request in progress
          counts,      \* requests, snapshots
          overlap,     \* history: two requests were in progress at once
          torn         \* history: promotions whose event was lost

vars == <<venue, promotions, history, session, counts, overlap, torn>>

Decisions == [approve |-> "approved", reject |-> "rejected", suspend |-> "suspended"]
Kinds     == {"request"} \cup DOMAIN Decisions
Idle      == [pc |-> "idle", kind |-> "none", row |-> 0, from |-> "none", fresh |-> TRUE]

Init ==
  /\ venue \in Snapshots
  /\ promotions = <<>>
  /\ history = <<>>
  /\ session = [s \in Sessions |-> Idle]
  /\ counts = [requests |-> 0, snapshots |-> 0, clock |-> 0]
  /\ overlap = FALSE
  /\ torn = {}

(* getLatestVenuePromotionRows: the promotion updated last. *)
LatestRow ==
  IF promotions = <<>> THEN 0
  ELSE CHOOSE i \in DOMAIN promotions :
         \A j \in DOMAIN promotions : promotions[j].updatedAt <= promotions[i].updatedAt

StatusNow == IF LatestRow = 0 THEN "not_requested" ELSE promotions[LatestRow].status
Evidence  == buildConnectorReadinessEvidence(venue)
Summary   == PromotionSummary(StatusNow, Evidence)

(* listVenueInventoryCore: the latest snapshot speaks for the venue, but   *)
(* that a snapshot ever succeeded is remembered.                           *)
Inventory(before, v) ==
  [v EXCEPT !.freshness = "fresh", !.succeeded = @ \/ before.succeeded]

(* The evidence changes while requests are in progress. *)
Disturbed == [s \in Sessions |-> [session[s] EXCEPT !.fresh = FALSE]]

(* persistVenueConnectorSnapshots. *)
RecordSnapshot(v) ==
  /\ counts.snapshots < MaxSnapshots
  /\ venue' = Inventory(venue, v)
  /\ venue' # venue
  /\ counts' = [counts EXCEPT !.snapshots = @ + 1]
  /\ session' = Disturbed
  /\ UNCHANGED <<promotions, history, overlap, torn>>

(* classifyVenueSnapshotFreshness: with no newer one, a snapshot is stale. *)
SnapshotAges ==
  /\ venue.freshness = "fresh"
  /\ venue' = [venue EXCEPT !.freshness = "stale"]
  /\ session' = Disturbed
  /\ UNCHANGED <<promotions, history, counts, overlap, torn>>

-----------------------------------------------------------------------------
(* mutant: an approved connector may be decided on again *)
AcceptableAnyTime(s, kind) ==
  IF kind = "request"
  THEN /\ RoleOf[s] \in {"operator", "admin"}
       /\ Evidence.capabilityClass = "execution_capable"
       /\ StatusNow \notin {"pending_review", "approved"}
  ELSE /\ RoleOf[s] = "admin"
       /\ StatusNow # "not_requested"
       /\ kind = "approve" => Evidence.eligible

(* mutant: evidence is not consulted *)
AcceptableUnready(s, kind) ==
  IF kind = "request"
  THEN /\ RoleOf[s] \in {"operator", "admin"}
       /\ StatusNow \notin {"pending_review", "approved"}
  ELSE /\ RoleOf[s] = "admin"
       /\ StatusNow = IF kind = "suspend" THEN "approved" ELSE "pending_review"

(* mutant: a pending review does not stop another request *)
AcceptableTwice(s, kind) ==
  IF kind = "request"
  THEN /\ RoleOf[s] \in {"operator", "admin"}
       /\ Evidence.capabilityClass = "execution_capable"
       /\ StatusNow # "approved"
  ELSE /\ RoleOf[s] = "admin"
       /\ StatusNow = IF kind = "suspend" THEN "approved" ELSE "pending_review"
       /\ kind = "approve" => Evidence.eligible

(* What the four handlers of the control plane accept. *)
Acceptable(s, kind) ==
  IF kind = "request"
  THEN /\ RoleOf[s] \in {"operator", "admin"}
       /\ Evidence.capabilityClass = "execution_capable"
       /\ StatusNow \notin {"pending_review", "approved"}
  ELSE /\ RoleOf[s] = "admin"
       /\ StatusNow = IF kind = "suspend" THEN "approved" ELSE "pending_review"
       /\ kind = "approve" => Evidence.eligible

Judge(s, kind) ==
  /\ session[s].pc = "idle"
  /\ counts.requests < MaxRequests
  /\ Acceptable(s, kind)
  /\ counts' = [counts EXCEPT !.requests = @ + 1]
  /\ overlap' = (overlap \/ \E z \in Sessions : session[z].pc # "idle")
  /\ session' = [session EXCEPT ![s] = [Idle EXCEPT !.pc = "write", !.kind = kind]]
  /\ UNCHANGED <<venue, promotions, history, torn>>

(* A request becomes a promotion of its own. *)
requestConnectorPromotion(s) ==
  /\ session[s].pc = "write" /\ session[s].kind = "request"
  /\ Len(promotions) < MaxPromotions
  /\ promotions' = Append(promotions,
       [status |-> "pending_review", updatedAt |-> counts.clock + 1, eligible |-> FALSE,
        fresh |-> session[s].fresh,
        posture |-> deriveEffectivePosture(Evidence.capabilityClass, "pending_review")])
  /\ counts' = [counts EXCEPT !.clock = @ + 1]
  /\ session' = [session EXCEPT ![s] = [@ EXCEPT !.pc = "record", !.row = Len(promotions) + 1]]
  /\ UNCHANGED <<venue, history, overlap, torn>>

(* mutant: the event takes every decision for one on a pending review *)
DecideFromPending(s) ==
  /\ session[s].pc = "write" /\ session[s].kind \in DOMAIN Decisions
  /\ LET to == Decisions[session[s].kind] row == LatestRow
     IN /\ promotions' = [promotions EXCEPT ![row] =
             [status |-> to, updatedAt |-> counts.clock + 1, fresh |-> session[s].fresh,
              posture |-> deriveEffectivePosture(Evidence.capabilityClass, to),
              eligible |-> to = "approved" /\ Evidence.eligible]]
        /\ session' = [session EXCEPT ![s] = [@ EXCEPT !.pc = "record", !.row = row,
                                                       !.from = "pending_review"]]
  /\ counts' = [counts EXCEPT !.clock = @ + 1]
  /\ UNCHANGED <<venue, history, overlap, torn>>

(* A decision is written to whatever promotion is the latest now. *)
DecideConnectorPromotion(s) ==
  /\ session[s].pc = "write" /\ session[s].kind \in DOMAIN Decisions
  /\ LET to == Decisions[session[s].kind] row == LatestRow
     IN /\ promotions' = [promotions EXCEPT ![row] =
             [status |-> to, updatedAt |-> counts.clock + 1, fresh |-> session[s].fresh,
              posture |-> deriveEffectivePosture(Evidence.capabilityClass, to),
              eligible |-> to = "approved" /\ Evidence.eligible]]
        /\ session' = [session EXCEPT ![s] = [@ EXCEPT !.pc = "record", !.row = row,
                                                       !.from = promotions[row].status]]
  /\ counts' = [counts EXCEPT !.clock = @ + 1]
  /\ UNCHANGED <<venue, history, overlap, torn>>

insertConnectorPromotionEvent(s) ==
  /\ session[s].pc = "record"
  /\ history' = Append(history,
       [row |-> session[s].row, from |-> session[s].from,
        to |-> IF session[s].kind = "request" THEN "pending_review"
               ELSE Decisions[session[s].kind]])
  /\ session' = [session EXCEPT ![s] = Idle]
  /\ UNCHANGED <<venue, promotions, counts, overlap, torn>>

(* The request stops where it is: the API process ends, or the database    *)
(* refuses the next write.                                                 *)
Stop(s) ==
  /\ session[s].pc # "idle"
  /\ torn' = IF session[s].pc = "record" THEN torn \cup {session[s].row} ELSE torn
  /\ session' = [session EXCEPT ![s] = Idle]
  /\ UNCHANGED <<venue, promotions, history, counts, overlap>>

SessionStep(s) ==
  \/ \E kind \in Kinds : Judge(s, kind)
  \/ requestConnectorPromotion(s) \/ DecideConnectorPromotion(s)
  \/ insertConnectorPromotionEvent(s) \/ Stop(s)

Next ==
  \/ \E v \in Snapshots : RecordSnapshot(v)
  \/ SnapshotAges
  \/ \E s \in Sessions : SessionStep(s)

Spec == Init /\ [][Next]_vars

-----------------------------------------------------------------------------
(***************************************************************************)
(* Properties.                                                             *)
(***************************************************************************)
Statuses == {"pending_review", "approved", "rejected", "suspended"}
Standing == {"pending_review", "approved"}
Promotion == [status : Statuses, updatedAt : Nat, eligible : BOOLEAN, fresh : BOOLEAN,
              posture : Postures]
Event     == [row : Nat, from : Statuses \cup {"none"}, to : Statuses]
Request   == [pc : {"idle", "write", "record"}, kind : Kinds \cup {"none"}, row : Nat,
              from : Statuses \cup {"none"}, fresh : BOOLEAN]

(* The rows hold values of their enumerations, and the events, the torn    *)
(* ones and those about to be recorded name promotions that exist.         *)
TypeOK ==
  /\ venue \in Venues
  /\ promotions \in Seq(Promotion)
  /\ history \in Seq(Event)
  /\ session \in [Sessions -> Request]
  /\ counts \in [requests : Nat, snapshots : Nat, clock : Nat]
  /\ overlap \in BOOLEAN
  /\ torn \subseteq DOMAIN promotions
  /\ \A k \in DOMAIN history : history[k].row \in DOMAIN promotions
  /\ \A s \in Sessions :
       /\ session[s].pc # "idle" => session[s].kind \in Kinds
       /\ session[s].pc = "record" => session[s].row \in DOMAIN promotions

(* A decision is final: a rejected or suspended promotion stays what it    *)
(* is, an approved one can only be suspended, and the connector comes back *)
(* only through a new promotion.  Two overlapping decisions can defeat     *)
(* this, since the second is judged by the status before the first.        *)
DecisionIsFinal ==
  [][ \A i \in DOMAIN promotions :
        ~overlap' /\ promotions[i].status # "pending_review" =>
          \/ promotions'[i].status = promotions[i].status
          \/ promotions[i].status = "approved" /\ promotions'[i].status = "suspended" ]_vars

(* At most one promotion of a venue is pending or approved, so that        *)
(* suspending the latest leaves the venue with no other standing approval. *)
OneStanding ==
  ~overlap =>
    \A i, j \in DOMAIN promotions :
      promotions[i].status \in Standing /\ promotions[j].status \in Standing => i = j

(* Event k is the last one of promotion i; event k is the next one of the  *)
(* same promotion after j.                                                 *)
LastEvent(i, k) ==
  history[k].row = i /\ \A m \in DOMAIN history : m > k => history[m].row # i
NextEvent(j, k) ==
  /\ j < k /\ history[k].row = history[j].row
  /\ \A m \in DOMAIN history : j < m /\ m < k => history[m].row # history[j].row

(* The events of a promotion are its states in order: each starts where    *)
(* the one before it led.                                                  *)
EventsChain(i) ==
  \A j, k \in DOMAIN history :
    history[j].row = i /\ NextEvent(j, k) => history[k].from = history[j].to

(* The last event of promotion i led to the given status. *)
LastLedTo(i, status) == \E k \in DOMAIN history : LastEvent(i, k) /\ history[k].to = status

(* The events of a promotion are its states in order, and the last of them *)
(* is its status, except where a request stopped before its event.         *)
HistoryExplains ==
  (~overlap /\ \A s \in Sessions : session[s].pc = "idle") =>
    \A i \in DOMAIN promotions \ torn : EventsChain(i) /\ LastLedTo(i, promotions[i].status)

(* A promotion is approved with the connector not ready only if a snapshot *)
(* arrived between the check and the write; and then it is not eligible    *)
(* for sensitive execution, neither as stored nor as read.                 *)
ApprovedOnEvidence ==
  \A i \in DOMAIN promotions :
    promotions[i].status = "approved" =>
      \/ promotions[i].eligible /\ promotions[i].posture = "approved_for_live"
      \/ ~promotions[i].fresh /\ ~promotions[i].eligible

(* A connector is eligible for sensitive execution exactly when its latest *)
(* promotion is approved and its snapshot of now has no blocker: evidence  *)
(* lost after the approval takes the eligibility away at once.             *)
EligibleNeedsBoth ==
  Summary.sensitiveExecutionEligible <=>
    /\ StatusNow = "approved"
    /\ venue.truthMode = "real" /\ venue.executionSupport
    /\ venue.freshness = "fresh" /\ venue.completeness = "complete"
    /\ venue.healthy /\ venue.healthState = "healthy"
    /\ venue.succeeded /\ ~venue.missing /\ venue.configured
    /\ venue.confirmation # "blocked"

-----------------------------------------------------------------------------
(* The inductive invariant behind the properties.                          *)

(* Every write of a promotion is dated later than the ones before, and a   *)
(* decision is only ever made on a promotion.                              *)
ClockInv ==
  /\ promotions # <<>> => \E i \in DOMAIN promotions : promotions[i].updatedAt = counts.clock
  /\ \A i \in DOMAIN promotions : promotions[i].updatedAt <= counts.clock
  /\ \A i, j \in DOMAIN promotions : promotions[i].updatedAt = promotions[j].updatedAt => i = j
  /\ \A s \in Sessions : session[s].kind \in DOMAIN Decisions => promotions # <<>>

(* The statuses on which a request of this kind is judged acceptable. *)
JudgedOn(kind) ==
  CASE kind = "request" -> {"not_requested", "rejected", "suspended"}
    [] kind = "suspend" -> {"approved"}
    [] OTHER            -> {"pending_review"}

(* Alone, a request finds at its write the status it was judged on, and    *)
(* only the latest promotion stands.                                       *)
AloneInv ==
  ~overlap =>
    /\ \A s, t \in Sessions : session[s].pc # "idle" /\ session[t].pc # "idle" => s = t
    /\ \A i \in DOMAIN promotions : promotions[i].status \in Standing => i = LatestRow
    /\ \A s \in Sessions : session[s].pc = "write" => StatusNow \in JudgedOn(session[s].kind)

(* An approval about to be written that nothing disturbed has evidence. *)
EvidenceInv ==
  /\ ApprovedOnEvidence
  /\ \A s \in Sessions :
       session[s].pc = "write" /\ session[s].kind = "approve" /\ session[s].fresh
         => Evidence.eligible

Outcome(kind) == IF kind = "request" THEN "pending_review" ELSE Decisions[kind]

(* Alone, a promotion's events lead to its status, or to the status that   *)
(* the request about to record its event has changed.                      *)
HistoryInv ==
  ~overlap =>
    \A i \in DOMAIN promotions \ torn :
      /\ EventsChain(i)
      /\ \/ LastLedTo(i, promotions[i].status)
         \/ \E s \in Sessions : session[s].pc = "record" /\ session[s].row = i
      /\ \A s \in Sessions : session[s].pc = "record" /\ session[s].row = i =>
           /\ promotions[i].status = Outcome(session[s].kind)
           /\ \/ \A k \in DOMAIN history : history[k].row # i
              \/ LastLedTo(i, session[s].from)

PromotionInv == TypeOK /\ ClockInv /\ AloneInv /\ EvidenceInv /\ HistoryInv
=============================================================================
