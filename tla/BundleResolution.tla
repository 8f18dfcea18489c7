-------------------------- MODULE BundleResolution --------------------------
(***************************************************************************)
(* The decisions operators record on a rebalance bundle that needs         *)
(* intervention: requestRebalanceBundleResolutionAction, and the workflow  *)
(* of its escalations (assign, acknowledge, start review, close).  Each    *)
(* handler syncs the bundle, judges the request by what it has read, and   *)
(* then writes the escalation, its event and the columns of the bundle row *)
(* one after the other, each an await of its own at which it may stop; a   *)
(* sync reads the resolution and writes the recommendation in two steps.   *)
(***************************************************************************)
EXTENDS BundleRules

CONSTANTS Sessions,      \* clients of the API; a session is its operator's id
          RoleOf,        \* [Sessions -> {"viewer", "operator", "admin"}]
          MaxRequests,   \* bounds the requests and the stops of handlers, together
          MaxEscalations, MaxChanges

VARIABLES kids,         \* what the graph says of the children
          row,          \* the bundle row: resolution, recommendation, escalation columns
          escalation,   \* the bundle's escalations, oldest first
          events,       \* per escalation, the transitions recorded, oldest first
          decisions,    \* resolution actions recorded, completed or blocked
          session,      \* per session, what its handler is about to do
          counts,       \* requests and stops, changes of the children
          overlap,      \* history: two of these requests were in progress at once
          cut           \* history: what handlers that stopped have left unwritten

vars == <<kids, row, escalation, events, decisions, session, counts, overlap, cut>>

Types == DOMAIN TargetResolutionState
Idle  == [pc |-> "idle", type |-> "none", open |-> FALSE, seen |-> 0, esc |-> 0,
          from |-> "none", owner |-> "none", recommendation |-> "none"]
Done  == [Idle EXCEPT !.pc = "done"]   \* what it has read is of no more use

Settled(outcome) ==
  [status |-> IF outcome = "failed" THEN "failed" ELSE "requires_intervention",
   outcome |-> outcome, pending |-> 0, inflight |-> 0]

Init ==
  /\ \E outcome \in {"partial_application", "failed"} : kids = Settled(outcome)
  /\ row = [resolution |-> "unresolved", recommendation |-> "inspect_child_failures",
            latest |-> 0, status |-> "none", owner |-> "none"]
  /\ escalation = <<>>
  /\ events = <<>>
  /\ decisions = {}
  /\ session = [s \in Sessions |-> Idle]
  /\ counts = [requests |-> 0, changes |-> 0]
  /\ overlap = FALSE
  /\ cut = [log |-> {}, row |-> FALSE]

(* A failed child is requeued, and settles again: with a failed execution  *)
(* on record its bundle keeps its status, only the child is in flight.     *)
ChildChanges ==
  /\ counts.changes < MaxChanges
  /\ counts' = [counts EXCEPT !.changes = @ + 1]
  /\ kids' = [kids EXCEPT !.inflight = 1 - @]
  /\ UNCHANGED <<row, escalation, events, decisions, session, overlap, cut>>

-----------------------------------------------------------------------------
Derived0 == RecommendationForResolutionState(row.resolution, "inspect_child_failures")

Begin(s) ==
  /\ session[s].pc = "idle"
  /\ counts.requests < MaxRequests
  /\ counts' = [counts EXCEPT !.requests = @ + 1]
  /\ overlap' = (overlap \/ \E z \in Sessions \ {s} : session[z].pc # "idle")

(* A request starts with a sync, and keeps what it has read. *)
Opening(type, open, seen, esc, from, owner) ==
  [pc |-> "opening_sync", type |-> type, open |-> open, seen |-> seen, esc |-> esc,
   from |-> from, owner |-> owner, recommendation |-> Derived0]

MaySign(s) == RoleOf[s] \in {"operator", "admin"}

(* The write of a sync, with the recommendation of the resolution state    *)
(* it has read.                                                            *)
WriteRecommendation(s) ==
  /\ session[s].pc \in {"opening_sync", "closing_sync"}
  /\ row' = [row EXCEPT !.recommendation = session[s].recommendation]
  /\ session' = [session EXCEPT ![s] =
                   IF @.pc = "closing_sync" \/ @.type = "read" THEN Idle
                   ELSE [@ EXCEPT !.pc = IF session[s].type \in Types THEN "decide"
                                         ELSE "transition"]]
  /\ UNCHANGED <<kids, escalation, events, decisions, counts, overlap, cut>>

ClosingSync(s) ==
  /\ session[s].pc = "done"
  /\ session' = [session EXCEPT ![s].pc = "closing_sync", ![s].recommendation = Derived0]
  /\ UNCHANGED <<kids, row, escalation, events, decisions, counts, overlap, cut>>

(* getRebalanceBundle on behalf of a reader. *)
ReadBundle(s) ==
  /\ Begin(s)
  /\ session' = [session EXCEPT ![s] = Opening("read", FALSE, 0, 0, "none", "none")]
  /\ UNCHANGED <<kids, row, escalation, events, decisions, cut>>

-----------------------------------------------------------------------------
(***************************************************************************)
(* requestRebalanceBundleResolutionAction.                                 *)
(***************************************************************************)
Blocks(type) ==
  ResolutionBlocks(type, kids.status, kids.outcome, kids.pending, kids.inflight, row.resolution)

(* mutant: children in flight do not block a decision *)
RequestInFlight(s, type) ==
  /\ Begin(s)
  /\ MaySign(s)
  /\ session' = [session EXCEPT ![s] =
       Opening(type, Blocks(type) \subseteq {"bundle_has_inflight_children"}, counts.changes,
               0, "none", "none")]
  /\ UNCHANGED <<kids, row, escalation, events, decisions, cut>>

RequestResolution(s, type) ==
  /\ Begin(s)
  /\ MaySign(s)
  /\ session' = [session EXCEPT ![s] =
       Opening(type, Blocks(type) = {}, counts.changes, 0, "none", "none")]
  /\ UNCHANGED <<kids, row, escalation, events, decisions, cut>>

(* The request becomes a row, also when it is blocked. *)
RecordDecision(s) ==
  /\ session[s].pc = "decide"
  /\ decisions' = decisions \cup
       {[status |-> IF session[s].open THEN "completed" ELSE "blocked",
         inflight |-> kids.inflight > 0, changed |-> counts.changes # session[s].seen]}
  /\ session' = [session EXCEPT ![s] = IF @.open THEN [@ EXCEPT !.pc = "resolve"] ELSE Done]
  /\ UNCHANGED <<kids, row, escalation, events, counts, overlap, cut>>

UpdateResolutionState(s) ==
  /\ session[s].pc = "resolve"
  /\ LET r == TargetResolutionState[session[s].type]
     IN row' = [row EXCEPT !.resolution = r,
                           !.recommendation = RecommendationForResolutionState(r, @)]
  /\ session' = [session EXCEPT ![s] = IF @.type = "escalate_bundle_for_review"
                                       THEN [@ EXCEPT !.pc = "look"] ELSE Done]
  /\ UNCHANGED <<kids, escalation, events, decisions, counts, overlap, cut>>

OpenOnes == {e \in DOMAIN escalation : escalation[e].status # "resolved"}

(* The handler goes on to the bundle row with escalation e, as it is. *)
Holding(me, e, esc) ==
  [me EXCEPT !.pc = "row", !.esc = e, !.from = esc.status, !.owner = esc.owner]

(* getOpenRebalanceBundleEscalation: the latest one that is open. *)
FindOpen(s) ==
  /\ session[s].pc = "look"
  /\ \/ /\ OpenOnes = {}
        /\ session' = [session EXCEPT ![s].pc = "create"]
     \/ \E e \in OpenOnes :
          /\ \A f \in OpenOnes : f <= e
          /\ session' = [session EXCEPT ![s] = Holding(@, e, escalation[e])]
  /\ UNCHANGED <<kids, row, escalation, events, decisions, counts, overlap, cut>>

(* A new escalation belongs to the operator who escalated; it has no event *)
(* yet.                                                                    *)
CreateEscalation(s) ==
  /\ session[s].pc = "create"
  /\ Len(escalation) < MaxEscalations
  /\ escalation' = Append(escalation, [status |-> "open", owner |-> s])
  /\ events' = Append(events, <<>>)
  /\ session' = [session EXCEPT ![s] = [@ EXCEPT !.pc = "event", !.esc = Len(escalation) + 1,
                                                 !.from = "none", !.owner = s]]
  /\ UNCHANGED <<kids, row, decisions, counts, overlap, cut>>

(* mutant: the owner's column is not written *)
UpdateStatusOnly(s) ==
  /\ session[s].pc = "row"
  /\ row' = [row EXCEPT !.latest = session[s].esc, !.status = session[s].from]
  /\ session' = [session EXCEPT ![s] = Done]
  /\ cut' = [cut EXCEPT !.row = FALSE]
  /\ UNCHANGED <<kids, escalation, events, decisions, counts, overlap>>

(* updateRebalanceBundleEscalationState. *)
UpdateEscalationState(s) ==
  /\ session[s].pc = "row"
  /\ row' = [row EXCEPT !.latest = session[s].esc, !.status = session[s].from,
                        !.owner = session[s].owner]
  /\ session' = [session EXCEPT ![s] = Done]
  /\ cut' = [cut EXCEPT !.row = FALSE]
  /\ UNCHANGED <<kids, escalation, events, decisions, counts, overlap>>

-----------------------------------------------------------------------------
(***************************************************************************)
(* The escalation workflow.                                                *)
(***************************************************************************)
Latest == IF escalation = <<>> THEN [status |-> "none", owner |-> "none"]
          ELSE escalation[Len(escalation)]

OwnerOrAdmin(s) == RoleOf[s] = "admin" \/ Latest.owner = s

RequestTransition(s, type, owner) ==
  /\ Begin(s)
  /\ MaySign(s)
  /\ EscalationBlocks(type, row.resolution, Latest) = {}
  /\ IF type = "assign" THEN owner # Latest.owner ELSE OwnerOrAdmin(s) /\ owner = Latest.owner
  /\ session' = [session EXCEPT ![s] =
       Opening(type, FALSE, 0, Len(escalation), Latest.status, owner)]
  /\ UNCHANGED <<kids, row, escalation, events, decisions, cut>>

StatusAfter(type, from) ==
  CASE type = "assign" -> from
    [] type = "acknowledge" -> "acknowledged"
    [] type = "start_review" -> "in_review"
    [] type = "close" -> "resolved"
    [] type = "escalate_bundle_for_review" -> "open"

(* updateRebalanceBundleEscalation writes the columns of this transition   *)
(* only.                                                                   *)
Moved(me, esc) ==
  IF me.type = "assign" THEN [esc EXCEPT !.owner = me.owner]
  ELSE [esc EXCEPT !.status = StatusAfter(me.type, me.from)]

UpdateEscalation(s) ==
  /\ session[s].pc = "transition"
  /\ escalation' = [escalation EXCEPT ![session[s].esc] = Moved(session[s], @)]
  /\ session' = [session EXCEPT ![s].pc = "event"]
  /\ UNCHANGED <<kids, row, events, decisions, counts, overlap, cut>>

(* recordRebalanceBundleEscalationEvent: the event names the status the    *)
(* handler had read, not the one its write replaced.                       *)
RecordEvent(s) ==
  /\ session[s].pc = "event"
  /\ LET me == session[s] to == StatusAfter(me.type, me.from)
     IN /\ events' = [events EXCEPT ![me.esc] = Append(@, [from |-> me.from, to |-> to])]
        /\ session' = [session EXCEPT ![s] = [@ EXCEPT !.pc = "row", !.from = to]]
  /\ UNCHANGED <<kids, row, escalation, decisions, counts, overlap, cut>>

(* An await of the handler fails: nothing catches it and nothing is rolled *)
(* back, so the writes made so far stay and the others are not made.       *)
Stop(s) ==
  /\ session[s].pc # "idle"
  /\ counts.requests < MaxRequests
  /\ counts' = [counts EXCEPT !.requests = @ + 1]
  /\ session' = [session EXCEPT ![s] = Idle]
  /\ cut' = [log |-> cut.log \cup (IF session[s].pc = "event" THEN {session[s].esc} ELSE {}),
             row |-> cut.row \/ session[s].pc \in {"event", "row"}]
  /\ UNCHANGED <<kids, row, escalation, events, decisions, overlap>>

-----------------------------------------------------------------------------
SessionStep(s) ==
  \/ ReadBundle(s) \/ WriteRecommendation(s) \/ ClosingSync(s)
  \/ \E type \in Types : RequestResolution(s, type)
  \/ RecordDecision(s) \/ UpdateResolutionState(s)
  \/ FindOpen(s) \/ CreateEscalation(s) \/ UpdateEscalationState(s)
  \/ \E type \in EscalationTransitions, owner \in Sessions : RequestTransition(s, type, owner)
  \/ UpdateEscalation(s) \/ RecordEvent(s) \/ Stop(s)

Next == ChildChanges \/ \E s \in Sessions : SessionStep(s)

Spec == Init /\ [][Next]_vars

-----------------------------------------------------------------------------
(***************************************************************************)
(* Properties.  Two overlapping requests can defeat the ones that say      *)
(* ~overlap: each judges and writes by a read the other has outdated.      *)
(***************************************************************************)

Statuses  == {"open", "acknowledged", "in_review", "resolved"}
Unwritten == {"none"}
Advice    == {"inspect_child_failures", "accepted_partial_application", "manually_resolved",
              "escalated_for_review"}
Handler   == [pc : {"idle", "opening_sync", "closing_sync", "decide", "resolve", "look", "create",
                    "transition", "event", "row", "done"},
              type : Types \cup EscalationTransitions \cup {"read", "none"},
              open : BOOLEAN, seen : Nat, esc : Nat, from : Statuses \cup Unwritten,
              owner : Sessions \cup Unwritten, recommendation : Advice \cup Unwritten]

(* A handler that moves an escalation, before its write. *)
Moving(me) == me.pc \in {"opening_sync", "transition"} /\ me.type \in EscalationTransitions

TablesOK ==
  /\ kids \in [status : {"failed", "requires_intervention"},
               outcome : {"partial_application", "failed"}, pending : {0}, inflight : 0..1]
  /\ row \in [resolution : {"unresolved", "accepted_partial", "manually_resolved", "escalated"},
              recommendation : Advice \cup Unwritten, latest : Nat,
              status : Statuses \cup Unwritten, owner : Sessions \cup Unwritten]
  /\ escalation \in Seq([status : Statuses, owner : Sessions])
  /\ events \in Seq(Seq([from : Statuses \cup Unwritten, to : Statuses]))
  /\ Len(events) = Len(escalation)
  /\ counts \in [requests : Nat, changes : Nat]
  /\ overlap \in BOOLEAN
  /\ cut \in [log : SUBSET Nat, row : BOOLEAN]

HandlerOK(me) ==
  /\ me \in Handler
  /\ me.pc = "opening_sync" => me.type # "none"
  /\ me.pc \in {"decide", "resolve"} => me.type \in Types
  /\ me.pc = "transition" => me.type \in EscalationTransitions
  /\ me.pc \in {"look", "create"} => me.type = "escalate_bundle_for_review"
  /\ Moving(me) => me.from \in Statuses \ {"resolved"} /\ me.owner \in Sessions
  /\ me.pc = "event" =>
       /\ me.type \in EscalationTransitions \cup {"escalate_bundle_for_review"}
       /\ me.from # "resolved" /\ (me.type = "assign" => me.from \in Statuses)
       /\ me.owner \in Sessions

(* The columns hold values of their enumerations, an escalation is owned   *)
(* by an operator and has its list of events, and a handler that moves it  *)
(* had read one that was not resolved.                                     *)
TypeOK ==
  /\ TablesOK
  /\ session \in [Sessions -> Handler]
  /\ \A s \in Sessions : HandlerOK(session[s])

(* At most one escalation of a bundle is open. *)
OneOpenEscalation == ~overlap => \A d, e \in OpenOnes : d = e

(* The recorded events of an escalation form a path: the first starts      *)
(* where there was no escalation, each starts from the status the one      *)
(* before it led to, none follows a resolution.                            *)
Path(list) ==
  \A i \in DOMAIN list :
    list[i].from = (IF i = 1 THEN "none" ELSE list[i - 1].to) /\ list[i].from # "resolved"

LeadsTo(list) == IF list = <<>> THEN "none" ELSE list[Len(list)].to

(* The status the events of an escalation should lead to: that of its row, *)
(* or while its event is still to be recorded, the one its handler read.   *)
Logging(me, e) == me.pc = "event" /\ me.esc = e
Logged(e) ==
  IF \E s \in Sessions : Logging(session[s], e)
  THEN {session[s].from : s \in {z \in Sessions : Logging(session[z], e)}}
  ELSE {escalation[e].status}

(* Unless requests overlapped, the events of an escalation form a path to  *)
(* its status, but for the event a handler is about to record, and for an  *)
(* escalation whose handler stopped after writing it and before recording  *)
(* the event.                                                              *)
EventsFormPath ==
  ~overlap =>
    \A e \in DOMAIN events \ cut.log : Path(events[e]) /\ Logged(e) = {LeadsTo(events[e])}

RowShows ==
  /\ row.latest = Len(escalation)
  /\ escalation # <<>> => row.status = Latest.status /\ row.owner = Latest.owner

(* Unless requests overlapped, the recommendation of the bundle row is the *)
(* one its resolution state stands for, wherever a handler stopped; and    *)
(* with no request in progress the row shows the latest escalation, except *)
(* from a handler that stopped after writing the escalation and before the *)
(* row, to the next one that writes the row.                               *)
OverlayAgrees ==
  ~overlap =>
    /\ row.recommendation = Derived0
    /\ (\A s \in Sessions : session[s].pc = "idle") /\ ~cut.row => RowShows

(* A decision on a bundle is completed while a child is in flight only if  *)
(* the child was requeued after the decision's own read.                   *)
DecidedWhenSettled ==
  \A d \in decisions : d.status = "completed" /\ d.inflight => d.changed

-----------------------------------------------------------------------------
(* The inductive invariant.  While requests do not overlap, one handler at *)
(* most is in progress and what it has read still holds when it writes.    *)
AloneInv ==
  ~overlap => \A s, t \in Sessions :
    session[s].pc # "idle" /\ session[t].pc # "idle" => s = t

LastIsOpen == ~overlap => \A e \in OpenOnes : e = Len(escalation)

(* What a handler has in hand is the latest escalation. *)
InHand(me) == escalation # <<>> /\ me.esc = Len(escalation) /\ me.from = Latest.status

ReadStands(me) ==
  /\ me.pc \in {"opening_sync", "closing_sync"} => me.recommendation = Derived0
  /\ Moving(me) => InHand(me) /\ (me.type # "assign" => me.owner = Latest.owner)
  /\ me.pc = "create" => OpenOnes = {}
  /\ me.pc = "row" => InHand(me) /\ me.owner = Latest.owner
  /\ me.pc = "event" =>
       /\ escalation # <<>> /\ me.esc = Len(escalation) /\ me.owner = Latest.owner
       /\ Latest.status = StatusAfter(me.type, me.from)

ReadInv == ~overlap => \A s \in Sessions : ReadStands(session[s])

RowInv ==
  (~overlap /\ ~cut.row /\ \A s \in Sessions : session[s].pc \notin {"event", "row"}) => RowShows

(* A request judged open was judged with no child in flight. *)
Judged(me) ==
  (me.pc \in {"opening_sync", "decide"} /\ me.open) =>
    me.seen <= counts.changes /\ (me.seen = counts.changes => kids.inflight = 0)

JudgedInv == \A s \in Sessions : Judged(session[s])

ResolutionInv ==
  /\ TypeOK /\ AloneInv /\ LastIsOpen /\ ReadInv /\ RowInv /\ JudgedInv
  /\ EventsFormPath /\ OverlayAgrees /\ DecidedWhenSettled
=============================================================================
