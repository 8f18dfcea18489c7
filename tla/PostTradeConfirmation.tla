----------------------- MODULE PostTradeConfirmation -----------------------
(***************************************************************************)
(* The confirmation of real carry executions against venue truth.  Before  *)
(* an order is submitted its step records the position the venue shows;    *)
(* at every refresh of the venue's snapshot the recent steps are grouped   *)
(* by market and side, and each is judged by the change of position up to  *)
(* the next step's record (or up to the snapshot, for the last one) and by *)
(* the fill events the adapter attributes to it.  The verdicts patch the   *)
(* steps, and decide whether the connector is execution-ready.             *)
(*                                                                         *)
(* One venue and one market; sizes are whole units, larger than the        *)
(* tolerance of the comparison.  MaxOrders stays below the number of       *)
(* candidates the store returns.                                           *)
(***************************************************************************)
EXTENDS Integers, Sequences, FiniteSets, SequencesExt

CONSTANTS MaxOrders, MaxSize, MaxEvaluations

VARIABLES pos,         \* the venue's position, signed
          orders,      \* submitted orders: their step's columns, and what was filled
          steps,       \* per order, the status and the filled size the step shows
          evaluations, \* evaluations so far
          late,        \* history: a fill came after a later step's record
          sides        \* history: the sides the position has been on

vars == <<pos, orders, steps, evaluations, late, sides>>

Least(a, b)    == IF a < b THEN a ELSE b
decimalMax(a, b) == IF a > b THEN a ELSE b
Magnitude(p)   == IF p < 0 THEN -p ELSE p
SideOf(p)      == IF p > 0 THEN "long" ELSE IF p < 0 THEN "short" ELSE "flat"

Correlations == {"event_unmatched", "event_matched_strong", "event_matched_probable",
                 "conflicting_event"}

(* mutant: a reduce-only order is taken for one that opens *)
SideOfOrder(side, reduceOnly) == IF side = "buy" THEN "long" ELSE "short"

expectedPositionSideForOrder(side, reduceOnly) ==
  IF (side = "buy") = ~reduceOnly THEN "long" ELSE "short"

(* mutant: the position before the trade is taken to be flat *)
CaptureFlat(p) == [captured |-> TRUE, side |-> "flat", size |-> 0]

capturePreTradePositionContext(p) == [captured |-> TRUE, side |-> SideOf(p), size |-> Magnitude(p)]
Unavailable == [captured |-> FALSE, side |-> "none", size |-> 0]

-----------------------------------------------------------------------------
Init ==
  /\ pos = 0
  /\ orders = <<>>
  /\ steps = <<>>
  /\ evaluations = 0
  /\ late = FALSE
  /\ sides = {}

(* buildCarryExecutionStepMetadata, then the venue accepts the order: the  *)
(* step records the position, unless the venue does not answer.            *)
Submit(side, reduceOnly, size) ==
  /\ Len(orders) < MaxOrders
  /\ reduceOnly => SideOf(pos) = expectedPositionSideForOrder(side, TRUE)
  /\ \E ctx \in {capturePreTradePositionContext(pos), Unavailable} :
       orders' = Append(orders, [side |-> side, reduceOnly |-> reduceOnly, size |-> size,
                                 filled |-> 0, ctx |-> ctx])
  /\ steps' = Append(steps, [status |-> "submitted", filledSize |-> 0])
  /\ UNCHANGED <<pos, evaluations, late, sides>>

(* The venue fills a unit of an order; a reduce-only order never turns the *)
(* position.                                                               *)
Fill(i) ==
  /\ orders[i].filled < orders[i].size
  /\ orders[i].reduceOnly => SideOf(pos) = expectedPositionSideForOrder(orders[i].side, TRUE)
  /\ pos' = IF orders[i].side = "buy" THEN pos + 1 ELSE pos - 1
  /\ orders' = [orders EXCEPT ![i].filled = @ + 1]
  /\ late' = (late \/ i < Len(orders))
  /\ sides' = sides \cup {SideOf(pos')}
  /\ UNCHANGED <<steps, evaluations>>

-----------------------------------------------------------------------------
(***************************************************************************)
(* evaluatePostTradeConfirmation.  What an evaluation reads of an order:   *)
(* seen, whether the snapshot shows its reference, and the correlation of  *)
(* its fill events, which may report an amount when they match.            *)
(***************************************************************************)
candidateGroupKey(o) ==
  IF o.ctx.side \in {"long", "short"} THEN o.ctx.side
  ELSE expectedPositionSideForOrder(o.side, o.reduceOnly)

Usable(o) ==
  o.ctx.captured /\ (o.reduceOnly => o.ctx.side \in {"long", "short"})

NextInGroup(i) ==
  LET later == {j \in DOMAIN orders : j > i /\ candidateGroupKey(orders[j]) = candidateGroupKey(orders[i])}
  IN IF later = {} THEN 0 ELSE Min(later)

findSnapshotPositionBoundary == [captured |-> TRUE, side |-> SideOf(pos), size |-> Magnitude(pos)]

(* mutant: every step is judged by the snapshot *)
BoundarySnapshot(i) == findSnapshotPositionBoundary

Boundary(i) ==
  IF NextInGroup(i) = 0 THEN findSnapshotPositionBoundary ELSE orders[NextInGroup(i)].ctx

positionExposureForSide(ctx, side) == IF ctx.side = side THEN ctx.size ELSE 0

(* What matching events report, when they carry an amount. *)
EventFill(o, e, default) == IF e.amount THEN Least(o.filled, o.size) ELSE default

Contradicted(o, b) ==
  LET target == expectedPositionSideForOrder(o.side, o.reduceOnly)
  IN IF o.reduceOnly
     THEN b.side \notin {"flat", o.ctx.side} \/ b.size > o.ctx.size
     ELSE \/ b.side \notin {"flat", target}
          \/ o.ctx.side \notin {"flat", target}
          \/ positionExposureForSide(o.ctx, target) > positionExposureForSide(b, target)

PositionConfirmed(o, b) ==
  LET target == expectedPositionSideForOrder(o.side, o.reduceOnly)
      change == IF o.reduceOnly THEN o.ctx.size - b.size
                ELSE positionExposureForSide(b, target) - positionExposureForSide(o.ctx, target)
  IN Least(decimalMax(change, 0), o.size)

Verdict(status, confirmed) == [status |-> status, confirmed |-> confirmed]

evaluatePostTradeConfirmationGroup(i, e) ==
  LET o == orders[i]
      b == Boundary(i)
      confirmed == PositionConfirmed(o, b)
      strong == e.correlation = "event_matched_strong"
      matched == e.correlation \in {"event_matched_strong", "event_matched_probable"}
  IN IF ~Usable(o) THEN Verdict("insufficient_context", 0)
     ELSE IF ~e.seen THEN Verdict("missing_reference", 0)
     ELSE IF ~b.captured THEN Verdict("insufficient_context", 0)
     ELSE IF e.correlation = "conflicting_event" THEN
       Verdict(IF confirmed > 0 \/ Contradicted(o, b) THEN "conflicting_event_vs_position"
               ELSE "conflicting_event", confirmed)
     ELSE IF Contradicted(o, b) THEN
       Verdict(IF matched THEN "conflicting_event_vs_position" ELSE "invalid_position_delta", 0)
     ELSE IF strong THEN
       IF confirmed = 0 THEN Verdict("pending_position_delta", 0)
       ELSE IF EventFill(o, e, o.size) > confirmed
            THEN Verdict("confirmed_partial_event_only", confirmed)
       ELSE IF confirmed = o.size THEN Verdict("confirmed_full", o.size)
       ELSE Verdict("confirmed_partial", confirmed)
     ELSE IF confirmed > 0 THEN Verdict("confirmed_partial_position_only", confirmed)
     ELSE Verdict("pending_event", 0)

(* mutant: a pending evaluation resets the step *)
PatchAlways(i, e) ==
  LET v == evaluatePostTradeConfirmationGroup(i, e)
  IN IF v.status = "confirmed_full" THEN [status |-> "filled", filledSize |-> orders[i].size]
     ELSE [status |-> "partially_filled", filledSize |-> v.confirmed]

(* deriveConfirmationPatch: a patch raises a step to what position and     *)
(* events report, and leaves a pending or conflicting one as it is.        *)
deriveConfirmationPatch(i, e) ==
  LET v == evaluatePostTradeConfirmationGroup(i, e)
      known == decimalMax(v.confirmed, EventFill(orders[i], e, 0))
  IN CASE v.status = "confirmed_full" ->
            [status |-> "filled", filledSize |-> orders[i].size]
       [] /\ v.status \in {"confirmed_partial", "confirmed_partial_event_only",
                           "confirmed_partial_position_only", "pending_position_delta"}
          /\ v.confirmed > 0 \/ e.amount ->
            [status |-> "partially_filled", filledSize |-> known]
       [] OTHER -> steps[i]

(* The state the snapshot records for the connector. *)
executionConfirmationState(ev) ==
  IF orders = <<>> THEN "not_required"
  ELSE IF \A i \in DOMAIN orders :
            evaluatePostTradeConfirmationGroup(i, ev[i]).status = "confirmed_full"
  THEN "confirmed" ELSE "blocked"

Evidence ==
  {e \in [seen : BOOLEAN, correlation : Correlations, amount : BOOLEAN] :
     /\ ~e.seen => e.correlation = "event_unmatched"
     /\ e.amount => e.correlation \in {"event_matched_strong", "event_matched_probable"}}

(* The steps of a refresh are written one after the other, and the verdict *)
(* of one does not depend on the evidence of another.                      *)
enrichVenueSnapshotWithExecutionConfirmation(i, e) ==
  /\ evaluations < MaxEvaluations
  /\ evaluations' = evaluations + 1
  /\ steps' = [steps EXCEPT ![i] = deriveConfirmationPatch(i, e)]
  /\ UNCHANGED <<pos, orders, late, sides>>

Next ==
  \/ \E side \in {"buy", "sell"}, reduceOnly \in BOOLEAN, size \in 1..MaxSize :
       Submit(side, reduceOnly, size)
  \/ \E i \in DOMAIN orders : Fill(i)
  \/ \E i \in DOMAIN orders, e \in Evidence : enrichVenueSnapshotWithExecutionConfirmation(i, e)

Spec == Init /\ [][Next]_vars

-----------------------------------------------------------------------------
(***************************************************************************)
(* Properties.                                                             *)
(***************************************************************************)
(* An order opens or adds on the side the position is on, or reduces it. *)
InTurn(o) ==
  o.reduceOnly \/ o.ctx.side \in {"flat", expectedPositionSideForOrder(o.side, FALSE)}

OneSided == ~({"long", "short"} \subseteq sides)

(* The columns of the steps, and the orders they stand for. *)
TypeOK ==
  /\ Len(steps) = Len(orders)
  /\ \A i \in DOMAIN steps :
       /\ steps[i].status \in {"submitted", "partially_filled", "filled"}
       /\ steps[i].filledSize \in 0..orders[i].size
       /\ orders[i].filled \in 0..orders[i].size

(* A change of position belongs to one order as long as no order was       *)
(* filled after a later one had recorded the position it started from (the *)
(* later one's change then contains both), each order recorded it, and the *)
(* position never changed sides (steps of the two sides are judged apart). *)
Attributable ==
  ~late /\ OneSided /\ \A i \in DOMAIN orders : orders[i].ctx.captured

(* A step never shows more than the venue has filled of its order, as long *)
(* as changes of position are attributable.                                *)
NeverOverstated ==
  Attributable =>
    \A i \in DOMAIN steps : steps[i].filledSize <= orders[i].filled

(* When every order was in turn and was filled in full, and every          *)
(* reference and strong fill event is there, the connector is not blocked, *)
(* as long as the position never changed sides.                            *)
FilledIsConfirmed ==
  (/\ orders # <<>> /\ Attributable
   /\ \A i \in DOMAIN orders : InTurn(orders[i]) /\ orders[i].filled = orders[i].size)
  => executionConfirmationState([i \in DOMAIN orders |->
       [seen |-> TRUE, correlation |-> "event_matched_strong", amount |-> TRUE]]) = "confirmed"

(* No evidence confirms an order in full of which the venue owes a part,   *)
(* so a connector whose executions are confirmed is owed nothing, as long  *)
(* as changes of position are attributable.                                *)
ConfirmedOwesNothing ==
  Attributable =>
    \A i \in DOMAIN orders, e \in Evidence :
      evaluatePostTradeConfirmationGroup(i, e).status = "confirmed_full" =>
        orders[i].filled = orders[i].size

(* The filled size a step shows never shrinks, as long as each order was   *)
(* in turn and the position never changed sides.  (Its status may: when    *)
(* the fill events of a filled step cannot be loaded again, the next       *)
(* evaluation calls it partially filled, with its full size.)              *)
FilledSizeKept ==
  [][ (/\ Attributable
       /\ \A i \in DOMAIN orders : InTurn(orders[i])) =>
      \A i \in DOMAIN steps : steps'[i].filledSize >= steps[i].filledSize ]_vars

-----------------------------------------------------------------------------
(***************************************************************************)
(* The invariant behind them: as long as no fill was late, two records are *)
(* apart by what was filled of the first order when nothing was filled of  *)
(* those between; an order of which something was filled has its group on  *)
(* a side the position has been on.                                        *)
(***************************************************************************)
Types ==
  /\ pos \in Int
  /\ orders \in Seq([side : {"buy", "sell"}, reduceOnly : BOOLEAN, size : Nat \ {0}, filled : Nat,
                     ctx : [captured : BOOLEAN, side : {"long", "short", "flat", "none"},
                            size : Nat]])
  /\ steps \in Seq([status : {"submitted", "partially_filled", "filled"}, filledSize : Nat])
  /\ late \in BOOLEAN

(* The recorded position, signed, and what the fills of an order add to it. *)
Signed(ctx) == IF ctx.side = "long" THEN ctx.size ELSE IF ctx.side = "short" THEN -ctx.size ELSE 0
Added(o)    == IF o.side = "buy" THEN o.filled ELSE -o.filled

RecordsInv ==
  /\ pos # 0 => SideOf(pos) \in sides
  /\ \A i \in DOMAIN orders : LET o == orders[i] IN o.ctx.captured =>
       /\ o.ctx.side \in {"flat"} \cup (sides \cap {"long", "short"})
       /\ o.ctx.side = "flat" <=> o.ctx.size = 0
       /\ o.reduceOnly => o.ctx.side = expectedPositionSideForOrder(o.side, TRUE)
       /\ ~late /\ o.filled > 0 => candidateGroupKey(o) \in sides

ChainInv ==
  ~late =>
    \A i \in DOMAIN orders : orders[i].ctx.captured =>
      /\ \A j \in DOMAIN orders :
           /\ i < j /\ orders[j].ctx.captured
           /\ \A k \in DOMAIN orders : i < k /\ k < j => orders[k].filled = 0
           => Signed(orders[j].ctx) = Signed(orders[i].ctx) + Added(orders[i])
      /\ (\A k \in DOMAIN orders : i < k => orders[k].filled = 0) =>
           pos = Signed(orders[i].ctx) + Added(orders[i])

ConfirmationInv == Types /\ TypeOK /\ RecordsInv /\ ChainInv /\ NeverOverstated
=============================================================================
