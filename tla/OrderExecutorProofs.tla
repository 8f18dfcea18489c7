------------------------ MODULE OrderExecutorProofs ------------------------
(***************************************************************************)
(* Theorems about OrderExecutor, for every number of fills and of retries. *)
(***************************************************************************)
EXTENDS OrderExecutor, TLAPS

-----------------------------------------------------------------------------
(* The inductive invariant                                                 *)

\* The adapter: at most one order, entered after the price of a market order is
\* known, and open only as long as nothing was executed.
VenueInv ==
    /\ placed \in {0, 1}
    /\ placed = 0 => venue = [status |-> "none", open |-> FALSE] /\ executed = 0
    /\ placed = 1 => venue.status # "none"
    /\ spc = "price" => placed = 0
    /\ spc = "result" => placed = 1
    /\ type = "market" => executed <= placed
    /\ venue.open => venue.status = "submitted" /\ executed = 0 /\ type = "limit"

\* A getOrder past its check began before anything was executed.
PollInv ==
    \A p \in Pollers : /\ ppc[p] = "price" => p \notin late /\ type = "limit"
                       /\ p \in late => executed > 0

\* Whoever holds a venue identifier, or an answer of the venue, was given it.
KnownInv ==
    /\ record.known => placed = 1
    /\ record.status = "none" => record = NoRecord
    /\ \A p \in Pollers : /\ ppc[p] # "idle" => record.known
                          /\ ppc[p] = "update" => polled[p] # "none"
    /\ cpc \in {"venue", "update"} => record.known
    /\ cpc = "update" => ~venue.open

\* What a call concluded from a filled order holds on.
FilledInv ==
    /\ record.status \in {"partially_filled", "filled"} => venue.status = "filled"
    /\ \A p \in Pollers :
         /\ polled[p] \in {"partially_filled", "filled"} => venue.status = "filled"
         /\ reported[p] = "filled" => venue.status = "filled"
    /\ spc = "result" /\ result = "filled" => venue.status = "filled"
    /\ \A c \in Feeds : fpc[c] = "update" => venue.status = "filled"

\* What submitIntent holds while it is between reading the record and saving it.
SaveInv ==
    /\ record.status = "pending" => spc = "submit"
    /\ spc = "save" =>
         /\ seen.status \in {"none", "failed"}
         /\ seen.status = "none" => seen = NoRecord /\ record = NoRecord
         /\ seen.known = record.known
         /\ ~seen.known => seen.status = record.status

\* Where the open order is, and what a cancelled record says of it.
TrackInv ==
    /\ spc \in {"place", "price"} /\ placed = 0 => record.status \in {"submitted", "cancelled"}
    /\ venue.open /\ ~record.known =>
         \/ record.status = "cancelled"
         \/ spc = "result" /\ record.status = "submitted" /\ result = "submitted"
    /\ record.status = "cancelled" /\ ~blind => record.known /\ ~venue.open
    /\ \A p \in Pollers : ppc[p] # "idle" /\ polled[p] = "cancelled" /\ ~blind => ~venue.open

IInv == TypeOK /\ VenueInv /\ PollInv /\ KnownInv /\ FilledInv /\ SaveInv /\ TrackInv

\* The record and the orders that enter the state are of their types.
LEMMA NoRecordType == NoRecord \in OrderRecord
  BY Zenon DEF NoRecord, OrderRecord

\* What the adapter stores for an order.
LEMMA VenueTypes ==
    /\ [status |-> "none", open |-> FALSE] \in VenueOrder
    /\ [status |-> "submitted", open |-> TRUE] \in VenueOrder
    /\ [status |-> "filled", open |-> FALSE] \in VenueOrder
    /\ [status |-> "rejected", open |-> FALSE] \in VenueOrder
  BY Zenon DEF VenueOrder, VenueStatus

\* What RecordResult and RecordFill store.
LEMMA MergeTypes ==
    ASSUME NEW r \in OrderRecord, NEW to \in OrderStatus, NEW s \in SUBSET FillIds
    PROVE  /\ [[r EXCEPT !.known = TRUE] EXCEPT !.status = to] \in OrderRecord
           /\ [[r EXCEPT !.fills = s] EXCEPT !.status = to] \in OrderRecord
  BY DEF OrderRecord

\* The initial state satisfies it.
LEMMA InitInv == Init => IInv
<1> SUFFICES ASSUME Init PROVE IInv
  OBVIOUS
<1>1. TypeOK
  <2>1. record \in OrderRecord /\ seen \in OrderRecord /\ blind \in BOOLEAN
    BY NoRecordType, Zenon DEF Init
  <2>2. venue \in VenueOrder
    BY VenueTypes, Zenon DEF Init
  <2> QED
    BY <2>1, <2>2, ExecutorAssumption
       DEF Init, TypeOK, OrderStatus, VenueStatus, SubmitPC, PollPC, CancelPC, FillPC
<1>2. VenueInv /\ PollInv /\ KnownInv
  BY DEF Init, NoRecord, VenueInv, PollInv, KnownInv
<1>3. FilledInv /\ SaveInv /\ TrackInv
  BY DEF Init, NoRecord, FilledInv, SaveInv, TrackInv
<1> QED
  BY <1>1, <1>2, <1>3 DEF IInv

\* Every step keeps the types.
LEMMA TypeOKStep == ASSUME IInv, [Next]_vars PROVE TypeOK'
<1> USE ExecutorAssumption
    DEF IInv, TypeOK, OrderStatus, TERMINAL_ORDER_STATUSES, VenueStatus, SubmitPC, PollPC,
        CancelPC, FillPC, isValidStatusTransition, updateThrows, updateStatus,
        updateStatusWith, venueVars, submitVars, pollVars, cancelVars, fillVars
<1>1. CASE SubmitIntent
  BY <1>1 DEF SubmitIntent, OrderRecord, VenueOrder
<1>2. CASE SaveRecord
  <2>1. record' \in OrderRecord /\ seen' \in OrderRecord
    BY <1>2, NoRecordType DEF SaveRecord, OrderRecord
  <2> QED
    BY <1>2, <2>1 DEF SaveRecord
<1>3. CASE BeginAttempt
  BY <1>3 DEF BeginAttempt, OrderRecord, VenueOrder
<1>4. CASE PlaceOrder
  <2>1. venue' \in VenueOrder
    BY <1>4, VenueTypes DEF PlaceOrder, PlaceOrderAgain, PlaceOrderThrows,
         PlaceMarketOrder, PlaceLimitOrder
  <2>2. venue.status \in VenueStatus \cup {"none"}
    BY DEF VenueOrder
  <2> QED
    BY <1>4, <2>1, <2>2 DEF PlaceOrder, PlaceOrderAgain, PlaceOrderThrows,
         PlaceMarketOrder, PlaceLimitOrder
<1>5. CASE FillMarketOrder
  <2>1. venue' \in VenueOrder
    BY <1>5, VenueTypes DEF FillMarketOrder
  <2> QED
    BY <1>5, <2>1 DEF FillMarketOrder
<1>6. CASE RecordResult
  <2>1. record' \in OrderRecord
    <3> DEFINE to == statusOf(result, "submitted")
    <3>1. to \in OrderStatus
      BY DEF statusOf
    <3>2. \/ record' = [[record EXCEPT !.known = TRUE] EXCEPT !.status = to]
          \/ record' = record
      BY <1>6, Zenon DEF RecordResult
    <3> HIDE DEF to
    <3>3. [[record EXCEPT !.known = TRUE] EXCEPT !.status = to] \in OrderRecord
      BY <3>1, MergeTypes
    <3> QED
      BY <3>2, <3>3, Zenon
  <2> QED
    BY <1>6, <2>1 DEF RecordResult
<1>7. CASE WriteAudit
  BY <1>7 DEF WriteAudit, OrderRecord, VenueOrder
<1>8. CASE CatchAttempt
  BY <1>8 DEF CatchAttempt, OrderRecord, VenueOrder
<1>9. ASSUME NEW p \in Pollers, PollOrderStatus(p) PROVE TypeOK'
  BY <1>9 DEF PollOrderStatus, OrderRecord, VenueOrder
<1>10. ASSUME NEW p \in Pollers, GetOrder(p) PROVE TypeOK'
  BY <1>10 DEF GetOrder, OrderRecord, VenueOrder
<1>11. ASSUME NEW p \in Pollers, TryFillLimitOrder(p) PROVE TypeOK'
  <2>1. venue' \in VenueOrder
    BY <1>11, VenueTypes DEF TryFillLimitOrder
  <2> QED
    BY <1>11, <2>1 DEF TryFillLimitOrder
<1>12. ASSUME NEW p \in Pollers, ReturnOrder(p) PROVE TypeOK'
  BY <1>12 DEF ReturnOrder, OrderRecord, VenueOrder
<1>13. ASSUME NEW p \in Pollers, RecordPoll(p) PROVE TypeOK'
  BY <1>13 DEF RecordPoll, statusOf, OrderRecord, VenueOrder
<1>14. CASE CancelOrder
  BY <1>14 DEF CancelOrder, OrderRecord, VenueOrder
<1>15. CASE CancelLocally
  <2>1. blind' \in BOOLEAN
    BY <1>15, Zenon DEF CancelLocally
  <2>2. record' \in OrderRecord
    BY <1>15 DEF CancelLocally, OrderRecord
  <2> QED
    BY <1>15, <2>1, <2>2 DEF CancelLocally
<1>16. CASE CancelAtVenue
  <2>1. venue' \in VenueOrder
    BY <1>16, VenueTypes DEF CancelAtVenue
  <2> QED
    BY <1>16, <2>1 DEF CancelAtVenue
<1>17. CASE RecordCancel
  BY <1>17 DEF RecordCancel, OrderRecord, VenueOrder
<1>18. ASSUME NEW c \in Feeds, NEW f \in FillIds, ProcessFill(c, f) PROVE TypeOK'
  BY <1>18 DEF ProcessFill, OrderRecord, VenueOrder
<1>19. ASSUME NEW c \in Feeds, RecordFill(c) PROVE TypeOK'
  <2>1. record' \in OrderRecord
    <3> DEFINE to == IF merged[c] = FillIds THEN "filled" ELSE "partially_filled"
    <3>1. to \in OrderStatus
      OBVIOUS
    <3>2. \/ record' = [[record EXCEPT !.fills = merged[c]] EXCEPT !.status = to]
          \/ record' = record
      BY <1>19, Zenon DEF RecordFill
    <3>3. record \in OrderRecord /\ merged[c] \in SUBSET FillIds
      OBVIOUS
    <3> HIDE DEF to
    <3>4. [[record EXCEPT !.fills = merged[c]] EXCEPT !.status = to] \in OrderRecord
      BY <3>1, <3>3, MergeTypes, Zenon
    <3> QED
      BY <3>2, <3>3, <3>4, Zenon
  <2> QED
    BY <1>19, <2>1 DEF RecordFill
<1>20. ASSUME NEW p \in Pollers, ReconcileOrder(p) PROVE TypeOK'
  BY <1>20 DEF ReconcileOrder, OrderRecord, VenueOrder
<1>21. CASE UNCHANGED vars
  BY <1>21 DEF vars
<1> QED
  BY <1>1, <1>2, <1>3, <1>4, <1>5, <1>6, <1>7, <1>8, <1>9, <1>10, <1>11, <1>12, <1>13,
       <1>14, <1>15, <1>16, <1>17, <1>18, <1>19, <1>20, <1>21 DEF Next, Submitter, Poller,
       Canceller

\* Every step keeps the adapter within one order.
LEMMA VenueInvStep == ASSUME IInv, [Next]_vars PROVE VenueInv' /\ PollInv'
<1> USE ExecutorAssumption DEF IInv, TypeOK, OrderRecord, OrderStatus, TERMINAL_ORDER_STATUSES,
        VenueOrder, VenueStatus, SubmitPC, PollPC, CancelPC, FillPC, NoRecord,
        isValidStatusTransition, updateThrows, updateStatus, updateStatusWith,
        venueVars, submitVars, pollVars, cancelVars, fillVars,
        VenueInv, PollInv, KnownInv
<1>1. CASE SubmitIntent
  BY <1>1 DEF SubmitIntent
<1>2. CASE SaveRecord
  BY <1>2 DEF SaveRecord
<1>3. CASE BeginAttempt
  BY <1>3 DEF BeginAttempt
<1>4. CASE PlaceOrder
  BY <1>4 DEF PlaceOrder, PlaceOrderAgain, PlaceOrderThrows, PlaceMarketOrder,
       PlaceLimitOrder
<1>5. CASE FillMarketOrder
  BY <1>5 DEF FillMarketOrder
<1>6. CASE RecordResult
  BY <1>6 DEF RecordResult, statusOf
<1>7. CASE WriteAudit
  BY <1>7 DEF WriteAudit
<1>8. CASE CatchAttempt
  BY <1>8 DEF CatchAttempt
<1>9. ASSUME NEW p \in Pollers, PollOrderStatus(p) PROVE VenueInv' /\ PollInv'
  BY <1>9 DEF PollOrderStatus
<1>10. ASSUME NEW p \in Pollers, GetOrder(p) PROVE VenueInv' /\ PollInv'
  BY <1>10 DEF GetOrder
<1>11. ASSUME NEW p \in Pollers, TryFillLimitOrder(p) PROVE VenueInv' /\ PollInv'
  <2>1. type = "limit" /\ p \notin late /\ placed \in {0, 1} /\ executed \in Nat
    BY <1>11 DEF TryFillLimitOrder
  <2>2. \/ UNCHANGED <<venue, executed>>
        \/ executed' = executed + 1 /\ venue' = [status |-> "filled", open |-> FALSE]
    BY <1>11 DEF TryFillLimitOrder
  <2>3. UNCHANGED <<type, placed, spc, late>> /\ ppc' = [ppc EXCEPT ![p] = "return"]
    BY <1>11 DEF TryFillLimitOrder
  <2>4. placed = 1
    BY <1>11 DEF TryFillLimitOrder
  <2>5. VenueInv'
    BY <2>1, <2>2, <2>3, <2>4
  <2>6. PollInv'
    BY <2>1, <2>2, <2>3
  <2> QED
    BY <2>5, <2>6
<1>12. ASSUME NEW p \in Pollers, ReturnOrder(p) PROVE VenueInv' /\ PollInv'
  BY <1>12 DEF ReturnOrder
<1>13. ASSUME NEW p \in Pollers, RecordPoll(p) PROVE VenueInv' /\ PollInv'
  BY <1>13 DEF RecordPoll, statusOf
<1>14. CASE CancelOrder
  BY <1>14 DEF CancelOrder
<1>15. CASE CancelLocally
  BY <1>15 DEF CancelLocally
<1>16. CASE CancelAtVenue
  BY <1>16 DEF CancelAtVenue
<1>17. CASE RecordCancel
  BY <1>17 DEF RecordCancel
<1>18. ASSUME NEW c \in Feeds, NEW f \in FillIds, ProcessFill(c, f) PROVE VenueInv' /\ PollInv'
  BY <1>18 DEF ProcessFill
<1>19. ASSUME NEW c \in Feeds, RecordFill(c) PROVE VenueInv' /\ PollInv'
  BY <1>19 DEF RecordFill
<1>20. ASSUME NEW p \in Pollers, ReconcileOrder(p) PROVE VenueInv' /\ PollInv'
  BY <1>20 DEF ReconcileOrder
<1>21. CASE UNCHANGED vars
  BY <1>21 DEF vars
<1> QED
  BY <1>1, <1>2, <1>3, <1>4, <1>5, <1>6, <1>7, <1>8, <1>9, <1>10, <1>11, <1>12, <1>13,
       <1>14, <1>15, <1>16, <1>17, <1>18, <1>19, <1>20, <1>21 DEF Next, Submitter, Poller,
       Canceller

\* Every step keeps the venue identifiers honest.
LEMMA KnownInvStep == ASSUME IInv, [Next]_vars PROVE KnownInv'
<1> USE ExecutorAssumption DEF IInv, TypeOK, OrderRecord, OrderStatus, TERMINAL_ORDER_STATUSES,
        VenueOrder, VenueStatus, SubmitPC, PollPC, CancelPC, FillPC, NoRecord,
        isValidStatusTransition, updateThrows, updateStatus, updateStatusWith,
        venueVars, submitVars, pollVars, cancelVars, fillVars,
        VenueInv, KnownInv, SaveInv
<1>1. CASE SubmitIntent
  BY <1>1 DEF SubmitIntent
<1>2. CASE SaveRecord
  BY <1>2 DEF SaveRecord
<1>3. CASE BeginAttempt
  BY <1>3 DEF BeginAttempt
<1>4. CASE PlaceOrder
  BY <1>4 DEF PlaceOrder, PlaceOrderAgain, PlaceOrderThrows, PlaceMarketOrder,
       PlaceLimitOrder
<1>5. CASE FillMarketOrder
  BY <1>5 DEF FillMarketOrder
<1>6. CASE RecordResult
  <2>1. record' = record \/ (record'.known /\ record'.status # "none")
    BY <1>6 DEF RecordResult, statusOf
  <2>2. UNCHANGED <<placed, venue, ppc, polled, cpc>> /\ placed = 1
    BY <1>6 DEF RecordResult
  <2> QED
    BY <2>1, <2>2
<1>7. CASE WriteAudit
  BY <1>7 DEF WriteAudit
<1>8. CASE CatchAttempt
  BY <1>8 DEF CatchAttempt
<1>9. ASSUME NEW p \in Pollers, PollOrderStatus(p) PROVE KnownInv'
  BY <1>9 DEF PollOrderStatus
<1>10. ASSUME NEW p \in Pollers, GetOrder(p) PROVE KnownInv'
  BY <1>10 DEF GetOrder
<1>11. ASSUME NEW p \in Pollers, TryFillLimitOrder(p) PROVE KnownInv'
  BY <1>11 DEF TryFillLimitOrder
<1>12. ASSUME NEW p \in Pollers, ReturnOrder(p) PROVE KnownInv'
  BY <1>12 DEF ReturnOrder
<1>13. ASSUME NEW p \in Pollers, RecordPoll(p) PROVE KnownInv'
  BY <1>13 DEF RecordPoll, statusOf
<1>14. CASE CancelOrder
  BY <1>14 DEF CancelOrder
<1>15. CASE CancelLocally
  BY <1>15 DEF CancelLocally
<1>16. CASE CancelAtVenue
  BY <1>16 DEF CancelAtVenue
<1>17. CASE RecordCancel
  BY <1>17 DEF RecordCancel
<1>18. ASSUME NEW c \in Feeds, NEW f \in FillIds, ProcessFill(c, f) PROVE KnownInv'
  BY <1>18 DEF ProcessFill
<1>19. ASSUME NEW c \in Feeds, RecordFill(c) PROVE KnownInv'
  BY <1>19 DEF RecordFill
<1>20. ASSUME NEW p \in Pollers, ReconcileOrder(p) PROVE KnownInv'
  BY <1>20 DEF ReconcileOrder
<1>21. CASE UNCHANGED vars
  BY <1>21 DEF vars
<1> QED
  BY <1>1, <1>2, <1>3, <1>4, <1>5, <1>6, <1>7, <1>8, <1>9, <1>10, <1>11, <1>12, <1>13,
       <1>14, <1>15, <1>16, <1>17, <1>18, <1>19, <1>20, <1>21 DEF Next, Submitter, Poller,
       Canceller

\* Every step keeps what is concluded from a filled order.
LEMMA FilledInvStep == ASSUME IInv, [Next]_vars PROVE FilledInv'
<1> USE ExecutorAssumption DEF IInv, TypeOK, OrderRecord, OrderStatus, TERMINAL_ORDER_STATUSES,
        VenueOrder, VenueStatus, SubmitPC, PollPC, CancelPC, FillPC, NoRecord,
        isValidStatusTransition, updateThrows, updateStatus, updateStatusWith,
        venueVars, submitVars, pollVars, cancelVars, fillVars,
        VenueInv, KnownInv, FilledInv, SaveInv
<1>1. CASE SubmitIntent
  BY <1>1 DEF SubmitIntent
<1>2. CASE SaveRecord
  BY <1>2 DEF SaveRecord
<1>3. CASE BeginAttempt
  BY <1>3 DEF BeginAttempt
<1>4. CASE PlaceOrder
  BY <1>4 DEF PlaceOrder, PlaceOrderAgain, PlaceOrderThrows, PlaceMarketOrder,
       PlaceLimitOrder
<1>5. CASE FillMarketOrder
  BY <1>5 DEF FillMarketOrder
<1>6. CASE RecordResult
  BY <1>6 DEF RecordResult, statusOf
<1>7. CASE WriteAudit
  BY <1>7 DEF WriteAudit
<1>8. CASE CatchAttempt
  BY <1>8 DEF CatchAttempt
<1>9. ASSUME NEW p \in Pollers, PollOrderStatus(p) PROVE FilledInv'
  BY <1>9 DEF PollOrderStatus
<1>10. ASSUME NEW p \in Pollers, GetOrder(p) PROVE FilledInv'
  BY <1>10 DEF GetOrder
<1>11. ASSUME NEW p \in Pollers, TryFillLimitOrder(p) PROVE FilledInv'
  BY <1>11 DEF TryFillLimitOrder
<1>12. ASSUME NEW p \in Pollers, ReturnOrder(p) PROVE FilledInv'
  BY <1>12 DEF ReturnOrder
<1>13. ASSUME NEW p \in Pollers, RecordPoll(p) PROVE FilledInv'
  BY <1>13 DEF RecordPoll, statusOf
<1>14. CASE CancelOrder
  BY <1>14 DEF CancelOrder
<1>15. CASE CancelLocally
  BY <1>15 DEF CancelLocally
<1>16. CASE CancelAtVenue
  BY <1>16 DEF CancelAtVenue
<1>17. CASE RecordCancel
  BY <1>17 DEF RecordCancel
<1>18. ASSUME NEW c \in Feeds, NEW f \in FillIds, ProcessFill(c, f) PROVE FilledInv'
  BY <1>18 DEF ProcessFill
<1>19. ASSUME NEW c \in Feeds, RecordFill(c) PROVE FilledInv'
  BY <1>19 DEF RecordFill
<1>20. ASSUME NEW p \in Pollers, ReconcileOrder(p) PROVE FilledInv'
  BY <1>20 DEF ReconcileOrder
<1>21. CASE UNCHANGED vars
  BY <1>21 DEF vars
<1> QED
  BY <1>1, <1>2, <1>3, <1>4, <1>5, <1>6, <1>7, <1>8, <1>9, <1>10, <1>11, <1>12, <1>13,
       <1>14, <1>15, <1>16, <1>17, <1>18, <1>19, <1>20, <1>21 DEF Next, Submitter, Poller,
       Canceller

\* Every step keeps what submitIntent holds before its save.
LEMMA SaveInvStep == ASSUME IInv, [Next]_vars PROVE SaveInv'
<1> USE ExecutorAssumption DEF IInv, TypeOK, OrderRecord, OrderStatus, TERMINAL_ORDER_STATUSES,
        VenueOrder, VenueStatus, SubmitPC, PollPC, CancelPC, FillPC, NoRecord,
        isValidStatusTransition, updateThrows, updateStatus, updateStatusWith,
        venueVars, submitVars, pollVars, cancelVars, fillVars,
        VenueInv, KnownInv, FilledInv, SaveInv
<1>1. CASE SubmitIntent
  BY <1>1 DEF SubmitIntent
<1>2. CASE SaveRecord
  BY <1>2 DEF SaveRecord
<1>3. CASE BeginAttempt
  BY <1>3 DEF BeginAttempt
<1>4. CASE PlaceOrder
  BY <1>4 DEF PlaceOrder, PlaceOrderAgain, PlaceOrderThrows, PlaceMarketOrder,
       PlaceLimitOrder
<1>5. CASE FillMarketOrder
  BY <1>5 DEF FillMarketOrder
<1>6. CASE RecordResult
  BY <1>6 DEF RecordResult, statusOf
<1>7. CASE WriteAudit
  BY <1>7 DEF WriteAudit
<1>8. CASE CatchAttempt
  BY <1>8 DEF CatchAttempt
<1>9. ASSUME NEW p \in Pollers, PollOrderStatus(p) PROVE SaveInv'
  BY <1>9 DEF PollOrderStatus
<1>10. ASSUME NEW p \in Pollers, GetOrder(p) PROVE SaveInv'
  BY <1>10 DEF GetOrder
<1>11. ASSUME NEW p \in Pollers, TryFillLimitOrder(p) PROVE SaveInv'
  BY <1>11 DEF TryFillLimitOrder
<1>12. ASSUME NEW p \in Pollers, ReturnOrder(p) PROVE SaveInv'
  BY <1>12 DEF ReturnOrder
<1>13. ASSUME NEW p \in Pollers, RecordPoll(p) PROVE SaveInv'
  <2>1. /\ record' = record \/ record'.status # "pending" \/ record.status = "pending"
        /\ record'.known /\ record.known
    BY <1>13 DEF RecordPoll, statusOf
  <2>2. record'.status = "pending" => record.status = "pending"
    BY <1>13, <2>1 DEF RecordPoll, statusOf
  <2>3. UNCHANGED <<spc, seen>> /\ (record' = record \/ record.status # "none")
    BY <1>13 DEF RecordPoll
  <2> QED
    BY <2>1, <2>2, <2>3
<1>14. CASE CancelOrder
  BY <1>14 DEF CancelOrder
<1>15. CASE CancelLocally
  BY <1>15 DEF CancelLocally
<1>16. CASE CancelAtVenue
  BY <1>16 DEF CancelAtVenue
<1>17. CASE RecordCancel
  BY <1>17 DEF RecordCancel
<1>18. ASSUME NEW c \in Feeds, NEW f \in FillIds, ProcessFill(c, f) PROVE SaveInv'
  BY <1>18 DEF ProcessFill
<1>19. ASSUME NEW c \in Feeds, RecordFill(c) PROVE SaveInv'
  BY <1>19 DEF RecordFill
<1>20. ASSUME NEW p \in Pollers, ReconcileOrder(p) PROVE SaveInv'
  BY <1>20 DEF ReconcileOrder
<1>21. CASE UNCHANGED vars
  BY <1>21 DEF vars
<1> QED
  BY <1>1, <1>2, <1>3, <1>4, <1>5, <1>6, <1>7, <1>8, <1>9, <1>10, <1>11, <1>12, <1>13,
       <1>14, <1>15, <1>16, <1>17, <1>18, <1>19, <1>20, <1>21 DEF Next, Submitter, Poller,
       Canceller

\* Every step keeps the open order and the cancelled record together.
LEMMA TrackInvStep == ASSUME IInv, [Next]_vars PROVE TrackInv'
<1> USE ExecutorAssumption DEF IInv, TypeOK, OrderRecord, OrderStatus, TERMINAL_ORDER_STATUSES,
        VenueOrder, VenueStatus, SubmitPC, PollPC, CancelPC, FillPC, NoRecord,
        isValidStatusTransition, updateThrows, updateStatus, updateStatusWith,
        venueVars, submitVars, pollVars, cancelVars, fillVars, VenueInv, KnownInv, FilledInv,
        SaveInv, TrackInv
<1>1. CASE SubmitIntent
  BY <1>1 DEF SubmitIntent
<1>2. CASE SaveRecord
  BY <1>2 DEF SaveRecord
<1>3. CASE BeginAttempt
  BY <1>3 DEF BeginAttempt
<1>4. CASE PlaceOrder
  <2>1. CASE PlaceOrderAgain
    BY <1>4, <2>1 DEF PlaceOrder, PlaceOrderAgain
  <2>2. CASE PlaceOrderThrows \/ PlaceMarketOrder
    BY <1>4, <2>2 DEF PlaceOrder, PlaceOrderThrows, PlaceMarketOrder
  <2>3. CASE PlaceLimitOrder
    <3>1. placed = 0 /\ ~record.known /\ UNCHANGED <<record, ppc, polled, blind>>
      BY <1>4, <2>3 DEF PlaceOrder, PlaceLimitOrder
    <3>2. \A p \in Pollers : ppc[p] = "idle"
      BY <3>1
    <3>3. placed' = 1 /\ spc' = "result" /\ result' = "submitted" /\ spc = "place"
      BY <1>4, <2>3, <3>1 DEF PlaceOrder, PlaceLimitOrder
    <3>4. record.status \in {"submitted", "cancelled"}
      BY <3>1, <3>3
    <3>5. record.status = "cancelled" => blind
      BY <3>1
    <3> QED
      BY <3>1, <3>2, <3>3, <3>4, <3>5
  <2> QED
    BY <1>4, <2>1, <2>2, <2>3 DEF PlaceOrder
<1>5. CASE FillMarketOrder
  BY <1>5 DEF FillMarketOrder
<1>6. CASE RecordResult
  BY <1>6 DEF RecordResult, statusOf
<1>7. CASE WriteAudit
  BY <1>7 DEF WriteAudit
<1>8. CASE CatchAttempt
  BY <1>8 DEF CatchAttempt
<1>9. ASSUME NEW p \in Pollers, PollOrderStatus(p) PROVE TrackInv'
  BY <1>9 DEF PollOrderStatus
<1>10. ASSUME NEW p \in Pollers, GetOrder(p) PROVE TrackInv'
  BY <1>10 DEF GetOrder
<1>11. ASSUME NEW p \in Pollers, TryFillLimitOrder(p) PROVE TrackInv'
  BY <1>11 DEF TryFillLimitOrder
<1>12. ASSUME NEW p \in Pollers, ReturnOrder(p) PROVE TrackInv'
  BY <1>12 DEF ReturnOrder
<1>13. ASSUME NEW p \in Pollers, RecordPoll(p) PROVE TrackInv'
  <2>1. record.known /\ record'.known /\ placed = 1
    BY <1>13 DEF RecordPoll
  <2>2. record'.status = "cancelled" => record.status = "cancelled" \/ polled[p] = "cancelled"
    BY <1>13 DEF RecordPoll, statusOf
  <2>3. UNCHANGED <<placed, venue, spc, blind, result>>
    BY <1>13 DEF RecordPoll
  <2>4. \A q \in Pollers : q # p => polled'[q] = polled[q] /\ ppc'[q] = ppc[q]
    BY <1>13 DEF RecordPoll
  <2>5. ppc'[p] = "idle" /\ ppc[p] # "idle"
    BY <1>13 DEF RecordPoll
  <2> QED
    BY <2>1, <2>2, <2>3, <2>4, <2>5
<1>14. CASE CancelOrder
  BY <1>14 DEF CancelOrder
<1>15. CASE CancelLocally
  BY <1>15 DEF CancelLocally
<1>16. CASE CancelAtVenue
  BY <1>16 DEF CancelAtVenue
<1>17. CASE RecordCancel
  BY <1>17 DEF RecordCancel
<1>18. ASSUME NEW c \in Feeds, NEW f \in FillIds, ProcessFill(c, f) PROVE TrackInv'
  BY <1>18 DEF ProcessFill
<1>19. ASSUME NEW c \in Feeds, RecordFill(c) PROVE TrackInv'
  <2>1. venue.status = "filled" /\ ~venue.open /\ placed = 1
    BY <1>19 DEF RecordFill
  <2>2. \/ record' = record
        \/ record'.status \in {"filled", "partially_filled"}
    BY <1>19 DEF RecordFill
  <2>3. UNCHANGED <<placed, venue, spc, ppc, polled, blind, result>>
    BY <1>19 DEF RecordFill
  <2> QED
    BY <2>1, <2>2, <2>3
<1>20. ASSUME NEW p \in Pollers, ReconcileOrder(p) PROVE TrackInv'
  BY <1>20 DEF ReconcileOrder
<1>21. CASE UNCHANGED vars
  BY <1>21 DEF vars
<1> QED
  BY <1>1, <1>2, <1>3, <1>4, <1>5, <1>6, <1>7, <1>8, <1>9, <1>10, <1>11, <1>12, <1>13,
       <1>14, <1>15, <1>16, <1>17, <1>18, <1>19, <1>20, <1>21 DEF Next, Submitter, Poller,
       Canceller

\* The invariant holds in every reachable state.
THEOREM Invariance == Spec => []IInv
<1>1. IInv /\ [Next]_vars => IInv'
  BY TypeOKStep, VenueInvStep, KnownInvStep, FilledInvStep, SaveInvStep, TrackInvStep DEF IInv
<1> QED
  BY InitInv, <1>1, PTL DEF Spec

-----------------------------------------------------------------------------
(* The theorems                                                            *)

(***************************************************************************)
(* The order record, the venue's order and what the callers keep between   *)
(* awaits have their types, for every number of callers, fills and retries.*)
(***************************************************************************)
THEOREM TypeCorrect == Spec => []TypeOK
<1>1. IInv => TypeOK
  BY DEF IInv
<1> QED
  BY Invariance, <1>1, PTL

(***************************************************************************)
(* submitIntent and its retries make the venue accept one order, a market  *)
(* order is executed once, and a getOrder that began after an execution   *)
(* never executes again, for any number of overlapping callers.            *)
(***************************************************************************)
THEOREM PlacedAndFilledOnceHolds == Spec => []PlacedAndFilledOnce
<1>1. IInv => PlacedAndFilledOnce
  <2>1. IInv => placed <= 1 /\ (type = "market" => executed <= placed)
    BY DEF IInv, VenueInv
  <2>2. IInv => \A p \in Pollers : ppc[p] = "price" => p \notin late
    BY DEF IInv, PollInv
  <2> QED
    BY <2>1, <2>2 DEF PlacedAndFilledOnce
<1> QED
  BY Invariance, <1>1, PTL

(***************************************************************************)
(* A record that says filled is of an order the venue filled.              *)
(***************************************************************************)
THEOREM FilledIsRealHolds == Spec => []FilledIsReal
<1>1. IInv => FilledIsReal
  BY DEF IInv, FilledInv, FilledIsReal
<1> QED
  BY Invariance, <1>1, PTL

(***************************************************************************)
(* No exception on any path of submitIntent leaves an open order that the  *)
(* store cannot name, unless the record was cancelled.                     *)
(***************************************************************************)
THEOREM OpenOrderIsTrackedHolds == Spec => []OpenOrderIsTracked
<1>1. IInv => OpenOrderIsTracked
  BY DEF IInv, TrackInv, OpenOrderIsTracked
<1> QED
  BY Invariance, <1>1, PTL

(***************************************************************************)
(* A cancelOrder that asked the venue leaves no open order behind.         *)
(***************************************************************************)
THEOREM CancelledIsClosedHolds == Spec => []CancelledIsClosed
<1>1. IInv => CancelledIsClosed
  BY DEF IInv, TrackInv, CancelledIsClosed
<1> QED
  BY Invariance, <1>1, PTL

(***************************************************************************)
(* A finished order changes only by the unchecked save of a submitIntent   *)
(* that read the record while it was failed; a fill is lost in that way, or*)
(* to a processFill that overlaps another before the order is filled.      *)
(***************************************************************************)
THEOREM StaleWriteHolds == Spec => UndoneOnlyByStaleWrite
<1> DEFINE Allowed == /\ Reopens => StaleSave
                      /\ LosesFill => StaleSave \/ (StaleFills /\ record.status # "filled")
<1>1. ASSUME IInv, [Next]_vars PROVE Allowed
  <2> USE DEF IInv, TypeOK, OrderRecord, OrderStatus, TERMINAL_ORDER_STATUSES, Reopens,
              LosesFill, isValidStatusTransition, updateThrows, updateStatus, updateStatusWith
  <2>1. CASE SaveRecord
    BY <1>1, <2>1 DEF SaveRecord, SaveInv, NoRecord, StaleSave
  <2>2. CASE SubmitIntent \/ PlaceOrder \/ FillMarketOrder \/ WriteAudit
    BY <1>1, <2>2 DEF SubmitIntent, PlaceOrder, FillMarketOrder, WriteAudit
  <2>3. CASE BeginAttempt \/ CatchAttempt
    BY <1>1, <2>3 DEF BeginAttempt, CatchAttempt
  <2>4. CASE RecordResult
    BY <1>1, <2>4 DEF RecordResult
  <2>5. ASSUME NEW p \in Pollers,
               \/ PollOrderStatus(p) \/ ReconcileOrder(p) \/ GetOrder(p)
               \/ TryFillLimitOrder(p) \/ ReturnOrder(p)
        PROVE  Allowed
    BY <1>1, <2>5 DEF PollOrderStatus, ReconcileOrder, GetOrder, TryFillLimitOrder, ReturnOrder
  <2>6. ASSUME NEW p \in Pollers, RecordPoll(p) PROVE Allowed
    BY <1>1, <2>6 DEF RecordPoll
  <2>7. CASE Canceller
    BY <1>1, <2>7 DEF Canceller, CancelOrder, CancelLocally, CancelAtVenue, RecordCancel
  <2>8. ASSUME NEW c \in Feeds, NEW f \in FillIds, ProcessFill(c, f) PROVE Allowed
    BY <1>1, <2>8 DEF ProcessFill
  <2>9. ASSUME NEW c \in Feeds, RecordFill(c) PROVE Allowed
    <3>1. record'.status = record.status \/ record.status \notin TERMINAL_ORDER_STATUSES
      BY <1>1, <2>9 DEF RecordFill
    <3>2. record'.fills = record.fills \/ record'.fills = merged[c]
      BY <1>1, <2>9 DEF RecordFill
    <3>3. record.status = "filled" => record'.fills = record.fills \/ merged[c] = FillIds
      BY <1>1, <2>9 DEF RecordFill
    <3>4. record.fills \subseteq FillIds
      BY <1>1
    <3>5. LosesFill => StaleFills /\ record.status # "filled"
      BY <2>9, <3>2, <3>3, <3>4 DEF StaleFills
    <3> QED
      BY <3>1, <3>5
  <2>10. CASE UNCHANGED vars
    BY <1>1, <2>10 DEF vars
  <2> QED
    BY <1>1, <2>1, <2>2, <2>3, <2>4, <2>5, <2>6, <2>7, <2>8, <2>9, <2>10
       DEF Next, Submitter, Poller
<1> QED
  BY Invariance, <1>1, PTL DEF UndoneOnlyByStaleWrite, Spec
=============================================================================
