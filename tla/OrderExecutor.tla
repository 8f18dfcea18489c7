--------------------------- MODULE OrderExecutor ---------------------------
(***************************************************************************)
(* One order intent on its way through OrderExecutor, the InMemoryOrderStore*)
(* that keeps its record, and the SimulatedVenueAdapter that executes it.  *)
(*                                                                         *)
(* Sources: packages/execution/src/executor.ts and order-manager.ts,       *)
(* packages/venue-adapters/src/simulation/simulated-venue-adapter.ts.      *)
(*                                                                         *)
(* The callers share the record: one submits the intent, and submits it    *)
(* again when it likes (the runtime awaits every submitIntent); one        *)
(* cancels; any number ask the venue for the order (pollOrderStatus, and   *)
(* reconcileOrders of reconciler.ts, which only looks), and any number hand*)
(* over the venue's fill reports, each possibly more than once.  Each      *)
(* caller awaits its own calls, and every await of a call is a point where *)
(* the others may run.  The store's methods are atomic; reading the record *)
(* and writing it later are two calls.  What a call keeps goes out of scope*)
(* with its last use.                                                      *)
(***************************************************************************)
EXTENDS Naturals, FiniteSets, TLC

CONSTANTS
    Pollers, Feeds,     \* callers of getOrder, and of processFill
    FillIds,            \* the fills of one lot each that make up the intent's size
    MaxRetries          \* ExecutorConfig.maxRetries

ASSUME ExecutorAssumption ==
    /\ IsFiniteSet(FillIds) /\ FillIds # {}
    /\ MaxRetries \in Nat

VARIABLES
    type,               \* OrderIntent.type: a market or a limit order
    record,             \* the OrderRecord of the store; status "none" where there is none
    \* the adapter: orders it accepted for this intent, the one clientIdIndex names
    placed, venue, executed,
    spc, seen, attempt, result,     \* the call of submitIntent
    \* each call of pollOrderStatus or reconcileOrders; history: those begun
    \* after an execution
    ppc, polled, reported, late,
    cpc, blind,                     \* the call of cancelOrder; history: a cancel skipped the venue
    fpc, merged                     \* each call of processFill

venueVars == <<placed, venue, executed>>
submitVars == <<spc, seen, attempt, result>>
pollVars == <<ppc, polled, reported, late>>
cancelVars == <<cpc, blind>>
fillVars == <<fpc, merged>>
vars == <<type, record, venueVars, submitVars, pollVars, cancelVars, fillVars>>

OrderStatus == {"pending", "submitted", "partially_filled", "filled", "cancelled", "failed",
                "expired"}
TERMINAL_ORDER_STATUSES == {"filled", "cancelled", "expired"}

\* Of an OrderRecord: its status, whether venueOrderId is set, and the fills.
OrderRecord == [status : OrderStatus \cup {"none"}, known : BOOLEAN, fills : SUBSET FillIds]
NoRecord == [status |-> "none", known |-> FALSE, fills |-> {}]

\* Of a PlaceOrderResult: its status; this adapter never fills an order in part.
VenueStatus == {"submitted", "filled", "rejected"}
VenueOrder == [status : VenueStatus \cup {"none"}, open : BOOLEAN]

SubmitPC == {"idle", "save", "submit", "place", "price", "result", "audit", "catch"}
PollPC == {"idle", "get", "price", "return", "update"}
CancelPC == {"idle", "local", "venue", "update"}
FillPC == {"idle", "update"}

TypeOK ==
    /\ type \in {"market", "limit"}
    /\ record \in OrderRecord
    /\ placed \in Nat /\ executed \in Nat
    /\ venue \in VenueOrder
    /\ spc \in SubmitPC /\ seen \in OrderRecord
    /\ attempt \in 1 .. MaxRetries + 1
    /\ result \in VenueStatus \cup {"none"}
    /\ ppc \in [Pollers -> PollPC] /\ polled \in [Pollers -> OrderStatus \cup {"none"}]
    /\ reported \in [Pollers -> VenueStatus \cup {"none"}] /\ late \subseteq Pollers
    /\ cpc \in CancelPC /\ blind \in BOOLEAN
    /\ fpc \in [Feeds -> FillPC] /\ merged \in [Feeds -> SUBSET FillIds]

Init ==
    /\ type \in {"market", "limit"}
    /\ record = NoRecord
    /\ placed = 0 /\ executed = 0
    /\ venue = [status |-> "none", open |-> FALSE]
    /\ spc = "idle" /\ seen = NoRecord /\ attempt = 1 /\ result = "none"
    /\ ppc = [p \in Pollers |-> "idle"] /\ polled = [p \in Pollers |-> "none"]
    /\ reported = [p \in Pollers |-> "none"] /\ late = {}
    /\ cpc = "idle" /\ blind = FALSE
    /\ fpc = [c \in Feeds |-> "idle"] /\ merged = [c \in Feeds |-> {}]

-----------------------------------------------------------------------------
(* The store *)

\* A variant of isValidStatusTransition: any order may fail.
anyOrderMayFail(from, to) ==
    \/ from = to \/ to = "failed"
    \/ from = "pending" /\ to \in {"submitted", "cancelled"}
    \/ from \in {"submitted", "partially_filled"}
       /\ to \in {"partially_filled", "filled", "cancelled"}
    \/ from = "failed" /\ to = "submitted"

isValidStatusTransition(from, to) ==
    \/ from = to
    \/ /\ from \notin TERMINAL_ORDER_STATUSES
       /\ \/ from = "pending" /\ to \in {"submitted", "failed", "cancelled", "expired"}
          \/ from = "submitted"
             /\ to \in {"partially_filled", "filled", "cancelled", "failed", "expired"}
          \/ from = "partially_filled"
             /\ to \in {"partially_filled", "filled", "cancelled", "failed"}
          \/ from = "failed" /\ to = "submitted"

\* updateStatus throws on an invalid transition; otherwise it merges the updates
\* into the record as it is now.
updateThrows(to) == ~isValidStatusTransition(record.status, to)
updateStatus(to) ==
    /\ isValidStatusTransition(record.status, to)
    /\ record' = [record EXCEPT !.status = to]
updateStatusWith(to, updates) ==
    /\ isValidStatusTransition(record.status, to)
    /\ record' = [updates EXCEPT !.status = to]

\* What submitIntent and pollOrderStatus make of the status a venue reports.
statusOf(reportedStatus, otherwise) ==
    CASE reportedStatus \in {"filled", "partially_filled"} -> reportedStatus
      [] reportedStatus = "rejected" -> "failed"
      [] OTHER -> otherwise

-----------------------------------------------------------------------------
(* submitIntent *)

\* The idempotency check: a record that is neither pending nor failed is
\* returned as it is, and the call ends.
SubmitIntent ==
    /\ spc = "idle"
    /\ record.status \in {"none", "pending", "failed"}
    /\ seen' = record
    /\ spc' = "save"
    /\ UNCHANGED <<type, record, venueVars, attempt, result, pollVars, cancelVars, fillVars>>

\* save writes the record that was read, or a new one, without a transition check.
SaveRecord ==
    /\ spc = "save"
    /\ record' = IF seen.status = "none" THEN [seen EXCEPT !.status = "pending"] ELSE seen
    /\ spc' = "submit"
    /\ seen' = NoRecord
    /\ UNCHANGED <<type, venueVars, attempt, result, pollVars, cancelVars, fillVars>>

BeginAttempt ==
    /\ spc = "submit"
    /\ \/ updateStatus("submitted") /\ spc' = "place"
       \/ updateThrows("submitted") /\ spc' = "catch" /\ UNCHANGED record
    /\ UNCHANGED <<type, venueVars, seen, attempt, result, pollVars, cancelVars, fillVars>>

\* placeOrder: the order clientIdIndex holds for this intent is answered again.
PlaceOrderAgain ==
    /\ placed > 0
    /\ result' = venue.status
    /\ spc' = "result"
    /\ UNCHANGED venueVars

\* The adapter is connected and disconnected by others, so any placement may
\* find it disconnected.
PlaceOrderThrows ==
    /\ placed = 0
    /\ spc' = "catch"
    /\ UNCHANGED <<venueVars, result>>

\* A market order waits for the price before it is entered in the index.
PlaceMarketOrder ==
    /\ placed = 0
    /\ type = "market"
    /\ spc' = "price"
    /\ UNCHANGED <<venueVars, result>>

\* A variant: a limit order that never looks into clientIdIndex.
PlaceLimitOrderUnindexed ==
    /\ type = "limit"
    /\ placed' = placed + 1
    /\ venue' = [status |-> "submitted", open |-> TRUE]
    /\ result' = "submitted"
    /\ spc' = "result"
    /\ UNCHANGED executed

PlaceLimitOrder ==
    /\ placed = 0
    /\ type = "limit"
    /\ placed' = placed + 1
    /\ venue' = [status |-> "submitted", open |-> TRUE]
    /\ result' = "submitted"
    /\ spc' = "result"
    /\ UNCHANGED executed

PlaceOrder ==
    /\ spc = "place"
    /\ PlaceOrderAgain \/ PlaceOrderThrows \/ PlaceMarketOrder \/ PlaceLimitOrder
    /\ UNCHANGED <<type, record, seen, attempt, pollVars, cancelVars, fillVars>>

\* The rest of placeOrder for a market order: the price feed throws, or the
\* order fills whole.
FillMarketOrder ==
    /\ spc = "price"
    /\ \/ spc' = "catch" /\ UNCHANGED <<venueVars, result>>
       \/ /\ placed' = placed + 1
          /\ executed' = executed + 1
          /\ venue' = [status |-> "filled", open |-> FALSE]
          /\ result' = "filled"
          /\ spc' = "result"
    /\ UNCHANGED <<type, record, seen, attempt, pollVars, cancelVars, fillVars>>

\* A variant: the identifier is left out of the updates.
RecordResultWithoutId ==
    /\ spc = "result"
    /\ LET newStatus == statusOf(result, "submitted")
       IN  \/ updateStatus(newStatus) /\ spc' = "audit"
           \/ updateThrows(newStatus) /\ spc' = "catch" /\ UNCHANGED record
    /\ result' = "none"
    /\ UNCHANGED <<type, venueVars, seen, attempt, pollVars, cancelVars, fillVars>>

\* The venue's answer, with its order identifier, enters the record.
RecordResult ==
    /\ spc = "result"
    /\ LET newStatus == statusOf(result, "submitted")
       IN  \/ /\ updateStatusWith(newStatus, [record EXCEPT !.known = TRUE])
              /\ spc' = "audit"
           \/ updateThrows(newStatus) /\ spc' = "catch" /\ UNCHANGED record
    /\ result' = "none"
    /\ UNCHANGED <<type, venueVars, seen, attempt, pollVars, cancelVars, fillVars>>

\* The audit event is written inside the same try block.
WriteAudit ==
    /\ spc = "audit"
    /\ \/ spc' = "idle" /\ attempt' = 1
       \/ spc' = "catch" /\ UNCHANGED attempt
    /\ UNCHANGED <<type, record, venueVars, seen, result, pollVars, cancelVars, fillVars>>

\* A variant: one retry too many.
CatchAttemptOnceMore ==
    /\ spc = "catch"
    /\ \/ /\ updateStatus("failed")
          /\ \/ attempt <= MaxRetries + 1 /\ attempt' = attempt + 1 /\ spc' = "submit"
             \/ attempt > MaxRetries + 1 /\ spc' = "idle" /\ attempt' = 1
       \/ updateThrows("failed") /\ spc' = "idle" /\ attempt' = 1 /\ UNCHANGED record
    /\ UNCHANGED <<type, venueVars, seen, result, pollVars, cancelVars, fillVars>>

\* The catch block: the order fails and is tried again while retries are left;
\* when updateStatus throws here the whole call throws.
CatchAttempt ==
    /\ spc = "catch"
    /\ \/ /\ updateStatus("failed")
          /\ \/ attempt <= MaxRetries /\ attempt' = attempt + 1 /\ spc' = "submit"
             \/ attempt > MaxRetries /\ spc' = "idle" /\ attempt' = 1
       \/ updateThrows("failed") /\ spc' = "idle" /\ attempt' = 1 /\ UNCHANGED record
    /\ UNCHANGED <<type, venueVars, seen, result, pollVars, cancelVars, fillVars>>

Submitter ==
    SubmitIntent \/ SaveRecord \/ BeginAttempt \/ PlaceOrder \/ FillMarketOrder \/ RecordResult
    \/ WriteAudit \/ CatchAttempt

-----------------------------------------------------------------------------
(* pollOrderStatus, and reconcileOrders *)

\* Without a record the call throws, without a venue identifier it returns.
PollOrderStatus(p) ==
    /\ ppc[p] = "idle"
    /\ record.status # "none" /\ record.known
    /\ polled' = [polled EXCEPT ![p] = record.status]
    /\ ppc' = [ppc EXCEPT ![p] = "get"]
    /\ late' = IF executed > 0 THEN late \cup {p} ELSE late
    /\ UNCHANGED <<type, record, venueVars, submitVars, reported, cancelVars, fillVars>>

\* reconcileOrders asks for the orders the store has as open, and keeps no status.
ReconcileOrder(p) ==
    /\ ppc[p] = "idle"
    /\ record.status \in {"pending", "submitted", "partially_filled"} /\ record.known
    /\ polled' = [polled EXCEPT ![p] = "none"]
    /\ ppc' = [ppc EXCEPT ![p] = "get"]
    /\ late' = IF executed > 0 THEN late \cup {p} ELSE late
    /\ UNCHANGED <<type, record, venueVars, submitVars, reported, cancelVars, fillVars>>

\* A variant: getOrder does not ask whether the order is open.
GetAnyOrder(p) ==
    /\ ppc[p] = "get"
    /\ ppc' = [ppc EXCEPT ![p] = IF type = "limit" THEN "price" ELSE "return"]
    /\ UNCHANGED <<type, record, venueVars, submitVars, polled, reported, late, cancelVars,
                   fillVars>>

\* getOrder looks for a price when it finds the order open.
GetOrder(p) ==
    /\ ppc[p] = "get"
    /\ ppc' = [ppc EXCEPT ![p] = IF venue.open THEN "price" ELSE "return"]
    /\ UNCHANGED <<type, record, venueVars, submitVars, polled, reported, late, cancelVars,
                   fillVars>>

\* _tryFillLimitOrder after its await: the limit is not reached (or the feed
\* fails), or the order fills, whether or not it is still open.
TryFillLimitOrder(p) ==
    /\ ppc[p] = "price"
    /\ \/ UNCHANGED venueVars
       \/ /\ executed' = executed + 1
          /\ venue' = [status |-> "filled", open |-> FALSE]
          /\ UNCHANGED placed
    /\ ppc' = [ppc EXCEPT ![p] = "return"]
    /\ UNCHANGED <<type, record, submitVars, polled, reported, late, cancelVars, fillVars>>

\* pollOrderStatus goes on with the answer; reconcileOrders only reports it.
ReturnOrder(p) ==
    /\ ppc[p] = "return"
    /\ ppc' = [ppc EXCEPT ![p] = IF polled[p] = "none" THEN "idle" ELSE "update"]
    /\ reported' = [reported EXCEPT ![p] = IF polled[p] = "none" THEN "none" ELSE venue.status]
    /\ late' = late \ {p}
    /\ UNCHANGED <<type, record, venueVars, submitVars, polled, cancelVars, fillVars>>

\* The status read before the await stands in where the venue has no news.
RecordPoll(p) ==
    /\ ppc[p] = "update"
    /\ LET newStatus == statusOf(reported[p], polled[p])
       IN  updateStatus(newStatus) \/ (updateThrows(newStatus) /\ UNCHANGED record)
    /\ ppc' = [ppc EXCEPT ![p] = "idle"]
    /\ polled' = [polled EXCEPT ![p] = "none"]
    /\ reported' = [reported EXCEPT ![p] = "none"]
    /\ UNCHANGED <<type, venueVars, submitVars, late, cancelVars, fillVars>>

Poller(p) ==
    PollOrderStatus(p) \/ ReconcileOrder(p) \/ GetOrder(p) \/ TryFillLimitOrder(p)
    \/ ReturnOrder(p) \/ RecordPoll(p)

-----------------------------------------------------------------------------
(* cancelOrder *)

CancelOrder ==
    /\ cpc = "idle"
    /\ record.status # "none"
    /\ cpc' = IF record.known THEN "venue" ELSE "local"
    /\ UNCHANGED <<type, record, venueVars, submitVars, pollVars, blind, fillVars>>

\* The record had no venue identifier when it was read: cancelled locally.
CancelLocally ==
    /\ cpc = "local"
    /\ \/ updateStatus("cancelled") /\ blind' = TRUE
       \/ updateThrows("cancelled") /\ UNCHANGED <<record, blind>>
    /\ cpc' = "idle"
    /\ UNCHANGED <<type, venueVars, submitVars, pollVars, fillVars>>

\* A variant: the adapter cancels a filled order too.
CancelClosedOrder ==
    /\ cpc = "venue"
    /\ venue' = [status |-> "rejected", open |-> FALSE]
    /\ cpc' = "update"
    /\ UNCHANGED <<type, record, placed, executed, submitVars, pollVars, blind, fillVars>>

\* A variant: the adapter forgets to close the order.
CancelLeavesOpen ==
    /\ cpc = "venue"
    /\ \/ /\ venue.open
          /\ venue' = [venue EXCEPT !.status = "rejected"]
          /\ cpc' = "update"
       \/ ~venue.open /\ cpc' = "idle" /\ UNCHANGED venue
    /\ UNCHANGED <<type, record, placed, executed, submitVars, pollVars, blind, fillVars>>

\* The adapter refuses an order that is not open.
CancelAtVenue ==
    /\ cpc = "venue"
    /\ \/ /\ venue.open
          /\ venue' = [status |-> "rejected", open |-> FALSE]
          /\ cpc' = "update"
       \/ ~venue.open /\ cpc' = "idle" /\ UNCHANGED venue
    /\ UNCHANGED <<type, record, placed, executed, submitVars, pollVars, blind, fillVars>>

\* An audit write that fails after the update changes nothing more.
RecordCancel ==
    /\ cpc = "update"
    /\ updateStatus("cancelled") \/ (updateThrows("cancelled") /\ UNCHANGED record)
    /\ cpc' = "idle"
    /\ UNCHANGED <<type, venueVars, submitVars, pollVars, blind, fillVars>>

Canceller == CancelOrder \/ CancelLocally \/ CancelAtVenue \/ RecordCancel

-----------------------------------------------------------------------------
(* processFill *)

\* Only an order the venue filled has fills to report (external feed).  A fill
\* of an order without a record throws; one of a finished order, and one
\* already there, is ignored.
ProcessFill(c, f) ==
    /\ fpc[c] = "idle"
    /\ venue.status = "filled"
    /\ record.status \notin {"none", "filled", "cancelled", "failed"}
    /\ f \notin record.fills
    /\ merged' = [merged EXCEPT ![c] = record.fills \cup {f}]
    /\ fpc' = [fpc EXCEPT ![c] = "update"]
    /\ UNCHANGED <<type, record, venueVars, submitVars, pollVars, cancelVars>>

\* updateStatus puts the fills it is given in the place of the record's.
RecordFill(c) ==
    /\ fpc[c] = "update"
    /\ LET newStatus == IF merged[c] = FillIds THEN "filled" ELSE "partially_filled"
       IN  \/ updateStatusWith(newStatus, [record EXCEPT !.fills = merged[c]])
           \/ updateThrows(newStatus) /\ UNCHANGED record
    /\ fpc' = [fpc EXCEPT ![c] = "idle"]
    /\ merged' = [merged EXCEPT ![c] = {}]
    /\ UNCHANGED <<type, venueVars, submitVars, pollVars, cancelVars>>

-----------------------------------------------------------------------------
Next ==
    \/ Submitter
    \/ \E p \in Pollers : Poller(p)
    \/ Canceller
    \/ \E c \in Feeds, f \in FillIds : ProcessFill(c, f)
    \/ \E c \in Feeds : RecordFill(c)

Spec == Init /\ [][Next]_vars

\* The callers of one kind, and the fills, are interchangeable.
Symmetry == Permutations(Pollers) \cup Permutations(Feeds) \cup Permutations(FillIds)
-----------------------------------------------------------------------------
(* Properties *)

(***************************************************************************)
(* However often the intent is submitted, retried after an exception and   *)
(* asked for, the venue accepts one order for it, a market order is        *)
(* executed once, and a getOrder that began after an execution never      *)
(* executes again: submitIntent's idempotency check, clientIdIndex of      *)
(* placeOrder and the closing of a filled limit order together.            *)
(***************************************************************************)
PlacedAndFilledOnce ==
    /\ placed <= 1
    /\ type = "market" => executed <= placed
    /\ \A p \in Pollers : ppc[p] = "price" => p \notin late

(***************************************************************************)
(* What the interface of the adapters asks for: the same clientOrderId     *)
(* never produces a duplicate fill.  The code breaks it: getOrder checks   *)
(* open, awaits the price and then applies the fill, and two calls that    *)
(* overlap both do.                                                        *)
(***************************************************************************)
NoDuplicateFill == executed <= 1

(***************************************************************************)
(* A record that says filled is of an order the venue filled, although its *)
(* status was decided on an answer or a report that is some awaits old and *)
(* a cancel may have come between.                                         *)
(***************************************************************************)
FilledIsReal == record.status = "filled" => venue.status = "filled"

(***************************************************************************)
(* An order that rests open at the venue when no submitIntent is under way *)
(* is known to the store by its venue identifier, whatever exception ended *)
(* the call, unless the record was cancelled: nothing else would ever poll *)
(* or cancel it.                                                           *)
(***************************************************************************)
OpenOrderIsTracked ==
    venue.open /\ spc = "idle" => record.known \/ record.status = "cancelled"

(***************************************************************************)
(* cancelOrder that went to the venue leaves no open order behind a        *)
(* cancelled record; only the cancel that skips the venue, deciding on a   *)
(* record without identifier, may.                                         *)
(***************************************************************************)
CancelledIsClosed == record.status = "cancelled" /\ ~blind => ~venue.open

\* A finished order changes its status, or a recorded fill disappears.
Reopens == record.status \in TERMINAL_ORDER_STATUSES /\ record'.status # record.status
LosesFill == ~(record.fills \subseteq record'.fills)

\* submitIntent saves a failed record it has read, and which has changed meanwhile.
StaleSave == SaveRecord /\ seen.status = "failed" /\ record # seen

\* A processFill stores the fills it has read, and others were stored meanwhile.
StaleFills == \E c \in Feeds : RecordFill(c) /\ ~(record.fills \subseteq merged[c])

(***************************************************************************)
(* A filled or cancelled order keeps its status: no update of another      *)
(* caller, and no catch block writing 'failed', undoes it.  The one way out*)
(* is the save of a submitIntent whose idempotency check read a failed     *)
(* record that has changed meanwhile, because a poll wrote back the status *)
(* it had read before the failure: save checks no transition.  A recorded  *)
(* fill is lost in the same way, or, while the order is not yet filled, to *)
(* a processFill that overlaps the one that recorded it, since updateStatus*)
(* replaces the list.                                                      *)
(***************************************************************************)
UndoneOnlyByStaleWrite ==
    [][/\ Reopens => StaleSave
       /\ LosesFill => StaleSave \/ (StaleFills /\ record.status # "filled")]_vars
=============================================================================
