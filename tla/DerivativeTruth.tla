--------------------------- MODULE DerivativeTruth --------------------------
(***************************************************************************)
(* One venue and the runtime's idea of it: orders are placed and recorded, *)
(* answers and fills get lost on the way, and the internal state and the   *)
(* venue's snapshot are refreshed at different times.                      *)
(***************************************************************************)
EXTENDS DerivativeComparison, TLC

CONSTANTS Intents,     \* asset, instrument, side, size and the identity the
                       \* strategy (planned) and the venue (answered) know
          IndexOf,     \* per asset, its market index at the venue
          Exposure,    \* whether the venue's rows expose the index or the symbol only
          MaxIntents, MaxLost

VARIABLES orders,      \* runtime_orders
          fills,       \* fills, oldest first
          book,        \* the venue's position per market <<type, asset>>
          resting,     \* orders open at the venue
          internal,    \* internal_derivative_current
          external,    \* the latest snapshot of the venue
          changes,     \* steps that changed orders, fills or book
          lost         \* history: fills that were never recorded

truthVars == <<orders, fills, book, resting, internal, external, changes, lost>>

Config == [address |-> "a1", authority |-> "none", subaccount |-> "none"]
Metadata(i) ==
  attachCanonicalMarketIdentityToMetadata(
    [structured |-> NoIdentity, index |-> "none", symbol |-> "none", instrument |-> i.instrument],
    i.planned)

MarketOf(i) == <<normalizeCanonicalMarketType(i.instrument), i.asset>>
Signed(i)   == IF i.side = "buy" THEN i.size ELSE -i.size
Booked(i)   == [m \in DOMAIN book \cup {MarketOf(i)} |->
                  (IF m \in DOMAIN book THEN book[m] ELSE 0)
                  + (IF m = MarketOf(i) THEN Signed(i) ELSE 0)]
NextId == <<"v1", "v2", "v3", "v4">>[Len(orders) + 1]

NothingSeen == [account |-> NoAccount, positions |-> <<>>, orders |-> {}, health |-> "none",
                coverage |-> [account |-> "unsupported", position |-> "unsupported",
                              health |-> "unsupported", order |-> "unsupported"], at |-> 0]

Init ==
  /\ orders = <<>> /\ fills = <<>> /\ book = <<>> /\ resting = {}
  /\ internal = NoSnapshot
  /\ external = NothingSeen
  /\ changes = 0
  /\ lost = 0

(* submitIntent, answered: the order is stored with the better of the      *)
(* identities that the strategy planned with and the venue answered with.  *)
Row(i, status, id, identity) ==
  [asset |-> i.asset, side |-> i.side, size |-> i.size, reduceOnly |-> FALSE, status |-> status,
   filled |-> IF status = "filled" THEN i.size ELSE 0, venueOrderId |-> id,
   metadata |-> attachCanonicalMarketIdentityToMetadata(Metadata(i), identity)]

runtimeOrderIdentity(i) ==
  OrderIdentity([metadata |-> Metadata(i), asset |-> i.asset])

PlaceAndFill(i) ==
  /\ Len(orders) < MaxIntents
  /\ book' = Booked(i)
  /\ orders' = Append(orders, Row(i, "filled", NextId,
                 preferCanonicalMarketIdentity(runtimeOrderIdentity(i), i.answered)))
  /\ changes' = changes + 1
  /\ UNCHANGED <<fills, resting, internal, external, lost>>

PlaceAndRest(i) ==
  /\ Len(orders) < MaxIntents
  /\ orders' = Append(orders, Row(i, "submitted", NextId,
                 preferCanonicalMarketIdentity(runtimeOrderIdentity(i), i.answered)))
  /\ resting' = resting \cup {Len(orders) + 1}
  /\ changes' = changes + 1
  /\ UNCHANGED <<fills, book, internal, external, lost>>

(* The venue drops a resting order; nothing tells the runtime. *)
VenueCancels(o) ==
  /\ o \in resting
  /\ resting' = resting \ {o}
  /\ changes' = changes + 1
  /\ UNCHANGED <<orders, fills, book, internal, external, lost>>

(* The venue filled the order, its answer was lost on every attempt. *)
PlaceUnanswered(i) ==
  /\ Len(orders) < MaxIntents /\ lost < MaxLost
  /\ book' = Booked(i)
  /\ orders' = Append(orders, Row(i, "failed", "none", runtimeOrderIdentity(i)))
  /\ changes' = changes + 1
  /\ lost' = lost + 1
  /\ UNCHANGED <<fills, resting, internal, external>>

Unrecorded == {o \in DOMAIN orders : orders[o].status = "filled"
                                     /\ \A n \in DOMAIN fills : fills[n].order # o}

(* persistExecutionRecord, persistFill *)
persistFill(o) ==
  /\ o \in Unrecorded
  /\ fills' = Append(fills, [order |-> o, side |-> orders[o].side, size |-> orders[o].filled,
                             identity |-> readCanonicalMarketIdentityFromMetadata(
                                            orders[o].metadata, orders[o].asset)])
  /\ changes' = changes + 1
  /\ UNCHANGED <<orders, book, resting, internal, external, lost>>

refreshInternalDerivativeState ==
  /\ internal' = buildInternalDerivativeSnapshot(Config, orders, fills, TRUE, "low", changes)
  /\ UNCHANGED <<orders, fills, book, resting, external, changes, lost>>

Exposed(m) ==
  [type |-> m[1], index |-> IF Exposure = "index" THEN IndexOf[m[2]] ELSE "none", key |-> NoKey,
   symbol |-> deriveMarketSymbol(m[2], m[1]), sized |-> TRUE]

VenueRows ==
  LET open == SetToSeq({m \in DOMAIN book : book[m] # 0})
  IN [n \in DOMAIN open |-> Exposed(open[n]) @@ [amount |-> book[open[n]]]]

VenueOrders ==
  { Exposed(<<orderMarketType(orders[o]), orders[o].asset>>)
      @@ [venueOrderId |-> orders[o].venueOrderId, side |-> orders[o].side, reduceOnly |-> FALSE,
          quantity |-> orders[o].size] : o \in resting }

refreshVenueTruthInventory ==
  /\ external' = [account |-> Config, positions |-> VenueRows,
                  orders |-> VenueOrders, health |-> "healthy",
                  coverage |-> [account |-> "available", position |-> "available",
                                health |-> "available", order |-> "available"],
                  at |-> changes]
  /\ UNCHANGED <<orders, fills, book, resting, internal, changes, lost>>

Next ==
  \/ \E i \in Intents : PlaceAndFill(i) \/ PlaceAndRest(i) \/ PlaceUnanswered(i)
  \/ \E o \in DOMAIN orders : persistFill(o) \/ VenueCancels(o)
  \/ refreshInternalDerivativeState
  \/ refreshVenueTruthInventory

Spec == Init /\ [][Next]_truthVars

-----------------------------------------------------------------------------
(* Properties                                                              *)

Settled == internal # NoSnapshot /\ internal.at = changes /\ external.at = changes /\ changes > 0
Detail  == buildVenueDerivativeComparisonDetail(internal, external)

MarketOfFill(f) == <<orderMarketType(orders[f.order]), orders[f.order].asset>>
Ledger(m) == SumSeq([n \in DOMAIN fills |-> IF MarketOfFill(fills[n]) = m THEN SignedSize(fills[n]) ELSE 0])

(* All fills of a market were recorded with identities of one grade. *)
Uniform ==
  \A f, g \in ToSet(fills) :
    MarketOfFill(f) = MarketOfFill(g) => GroupKey(orders, f) = GroupKey(orders, g)

TypesKnown == \A o \in DOMAIN orders : orderMarketType(orders[o]) # "unknown"

Collides(i) == \E j \in DOMAIN internal.positions \ {i} :
                 internal.positions[j].key = internal.positions[i].key

AllMatched(detail) ==
  /\ \A r \in ToSet(detail.positions) : r.status = "matched"
  /\ \A id \in DOMAIN detail.orders : detail.orders[id].status = "matched"

(* When every fill was recorded, with one grade of identity per market, and *)
(* the venue dropped no order, two snapshots of the same moment agree in    *)
(* every position and order: the comparison raises no false alarm, however  *)
(* planned and answered identities were merged.                             *)
NoFalseAlarm ==
  (Settled /\ lost = 0 /\ Unrecorded = {} /\ Uniform /\ TypesKnown
    /\ resting = {o \in DOMAIN orders : orders[o].status = "submitted"})
  => AllMatched(Detail)

Reports(detail) ==
  \/ \E r \in ToSet(detail.positions) : r.status # "matched"
  \/ detail.coverage.positionInventory # "available"

(* When the recorded fills of a market do not add up to the venue's         *)
(* position, two snapshots of the same moment disagree somewhere, or the    *)
(* comparison says that it is partial, unless two internal positions share  *)
(* a key.                                                                   *)
NoFalseSilence ==
  (Settled /\ (\E m \in DOMAIN book : Ledger(m) # book[m])
    /\ \A i \in DOMAIN internal.positions : ~Collides(i))
  => Reports(Detail)

EachInOne(rows) ==
  LET With(side, n) == Cardinality({k \in DOMAIN rows : rows[k][side] = n})
  IN /\ \A i \in DOMAIN internal.positions : ~Collides(i) => With("internal", i) = 1
     /\ \A n \in DOMAIN external.positions :
          external.positions[n].type # "unknown" => With("external", n) = 1

(* Pairing loses no row and uses none twice: every internal position is in  *)
(* one comparison (except one that shares its key with another), and so is  *)
(* every external one of known type.                                        *)
EveryRowOnce == internal # NoSnapshot => EachInOne(Detail.positions)
=============================================================================
