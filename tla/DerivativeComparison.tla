------------------------ MODULE DerivativeComparison ------------------------
(***************************************************************************)
(* internal-derivative-state.ts as operators: the internal snapshot of a   *)
(* venue built from persisted orders and fills, and its comparison with    *)
(* the venue's own snapshot.  Sizes are integers and a difference of one   *)
(* is beyond the tolerance; prices, notes and provenance are left out.     *)
(***************************************************************************)
EXTENDS MarketIdentity, Integers, SequencesExt

CONSTANT TailOrder      \* tails in the order localeCompare gives them

NoAccount  == [address |-> "none", authority |-> "none", subaccount |-> "none"]
NoSnapshot == [at |-> 0]

SumSeq(s) == FoldSeq(LAMBDA x, acc : x + acc, 0, s)
Distance(a, b) == IF a > b THEN a - b ELSE b - a

isTerminalOrderStatus(status) == status \in {"filled", "cancelled", "expired", "failed"}

orderMarketType(order) ==
  CASE order.metadata.instrument = "perpetual" -> "perp"
    [] order.metadata.instrument = "spot" -> "spot"
    [] OTHER -> "unknown"

(* RuntimeOrderStore.save, persistFill and listFillHistory: an order is    *)
(* stored with the identity its metadata has or else one derived from the  *)
(* asset, and a fill inherits it from the order.                           *)
OrderIdentity(order) ==
  LET own == readCanonicalMarketIdentityFromMetadata(order.metadata, order.asset)
  IN IF own # NoIdentity THEN own
     ELSE createCanonicalMarketIdentity(Bare(order.asset, order.metadata.instrument, "derived"))

buildInternalMarketIdentity(asset, type) ==
  createCanonicalMarketIdentity(Bare(asset, type, IF type = "unknown" THEN "unsupported" ELSE "derived"))

mergePositionMarketIdentity(asset, type, identities) ==
  IF identities = <<>> THEN buildInternalMarketIdentity(asset, type)
  ELSE IF Cardinality({i.nkey : i \in ToSet(identities)} \ {NoKey}) <= 1 THEN identities[1]
  ELSE [createCanonicalMarketIdentity(Bare(asset, type, "derived"))
          EXCEPT !.nkey = canonicalAssetTypeKey(type, asset),
                 !.kind = IF type = "unknown" THEN "unsupported" ELSE "asset_market_type",
                 !.confidence = IF type = "unknown" THEN "unsupported" ELSE "partial"]

(* Fills of one exactly identified market make a position, the other fills *)
(* one per type and asset.  orders: by id; fills: oldest first.            *)
GroupKey(orders, fill) ==
  IF fill.identity.confidence = "exact" /\ fill.identity.nkey # NoKey THEN fill.identity.nkey
  ELSE <<orderMarketType(orders[fill.order]), orders[fill.order].asset>>

SignedSizeUnsigned(fill) == fill.size   \* mutant: the side is ignored

SignedSize(fill) == IF fill.side = "buy" THEN fill.size ELSE -fill.size

TypeOrder == <<"perp", "spot", "unknown">>
Place(seq, x) == CHOOSE n \in DOMAIN seq : seq[n] = x
KeyBefore(a, b) ==
  \/ Place(TypeOrder, a[1]) < Place(TypeOrder, b[1])
  \/ a[1] = b[1] /\ Place(TailOrder, a[2]) < Place(TailOrder, b[2])

buildPositionState(orders, fills) ==
  LET Of(k)   == SelectSeq(fills, LAMBDA f : GroupKey(orders, f) = k)
      First(k) == CHOOSE n \in DOMAIN fills :
                    GroupKey(orders, fills[n]) = k /\ \A m \in 1..(n - 1) : GroupKey(orders, fills[m]) # k
      Net(k)  == SumSeq([n \in DOMAIN Of(k) |-> SignedSize(Of(k)[n])])
      Entry(k) ==
        LET asset == orders[Of(k)[1].order].asset
            type  == orderMarketType(orders[Of(k)[1].order])
            id    == mergePositionMarketIdentity(asset, type, [n \in DOMAIN Of(k) |-> Of(k)[n].identity])
        IN [key |-> IF id.nkey # NoKey THEN id.nkey ELSE k,
            asset |-> asset, type |-> type, net |-> Net(k), identity |-> id, first |-> First(k)]
      rows == {Entry(k) : k \in {g \in {GroupKey(orders, fills[n]) : n \in DOMAIN fills} : Net(g) # 0}}
  IN SetToSortSeq(rows, LAMBDA a, b : KeyBefore(a.key, b.key) \/ (a.key = b.key /\ a.first < b.first))

(* Open orders, the comparable ones being those with a venue order id. *)
buildOrderState(orders) ==
  { [venueOrderId |-> orders[o].venueOrderId, side |-> orders[o].side,
     reduceOnly |-> orders[o].reduceOnly, remaining |-> Distance(orders[o].size, orders[o].filled),
     identity |-> OrderIdentity(orders[o])]
    : o \in {x \in DOMAIN orders : ~isTerminalOrderStatus(orders[x].status)} }

(* Health is a band read off the risk level, and needs both projections. *)
buildHealthState(portfolio, risk) ==
  IF ~portfolio \/ risk = "none" THEN [mode |-> "unsupported", status |-> "unknown"]
  ELSE [mode |-> "status_band_only",
        status |-> IF risk \in {"high", "critical"} THEN "degraded" ELSE "healthy"]

(* No account address, authority or both: "none" where not configured. *)
buildAccountState(config) ==
  IF config.address = "none" /\ config.authority = "none" THEN NoAccount ELSE config

buildInternalDerivativeSnapshot(config, orders, fills, portfolio, risk, at) ==
  [account |-> buildAccountState(config), orders |-> buildOrderState(orders),
   positions |-> buildPositionState(orders, fills), health |-> buildHealthState(portfolio, risk),
   at |-> at]

-----------------------------------------------------------------------------
(* The external row exposes an index, a market key or a symbol, the first  *)
(* of which normalises it; a perpetual's symbol also tells its asset.      *)
AssetOf(symbol, type) ==
  IF type = "perp" /\ \E a \in DOMAIN PerpSymbol : PerpSymbol[a] = symbol
  THEN CHOOSE a \in DOMAIN PerpSymbol : PerpSymbol[a] = symbol
  ELSE symbol

ExternalMarketIdentity(e) ==
  LET asset == AssetOf(e.symbol, e.type)
      base  == [asset |-> asset, type |-> e.type, index |-> e.index, key |-> e.key,
                symbol |-> e.symbol, provenance |-> "venue_native", confidence |-> "exact",
                nkey |-> NoKey, kind |-> "unsupported"]
  IN IF e.index # "none"
     THEN [base EXCEPT !.nkey = canonicalMarketIndexKey(e.type, e.index), !.kind = "market_index"]
     ELSE IF e.key # NoKey
     THEN [base EXCEPT !.nkey = e.key, !.kind = "market_key", !.index = parseMarketIndexFromKey(e.key)]
     ELSE IF e.symbol # "none"
     THEN [base EXCEPT !.nkey = canonicalAssetTypeKey(e.type, e.symbol), !.kind = "market_symbol"]
     ELSE [base EXCEPT !.confidence = "unsupported"]

Kinds == <<"market_index", "market_key", "market_symbol", "asset_market_type">>

(* Candidate keys by kind; symbol and asset keys need a market type. *)
IdentityCandidates(i) ==
  [k \in ToSet(Kinds) |->
     CASE k = "market_index"  -> canonicalMarketIndexKey(i.type, i.index)
       [] k = "market_key"    -> i.key
       [] k = "market_symbol" -> canonicalAssetTypeKey(i.type, i.symbol)
       [] OTHER               -> canonicalAssetTypeKey(i.type, i.asset)]

Shares(a, b, k) == IdentityCandidates(a)[k] # NoKey /\ IdentityCandidates(a)[k] = IdentityCandidates(b)[k]

Verdict(status, mode, key) == [status |-> status, mode |-> mode, key |-> key]

compareMarketIdentity(internal, external) ==
  IF internal = NoIdentity \/ external = NoIdentity THEN Verdict("not_comparable", "unsupported", NoKey)
  ELSE IF \E n \in DOMAIN Kinds : Shares(internal, external, Kinds[n])
  THEN LET n == CHOOSE m \in DOMAIN Kinds :
                  Shares(internal, external, Kinds[m])
                  /\ \A l \in 1..(m - 1) : ~Shares(internal, external, Kinds[l])
           exact == n <= 2 \/ (n = 3 /\ internal.confidence = "exact")
       IN Verdict("matched", IF exact THEN "exact" ELSE "partial", IdentityCandidates(internal)[Kinds[n]])
  ELSE IF internal.type = external.type /\ internal.index # "none" /\ external.index # "none"
  THEN Verdict("mismatched", "exact", canonicalMarketIndexKey(internal.type, internal.index))
  ELSE IF internal.type = external.type /\ internal.key # NoKey /\ external.key # NoKey
  THEN Verdict("mismatched", "exact", internal.key)
  ELSE Verdict("not_comparable", "unsupported", NoKey)

compareAccountState(internal, external) ==
  IF NoAccount \in {internal, external} THEN Verdict("not_comparable", "unsupported", NoKey)
  ELSE Verdict(IF \E f \in {"address", "authority", "subaccount"} :
                    internal[f] # "none" /\ external[f] # "none" /\ internal[f] # external[f]
               THEN "mismatched" ELSE "matched", "exact", NoKey)

-----------------------------------------------------------------------------
(* comparePositions pairs greedily: each internal position, in key order,  *)
(* takes the one free external row that shares its most specific key.      *)
PositionRow(key, status, mode, internal, external) ==
  [key |-> key, status |-> status, mode |-> mode, internal |-> internal, external |-> external]

Matches(p, ext, taken, k) ==
  {n \in DOMAIN ext \ taken : Shares(p.identity, ExternalMarketIdentity(ext[n]), k)}

KeyOf(p) == IF p.identity.nkey # NoKey THEN p.identity.nkey ELSE p.key

(* A row without an amount is within tolerance of any position. *)
WithinToleranceAlways(p, e) == TRUE     \* mutant

WithinTolerance(p, e) == e.sized => e.amount = p.net

MarkTakenNever(taken, n) == taken       \* mutant

MarkTaken(taken, n) == taken \cup {n}

(* Of the sets of rows that share a key, by kind, the first nonempty one. *)
MostSpecific(sets) ==
  IF \A k \in DOMAIN sets : sets[k] = {} THEN {}
  ELSE sets[CHOOSE k \in DOMAIN sets : sets[k] # {} /\ \A l \in 1..(k - 1) : sets[l] = {}]

PairWith(found, acc, i, positions, ext) ==
  LET p == positions[i]
      sibling == \E n \in DOMAIN ext \ acc.taken :
                   AssetOf(ext[n].symbol, ext[n].type) = p.asset /\ ext[n].type = p.type
      shadowed == \E r \in ToSet(acc.rows) : r.internal # 0 /\ positions[r.internal].key = p.key
  IN IF Cardinality(found) > 1
     THEN [acc EXCEPT !.rows = Append(@, PositionRow(KeyOf(p), "not_comparable", "unsupported", i, 0))]
     ELSE IF found = {}
     THEN IF shadowed THEN acc
          ELSE [acc EXCEPT !.rows = Append(@, PositionRow(KeyOf(p),
                  IF sibling THEN "not_comparable" ELSE "internal_only", "unsupported", i, 0))]
     ELSE LET n == CHOOSE m \in found : TRUE
              Matched(v) ==
                PositionRow(IF v.key # NoKey THEN v.key ELSE KeyOf(p),
                            IF v.status = "mismatched" \/ ~WithinTolerance(p, ext[n])
                            THEN "mismatched" ELSE "matched", v.mode, i, n)
          IN [taken |-> MarkTaken(acc.taken, n),
              rows  |-> Append(acc.rows,
                          Matched(compareMarketIdentity(p.identity, ExternalMarketIdentity(ext[n]))))]

PairOne(acc, i, positions, ext) ==
  PairWith(MostSpecific([k \in DOMAIN Kinds |-> Matches(positions[i], ext, acc.taken, Kinds[k])]),
           acc, i, positions, ext)

(* The rows of the venue that no position took come last. *)
WithExternalOnly(paired, ext) ==
  LET alone == SetToSeq(DOMAIN ext \ paired.taken)
  IN paired.rows \o
     [n \in DOMAIN alone |->
        PositionRow(ExternalMarketIdentity(ext[alone[n]]).nkey, "external_only", "unsupported",
                    0, alone[n])]

(* ext: the venue's rows; those of unknown type are left out first.  The   *)
(* sort of the rows by key is left out: no reader takes them by position.  *)
comparePositions(positions, ext) ==
  WithExternalOnly(
    FoldLeft(LAMBDA acc, i : PairOne(acc, i, positions, ext),
             [taken |-> {n \in DOMAIN ext : ext[n].type = "unknown"}, rows |-> <<>>],
             [i \in DOMAIN positions |-> i]), ext)

(* compareOrders pairs by venue order id. *)
compareOrders(internal, external) ==
  LET ids == ({o.venueOrderId : o \in internal} \cup {o.venueOrderId : o \in external}) \ {"none"}
      In(S, id) == {o \in S : o.venueOrderId = id}
      The(S)    == CHOOSE o \in S : TRUE
      Identity(e) == ExternalMarketIdentity(e)
      Status(id) ==
        CASE In(internal, id) = {} -> [status |-> "external_only", mode |-> "unsupported", wrong |-> FALSE]
          [] In(internal, id) # {} /\ In(external, id) = {} ->
               [status |-> "internal_only", mode |-> "unsupported", wrong |-> FALSE]
          [] OTHER ->
               LET i == The(In(internal, id))
                   e == The(In(external, id))
                   v == compareMarketIdentity(i.identity, Identity(e))
               IN [status |-> IF /\ i.side = e.side /\ i.reduceOnly = e.reduceOnly
                                 /\ (e.sized => e.quantity = i.remaining) /\ v.status # "mismatched"
                              THEN "matched" ELSE "mismatched",
                   mode |-> v.mode, wrong |-> v.status = "mismatched"]
  IN [id \in ids |-> Status(id)]

healthComparison(internal, external) ==
  IF external = "none" \/ internal.mode = "unsupported" THEN Verdict("not_comparable", "unsupported", NoKey)
  ELSE Verdict(IF "unknown" \in {internal.status, external} THEN "not_comparable"
               ELSE IF internal.status = external THEN "matched" ELSE "mismatched",
               "status_band_only", NoKey)

(* How much of each section the comparison covers: the venue must expose   *)
(* it, and rows left out or matched in part make it partial.               *)
buildComparisonCoverage(internal, external, account, rows, health) ==
  LET has       == internal # NoSnapshot
      gaps      == \E r \in ToSet(rows) : r.status = "not_comparable"
      partial   == \E r \in ToSet(rows) : r.mode = "partial"
      skipped   == \/ \E n \in DOMAIN external.positions : external.positions[n].type = "unknown"
                   \/ has /\ \E n \in DOMAIN internal.positions : internal.positions[n].type = "unknown"
      Cover(section, whole) ==
        CASE external.coverage[section] # "available" -> "unsupported"
          [] external.coverage[section] = "available" /\ ~has -> "unsupported"
          [] OTHER -> IF whole THEN "available" ELSE "partial"
  IN [subaccountIdentity |-> IF external.coverage.account = "available" /\ account.status # "not_comparable"
                             THEN "available" ELSE "unsupported",
      positionInventory  |-> Cover("position", ~skipped /\ ~gaps),
      marketIdentity     |-> Cover("position", ~partial /\ ~gaps),
      orderInventory     |-> Cover("order", has /\ \A o \in internal.orders : o.venueOrderId # "none"),
      healthState        |-> IF external.coverage.health # "available" THEN "unsupported"
                             ELSE IF health.mode = "status_band_only" THEN "partial"
                             ELSE "unsupported"]

(* buildVenueDerivativeComparisonDetail: internal is a snapshot or none;   *)
(* external the venue's rows and what they cover.                          *)
buildVenueDerivativeComparisonDetail(internal, external) ==
  LET has     == internal # NoSnapshot
      Detail(account, rows, orders, health) ==
        [internalAt |-> IF has THEN internal.at ELSE 0,
         account |-> account, positions |-> rows, orders |-> orders, health |-> health,
         coverage |-> buildComparisonCoverage(internal, external, account, rows, health)]
  IN Detail(compareAccountState(IF has THEN internal.account ELSE NoAccount, external.account),
            comparePositions(IF has THEN internal.positions ELSE <<>>, external.positions),
            compareOrders(IF has THEN internal.orders ELSE {}, external.orders),
            IF has THEN healthComparison(internal.health, external.health)
            ELSE Verdict("not_comparable", "unsupported", NoKey))
=============================================================================
