--------------------------- MODULE MarketIdentity ---------------------------
(***************************************************************************)
(* Canonical market identities (venue-adapters/interfaces/market-identity) *)
(* as operators.  A key is the pair <<market type, tail>> that the code    *)
(* writes as `${type}:${tail}`; indexes, symbols and assets are tails, and *)
(* "none" is null.  The symbol derived for a spot market is its asset.     *)
(***************************************************************************)
EXTENDS Naturals, FiniteSets, Sequences

CONSTANTS Indexes,      \* market indexes, as the tails of keys
          PerpSymbol    \* per asset, the symbol of its perpetual

NoKey == <<"none", "none">>
NoIdentity == [confidence |-> "null"]

normalizeCanonicalMarketType(value) ==
  CASE value \in {"perp", "perpetual"} -> "perp"
    [] value = "spot" -> "spot"
    [] OTHER -> "unknown"

canonicalMarketIndexKey(type, index) ==
  IF type = "unknown" \/ index = "none" THEN NoKey ELSE <<type, index>>

(* Without a market type the symbol alone is the key. *)
canonicalMarketSymbolKey(type, symbol) ==
  IF symbol = "none" THEN NoKey ELSE <<type, symbol>>

canonicalAssetTypeKey(type, asset) ==
  IF type = "unknown" \/ asset = "none" THEN NoKey ELSE <<type, asset>>

parseMarketIndexFromKey(key) ==
  IF key[1] \in {"perp", "spot"} /\ key[2] \in Indexes THEN key[2] ELSE "none"

deriveMarketSymbol(asset, type) ==
  CASE asset = "none" \/ type = "unknown" -> "none"
    [] type = "perp" /\ asset # "none" -> PerpSymbol[asset]
    [] OTHER -> asset

Normalized(confidence, nkey, kind) == [confidence |-> confidence, nkey |-> nkey, kind |-> kind]

normalizeConfidence(i) ==
  IF i.provenance = "unsupported" THEN Normalized("unsupported", NoKey, "unsupported")
  ELSE IF i.index # "none" /\ i.type # "unknown"
  THEN Normalized("exact", canonicalMarketIndexKey(i.type, i.index), "market_index")
  ELSE IF i.key # NoKey THEN Normalized("exact", i.key, "market_key")
  ELSE IF i.symbol # "none"
  THEN Normalized(IF i.provenance = "venue_native" THEN "exact" ELSE "partial",
                  canonicalMarketSymbolKey(i.type, i.symbol), "market_symbol")
  ELSE IF i.type # "unknown" /\ i.asset # "none"
  THEN Normalized("partial", canonicalAssetTypeKey(i.type, i.asset), "asset_market_type")
  ELSE Normalized("unsupported", NoKey, "unsupported")

(* input: asset, type (as written by the caller), index, key, symbol,      *)
(* provenance.                                                             *)
createCanonicalMarketIdentity(input) ==
  LET type   == normalizeCanonicalMarketType(input.type)
      index  == IF input.index # "none" THEN input.index ELSE parseMarketIndexFromKey(input.key)
      key    == IF input.key # NoKey THEN input.key ELSE canonicalMarketIndexKey(type, index)
      symbol == IF input.symbol # "none" THEN input.symbol
                ELSE deriveMarketSymbol(input.asset, type)
      fields == [asset |-> input.asset, type |-> type, index |-> index, key |-> key,
                 symbol |-> symbol, provenance |-> input.provenance]
      n      == normalizeConfidence(fields)
  IN [asset |-> input.asset, type |-> type, index |-> index, key |-> key, symbol |-> symbol,
      provenance |-> input.provenance,
      confidence |-> n.confidence, nkey |-> n.nkey, kind |-> n.kind]

(* What the code knows of a market when it has the asset and a type only. *)
Bare(asset, type, provenance) ==
  [asset |-> asset, type |-> type, index |-> "none", key |-> NoKey, symbol |-> "none",
   provenance |-> provenance]

marketIdentityRank(i) ==
  IF i = NoIdentity THEN 0
  ELSE CASE i.kind = "market_index" -> 5
         [] i.kind = "market_key" -> 4
         [] i.kind = "market_symbol" -> IF i.confidence = "exact" THEN 3 ELSE 2
         [] i.kind = "asset_market_type" -> 1
         [] OTHER -> 0

preferCanonicalMarketIdentity(left, right) ==
  IF left = NoIdentity THEN right
  ELSE IF right = NoIdentity THEN left
  ELSE IF marketIdentityRank(right) > marketIdentityRank(left) THEN right
  ELSE IF marketIdentityRank(left) > marketIdentityRank(right) THEN left
  ELSE IF left.provenance = "venue_native" /\ right.provenance # "venue_native" THEN left
  ELSE right

(* metadata: the structured identity, or the legacy fields, and the        *)
(* instrument type.  The structured form is normalised again on each read. *)
readCanonicalMarketIdentityFromMetadata(metadata, asset) ==
  IF metadata.structured # NoIdentity
  THEN createCanonicalMarketIdentity(
         [f \in {"asset", "type", "index", "key", "symbol", "provenance"} |-> metadata.structured[f]])
  ELSE IF metadata.index = "none" /\ metadata.symbol = "none" THEN NoIdentity
  ELSE createCanonicalMarketIdentity(
         [Bare(asset, metadata.instrument, "derived") EXCEPT !.index = metadata.index,
                                                             !.symbol = metadata.symbol])

(* Attaching an identity also writes the legacy fields it has. *)
attachCanonicalMarketIdentityToMetadata(metadata, identity) ==
  IF identity = NoIdentity THEN metadata
  ELSE [metadata EXCEPT !.structured = identity,
                        !.index = IF identity.index # "none" THEN identity.index ELSE @,
                        !.symbol = IF identity.symbol # "none" THEN identity.symbol ELSE @]
=============================================================================
