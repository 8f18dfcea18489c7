----------------------------- MODULE CexTrades -----------------------------
(***************************************************************************)
(* Trade histories of centralised exchanges: what a CSV file is read as    *)
(* (csv-parser.ts) and the profit and loss it shows (pnl-calculator.ts).   *)
(* A file is what its header line says, in lower case, the platforms whose *)
(* parsers find their columns under it, and its rows.  A row keeps its     *)
(* side, asset and time, the text fields it leaves empty or unreadable,    *)
(* and its numbers as cells: a number, text that is none, or nothing.      *)
(* Amounts are integers; the average method divides, so that results are   *)
(* fractions.  The rounding to eight decimals is left out.                 *)
(***************************************************************************)
EXTENDS Integers, Sequences, FiniteSets, SequencesExt

Platforms == {"binance", "okx", "bybit", "coinbase"}

Cell     == [kind : {"number", "text", "empty"}, value : Int]
Trade    == [side : STRING, quantity : Int, price : Int, fee : Int, asset : STRING, time : Int]
TradeRow == [blank : BOOLEAN, lacks : SUBSET {"tradeId", "symbol", "side", "time"}, side : STRING,
             asset : STRING, time : Int, price : Cell, quantity : Cell, amount : Cell, fee : Cell]

-----------------------------------------------------------------------------
(* The words of the header line decide. *)
detectPlatform(words) ==
  CASE {"trade id", "orderno"} \cap words # {} /\ {"symbol", "pair"} \cap words # {}
         /\ {"commission", "fee"} \cap words # {}                               -> "binance"
    [] "instid" \in words \/ {"fillpx", "fillsz"} \subseteq words               -> "okx"
    [] "execid" \in words \/ {"execprice", "closedpnl"} \subseteq words         -> "bybit"
    [] {"portfolio", "trade id"} \subseteq words                                -> "coinbase"
    [] OTHER                                                                    -> "null"

validateCsvFormat(file, platform) ==
  /\ file.rows # <<>>
  /\ CASE platform = "binance" -> {"trade id", "symbol", "side", "price"}
       [] platform = "okx"     -> {"instid", "side", "fillpx", "fillsz"}
       [] platform = "bybit"   -> {"symbol", "side", "price", "qty"}
       [] OTHER                -> {"trade id", "product", "side", "price"}
     \subseteq file.words

Filled(cell) == cell.kind # "empty"

(* Text that is no number counts as zero, and nobody is told. *)
normalizeNumber(cell) == IF cell.kind = "number" THEN cell.value ELSE 0

(* A row is a trade unless a required field is empty or its time cannot be *)
(* read, or its side is neither buy nor sell (which nobody asks of         *)
(* Coinbase's).  Binance's Amount, the total in the quote asset, stands in *)
(* for a quantity that is empty.                                           *)
parseTradeRow(file, line, platform) ==
  /\ platform \in file.fits /\ line.lacks = {}
  /\ Filled(line.price)
  /\ Filled(line.quantity) \/ (platform = "binance" /\ Filled(line.amount))
  /\ platform # "coinbase" => line.side \in {"buy", "sell"}

TradeOf(line) ==
  [side |-> line.side, asset |-> line.asset, time |-> line.time,
   price    |-> normalizeNumber(line.price),
   quantity |-> normalizeNumber(IF Filled(line.quantity) THEN line.quantity ELSE line.amount),
   fee      |-> normalizeNumber(line.fee)]

(* Mutant: rows that are no trades are skipped like blank ones.            *)
ParseSkipping(file, platform) ==
  LET read == SelectSeq(file.rows,
                        LAMBDA r : ~r.blank /\ parseTradeRow(file, r, platform))
  IN [trades |-> [n \in DOMAIN read |-> TradeOf(read[n])],
      errors |-> IF file.rows = <<>> THEN 1 ELSE 0]

(* The rows that are not blank, one after the other. *)
Written(rows) ==
  LET kept[n \in 0..Len(rows)] ==
        IF n = 0 THEN <<>>
        ELSE IF rows[n].blank THEN kept[n - 1] ELSE Append(kept[n - 1], rows[n])
  IN kept[Len(rows)]

(* Rows are read up to the first that is no trade; blank ones are skipped. *)
parseCexCsv(file, platform) ==
  LET Bad == {n \in DOMAIN file.rows :
                ~file.rows[n].blank /\ ~parseTradeRow(file, file.rows[n], platform)}
      end == IF Bad = {} THEN Len(file.rows) ELSE (CHOOSE n \in Bad : \A m \in Bad : n <= m) - 1
      read == Written(SubSeq(file.rows, 1, end))
  IN [trades |-> [n \in DOMAIN read |-> TradeOf(read[n])],
      errors |-> IF file.rows = <<>> \/ Bad # {} THEN 1 ELSE 0]

PlatformOf(file, stated) ==
  CASE stated # "none" -> stated
    [] stated = "none" /\ detectPlatform(file.words) # "null" -> detectPlatform(file.words)
    [] OTHER -> "binance"

validateCexCsv(file, stated) ==
  LET platform == PlatformOf(file, stated)
  IN validateCsvFormat(file, platform) /\ parseCexCsv(file, platform).errors = 0

-----------------------------------------------------------------------------
SumSeq(s) == FoldSeq(LAMBDA x, acc : x + acc, 0, s)
Least(a, b) == IF a < b THEN a ELSE b

(* Fractions. *)
Frac(n, d) == [n |-> n, d |-> d]
Whole(n)   == Frac(n, 1)
Plus(a, b) == IF a.d = b.d THEN Frac(a.n + b.n, a.d) ELSE Frac(a.n * b.d + b.n * a.d, a.d * b.d)
Minus(a, b) == Plus(a, Frac(-b.n, b.d))
SameAs(a, b) == a.n * b.d = b.n * a.d
SumF(s) == FoldSeq(Plus, Whole(0), s)

Value(t) == t.quantity * t.price

(* How much of each lot a sale of quantity takes, and what stays. *)
Matched(lots, quantity) ==
  [i \in DOMAIN lots |->
     LET earlier == SumSeq([j \in 1..(i - 1) |-> lots[j].quantity])
     IN IF quantity > earlier THEN Least(lots[i].quantity, quantity - earlier) ELSE 0]
Left(lots, quantity) ==
  LET taken == Matched(lots, quantity)
  IN SelectSeq([i \in DOMAIN lots |-> [lots[i] EXCEPT !.quantity = @ - taken[i]]],
               LAMBDA l : l.quantity > 0)
CostOf(lots, quantity) ==
  SumSeq([i \in DOMAIN lots |-> Matched(lots, quantity)[i] * lots[i].price])

(* The lots in the order in which sales take them. *)
Queue(lots, method) == IF method = "lifo" THEN Reverse(lots) ELSE lots

(* Each trade in turn: a buy adds a lot, anything else takes from them. *)
MatchTrade(acc, t, method) ==
  IF t.side = "buy"
  THEN [lots |-> Append(acc.lots, [quantity |-> t.quantity, price |-> t.price]),
        out  |-> Append(acc.out, [of |-> t, cost |-> Whole(Value(t)), pnl |-> Whole(0)])]
  ELSE LET cost == CostOf(Queue(acc.lots, method), t.quantity)
       IN [lots |-> Queue(Left(Queue(acc.lots, method), t.quantity), method),
           out  |-> Append(acc.out, [of |-> t, cost |-> Whole(cost), pnl |-> Whole(Value(t) - cost)])]

NoTrades == [lots |-> <<>>, out |-> <<>>]
(* Mutant: the latest lots first. *)
FifoFromTheEnd(trades) ==
  FoldLeft(LAMBDA acc, t : MatchTrade(acc, t, "lifo"), NoTrades, trades)
calculateFifoPnl(trades) ==
  FoldLeft(LAMBDA acc, t : MatchTrade(acc, t, "fifo"), NoTrades, trades)
calculateLifoPnl(trades) ==
  FoldLeft(LAMBDA acc, t : MatchTrade(acc, t, "lifo"), NoTrades, trades)

(* Mutant: a sale leaves the cost of what it sold behind. *)
AverageKeepingCost(acc, t) ==
  IF t.side = "buy"
  THEN [quantity |-> acc.quantity + t.quantity, cost |-> Plus(acc.cost, Whole(Value(t))),
        out |-> Append(acc.out, [of |-> t, cost |-> Whole(Value(t)), pnl |-> Whole(0)])]
  ELSE LET basis == IF acc.quantity > 0
                    THEN Frac(t.quantity * acc.cost.n, acc.quantity * acc.cost.d) ELSE Whole(0)
       IN [quantity |-> acc.quantity - t.quantity, cost |-> acc.cost,
           out |-> Append(acc.out, [of |-> t, cost |-> basis, pnl |-> Minus(Whole(Value(t)), basis)])]
AverageTrade(acc, t) ==
  IF t.side = "buy"
  THEN [quantity |-> acc.quantity + t.quantity, cost |-> Plus(acc.cost, Whole(Value(t))),
        out |-> Append(acc.out, [of |-> t, cost |-> Whole(Value(t)), pnl |-> Whole(0)])]
  ELSE LET basis == IF acc.quantity > 0
                    THEN Frac(t.quantity * acc.cost.n, acc.quantity * acc.cost.d) ELSE Whole(0)
       IN [quantity |-> acc.quantity - t.quantity, cost |-> Minus(acc.cost, basis),
           out |-> Append(acc.out, [of |-> t, cost |-> basis, pnl |-> Minus(Whole(Value(t)), basis)])]
calculateAveragePnl(trades) ==
  FoldLeft(AverageTrade, [quantity |-> 0, cost |-> Whole(0), out |-> <<>>], trades)

Methods == {"fifo", "lifo", "avg"}
TradesWithPnl(trades, method) ==
  CASE method = "lifo" -> calculateLifoPnl(trades).out
    [] method = "avg"  -> calculateAveragePnl(trades).out
    [] OTHER           -> calculateFifoPnl(trades).out

(* The summary counts as sales only what is called one. *)
generateAssetSummary(out, includeFees) ==
  LET Of(side)  == SelectSeq(out, LAMBDA x : x.of.side = side)
      Total(s, f(_)) == SumSeq([n \in DOMAIN s |-> f(s[n])])
      fees      == SumSeq([n \in DOMAIN out |-> out[n].of.fee])
      gains     == SumF([n \in DOMAIN Of("sell") |-> Of("sell")[n].pnl])
  IN [totalTrades |-> Len(out),
      realizedPnl |-> IF includeFees THEN Minus(gains, Whole(fees)) ELSE gains,
      totalFees   |-> fees,
      openPosition |-> Total(Of("buy"), LAMBDA x : x.of.quantity) - Total(Of("sell"), LAMBDA x : x.of.quantity),
      buyValue  |-> Total(Of("buy"), LAMBDA x : Value(x.of)),
      sellValue |-> Total(Of("sell"), LAMBDA x : Value(x.of)),
      winning |-> Len(SelectSeq(Of("sell"), LAMBDA x : x.pnl.n > 0)),
      losing  |-> Len(SelectSeq(Of("sell"), LAMBDA x : x.pnl.n < 0))]

calculateAssetPnl(trades, method, includeFees) ==
  LET sortedTrades == SortSeq(trades, LAMBDA t, u : t.time < u.time)
  IN generateAssetSummary(TradesWithPnl(sortedTrades, method), includeFees)

(* Rows come ordered by time; rows of the same time in whatever order. *)
groupTradesByAsset(trades) ==
  [a \in {trades[n].asset : n \in DOMAIN trades} |-> SelectSeq(trades, LAMBDA t : t.asset = a)]

calculateCexPnl(trades, method, includeFees) ==
  LET grouped == groupTradesByAsset(trades)
      assets  == [a \in DOMAIN grouped |-> calculateAssetPnl(grouped[a], method, includeFees)]
      Over(f(_)) == FoldSet(LAMBDA a, acc : f(assets[a]) + acc, 0, DOMAIN assets)
  IN [assets      |-> assets,
      totalTrades |-> Len(trades),
      netPnl      |-> FoldSet(LAMBDA a, acc : Plus(assets[a].realizedPnl, acc), Whole(0), DOMAIN assets),
      totalFees   |-> Over(LAMBDA x : x.totalFees),
      winning     |-> Over(LAMBDA x : x.winning),
      losing      |-> Over(LAMBDA x : x.losing)]

(* Days between the first and the last trade, at least one. *)
TradingDays(trades) ==
  CASE trades = <<>> -> 0
    [] Len(trades) > 0 /\ Last(trades).time > trades[1].time -> Last(trades).time - trades[1].time
    [] OTHER -> 1

generateCexSubmissionReport(trades, method, includeFees, minTrades, minDays) ==
  LET result == calculateCexPnl(trades, method, includeFees)
  IN [result |-> result,
      hackathonEligibility |->
        [hasSufficientTrades |-> result.totalTrades >= minTrades,
         hasPositivePnl      |-> result.netPnl.n > 0,
         meetsMinimumPeriod  |-> TradingDays(trades) >= minDays]]
=============================================================================
