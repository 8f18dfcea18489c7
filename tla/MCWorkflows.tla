---------------------------- MODULE MCWorkflows ----------------------------
(***************************************************************************)
(* Small instances of the workflows for TLC: who asks, and what the rows   *)
(* they read may say.                                                      *)
(***************************************************************************)
EXTENDS Workflows, TLC

(* Two operators, who may be exchanged, and an operator beside an          *)
(* administrator.                                                          *)
CONSTANT Peers
PeerRole == [s \in Peers |-> "operator"]
Symmetry == Permutations(Peers)
Pair    == {"ann", "ada"}
PairRole == [s \in Pair |-> IF s = "ada" THEN "admin" ELSE "operator"]

(* Snapshots of a connector: ready, and short of it in one way each. *)
Ready == [truthMode |-> "real", executionSupport |-> TRUE, freshness |-> "fresh",
          completeness |-> "complete", healthState |-> "healthy", healthy |-> TRUE,
          succeeded |-> TRUE, missing |-> FALSE, configured |-> TRUE,
          confirmation |-> "confirmed"]
ConnectorSnapshots ==
  { Ready,
    [Ready EXCEPT !.confirmation = "blocked"],
    [Ready EXCEPT !.healthState = "degraded", !.succeeded = FALSE],
    [Ready EXCEPT !.executionSupport = FALSE] }

(* Months of three days and of one: of the deposits of days 1, 2 and 3 the *)
(* first and the last unlock together, before the one in between.          *)
ShortMonths == <<0, 3, 4, 7>>

(* What the submission readiness may find, and evidence of each type. *)
StrategyFacts ==
  LET proven == [eligible |-> TRUE, realizedApy |-> "meets", realExecution |-> {1},
                 environment |-> "devnet", baseAsset |-> "USDC",
                 tenor |-> "three months, rolling", targetApy |-> 10]
  IN { proven,
       [proven EXCEPT !.environment = "unknown", !.targetApy = 9],
       [proven EXCEPT !.realizedApy = "none", !.realExecution = {}] }
Statements ==
  { [given |-> {"vault", "lpMint", "strategy", "initialized"}, cleared |-> {}],
    [given |-> {}, cleared |-> {"vault", "allocated"}] }
Evidences ==
  [type : {"on_chain_transaction"}, status : {"recorded"}, at : {1}, stated : {"no answer"}]
  \cup
  [type : {"on_chain_transaction"}, status : {"recorded"}, at : {0}, stated : {"yes"}]
  \cup
  [type : {"performance_snapshot", "cex_trade_history", "cex_read_only_api", "backtest_simulation"},
   status : {"recorded"}, at : {0}, stated : {"no answer"}]

(* CSV files: what the exchanges write in the header line, histories of    *)
(* four trades from a purchase to a sale, and shorter ones with what can   *)
(* be wrong: tied times, a blank row, an empty field, a price that is no   *)
(* number, a total where the quantity should be, a side that is neither.   *)
(* The header that Bybit writes is taken for Binance's.                    *)
Headers ==
  [binance  |-> {"trade id", "symbol", "side", "price", "fee"},
   okx      |-> {"instid", "side", "fillpx", "fillsz", "fee"},
   bybit    |-> {"trade id", "symbol", "side", "price", "qty", "fee"},
   coinbase |-> {"portfolio", "trade id", "product", "side", "price", "fee"}]
Number(n) == [kind |-> "number", value |-> n]
Empty     == [kind |-> "empty", value |-> 0]
Text      == [kind |-> "text", value |-> 0]
CsvRow(side, quantity, price, fee, asset, time) ==
  [blank |-> FALSE, lacks |-> {}, side |-> side, asset |-> asset, time |-> time,
   price |-> Number(price), quantity |-> Number(quantity), amount |-> Empty, fee |-> Number(fee)]
FourTrades ==
  LET Choices == {<<"buy", 1, 1>>, <<"buy", 2, 2>>, <<"sell", 1, 2>>, <<"sell", 2, 3>>}
  IN {[n \in 1..4 |-> CsvRow(c[n][1], c[n][2], c[n][3], 0, "BTC", n)] :
        c \in {x \in [1..4 -> Choices] : x[1] = <<"buy", 2, 2>> /\ x[2][2] = 1 /\ x[4][1] = "sell"}}
FewTrades ==
  LET buy  == CsvRow("buy", 1, 1, 1, "BTC", 1)
      sell == CsvRow("sell", 1, 2, 1, "BTC", 2)
  IN { <<>>,
       <<buy, [sell EXCEPT !.time = 1]>>,
       <<buy, CsvRow("buy", 1, 3, 0, "ETH", 1), sell>>,
       <<buy, [buy EXCEPT !.blank = TRUE], sell>>,
       <<buy, [buy EXCEPT !.price = Empty], sell>>,
       <<buy, [sell EXCEPT !.price = Text]>>,
       <<buy, [sell EXCEPT !.quantity = Empty, !.amount = Number(2)]>>,
       <<buy, [sell EXCEPT !.side = "convert"]>> }
File(exchange, rows) == [words |-> Headers[exchange], fits |-> {exchange}, rows |-> rows]
Files == {File("binance", r) : r \in FourTrades}
         \cup {File(p, r) : p \in {"binance", "okx", "bybit", "coinbase"}, r \in FewTrades}
OkxAnswers ==
  LET Fill(side, price, time) ==
        [side |-> side, quantity |-> 1, price |-> price, fee |-> 1, asset |-> "BTC", time |-> time]
  IN { <<>>, <<Fill("buy", 1, 1), Fill("sell", 2, 2)>> }
=============================================================================
