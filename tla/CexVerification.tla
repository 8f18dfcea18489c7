-------------------------- MODULE CexVerification --------------------------
(***************************************************************************)
(* Verification sessions of CEX trade histories (store.ts, from            *)
(* createCexVerificationSession on): imports from a CSV file or the OKX    *)
(* API, decisions, deletions and reports.  An import is two statements,    *)
(* the session's row and then its trades, without a transaction, and a     *)
(* deletion is the same two in reverse; the trades refer to the row by a   *)
(* foreign key.                                                            *)
(***************************************************************************)
EXTENDS CexTrades

CONSTANTS Clerks,       \* requests the API handles at a time
          CsvFiles,     \* what may be uploaded
          ApiFills,     \* what OKX may answer
          MinTrades, MinDays,
          MaxSessions, MaxReports, MaxActs

VARIABLES imports,    \* cex_trade_imports by id; "gone" when deleted
          trades,     \* cex_imported_trades by import, in no order
          clerk,      \* per request, the statement that is still to come
          reports,    \* history: reports, by session
          acts,       \* decisions, deletions and crashes so far
          torn        \* history: imports whose second statement failed or never came

cexVars == <<imports, trades, clerk, reports, acts, torn>>

Idle == [next |-> "idle"]
Ids  == 1..Len(imports)
Stored(i) == imports[i].status # "gone"

Init ==
  /\ imports = <<>> /\ trades = <<>>
  /\ clerk = [c \in Clerks |-> Idle]
  /\ reports = {} /\ acts = 0 /\ torn = {}

-----------------------------------------------------------------------------
(* The row is written first; without trades there is nothing else to do.   *)
InsertImport(c, row, rows) ==
  /\ clerk[c] = Idle /\ Len(imports) < MaxSessions
  /\ imports' = Append(imports, row)
  /\ trades' = Append(trades, <<>>)
  /\ clerk' = [clerk EXCEPT ![c] = IF rows = <<>> THEN Idle
                 ELSE [next |-> "insertTrades", id |-> Len(imports) + 1, rows |-> rows]]
  /\ UNCHANGED <<reports, acts, torn>>

createCexVerificationSession(c, file, stated) ==
  LET parsed == parseCexCsv(file, PlatformOf(file, stated))
  IN InsertImport(c, [status |-> IF parsed.errors > 0 THEN "failed" ELSE "completed",
                      validTradesCount |-> Len(parsed.trades), decided |-> FALSE,
                      source |-> file],
                  parsed.trades)

(* One page of fills. *)
NoFile == [words |-> {}, fits |-> {}, rows |-> <<>>]
fetchCexTradesFromApi(c, fills) ==
  InsertImport(c, [status |-> "completed", validTradesCount |-> Len(fills), decided |-> FALSE,
                   source |-> NoFile],
               fills)

(* The foreign key refuses trades of a deleted import. *)
InsertTrades(c) ==
  /\ clerk[c].next = "insertTrades"
  /\ trades' = IF Stored(clerk[c].id) THEN [trades EXCEPT ![clerk[c].id] = clerk[c].rows] ELSE trades
  /\ clerk' = [clerk EXCEPT ![c] = Idle]
  /\ UNCHANGED <<imports, reports, acts, torn>>

(* Whatever the status was; nothing is updated when the row is gone. *)
updateCexVerificationStatus(c, i, status) ==
  /\ clerk[c] = Idle /\ acts < MaxActs
  /\ imports' = IF ~Stored(i) THEN imports
                ELSE [imports EXCEPT ![i] =
                        [@ EXCEPT !.status = IF status = "validated" THEN "completed" ELSE "rejected",
                                  !.decided = TRUE]]
  /\ acts' = acts + 1
  /\ UNCHANGED <<trades, clerk, reports, torn>>

deleteCexVerificationSession(c, i) ==
  /\ clerk[c] = Idle /\ acts < MaxActs
  /\ trades' = [trades EXCEPT ![i] = <<>>]
  /\ clerk' = [clerk EXCEPT ![c] = [next |-> "deleteImport", id |-> i]]
  /\ acts' = acts + 1
  /\ UNCHANGED <<imports, reports, torn>>

(* Mutant: no foreign key. *)
DeleteImportAnyway(c) ==
  /\ clerk[c].next = "deleteImport"
  /\ imports' = [imports EXCEPT ![clerk[c].id].status = "gone"]
  /\ clerk' = [clerk EXCEPT ![c] = Idle]
  /\ UNCHANGED <<trades, reports, acts, torn>>

(* The foreign key refuses while trades refer to the row. *)
DeleteImport(c) ==
  /\ clerk[c].next = "deleteImport"
  /\ imports' = IF trades[clerk[c].id] = <<>>
                THEN [imports EXCEPT ![clerk[c].id] = [@ EXCEPT !.status = "gone"]]
                ELSE imports
  /\ clerk' = [clerk EXCEPT ![c] = Idle]
  /\ UNCHANGED <<trades, reports, acts, torn>>

(* The second statement throws, out of the handler: nothing undoes the     *)
(* first.                                                                  *)
StatementFails(c) ==
  /\ clerk[c] # Idle /\ acts < MaxActs
  /\ torn' = torn \cup {clerk[c].id}
  /\ clerk' = [clerk EXCEPT ![c] = Idle]
  /\ acts' = acts + 1
  /\ UNCHANGED <<imports, trades, reports>>

(* The process stops; statements that were to come are lost. *)
Crash ==
  /\ \E c \in Clerks : clerk[c] # Idle
  /\ acts < MaxActs
  /\ torn' = torn \cup {clerk[c].id : c \in {d \in Clerks : clerk[d] # Idle}}
  /\ clerk' = [c \in Clerks |-> Idle]
  /\ acts' = acts + 1
  /\ UNCHANGED <<imports, trades, reports>>

(* Mutant: no ORDER BY. *)
InAnyOrder(rows) == SetToSeqs({<<n, rows[n]>> : n \in DOMAIN rows})

(* ORDER BY trade_time: any order of the rows in which times ascend. *)
ByTime(rows) ==
  {p \in SetToSeqs({<<n, rows[n]>> : n \in DOMAIN rows}) :
     \A n, m \in DOMAIN p : n <= m => p[n][2].time <= p[m][2].time}

(* A calculation or a report reads the trades and asks nothing of the row. *)
Report(c, i, method, includeFees) ==
  /\ clerk[c] = Idle /\ Cardinality(reports) < MaxReports
  /\ \E p \in ByTime(trades[i]) :
       LET read == [n \in DOMAIN p |-> p[n][2]]
       IN reports' = reports \cup
            {[id |-> i, method |-> method, fees |-> includeFees, read |-> read,
              report |-> generateCexSubmissionReport(read, method, includeFees, MinTrades, MinDays)]}
  /\ UNCHANGED <<imports, trades, clerk, acts, torn>>

Next ==
  \/ \E c \in Clerks :
       \/ \E f \in CsvFiles, p \in Platforms \cup {"none"} : createCexVerificationSession(c, f, p)
       \/ \E fills \in ApiFills : fetchCexTradesFromApi(c, fills)
       \/ InsertTrades(c) \/ DeleteImport(c) \/ StatementFails(c)
       \/ \E i \in Ids : \/ \E s \in {"validated", "rejected"} : updateCexVerificationStatus(c, i, s)
                         \/ deleteCexVerificationSession(c, i)
                         \/ \E m \in Methods, b \in BOOLEAN : Report(c, i, m, b)
  \/ Crash

Spec == Init /\ [][Next]_cexVars

-----------------------------------------------------------------------------
(* Properties                                                              *)

Fills(s) == {s[n] : n \in DOMAIN s}
Untied(s) == \A n, m \in DOMAIN s : n # m => s[n].time # s[m].time
Called(s) == \A n \in DOMAIN s : s[n].side \in {"buy", "sell"}
Covered(s) ==
  \A n \in DOMAIN s :
    SumSeq([m \in 1..n |-> IF s[m].side = "buy" THEN s[m].quantity ELSE -s[m].quantity]) >= 0

(* Completed, and not because an operator said so: all of its file counts. *)
Undecided(row) == row.status = "completed" /\ ~row.decided /\ row.source.rows # <<>>
TradesIn(file) == LET lines == Written(file.rows) IN [n \in DOMAIN lines |-> TradeOf(lines[n])]
At(c, i) == clerk[c] # Idle /\ clerk[c].id = i

(* A cell and the number stored for it. *)
Shows(cell, number) == number = IF cell.kind = "number" THEN cell.value ELSE 0
Agrees(line, t) ==
  /\ t.side = line.side /\ t.asset = line.asset /\ t.time = line.time
  /\ Shows(line.price, t.price) /\ Shows(line.fee, t.fee)
  /\ Shows(IF line.quantity.kind = "empty" THEN line.amount ELSE line.quantity, t.quantity)

(* An import that shows completed, that no operator decided and no request *)
(* is writing, holds one trade for every row of its file that is not       *)
(* blank, in their order and with what they say, whichever platform was    *)
(* stated or detected (parseCexCsv, detectPlatform).  What the code lets   *)
(* through without a word is part of it: a number that cannot be read is   *)
(* zero, and an empty quantity is Binance's Amount.  The exception is an   *)
(* import whose second statement failed or never came.                     *)
CompletedCoversFile ==
  \A i \in Ids :
    (Undecided(imports[i]) /\ i \notin torn /\ \A c \in Clerks : ~At(c, i)) =>
      LET lines == Written(imports[i].source.rows)
      IN DOMAIN trades[i] = DOMAIN lines /\ \A n \in DOMAIN lines : Agrees(lines[n], trades[i][n])

(* No trade outlives its import, and one that was deleted stays empty,     *)
(* however uploads and deletions cross (deleteCexVerificationSession).     *)
DeletedIsEmpty == \A i \in Ids : ~Stored(i) => trades[i] = <<>>

(* Two reports on the same trades by the same method agree, unless trades  *)
(* share a time: the database then orders them as it likes                 *)
(* (calculateCexPnl).                                                      *)
ReportRepeats ==
  \A r, q \in reports :
    (/\ r.id = q.id /\ r.method = q.method /\ r.fees = q.fees
     /\ Fills(r.read) = Fills(q.read) /\ Untied(r.read))
    => r.report = q.report

(* When a position was closed and never oversold, the method does not      *)
(* matter: the gain is what was received less what was paid.               *)
MethodsAgreeWhenFlat ==
  \A r \in reports :
    LET grouped == groupTradesByAsset(r.read)
    IN \A a \in DOMAIN grouped :
         LET s == r.report.result.assets[a]
         IN (s.openPosition = 0 /\ Covered(grouped[a]) /\ Called(grouped[a])) =>
              SameAs(s.realizedPnl,
                     Whole(s.sellValue - s.buyValue - (IF r.fees THEN s.totalFees ELSE 0)))

(* First in, first out, unit by unit: without overselling, the n-th unit   *)
(* sold costs what the n-th unit bought did, however purchases and sales   *)
(* alternate and lots are split (calculateFifoPnl).                        *)
UnitPrices(s) ==
  FoldLeft(LAMBDA acc, t : acc \o [k \in 1..t.quantity |-> t.price], <<>>,
           SelectSeq(s, LAMBDA t : t.side = "buy"))
FifoIsByUnits ==
  \A r \in {x \in reports : x.method = "fifo"} :
    LET grouped == groupTradesByAsset(r.read)
    IN \A a \in DOMAIN grouped :
         (Covered(grouped[a]) /\ Called(grouped[a])) =>
           LET sold == SumSeq([n \in DOMAIN grouped[a] |->
                                 IF grouped[a][n].side = "sell" THEN grouped[a][n].quantity ELSE 0])
               out  == calculateFifoPnl(grouped[a]).out
           IN SumSeq([n \in DOMAIN out |-> IF out[n].of.side = "sell" THEN out[n].cost.n ELSE 0])
                = SumSeq(SubSeq(UnitPrices(grouped[a]), 1, sold))
-----------------------------------------------------------------------------
(* The invariant behind the first three: what is stored of an import is    *)
(* nothing or all of it, so is what a request is about to store, and a     *)
(* report was made of one or the other, in the order of time.              *)
ImportRow == [status : {"completed", "failed", "rejected", "gone"}, validTradesCount : Nat,
              decided : BOOLEAN, source : CsvFiles \cup {NoFile}]
Statement == {Idle} \cup [next : {"insertTrades"}, id : Ids, rows : Seq(Trade)]
                    \cup [next : {"deleteImport"}, id : Ids]

Types ==
  /\ imports \in Seq(ImportRow)
  /\ trades \in Seq(Seq(Trade)) /\ Len(trades) = Len(imports)
  /\ clerk \in [Clerks -> Statement]

WholeOrNothing(i) ==
  /\ Len(trades[i]) \in {0, imports[i].validTradesCount}
  /\ ~Stored(i) => trades[i] = <<>>
  /\ Undecided(imports[i]) =>
       /\ trades[i] \in {<<>>, TradesIn(imports[i].source)}
       /\ trades[i] = TradesIn(imports[i].source) \/ i \in torn \/ \E c \in Clerks : At(c, i)

WholeToCome(c) ==
  clerk[c].next = "insertTrades" =>
    LET row == imports[clerk[c].id]
    IN /\ Len(clerk[c].rows) = row.validTradesCount
       /\ Undecided(row) => clerk[c].rows = TradesIn(row.source)

ReportOfWhole(r) ==
  /\ r.id \in Ids /\ r.read \in Seq(Trade)
  /\ Len(r.read) \in {0, imports[r.id].validTradesCount}
  /\ \A n, m \in DOMAIN r.read : n <= m => r.read[n].time <= r.read[m].time
  /\ r.report = generateCexSubmissionReport(r.read, r.method, r.fees, MinTrades, MinDays)

CexInv ==
  /\ Types
  /\ \A i \in Ids : WholeOrNothing(i)
  /\ \A c \in Clerks : WholeToCome(c)
  /\ \A r \in reports : ReportOfWhole(r)
=============================================================================
