------------------------- MODULE SubmissionDossier -------------------------
(***************************************************************************)
(* The submission dossier of the vault, its evidence, and the operations   *)
(* on the Ranger vault that fill it in.  A Ranger operation sends a        *)
(* transaction and, when it is confirmed, merges what it did into the      *)
(* dossier's row: upsertSubmissionDossier reads the row, merges and writes *)
(* it whole, with no transaction, and so do the operators' own updates.    *)
(* A transaction whose confirmation times out may still land.              *)
(*                                                                         *)
(* Two build windows, 1 and 2, stand for two choices of buildWindowStart   *)
(* and buildWindowEnd; an instant is the window it lies in.                *)
(***************************************************************************)
EXTENDS Integers, FiniteSets

CONSTANTS DossierSessions,
          Signers,      \* the keypairs the environment configures, of {"admin", "manager"}
          DossierFacts, \* what the readiness reads of the vault and the strategy
          EvidenceInputs, \* type, status, date (0 for none) and what the caller states
          MarkerUpdates, \* Ranger fields that an operator's update gives or sets to null
          MaxDossierOps,
          MaxEvidence

VARIABLES dossier,   \* vault_submission_profiles
          evidence,  \* vault_submission_evidence
          facts,     \* vault record, strategy profile, executions
          chain,     \* Ranger operations that landed
          clerk,     \* per session, the operation in progress
          told,      \* history: markers that completed operations wrote and
                     \* no operator's update has cleared since
          stated,    \* history: markers that an operator's update gave
          lost,      \* history: markers that a write dropped because its
                     \* update had read the row before they were there
          operations

dossierVars == <<dossier, evidence, facts, chain, clerk, told, stated, lost, operations>>

Markers   == {"vault", "lpMint", "lpMetadata", "adaptor", "strategy", "initialized", "allocated"}
RangerOps == {"create", "lpMetadata", "addAdaptor", "initialize", "deposit", "withdraw"}

(* The control plane's Ranger operations, by the fields of the dossier     *)
(* each may set; a caller may name the adaptor's program with a strategy.  *)
createRangerVault        == {{"vault", "lpMint"}}
createRangerLpMetadata   == {{"lpMetadata"}}
addRangerAdaptor         == {{"adaptor"}}
initializeRangerStrategy == {{"strategy", "initialized"}, {"strategy", "initialized", "adaptor"}}
depositRangerStrategy    == {{"strategy", "allocated"}, {"strategy", "allocated", "adaptor"}}
withdrawRangerStrategy   == {{}}

SyncedMarkers(op) ==
  CASE op = "create"     -> createRangerVault
    [] op = "lpMetadata" -> createRangerLpMetadata
    [] op = "addAdaptor" -> addRangerAdaptor
    [] op = "initialize" -> initializeRangerStrategy
    [] op = "deposit"    -> depositRangerStrategy
    [] op = "withdraw"   -> withdrawRangerStrategy

(* RangerVaultClient, by the keys each of its operations needs (a vault's  *)
(* manager may be named by public key); a client that createRangerClient   *)
(* builds without the admin's key is read-only.                            *)
createVault          == {"admin"}
createLpMetadata     == {"admin"}
addAdaptor           == {"admin"}
initializeStrategy   == {"admin", "manager"}
depositToStrategy    == {"manager"}
withdrawFromStrategy == {"manager"}

KeysFor(op) ==
  CASE op = "create"     -> createVault
    [] op = "lpMetadata" -> createLpMetadata
    [] op = "addAdaptor" -> addAdaptor
    [] op = "initialize" -> initializeStrategy
    [] op = "deposit"    -> depositToStrategy
    [] op = "withdraw"   -> withdrawFromStrategy

ClientMode == IF "admin" \in Signers THEN "full" ELSE "readonly"
ClientRefuses(op) == ClientMode = "readonly" \/ ~(KeysFor(op) \subseteq Signers)

(* The program on chain acts on accounts that exist. *)
ChainAccepts(op) ==
  CASE op = "create"                      -> TRUE
    [] op \in {"lpMetadata", "addAdaptor"} -> "create" \in chain
    [] op = "initialize"                  -> {"create", "addAdaptor"} \subseteq chain
    [] op \in {"deposit", "withdraw"}      -> "initialize" \in chain

-----------------------------------------------------------------------------
(* buildSubmissionReadiness: the checks that are not "pass". *)
Counts(type, inWindow) ==
  \E e \in evidence : e.type = type /\ e.status # "rejected" /\ (inWindow => e.within)

PerformanceEvidence == Counts("performance_snapshot", FALSE)
RangerReady == {"vault", "lpMint", "strategy", "initialized"} \subseteq dossier.markers
OnChainTrades == dossier.window \in facts.realExecution \/ Counts("on_chain_transaction", TRUE)
CexHistory == dossier.cexHistory \/ Counts("cex_trade_history", FALSE)
CexApi     == dossier.cexApi \/ Counts("cex_read_only_api", FALSE)
BacktestEvidence == Counts("backtest_simulation", FALSE)

(* getSubmissionDossier: a cluster that is not set is the one the          *)
(* strategy's environment names, if any.                                   *)
Cluster == IF dossier.cluster = "unknown" THEN facts.environment ELSE dossier.cluster

Passes(condition) == IF condition THEN "pass" ELSE "fail"

CheckStatus ==
  [documentation |-> Passes(dossier.documented),
   repository    |-> Passes(dossier.repository \in {"public", "private_shared"}),
   ranger        |-> IF RangerReady THEN IF "allocated" \in dossier.markers THEN "pass" ELSE "warning"
                     ELSE "fail",
   address       |-> Passes(dossier.addresses # {}),
   cluster       |-> Passes(Cluster # "unknown"),
   baseAsset     |-> Passes(facts.baseAsset = "USDC"),
   tenor         |-> Passes(facts.tenor = "three months, rolling"),
   targetApy     |-> Passes(facts.targetApy >= 10),
   policy        |-> Passes(facts.eligible),
   performance   |-> CASE facts.realizedApy = "meets" -> "pass"
                       [] facts.realizedApy = "none" /\ PerformanceEvidence -> "warning"
                       [] OTHER -> "fail",
   onChain       |-> IF OnChainTrades THEN "pass"
                     ELSE IF PerformanceEvidence THEN "warning" ELSE "fail",
   cex           |-> Passes(dossier.cexUsed => CexHistory /\ CexApi)]

Readiness ==
  LET found == {CheckStatus[k] : k \in DOMAIN CheckStatus}
  IN IF "fail" \in found THEN "blocked" ELSE IF "warning" \in found THEN "partial" ELSE "ready"

(* mutant: the export asks for the trade history only *)
ArtifactsHistory ==
  [documentation |-> dossier.documented,
   repository    |-> dossier.repository \in {"public", "private_shared"},
   ranger        |-> RangerReady,
   address       |-> dossier.addresses # {},
   onChain       |-> OnChainTrades \/ PerformanceEvidence \/ BacktestEvidence,
   performance   |-> \/ facts.realizedApy = "meets"
                     \/ facts.realizedApy = "none" /\ (PerformanceEvidence \/ BacktestEvidence),
   cexHistory    |-> dossier.cexUsed => CexHistory,
   cexApi        |-> TRUE]

(* mutant: the export wants live trades *)
ArtifactsLive ==
  [documentation |-> dossier.documented,
   repository    |-> dossier.repository \in {"public", "private_shared"},
   ranger        |-> RangerReady,
   address       |-> dossier.addresses # {},
   onChain       |-> OnChainTrades,
   performance   |-> \/ facts.realizedApy = "meets"
                     \/ facts.realizedApy = "none" /\ (PerformanceEvidence \/ BacktestEvidence),
   cexHistory    |-> dossier.cexUsed => CexHistory,
   cexApi        |-> dossier.cexUsed => CexApi]

(* buildSubmissionExportBundle: the artifacts, and whether each is there.  *)
(* recordSubmissionEvidence stores a backtest as a document.               *)
Artifacts ==
  [documentation |-> dossier.documented,
   repository    |-> dossier.repository \in {"public", "private_shared"},
   ranger        |-> RangerReady,
   address       |-> dossier.addresses # {},
   onChain       |-> OnChainTrades \/ PerformanceEvidence \/ BacktestEvidence,
   performance   |-> \/ facts.realizedApy = "meets"
                     \/ facts.realizedApy = "none" /\ (PerformanceEvidence \/ BacktestEvidence),
   cexHistory    |-> dossier.cexUsed => CexHistory,
   cexApi        |-> dossier.cexUsed => CexApi]

ExportBlocks == {k \in DOMAIN Artifacts : ~Artifacts[k]}

-----------------------------------------------------------------------------
Idle == [op |-> "idle"]

(* The vault and its adaptor may have been made with the client alone,     *)
(* before there was a dossier.                                             *)
Init ==
  /\ dossier = [markers |-> {}, addresses |-> {}, cluster |-> "unknown", documented |-> FALSE,
                repository |-> "none", window |-> 1, cexUsed |-> FALSE, cexHistory |-> FALSE,
                cexApi |-> FALSE]
  /\ evidence = {}
  /\ facts \in DossierFacts
  /\ chain \in {{}, {"create", "addAdaptor"}}
  /\ clerk = [s \in DossierSessions |-> Idle]
  /\ told = {} /\ stated = {} /\ lost = {}
  /\ operations = 0

(* mutant: an unconfirmed transaction is taken for a failed one and its    *)
(* effects are synchronised all the same                                   *)
SendUnchecked(s, op) ==
  /\ clerk[s].op = "idle" /\ operations < MaxDossierOps
  /\ ~ClientRefuses(op)
  /\ operations' = operations + 1
  /\ chain' \in {chain} \cup (IF ChainAccepts(op) THEN {chain \cup {op}} ELSE {})
  /\ \E set \in SyncedMarkers(op) : clerk' = [clerk EXCEPT ![s] = [op |-> "confirmed", set |-> set]]
  /\ UNCHANGED <<dossier, evidence, facts, told, stated, lost>>

(* A Ranger operation of the control plane, up to the answer of            *)
(* sendAndConfirmTransaction: confirmed, or an error whether or not the    *)
(* transaction landed, which the operation throws.                         *)
Send(s, op) ==
  /\ clerk[s].op = "idle" /\ operations < MaxDossierOps
  /\ ~ClientRefuses(op)
  /\ operations' = operations + 1
  /\ \/ /\ ChainAccepts(op)
        /\ chain' = chain \cup {op}
        /\ \E set \in SyncedMarkers(op) :
             clerk' = [clerk EXCEPT ![s] = [op |-> "confirmed", set |-> set]]
     \/ /\ chain' \in {chain} \cup (IF ChainAccepts(op) THEN {chain \cup {op}} ELSE {})
        /\ UNCHANGED clerk
  /\ UNCHANGED <<dossier, evidence, facts, told, stated, lost>>

(* mutant: the merge drops what the row had *)
MergeReplacing(markers, given, cleared) == given

(* Fields that the update leaves out keep their values, one that is null   *)
(* (or false) is cleared.                                                  *)
mergeSubmissionMetadata(markers, given, cleared) == (markers \ cleared) \cup given

(* upsertSubmissionDossier up to its read: the row as the update will      *)
(* write it, with the Ranger fields that the row had, and those that a     *)
(* Ranger operation sets or an operator gives and clears.                  *)
readUpsert(s, new, set, given, cleared) ==
  clerk' = [clerk EXCEPT ![s] = [op |-> "write", row |-> new, read |-> dossier.markers,
                                 set |-> set, given |-> given, cleared |-> cleared]]

(* syncSubmissionRangerState, for a confirmed operation: a vault's address *)
(* is the dossier's as well, and its creator may name the cluster.         *)
SyncRanger(s) ==
  LET set == clerk[s].set
  IN /\ clerk[s].op = "confirmed" /\ set # {}
     /\ \E c \in {dossier.cluster} \cup (IF "vault" \in set THEN {"devnet"} ELSE {}) :
          readUpsert(s, [dossier EXCEPT !.markers = mergeSubmissionMetadata(@, set, {}),
                                        !.addresses = @ \cup (set \cap {"vault"}),
                                        !.cluster = c], set, {}, {})
     /\ UNCHANGED <<dossier, evidence, facts, chain, told, stated, lost, operations>>

(* withdraw, or updateSubmissionDossier = false *)
SkipSync(s) ==
  /\ clerk[s].op = "confirmed"
  /\ clerk' = [clerk EXCEPT ![s] = Idle]
  /\ UNCHANGED <<dossier, evidence, facts, chain, told, stated, lost, operations>>

(* An operator's update of what is not a Ranger field. *)
EditDossier(s) ==
  /\ clerk[s].op = "idle" /\ operations < MaxDossierOps
  /\ operations' = operations + 1
  /\ \E new \in {[dossier EXCEPT !.documented = TRUE, !.repository = "public",
                                  !.addresses = {"wallet"}],
                 [dossier EXCEPT !.cluster = "devnet", !.cexUsed = TRUE, !.cexHistory = TRUE],
                 [dossier EXCEPT !.repository = "private", !.addresses = {}, !.window = 3 - @,
                                 !.cexApi = TRUE]} :
       readUpsert(s, new, {}, {}, {})
  /\ UNCHANGED <<dossier, evidence, facts, chain, told, stated, lost>>

(* The Ranger fields are in the body of the same request: an operator may  *)
(* give one that no operation set, or clear one.                           *)
EditMarkers(s) ==
  /\ clerk[s].op = "idle" /\ operations < MaxDossierOps
  /\ operations' = operations + 1
  /\ \E u \in MarkerUpdates :
       readUpsert(s, [dossier EXCEPT !.markers = mergeSubmissionMetadata(@, u.given, u.cleared)],
                  {}, u.given, u.cleared)
  /\ UNCHANGED <<dossier, evidence, facts, chain, told, stated, lost>>

(* An update that carries metadata of its own: it takes the place of the   *)
(* row's before the merge, so Ranger fields that it leaves out are null.   *)
ReplaceMetadata(s) ==
  /\ clerk[s].op = "idle" /\ operations < MaxDossierOps
  /\ operations' = operations + 1
  /\ \E u \in MarkerUpdates :
       readUpsert(s, [dossier EXCEPT !.markers = u.given,
                                     !.documented = FALSE, !.repository = "none"],
                  {}, u.given, Markers)
  /\ UNCHANGED <<dossier, evidence, facts, chain, told, stated, lost>>

WriteDossier(s) ==
  /\ clerk[s].op = "write"
  /\ dossier' = clerk[s].row
  /\ told' = (told \ clerk[s].cleared) \cup clerk[s].set
  /\ stated' = stated \cup clerk[s].given
  /\ lost' = (lost \cup (dossier.markers \ clerk[s].read)) \ clerk[s].row.markers
  /\ clerk' = [clerk EXCEPT ![s] = Idle]
  /\ UNCHANGED <<evidence, facts, chain, operations>>

Within(at) == at = dossier.window

(* recordSubmissionEvidence: the caller may state withinBuildWindow. *)
normalizeSubmissionEvidenceType(type) ==
  IF type \in {"on_chain_transaction", "performance_snapshot", "cex_trade_history", "cex_read_only_api"}
  THEN type ELSE "document"

recordSubmissionEvidence ==
  /\ Cardinality(evidence) < MaxEvidence
  /\ \E e \in EvidenceInputs :
       evidence' = evidence \cup
         {[type |-> normalizeSubmissionEvidenceType(e.type), status |-> e.status, at |-> e.at,
           stated |-> e.stated,
           within |-> CASE e.stated = "yes" -> TRUE [] e.stated = "no" -> FALSE [] OTHER -> Within(e.at)]}
  /\ UNCHANGED <<dossier, facts, chain, clerk, told, stated, lost, operations>>

Next ==
  \/ \E s \in DossierSessions :
       \/ \E op \in RangerOps : Send(s, op)
       \/ SyncRanger(s)
       \/ SkipSync(s)
       \/ EditDossier(s)
       \/ EditMarkers(s)
       \/ ReplaceMetadata(s)
       \/ WriteDossier(s)
  \/ recordSubmissionEvidence

Spec == Init /\ [][Next]_dossierVars

-----------------------------------------------------------------------------
Dossier == [markers : SUBSET Markers, addresses : SUBSET {"wallet", "vault"},
            cluster : {"unknown", "devnet", "mainnet-beta"}, documented : BOOLEAN,
            repository : {"none", "public", "private", "private_shared"}, window : 1..2,
            cexUsed : BOOLEAN, cexHistory : BOOLEAN, cexApi : BOOLEAN]
Desk    == {Idle} \cup [op : {"confirmed"}, set : SUBSET Markers]
                  \cup [op : {"write"}, row : Dossier, read : SUBSET Markers, set : SUBSET Markers,
                        given : SUBSET Markers, cleared : SUBSET Markers]

(* The row and what is about to replace it are dossiers, and an evidence   *)
(* row has a type of the submission's evidence, never a backtest.          *)
TypeOK ==
  /\ dossier \in Dossier
  /\ clerk \in [DossierSessions -> Desk]
  /\ told \subseteq Markers /\ stated \subseteq Markers /\ lost \subseteq Markers
  /\ \A e \in evidence : e.type \in {"on_chain_transaction", "performance_snapshot",
                                    "cex_trade_history", "cex_read_only_api", "document"}

(* A set of markers claims only operations that landed. *)
Backed(markers) ==
  /\ markers \cap {"vault", "lpMint"} # {} => "create" \in chain
  /\ "lpMetadata" \in markers => "lpMetadata" \in chain
  /\ "strategy" \in markers => {"initialize", "deposit"} \cap chain # {}
  /\ "initialized" \in markers => "initialize" \in chain
  /\ "allocated" \in markers => "deposit" \in chain

(* What the dossier claims of the Ranger vault is what a transaction that  *)
(* landed made, or what an operator gave by hand: a transaction that timed *)
(* out, or an update that overlapped another, adds no claim of its own.    *)
MarkersAreBacked == Backed(dossier.markers \ stated)

(* What a confirmed operation has told the dossier stays there until an    *)
(* operator clears it or replaces the metadata; only a write whose update  *)
(* read the row before it was there can lose it.                           *)
MarkersAreKept == told \ lost \subseteq dossier.markers

(* A dossier that is not blocked exports without a blocked artifact.       *)
ExportAgrees == Readiness # "blocked" => ExportBlocks = {}

(* An export with no blocked artifact may belong to a blocked dossier, but *)
(* only for what the export has no artifact of: the cluster, the vault's   *)
(* own terms and the strategy's policy.                                    *)
ExportIsComplete ==
  ExportBlocks = {} =>
    \A k \in DOMAIN CheckStatus :
      CheckStatus[k] = "fail" => k \in {"cluster", "baseAsset", "tenor", "targetApy", "policy"}

-----------------------------------------------------------------------------
(* The inductive invariant: what is about to be written claims, beside     *)
(* what operators give, only what landed, and leaves out of what its       *)
(* update read only what it clears.                                        *)
DossierInv ==
  /\ TypeOK
  /\ MarkersAreBacked
  /\ MarkersAreKept
  /\ \A s \in DossierSessions :
       /\ clerk[s].op = "confirmed" => Backed(clerk[s].set)
       /\ clerk[s].op = "write" =>
            /\ Backed(clerk[s].row.markers \ (stated \cup clerk[s].given))
            /\ (clerk[s].read \ clerk[s].cleared) \cup clerk[s].set \subseteq clerk[s].row.markers
=============================================================================
