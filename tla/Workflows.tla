----------------------------- MODULE Workflows -----------------------------
(***************************************************************************)
(* The operator workflows of the control plane, side by side: the initial  *)
(* state chooses one of them and every step is a step of that one.  The    *)
(* variables of the others stay "off" (an empty table of promotions).      *)
(***************************************************************************)
EXTENDS Integers, Sequences

CONSTANTS
    \* rebalance bundles
    BundleSessions, BundleRoles, BundleApproval, BundleRequests, MaxCommands, MaxRuns, MaxFaults,
    \* resolutions and escalations
    ResolutionSessions, ResolutionRoles, ResolutionRequests, MaxEscalations, MaxChanges,
    \* connector promotions
    PromotionSessions, PromotionRoles, Snapshots, PromotionRequests, MaxPromotions, MaxSnapshots,
    \* the vault
    Depositors, VaultSessions, Amounts, Navs, DepositDates, RequestDates, MonthStarts,
    LockPeriodMonths, MaxLots, MaxRedemptions,
    \* the submission dossier
    DossierSessions, Signers, DossierFacts, EvidenceInputs, MarkerUpdates,
    MaxDossierOps, MaxEvidence,
    \* CEX verification
    Clerks, CsvFiles, ApiFills, MinTrades, MinDays, MaxSessions, MaxReports, MaxActs

VARIABLES part,
          session, counts, overlap,
          proposal, runs, child, bundle, recovery, command, worker, requests, past,
          kids, row, escalation, events, decisions, cut,
          venue, promotions, history, torn,
          lots, redemptions, nav, desk, disturbed,
          dossier, evidence, facts, chain, clerk, told, stated, lost, operations,
          imports, trades, uploader, reports, acts, tornImports

Parts == {"bundle", "resolution", "promotion", "vault", "dossier", "cex"}

bundleOnly     == <<proposal, runs, child, bundle, recovery, command, worker, requests, past>>
resolutionOnly == <<kids, row, escalation, events, decisions, cut>>
promotionOnly  == <<venue, promotions, history, torn>>
vaultOnly      == <<lots, redemptions, nav, desk, disturbed>>
dossierOnly    == <<dossier, evidence, facts, chain, clerk, told, stated, lost, operations>>
cexOnly        == <<imports, trades, uploader, reports, acts, tornImports>>

Rb == INSTANCE RebalanceBundle
        WITH Sessions <- BundleSessions, RoleOf <- BundleRoles, Required <- BundleApproval,
             MaxRequests <- BundleRequests
Br == INSTANCE BundleResolution
        WITH Sessions <- ResolutionSessions, RoleOf <- ResolutionRoles,
             MaxRequests <- ResolutionRequests
Cp == INSTANCE ConnectorPromotion
        WITH Sessions <- PromotionSessions, RoleOf <- PromotionRoles,
             MaxRequests <- PromotionRequests
Vt == INSTANCE Vault
Sd == INSTANCE SubmissionDossier
Cx == INSTANCE CexVerification WITH clerk <- uploader, torn <- tornImports

\* Connectors record snapshots of the kinds the store's types allow.
ASSUME PromotionAssumption == Snapshots \subseteq Cp!Venues

\* recordVaultDeposit refuses an amount that is not positive.
ASSUME VaultAssumption == Amounts \subseteq Nat /\ Navs \subseteq Int

\* An update of the dossier's row gives or clears fields of the row.
ASSUME DossierAssumption ==
    MarkerUpdates \subseteq [given : SUBSET Sd!Markers, cleared : SUBSET Sd!Markers]

\* A file is a list of rows, blank or with a trade, and OKX answers with trades.
ASSUME CexAssumption ==
    /\ \A f \in CsvFiles : f.rows \in Seq(Cx!TradeRow)
    /\ ApiFills \subseteq Seq(Cx!Trade)

-----------------------------------------------------------------------------
BundleOff ==
  /\ proposal = "off" /\ runs = "off" /\ child = "off" /\ bundle = "off" /\ recovery = "off"
  /\ command = "off" /\ worker = "off" /\ requests = "off" /\ past = "off"
ResolutionOff ==
  /\ kids = "off" /\ row = "off" /\ escalation = "off" /\ events = "off" /\ decisions = "off"
  /\ cut = "off"
PromotionOff == venue = "off" /\ promotions = <<>> /\ history = "off" /\ torn = "off"
VaultOff ==
  /\ lots = "off" /\ redemptions = "off" /\ nav = "off"
  /\ desk = "off" /\ disturbed = "off"
DossierOff ==
  /\ dossier = "off" /\ evidence = "off" /\ facts = "off" /\ chain = "off"
  /\ clerk = "off" /\ told = "off" /\ stated = "off" /\ lost = "off" /\ operations = "off"
CexOff ==
  /\ imports = "off" /\ trades = "off" /\ uploader = "off" /\ reports = "off"
  /\ acts = "off" /\ tornImports = "off"

Init ==
  /\ part \in Parts
  /\ IF part = "bundle"     THEN Rb!Init ELSE BundleOff
  /\ IF part = "resolution" THEN Br!Init ELSE ResolutionOff
  /\ IF part = "promotion"  THEN Cp!Init ELSE PromotionOff
  /\ IF part = "vault"      THEN Vt!Init ELSE VaultOff
  /\ IF part = "dossier"    THEN Sd!Init ELSE DossierOff
  /\ IF part = "cex"        THEN Cx!Init ELSE CexOff
  /\ part \in {"vault", "dossier", "cex"} => session = "off"
  /\ part \in {"vault", "dossier", "cex", "bundle"} => counts = "off" /\ overlap = "off"

Bundle ==
  /\ part = "bundle" /\ Rb!Next
  /\ UNCHANGED <<part, counts, overlap, resolutionOnly, promotionOnly,
                 vaultOnly, dossierOnly, cexOnly>>

Resolution ==
  /\ part = "resolution" /\ Br!Next
  /\ UNCHANGED <<part, bundleOnly, promotionOnly, vaultOnly, dossierOnly, cexOnly>>

Promotion ==
  /\ part = "promotion" /\ Cp!Next
  /\ UNCHANGED <<part, bundleOnly, resolutionOnly, vaultOnly, dossierOnly, cexOnly>>

VaultStep ==
  /\ part = "vault" /\ Vt!Next
  /\ UNCHANGED <<part, session, counts, overlap, bundleOnly, resolutionOnly, promotionOnly,
                 dossierOnly, cexOnly>>

Dossier ==
  /\ part = "dossier" /\ Sd!Next
  /\ UNCHANGED <<part, session, counts, overlap, bundleOnly, resolutionOnly, promotionOnly,
                 vaultOnly, cexOnly>>

CexStep ==
  /\ part = "cex" /\ Cx!Next
  /\ UNCHANGED <<part, session, counts, overlap, bundleOnly, resolutionOnly, promotionOnly,
                 vaultOnly, dossierOnly>>

Next == Bundle \/ Resolution \/ Promotion \/ VaultStep \/ Dossier \/ CexStep

Spec ==
  Init /\ [][Next]_<<part, session, counts, overlap, bundleOnly, resolutionOnly,
                     promotionOnly, vaultOnly, dossierOnly, cexOnly>>

-----------------------------------------------------------------------------
(***************************************************************************)
(* Properties: for each workflow the conjunction of the ones its module    *)
(* states and explains.                                                    *)
(***************************************************************************)
(* Rebalance bundles: a rejected proposal is not executed; no child        *)
(* reaches a venue twice, and the budget action is never requeued; a       *)
(* queued child has a command that will take it up, and a recovery request *)
(* ends as its command did; the bundle row is what the child rows say.     *)
(* Each except for the crossings and faults its part names                 *)
(* (control-plane.ts approveRebalanceProposal,                             *)
(* requestRebalanceBundleRecoveryAction; store.ts                          *)
(* syncRebalanceBundleForProposal).                                        *)
BundleIsSound ==
  part = "bundle" => /\ Rb!TypeOK
                     /\ Rb!RejectionHolds
                     /\ Rb!ChildAppliedOnce
                     /\ Rb!BudgetNeverRequeued
                     /\ Rb!QueuedChildHasCommand
                     /\ Rb!RecoveryFollowsCommand
                     /\ Rb!RowIsDerived

(* Resolutions and escalations: at most one escalation is open, its events *)
(* form a path to its status, the bundle row shows the latest one, and no  *)
(* decision is completed over a child in flight; each except for what its  *)
(* part names, overlapping requests and handlers that stop between two of  *)
(* their writes (control-plane.ts requestRebalanceBundleResolutionAction,  *)
(* assignRebalanceBundleEscalation and its siblings).                      *)
ResolutionIsSound ==
  part = "resolution" => /\ Br!TypeOK
                         /\ Br!OneOpenEscalation
                         /\ Br!EventsFormPath
                         /\ Br!OverlayAgrees
                         /\ Br!DecidedWhenSettled

(* Connector promotions: at most one stands, the events explain its        *)
(* status, it was approved on evidence, and a venue is eligible only with  *)
(* the approval and the evidence of now (control-plane.ts                  *)
(* approveConnectorPromotion and its siblings, store.ts                    *)
(* insertConnectorPromotionEvent).                                         *)
PromotionIsSound ==
  part = "promotion" => /\ Cp!TypeOK
                        /\ Cp!OneStanding
                        /\ Cp!HistoryExplains
                        /\ Cp!ApprovedOnEvidence
                        /\ Cp!EligibleNeedsBoth

(* A decided promotion changes no more, except from approved to suspended; *)
(* only decisions that overlap, each made on a row read earlier, escape it *)
(* (store.ts approveConnectorPromotion, rejectConnectorPromotion,          *)
(* suspendConnectorPromotion).                                             *)
DecisionIsFinal == Cp!DecisionIsFinal

(* Accounts add up.  Vault: no share is set aside twice, lots are taken as *)
(* they unlock, and a queued request has no locked share (store.ts         *)
(* requestVaultRedemption).  Reports: when the position is closed, every   *)
(* method gives the same gain, and first in, first out is so unit by unit  *)
(* (pnl-calculator.ts calculateAveragePnl, calculateFifoPnl).              *)
AccountsAddUp ==
  /\ part = "vault" => /\ Vt!NoShareTwice
                       /\ Vt!QueuedIsUnlocked
                       /\ Vt!EarliestLotsFirst
  /\ part = "cex" => /\ Cx!MethodsAgreeWhenFlat
                     /\ Cx!FifoIsByUnits

(* The dossier claims what landed or what an operator gave, and keeps what *)
(* confirmed operations told it until an operator clears it or a write of  *)
(* an update that had not read it overtakes it; a dossier that is not      *)
(* blocked exports without a blocked artifact, and an export without one   *)
(* only belies the checks it has no artifact for (control-plane.ts         *)
(* createRangerVault and its siblings, store.ts upsertSubmissionDossier,   *)
(* buildSubmissionReadiness, buildSubmissionExportBundle).                 *)
DossierIsHonest ==
  part = "dossier" => /\ Sd!TypeOK
                      /\ Sd!MarkersAreBacked
                      /\ Sd!MarkersAreKept
                      /\ Sd!ExportAgrees
                      /\ Sd!ExportIsComplete

(* Records hold what they must and no more.  Vault: the pending            *)
(* redemptions of a depositor never exceed the depositor's shares, unless  *)
(* redemptions overlapped (store.ts requestVaultRedemption).  CEX: a       *)
(* completed import holds one trade for each row of its file, as the       *)
(* conversions of csv-parser.ts read it, unless its second statement       *)
(* failed; a deleted one holds none; and reports on the same trades agree  *)
(* (csv-parser.ts parseCexCsv; store.ts createCexVerificationSession,      *)
(* deleteCexVerificationSession, calculateCexPnl).                         *)
RecordsAreWhole ==
  /\ part = "vault" => Vt!NeverOversubscribed
  /\ part = "cex" => /\ Cx!CompletedCoversFile
                     /\ Cx!DeletedIsEmpty
                     /\ Cx!ReportRepeats
=============================================================================
