CONSTANTS
  Peers = {bea, bob}
  BundleSessions = {bea, bob}
  BundleRoles <- PeerRole
  BundleApproval = "operator"
  BundleRequests = 2
  MaxCommands = 3
  MaxRuns = 1
  MaxFaults = 1
  ResolutionSessions <- Pair
  ResolutionRoles <- PairRole
  ResolutionRequests = 4
  MaxEscalations = 2
  MaxChanges = 1
  PromotionSessions <- Pair
  PromotionRoles <- PairRole
  Snapshots <- ConnectorSnapshots
  PromotionRequests = 5
  MaxPromotions = 2
  MaxSnapshots = 1
  Depositors = {"d1"}
  VaultSessions = {bea, bob}
  Amounts = {2}
  Navs = {0, 4}
  DepositDates = {1, 2, 3}
  RequestDates = {4}
  MonthStarts <- ShortMonths
  LockPeriodMonths = 1
  MaxLots = 2
  MaxRedemptions = 2
  DossierSessions = {bea, bob}
  Signers = {"admin", "manager"}
  DossierFacts <- StrategyFacts
  EvidenceInputs <- Evidences
  MarkerUpdates <- Statements
  MaxDossierOps = 3
  MaxEvidence = 1
  Clerks = {bea, bob}
  CsvFiles <- Files
  ApiFills <- OkxAnswers
  MinTrades = 2
  MinDays = 2
  MaxSessions = 1
  MaxReports = 2
  MaxActs = 1
SPECIFICATION Spec
SYMMETRY Symmetry
CHECK_DEADLOCK FALSE
INVARIANTS
  BundleIsSound
  ResolutionIsSound
  PromotionIsSound
  AccountsAddUp
  DossierIsHonest
  RecordsAreWhole
PROPERTY
  DecisionIsFinal
