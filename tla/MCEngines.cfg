CONSTANTS
  MaxOrders = 2
  MaxSize = 2
  MaxEvaluations = 3
  VenueOrder <- Venues2
  AssetOrder <- Assets2
  Cfg <- CarryConfig
  Limits <- RiskLimits
  Markets <- MarketData
  StartCash = 1000
  MaxCycles = 3
  MaxFaults = 1
  Scopes = {"global", "u"}
  Callers = {"c1", "c2"}
  Notionals = {2}
  MaxSingle = 2
  MinAction = 1
  MaxDaily = 3
  MaxFailures = 2
  ResetMinutes = 1
  Day = 2
  MaxMinutes = 3
  MaxAttempts = 3
  Indexes = {"0"}
  PerpSymbol <- Perp
  IndexOf <- Index
  TailOrder <- Tails
  Intents <- SolIntents
  Exposure = "index"
  MaxIntents = 2
  MaxLost = 1
  Worlds <- WorldNames
  WorldOf <- ReadWorlds
  MaxRuns = 2
  MaxChanges = 1
  MaxMoves = 1
  Operators = {"ana", "bo"}
  Emails = {"x", "y"}
  FirstRole = "admin"
  Drifts <- Behind
  MaxSkew = 1
  SessionTtl = 2
  LoginWindow = 2
  LoginMaxAttempts = 1
  MaxClock = 3
  MaxUpserts = 1
  MaxLogins = 1
  MaxSends = 1
  Evaluators = {"w1", "w2"}
  Snapshots <- AllocatorReads
  LaterSnapshots <- CalmInCarry
  MaxAllocatorRuns = 2
  CarryWorlds <- PlannerReads
  RestoreTargets = {6, 9, 11}
  MinimumActionableUsd = 2
  NoBudget <- NotGiven
  MaxCarryEvaluations = 2
  MaxCarryChanges = 1
SPECIFICATION Spec
CHECK_DEADLOCK FALSE
INVARIANTS
  
  
  FindingsAreTrue
  
  

  
