SPECIFICATION Spec
CONSTANTS
  operator = operator
  admin = admin
  Sessions = {operator, admin}
  RoleOf <- MCRoleOf
  VenueConfig <- MCVenueConfig
  Capabilities <- MCCapabilities
  Policy <- MCPolicy
  Mode <- MCMode
  Liquidity <- MCLiquidity
  MaxActions = 2
  MaxCommands = 2
  MaxFaults = 1
INVARIANT
  FundsAreControlled
PROPERTIES
  DepositWithinCap
  ImplementsApproval
