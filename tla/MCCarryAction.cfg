SPECIFICATION Spec
CONSTANTS
  operator = operator
  admin = admin
  pair = pair
  single = single
  Sessions = {operator, admin}
  RoleOf <- MCRoleOf
  Actions = {pair, single}
  Plan <- MCPlan
  MaxNotional = 5
  MaxConcurrent = 2
  MaxCommands = 2
  MaxToggles = 1
  MaxFaults = 1
CHECK_DEADLOCK FALSE
INVARIANTS
  OrdersAreControlled
  PlacedOnce
PROPERTIES
  ImplementsApproval
