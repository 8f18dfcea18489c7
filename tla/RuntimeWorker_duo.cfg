\* Two worker processes on one database, which the code does not exclude; one
\* of the commands executes a carry action.
CONSTANTS
    Workers = {w1, w2}
    Commands = {c1, c2}
    CycleCommands = {}
    RebuildCommands = {}
    CarryCommands = {c1}
    NoCommand = NoCommand
    ReplayLimit = 0
    MaxRuns = 0
    MaxOrders = 1
    MaxToggles = 0
    MaxCrashes = 1
SPECIFICATION Spec
INVARIANT
    NoOvertaking
