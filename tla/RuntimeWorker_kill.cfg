\* The kill switch while a cycle is executing.
CONSTANTS
    Workers = {w1}
    Commands = {c1}
    CycleCommands = {c1}
    RebuildCommands = {}
    CarryCommands = {}
    NoCommand = NoCommand
    ReplayLimit = 0
    MaxRuns = 1
    MaxOrders = 1
    MaxToggles = 1
    MaxCrashes = 0
SPECIFICATION Spec
PROPERTY
    KillStopsExecution
