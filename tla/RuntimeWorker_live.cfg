\* Two commands of different kinds, a kill switch or a resume, and one process
\* death: what waits is claimed, and without the death it ends and is recorded.
CONSTANTS
    Workers = {w1}
    Commands = {c1, c2}
    CycleCommands = {c1}
    RebuildCommands = {c2}
    CarryCommands = {}
    NoCommand = NoCommand
    ReplayLimit = 0
    MaxRuns = 2
    MaxOrders = 0
    MaxToggles = 1
    MaxCrashes = 1
SPECIFICATION FairSpec
PROPERTIES
    PendingIsClaimed
    EveryCommandFinishes
    FailureIsRecorded
