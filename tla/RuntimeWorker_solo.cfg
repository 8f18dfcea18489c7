\* One worker, two commands (a cycle and a rebuild), one scheduled cycle, the
\* kill switch and resume, and one process death anywhere.
CONSTANTS
    Workers = {w1}
    Commands = {c1, c2}
    CycleCommands = {c1}
    RebuildCommands = {c2}
    CarryCommands = {}
    NoCommand = NoCommand
    ReplayLimit = 1
    MaxRuns = 2
    MaxOrders = 2
    MaxToggles = 2
    MaxCrashes = 1
SPECIFICATION Spec
INVARIANTS
    TypeOK
    AtMostOnce
    HaltFence
    FreshCoversCycles
    CompletedCommandHasCompletedRun
PROPERTY
    ImplementsQueue
