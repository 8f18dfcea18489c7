CONSTANTS
    Sessions = {s1, s2}
    Commands = {c1, c2}
    NoCommand = NoCommand
    MayCrash = TRUE
SPECIFICATION Spec
SYMMETRY Symmetry
INVARIANTS
    TypeOK
    RecordsAgree
    OneInFlightPerSession
PROPERTY
    LeavesLifecycleOnlyIfStale
