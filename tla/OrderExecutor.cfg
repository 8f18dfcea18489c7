\* An intent of two lots and one retry; two callers of getOrder and two of processFill.
CONSTANTS
    Pollers = {p1, p2}
    Feeds = {c1, c2}
    FillIds = {f1, f2}
    MaxRetries = 1
SYMMETRY Symmetry
SPECIFICATION Spec
INVARIANTS
    TypeOK
    PlacedAndFilledOnce
    FilledIsReal
    OpenOrderIsTracked
    CancelledIsClosed
PROPERTY
    UndoneOnlyByStaleWrite
