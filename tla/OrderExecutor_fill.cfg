\* Two callers of getOrder that overlap; one fill, no retry.
CONSTANTS
    Pollers = {p1, p2}
    Feeds = {c1}
    FillIds = {f1}
    MaxRetries = 0
SPECIFICATION Spec
INVARIANT
    NoDuplicateFill
