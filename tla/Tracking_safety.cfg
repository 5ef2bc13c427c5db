SPECIFICATION Spec
CONSTANTS
    r1 = r1
    r2 = r2
    Refreshes <- TwoRefreshes
    MaxTries = 5
CHECK_DEADLOCK FALSE
SYMMETRY AnyRefresh
INVARIANTS TypeOK ActiveIsLive OnlyUnsureOverlap
PROPERTIES DeletedStays HandleKept
