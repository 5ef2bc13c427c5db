SPECIFICATION Spec
CONSTANTS
    r1 = r1
    r2 = r2
    Refreshes <- TwoRefreshes
    MaxTries = 2
CHECK_DEADLOCK FALSE
INVARIANTS RefreshCloses
