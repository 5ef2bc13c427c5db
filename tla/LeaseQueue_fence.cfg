SPECIFICATION Spec
CONSTANTS
    Jobs = {j1}
    Keys = {k1}
    SummaryKeys = {k1}
    AttemptLimits = {1, 2}
    Workers = {w1}
    Slots = {s1, s2}
    MaxDbErrors = 0
    NoWorker = NoWorker
    NoJob = NoJob
    NoKey = NoKey
INVARIANT StaleExecutionFenced
CHECK_DEADLOCK FALSE
