SPECIFICATION FairSpec
CONSTANTS
    Jobs = {j1}
    Keys = {k1, k2}
    SummaryKeys = {k1}
    AttemptLimits = {1, 2}
    Workers = {w1, w2}
    Slots = {s1, s2}
    MaxDbErrors = 1
    NoWorker = NoWorker
    NoJob = NoJob
    NoKey = NoKey
INVARIANTS TypeOK RetryBudget LeasesUnique StaleWorkerFenced
PROPERTIES SettledIsFinal ImplementsContract EveryJobSettles
CHECK_DEADLOCK FALSE
