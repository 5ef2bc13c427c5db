SPECIFICATION Spec
CONSTANTS
    Requests = {r1, r2}
    Sources = {s1, s2}
    Lawsuits <- RivalsLawsuits
    Completions <- RivalsCompletions
    Hooks = {h1}
    Runs = {x1, x2}
    MaxAttempts = 1
    OneWorker = FALSE
    Forgotten = {}
    NoData = NoData
    NoCallback = NoCallback
    NoSource = NoSource
    NoRequest = NoRequest
    r1 = r1
    r2 = r2
    s1 = s1
    s2 = s2
    a = a
    b = b
    c1 = c1
    c2 = c2
    c3 = c3
SYMMETRY Interchangeable
INVARIANTS EquivalentIsSame CurrentHasFollowUp
PROPERTIES CurrentMonotone
CHECK_DEADLOCK FALSE
