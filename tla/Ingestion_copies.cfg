SPECIFICATION Spec
CONSTANTS
    Requests = {r1}
    Sources = {s1}
    Lawsuits <- CopiesLawsuits
    Completions <- CopiesCompletions
    Hooks = {h1}
    Runs = {x1}
    MaxAttempts = 2
    OneWorker = TRUE
    Forgotten <- CopiesForgotten
    NoData = NoData
    NoCallback = NoCallback
    NoSource = NoSource
    NoRequest = NoRequest
    r1 = r1
    r2 = r2
    s1 = s1
    s2 = s2
    a = a
    b = b
    c1 = c1
    c2 = c2
    c3 = c3
PROPERTIES FinalizedImmutable
CHECK_DEADLOCK FALSE
