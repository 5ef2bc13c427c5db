SPECIFICATION FairSpec
CONSTANTS
    Requests = {r1}
    Sources = {s1}
    Lawsuits <- OnceLawsuits
    Completions <- CopiesCompletions
    Hooks = {h1}
    Runs = {x1, x2}
    MaxAttempts = 2
    OneWorker = TRUE
    Forgotten = {}
    NoData = NoData
    NoCallback = NoCallback
    NoSource = NoSource
    NoRequest = NoRequest
    r1 = r1
    r2 = r2
    s1 = s1
    s2 = s2
    a = a
    b = b
    c1 = c1
    c2 = c2
    c3 = c3
PROPERTIES PendingFinalizerDelivers JobsFollowContract
CHECK_DEADLOCK FALSE
