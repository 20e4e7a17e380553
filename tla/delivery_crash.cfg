SPECIFICATION Spec
CONSTANTS
    v1 = v1
    v2 = v2
    h1 = h1
    h2 = h2
    hb = hb
    hu = hu
    w1 = w1
    w2 = w2
    NoJob = NoJob
    NoHook = NoHook
    Verdicts <- OneVerdict
    Hooks <- OneHook
    Subscribed <- Wanted
    Blocked = {}
    MaxAttempts = 3
    Workers <- OneWorker
    Embedded <- OneWorker
    MaxFaults = 1
INVARIANT
    RetryHasJob
