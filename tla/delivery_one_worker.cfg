SPECIFICATION FairSpec
CONSTANTS
    v1 = v1
    v2 = v2
    h1 = h1
    h2 = h2
    hb = hb
    hu = hu
    w1 = w1
    w2 = w2
    NoJob = NoJob
    NoHook = NoHook
    Verdicts <- OneVerdict
    Hooks <- AllKinds
    Subscribed <- Wanted
    Blocked <- BlockedHooks
    MaxAttempts = 3
    Workers <- OneWorker
    Embedded <- OneWorker
    MaxFaults = 0
INVARIANTS
    OneJobPerOpenDelivery
    SettledIsAccounted
    DispatchIsComplete
PROPERTY
    ImplementsContract
