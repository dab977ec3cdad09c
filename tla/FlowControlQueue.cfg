\* The attempts of two requests and three calls without one, none cancelled.
SPECIFICATION MCSpec
CONSTANTS
    a1 = a1
    a2 = a2
    a3 = a3
    a4 = a4
    a5 = a5
    a6 = a6
    r1 = r1
    r2 = r2
    k1 = k1
    k2 = k2
    req = req
    att = att
    Calls = {a1, a2, a3, a4, a5, a6}
    Ops = {r1, r2}
    NoOp = NoOp
    OpOf <- MixedRequests
    Immediate = {}
    Keys = {k1, k2}
    NoKey = NoKey
    KeyOf <- TwoKeys
    Buckets = {req, att}
    Policies <- MixedPolicies
    Batch = 1
    Cancelled = {}
    LastArrival = 2
    MaxTime = 5
CHECK_DEADLOCK FALSE
INVARIANTS
    NoLeak
    NoStrandedWaiter
PROPERTIES
    WaitEnds
    NoQueueJump
