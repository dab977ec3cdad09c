\* Three calls of two requests while the policy is reloaded.
SPECIFICATION Spec
CONSTANTS
    a1 = a1
    a2 = a2
    a3 = a3
    r1 = r1
    r2 = r2
    k1 = k1
    k2 = k2
    req = req
    att = att
    Calls = {a1, a2, a3}
    Ops = {r1, r2}
    NoOp = NoOp
    OpOf <- TwoRequests
    Immediate = {}
    Keys = {k1, k2}
    NoKey = NoKey
    KeyOf <- TwoKeys
    Buckets = {req, att}
    Policies <- Reloads
    Batch = 1
    Cancelled = {a2}
    LastArrival = 1
    MaxTime = 2
CHECK_DEADLOCK FALSE
INVARIANTS
    EngineConsistent
PROPERTIES
    LimitKept
    WindowKept
    RefundOnlyUnsent
