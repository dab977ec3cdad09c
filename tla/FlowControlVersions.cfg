\* Reloads across the rule generations.
SPECIFICATION Spec
CONSTANTS
    a1 = a1
    a2 = a2
    a3 = a3
    r1 = r1
    r2 = r2
    k1 = k1
    k2 = k2
    req = req
    att = att
    Calls = {a1}
    Ops = {r1}
    NoOp = NoOp
    OpOf <- TwoRequests
    Immediate = {}
    Keys = {k1, k2}
    NoKey = NoKey
    KeyOf <- TwoKeys
    Buckets = {req, att}
    Policies <- Versions
    Batch = 1
    Cancelled = {}
    LastArrival = 1
    MaxTime = 2
CHECK_DEADLOCK FALSE
INVARIANTS
    VersionSwitchDrained
