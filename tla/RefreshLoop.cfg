\* Two loops with a worker each, two credentials, one request and two callers.
SPECIFICATION MCSpec
CONSTANTS
    l1 = l1
    l2 = l2
    v1 = v1
    v2 = v2
    c1 = c1
    c2 = c2
    u1 = u1
    u2 = u2
    Creds = {c1, c2}
    Loops = {l1, l2}
    Workers = {v1, v2}
    LoopOf <- OneEach
    Requests = {q1}
    Callers = {u1, u2}
    QueueCap = 1
    MaxChanges = 2
    NoLoop = NoLoop
    NoCred = NoCred
    NoJob = NoJob
CHECK_DEADLOCK FALSE
INVARIANTS
    NoPhantomJob
    JobsConsistent
PROPERTIES
    BackoffKept
    DueIsAttempted
