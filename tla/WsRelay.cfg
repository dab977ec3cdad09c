\* Two requests, channels of one frame.
SPECIFICATION FairSpec
CONSTANTS
    r1 = r1
    r2 = r2
    Requests <- TwoRequests
    Streams <- OneStream
    NoRequest = NoRequest
    Cancelled = {r1}
    Buffer = 1
    MaxChunks = 1
CHECK_DEADLOCK FALSE
INVARIANTS
    SessionConsistent
    SuccessMeansEnd
    NobodyAbandoned
PROPERTIES
    ReaderGoesOn
    CallersAnswered
