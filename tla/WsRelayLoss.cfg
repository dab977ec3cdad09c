\* One streamed response of one chunk.
SPECIFICATION Spec
CONSTANTS
    r1 = r1
    r2 = r2
    Requests = {r1}
    Streams = {r1}
    NoRequest = NoRequest
    Cancelled = {}
    Buffer = 1
    MaxChunks = 1
CHECK_DEADLOCK FALSE
INVARIANT
    NoSilentFrameLoss
