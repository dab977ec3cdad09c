\* Two writers, a metadata saver, a pruner and the save of another credential.
SPECIFICATION MCSpec
CONSTANTS
    t1 = t1
    w1 = w1
    w2 = w2
    Writers = {w1, w2}
    MetaSavers = {x1}
    Pruners = {p1}
    Neighbours = {n1}
    Tokens = {t1, t2}
    MaxOps = 3
    MaxEdits = 1
    NoAuth = NoAuth
    Nobody = Nobody
CHECK_DEADLOCK FALSE
INVARIANTS
    NewestOnDisk
    GateHolds
PROPERTIES
    VersionsAdvance
    EditsKept
    ForegroundEnds
