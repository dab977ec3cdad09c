\* A pruner saves while a writer has saved and not yet published.
SPECIFICATION StoreSpec
CONSTANTS
    Writers = {w1}
    MetaSavers = {}
    Pruners = {p1}
    Neighbours = {}
    Tokens = {t1, t2}
    MaxOps = 2
    MaxEdits = 2
    NoAuth = NoAuth
    Nobody = Nobody
CHECK_DEADLOCK FALSE
INVARIANTS
    NewestOnDisk
