\* One caller, two databases, and batches of which the second may not fit.
CONSTANTS
    Callers = {c1}
    DBs = {db1, db2}
    Capacity = 4
    Width = 8
    MaxBatch = 2
    MaxShards = 3
    MaxUsed = 6
    Nothing = Nothing
SPECIFICATION Spec
INVARIANTS
    CachedAreLive
    FullIsHandled
    ClosedIsFull
CHECK_DEADLOCK FALSE
