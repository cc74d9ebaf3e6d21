\* Two callers that are given the same shard.
CONSTANTS
    Callers = {c1, c2}
    DBs = {db1}
    Capacity = 4
    Width = 8
    MaxBatch = 2
    MaxShards = 3
    MaxUsed = 9
    Nothing = Nothing
SPECIFICATION Spec
INVARIANT FullIsHandled
CHECK_DEADLOCK FALSE
