\* One database with two shards; three ids, so that a heap can be full, and batches that repeat one.
CONSTANTS
    DBs = {db1}
    ShardIds = {s1, s2}
    FeatureIds = {f1, f2, f3}
    Scores = {1, 2, 3}
    MaxTopk = 3
    MaxBatch = 2
SPECIFICATION Spec
INVARIANTS
    SearchRanks
    HeldCanBeRemoved
CHECK_DEADLOCK FALSE
