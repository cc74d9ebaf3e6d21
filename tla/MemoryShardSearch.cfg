\* One caller closes the shard and searches it.
CONSTANTS
    Callers = {c1}
    Operations = {"search", "close"}
    Ids = {f1}
    MaxBatch = 1
    NoValue = NoValue
SPECIFICATION Spec
INVARIANTS
    ClosedCanBeSearched
\* A crash ends the process, and a call may wait for ever.
CHECK_DEADLOCK FALSE
