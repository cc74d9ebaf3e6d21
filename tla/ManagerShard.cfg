\* Two callers that add two features at a time, so that a worker can take one of
\* them; both may be admitted before the shard has used MaxUsed.
CONSTANTS
    Callers = {c1, c2}
    Sizes = {2}
    MaxUsed = 1
    NoValue = NoValue
SPECIFICATION FairSpec
INVARIANTS
    UsedIsAccounted
PROPERTIES
    ImplementsService
    StoppedIsQuiet
    HeldUntilAnswered
    CrashesOnlyWhileStopped
    QueuedIsDrained
    StopReturns
\* A crash ends the process, and a call may wait for ever.
CHECK_DEADLOCK FALSE
