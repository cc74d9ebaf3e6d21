\* Two callers use all operations on two features.
CONSTANTS
    Callers = {c1, c2}
    Operations = {"add", "remove", "search", "close", "stop", "start"}
    Ids = {f1, f2}
    MaxBatch = 1
    NoValue = NoValue
SPECIFICATION FairSpec
INVARIANTS
    ChannelOutlivesLoop
PROPERTIES
    ImplementsStore
    AnsweredWhileRunning
    StopReturns
\* A crash ends the process, and a call may wait for ever.
CHECK_DEADLOCK FALSE
