\* Two callers, and two calls of Init that make two workers each; two inputs
\* the workers answer, one of the wrong valueType and one that process throws at.
CONSTANTS
    Callers = {c1, c2}
    Workers = {w1, w2, w3, w4}
    Concurrent = 2
    Inputs = {frame1, frame2, landmarks, broken}
    Accepted = {frame1, frame2}
    Fatal = {broken}
    MaxCapacity = 5
    NoValue = NoValue
SPECIFICATION FairSpec
INVARIANTS
    EachCallInOnePlace
    AnswerIsOwn
    ReadyMeansAllServe
    DeathsAreAccounted
    PoolHasRoom
PROPERTIES
    ImplementsPool
    AcceptedCallReturns
    TerminateReturnsWhenAllWaited
\* Callers wait for ever once the workers are gone or their message is dropped.
CHECK_DEADLOCK FALSE
