\* Terminate against a worker that is still busy.
CONSTANTS
    Callers = {c1}
    Workers = {w1, w2}
    Concurrent = 2
    Inputs = {frame1, frame2, landmarks}
    Accepted = {frame1, frame2}
    Fatal = {}
    MaxCapacity = 3
    NoValue = NoValue
SPECIFICATION FairSpec
PROPERTIES
    TerminateReturns
\* Callers wait for ever once the workers are gone or their message is dropped.
CHECK_DEADLOCK FALSE
