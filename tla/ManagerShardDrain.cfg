\* A call enqueues while Stop is under way.
CONSTANTS
    Callers = {c1}
    Sizes = {1}
    MaxUsed = 1
    NoValue = NoValue
SPECIFICATION Spec
INVARIANTS
    StopDrainsQueue
\* A crash ends the process, and a call may wait for ever.
CHECK_DEADLOCK FALSE
