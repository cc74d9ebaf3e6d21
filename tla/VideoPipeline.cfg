\* One client and a file of five packets: four of the video stream fill both
\* channels with a thread waiting to write to each.
CONSTANTS
    Clients = {c1}
    FileLength = 5
    VideoPackets = {2, 3, 4, 5}
    Damaged = {5}
    Delay = 1
    WarmUp = 0
    Skip = 1
    Callbacks = 1
    NoValue = NoValue
SPECIFICATION FairSpec
INVARIANTS
    TypeOK
    FramesInOrder
    NoWakeIsMissed
    PauseHolds
    GarbageOnlyAtTheEnd
PROPERTIES
    ResumeWakes
    PacketsMove
    StopReturnsUnlessStuck
\* The threads end, or hang after a Stop.
CHECK_DEADLOCK FALSE
