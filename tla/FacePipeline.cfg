\* Two clients that go through the stages at their own pace.
CONSTANTS
    Clients = {c1, c2}
    Configs <- MCConfigs
    Wirings <- MCWirings
    Flags <- MCFlags
    Concurrent <- MCConcurrent
    Frames <- MCFrames
    MayAbort = TRUE
    Unit = 4
    ImageWidth = 6
    ImageHeight = 3
    InputWidth = 3
    InputHeight = 2
    MinConfidence = 1
    Uninitialized = Uninitialized
SPECIFICATION FairSpec
INVARIANTS
    TerminatedIsQuiet
    OnlyBadFramesThrow
    ResultsStayInPlace
    LandmarksReadTheFrame
PROPERTIES
    ChainCompletes
\* A crash ends the process, and a call to a processor that does not serve waits.
CHECK_DEADLOCK FALSE
