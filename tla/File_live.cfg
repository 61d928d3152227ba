SPECIFICATION FairSpec
CONSTANTS
    Modes <- OverTcp
    FileLen = 2
    PipeCap = 1
    MaxCmds = 0
PROPERTIES
    ServerEnds
    SentArrives
    StopEnds
