SPECIFICATION FairSpec
CONSTANTS
    HdrLen = 2
    BufLen = 4
    SockCap = 3
    MaxMsgs = 3
INVARIANTS
    TypeOK
    FramesIntact
    ClosedIsComplete
    BufferFits
PROPERTIES
    Arrives
    ImplementsChannel
