SPECIFICATION Spec
CONSTANTS
    SndWnd = 3
    RcvWnd = 3
    WndRcv = 3
    RecvCap = 2
    MaxFrags = 4
    MaxMsgs <- TwoMessages
    NetCap = 2
    NetTotal = 2
INVARIANTS
    TypeOK
    InOrder
    AckedIsHeld
    WholeMessages
    FullQueueReadable
    BufferBounds
PROPERTIES
    ImplementsChannel
    NeverBack
