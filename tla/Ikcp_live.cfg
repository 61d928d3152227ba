SPECIFICATION FairSpec
CONSTANTS
    SndWnd = 1
    RcvWnd = 2
    WndRcv = 2
    RecvCap = 2
    MaxFrags = 1
    MaxMsgs <- ThreeMessages
    NetCap = 1
    NetTotal = 2
PROPERTIES
    AllDelivered
