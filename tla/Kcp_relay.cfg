SPECIFICATION FairTransport
CONSTANTS
    SndWnd = 2
    RcvWnd = 2
    WndRcv = 2
    RecvCap = 2
    MaxFrags = 1
    MaxMsgs <- TwoMessages
    NetCap = 2
    NetTotal = 2
    Polled <- OnlyServerPolls
PROPERTIES
    Delivers
