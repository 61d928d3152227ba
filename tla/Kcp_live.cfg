SPECIFICATION FairTransport
CONSTANTS
    SndWnd = 2
    RcvWnd = 2
    WndRcv = 2
    RecvCap = 2
    MaxFrags = 1
    MaxMsgs <- OneEach
    NetCap = 2
    NetTotal = 2
    Polled <- BothPoll
PROPERTIES
    Delivers
