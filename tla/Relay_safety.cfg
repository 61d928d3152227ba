SPECIFICATION FairSpec
CONSTANTS
    Protos = {"tcp", "udp", "kcp"}
    Address = {a1, a2}
    NoAddress = NoAddress
    MaxCtx = 3
    MaxMsgs = 3
INVARIANTS
    TypeOK
    NoUseAfterClose
    ShowIsTrue
    SwitchInOrder
    AllClosed
PROPERTIES
    PollingQuitEnds
