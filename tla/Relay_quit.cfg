SPECIFICATION FairSpec
CONSTANTS
    Protos = {"udp"}
    Address = {a1, a2}
    NoAddress = NoAddress
    MaxCtx = 2
    MaxMsgs = 1
PROPERTIES
    QuitEnds
