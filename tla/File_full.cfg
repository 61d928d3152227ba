SPECIFICATION Spec
CONSTANTS
    Modes <- OverTcpToFullDisk
    FileLen = 2
    PipeCap = 2
    MaxCmds = 0
INVARIANTS
    DoneIsComplete
