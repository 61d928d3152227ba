SPECIFICATION Spec
CONSTANTS
    Modes <- OnEveryProtocol
    FileLen = 3
    PipeCap = 2
    MaxCmds = 1
INVARIANTS
    TypeOK
    DoneIsComplete
    ClosedIsUnused
