SPECIFICATION Spec
CONSTANTS
    Half = 70
    Interval = 2
    NoDelay = 1
    RtoDef = 3
    RtoMin = 3
    RtoMax = 8
    ProbeInit = 4
    ProbeLimit = 6
    SlapLimit = 4
    FastResend = 2
    FastLimit = 1
    SndWnd = 3
    Starts <- Begin
    Stalls <- Pauses
    Ages <- Rtt
    MaxSegs = 3
    Horizon = 8
INVARIANTS
    TypeOK
    NothingOverdue
    TimersInReach
    RepeatsBackOff
PROPERTIES
    LossTakesTimeout
    OvertakenOnly
