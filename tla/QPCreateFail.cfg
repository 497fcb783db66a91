CONSTANTS
    QMax = 2
    NumQ = 2
    Files <- MCNoFiles
    f1 = f1
    MaxCdevs = 2
    CreateMayFail = FALSE
    RemoveStartedFails = TRUE
    NULL = NULL
    Garbage = Garbage
    NoQ = NoQ
    Closed = Closed
    Dangling = Dangling
    NoOwner = NoOwner
    NoIo = NoIo
    MaxCaio = 0
    MaxSegs = 1
    AioCancel = FALSE
    PinMayFail = FALSE
    Sysfs = FALSE
    InitMayFail = FALSE
    IntrAgg = FALSE
    Probe = TRUE
    ProbeMayFail = FALSE
SPECIFICATION Spec
INVARIANT NoQdataDerefFault
CHECK_DEADLOCK FALSE
