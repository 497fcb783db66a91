CONSTANTS
    QMax = 2
    NumQ = 2
    Files <- MCNoFiles
    f1 = f1
    MaxCdevs = 2
    CreateMayFail = FALSE
    RemoveStartedFails = TRUE
    NULL = NULL
    Garbage = Garbage
    NoQ = NoQ
    Closed = Closed
    Dangling = Dangling
    NoOwner = NoOwner
    NoIo = NoIo
    MaxCaio = 0
    MaxSegs = 1
    AioCancel = FALSE
    PinMayFail = FALSE
    Sysfs = TRUE
    InitMayFail = FALSE
    IntrAgg = FALSE
    Probe = FALSE
    ProbeMayFail = FALSE
SPECIFICATION Spec
INVARIANT QdataHandlesValid
CHECK_DEADLOCK FALSE
