CONSTANTS
    QMax = 1
    NumQ = 1
    Files <- MCFiles
    f1 = f1
    MaxCdevs = 1
    CreateMayFail = FALSE
    RemoveStartedFails = TRUE
    NULL = NULL
    Garbage = Garbage
    NoQ = NoQ
    Closed = Closed
    Dangling = Dangling
    NoOwner = NoOwner
    NoIo = NoIo
    MaxCaio = 2
    MaxSegs = 2
    AioCancel = FALSE
    PinMayFail = TRUE
    Sysfs = FALSE
    InitMayFail = FALSE
    IntrAgg = FALSE
    Probe = FALSE
    ProbeMayFail = FALSE
SPECIFICATION Spec
INVARIANT IocbCompletedOnce
CHECK_DEADLOCK FALSE
