CONSTANTS
    QMax = 1
    NumQ = 1
    Files <- MCFiles
    f1 = f1
    MaxCdevs = 1
    CreateMayFail = FALSE
    RemoveStartedFails = TRUE
    NULL = NULL
    Garbage = Garbage
    NoQ = NoQ
    Closed = Closed
    Dangling = Dangling
    NoOwner = NoOwner
    NoIo = NoIo
    MaxCaio = 2
    MaxSegs = 1
    AioCancel = FALSE
    PinMayFail = FALSE
    Sysfs = FALSE
    InitMayFail = FALSE
    IntrAgg = FALSE
    Probe = FALSE
    ProbeMayFail = FALSE
SPECIFICATION Spec
INVARIANT NoFileUseAfterFree
CHECK_DEADLOCK FALSE
