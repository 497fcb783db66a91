CONSTANTS
    QMax = 1
    NumQ = 1
    Files <- MCFiles
    f1 = f1
    MaxCdevs = 1
    CreateMayFail = FALSE
    RemoveStartedFails = TRUE
    NULL = NULL
    Garbage = Garbage
    NoQ = NoQ
    Closed = Closed
    Dangling = Dangling
    NoOwner = NoOwner
    NoIo = NoIo
    MaxCaio = 1
    MaxSegs = 1
    AioCancel = TRUE
    PinMayFail = FALSE
    Sysfs = TRUE
    InitMayFail = TRUE
    IntrAgg = FALSE
    Probe = TRUE
    ProbeMayFail = TRUE
SPECIFICATION FairSpec
INVARIANT OneIoPerCdevDir
PROPERTY UncancelledAioCompletes NetlinkCommandReplies
CHECK_DEADLOCK FALSE
