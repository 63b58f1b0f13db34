SPECIFICATION RecorderSpec
CONSTANTS
    Names <- MCNames
    Ops = {}
    InitialTrees <- MCInitialTrees
    Profiles = {"posix"}
    BlockSize = 2
    MaxOps = 2
    Threads = {t1}
    Calls <- MCCalls
    OpenMayFail = TRUE
INVARIANTS
    LogIsReal
CHECK_DEADLOCK FALSE
