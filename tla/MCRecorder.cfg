SPECIFICATION RecorderSpec
CONSTANTS
    Names <- MCNames
    Ops = {}
    InitialTrees <- MCInitialTrees
    Profiles = {"posix"}
    BlockSize = 2
    MaxOps = 4
    Threads = {t1, t2}
    Calls <- MCCalls
    OpenMayFail = FALSE
SYMMETRY MCSymmetry
INVARIANTS
    LogIsReal
    DurableWasSynced
CHECK_DEADLOCK FALSE
