SPECIFICATION StraceSpec
CONSTANTS
    Names <- MCNames
    Ops = {}
    InitialTrees <- MCInitialTrees
    Profiles = {"posix"}
    BlockSize = 2
    MaxOps = 8
    Pids = {1, 2}
    Main = 1
    Fds = {1, 3, 4, 5}
    Programs <- MCPrograms
    ChildFirst = FALSE
INVARIANTS
    LogIsReal
    MirrorIsLog
    OffsetsAreReal
    DurableWasSynced
CHECK_DEADLOCK FALSE
