SPECIFICATION Spec
CONSTANTS
    Names <- MCNames
    Ops <- MCOps
    InitialTrees <- MCInitialTrees
    Profiles = {"posix", "ext4"}
    BlockSize = 2
    MaxOps = 4
    WordBits = 64
    ExhaustiveLimit = 5
INVARIANTS
    BytesWereWritten
    ReplaceIsAtomic
    CloseIsLeast
    ExhaustiveIsComplete
    BatteryIsSound
PROPERTIES
    FsyncPromise
    ImplementsPosixDir
CHECK_DEADLOCK FALSE
