SPECIFICATION Spec
CONSTANTS
    Names <- MCNames
    Ops <- MCOps
    InitialTrees <- MCInitialTrees
    Profiles = {"posix", "ext4"}
    BlockSize = 2
    MaxOps = 4
    WordBits = 64
    ExhaustiveLimit = 10
INVARIANTS
    TypeOK
    PendingOK
    VolatileIsReplay
PROPERTIES
    InFlightStable
    FsyncPromise
    ImplementsDurability
    ImplementsPosixDir
CHECK_DEADLOCK FALSE
