SPECIFICATION WalSpec
CONSTANTS
    Names <- MCNames
    Ops = {}
    InitialTrees <- MCInitialTrees
    Profiles = {"posix", "ext4"}
    BlockSize = 1
    MaxOps = 12
    WordBits = 64
    ExhaustiveLimit = 10
    Fixed = TRUE
    Safe = TRUE
INVARIANTS
    EveryCrashIsAccepted
    RepairCutsTail
CHECK_DEADLOCK FALSE
