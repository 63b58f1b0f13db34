SPECIFICATION EngineSpec
CONSTANTS
    Names <- MCNames
    Ops <- MCOps
    InitialTrees <- MCInitialTrees
    Profiles = {"posix", "ext4"}
    BlockSize = 1
    MaxOps = 5
    WordBits = 64
    Traces <- MCTraces
    Workers = {w1, w2}
    ExhaustiveLimit = 3
    Samples = 0
    MaxStates = 9
    Explain = 2
INVARIANTS
    EveryJobRan
    CheckedOnce
    ReportIsFaithful
    MinimizedIsReal
    AttributedOnce
    HintCovers
    MinimalIfMonotone
PROPERTIES
    Termination
