SPECIFICATION WorkerSpec
CONSTANTS
    Trees <- MCTrees
    Forks = FALSE
INVARIANTS
    StateIsExact
    SyncNeverFails
PROPERTIES
    JobsGetDone
