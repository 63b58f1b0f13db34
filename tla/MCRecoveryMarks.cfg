SPECIFICATION RecoverySpec
CONSTANTS
    MarksBefore <- MCMarksBefore
    Jobs <- MCRepeatedJobs
    Trials <- MCTrials
    Trees <- MCTrees
    Recover <- MCRecover
    SecondCrash <- MCSecondCrash
    Causes = {a, b}
    Workers = {w1, w2}
    MaxStates = 5
    ExplainLimit = 2
INVARIANTS
    CleanMeansRecoverable
