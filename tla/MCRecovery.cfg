SPECIFICATION RecoverySpec
CONSTANTS
    MarksBefore <- MCMarksBefore
    Jobs <- MCJobs
    Trials <- MCTrials
    Trees <- MCTrees
    Recover <- MCRecover
    SecondCrash <- MCSecondCrash
    Causes = {a, b}
    Workers = {w1, w2}
    MaxStates = 5
    ExplainLimit = 2
INVARIANTS
    RecoveryMarksAreReal
    ExploredOnce
    WithinBudget
    CountedApart
    EarliestFirstCrash
