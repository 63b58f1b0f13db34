SPECIFICATION ForkingSpec
CONSTANTS
    Trees <- MCFewTrees
    Forks = TRUE
INVARIANTS
    StateIsExact
