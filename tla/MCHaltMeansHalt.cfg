SPECIFICATION Spec
CONSTANTS
    MaxRuns = 1
    MaxLost <- MCMaxLost
    Configs <- MCShipped
    Approaches <- MCApproaches
    OptionLists <- MCOptionLists
INVARIANT
    HaltMeansHalt
CHECK_DEADLOCK FALSE
