SPECIFICATION Spec
CONSTANTS
    MaxRuns = 1
    MaxLost <- MCMaxLost
    Configs <- MCSupervised
    Approaches <- MCApproaches
    OptionLists <- MCOptionLists
INVARIANT
    FailedTestsAreRetried
CHECK_DEADLOCK FALSE
