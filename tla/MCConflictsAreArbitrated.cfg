SPECIFICATION Spec
CONSTANTS
    MaxRuns = 1
    MaxLost <- MCMaxLost
    Configs <- MCShipped
    Approaches <- MCApproaches
    OptionLists <- MCOptionLists
INVARIANT
    ConflictsAreArbitrated
CHECK_DEADLOCK FALSE
