SPECIFICATION Spec
CONSTANTS
    MaxRuns = 1
    MaxLost <- MCMaxLost
    Configs <- MCSupervised
    Approaches <- MCApproaches
    OptionLists <- MCOptionLists
PROPERTY
    AnswersAreRecorded
CHECK_DEADLOCK FALSE
