SPECIFICATION Spec
CONSTANTS
    MaxRuns = 2
    MaxLost <- MCMaxLost
    Configs <- MCConfigs
    Approaches <- MCApproaches
    OptionLists <- MCOptionLists
INVARIANTS
    TypeOK
    CompletionIsEarned
    ConsentIsOnRecord
    PauseIsVisible
    StatusIsTrue
CHECK_DEADLOCK FALSE
PROPERTIES
    AnswersStayWithTheirGate
    ImplementsBuildFlow
    RunEnds
