SPECIFICATION Spec
CONSTANTS
    Procs = {p1, p2}
    Keys = {k}
    Retries <- MCRetries
    Sizes = {1, 2}
    MaxCalls = 2
INVARIANTS
    TypeOK
    AnswersAreWhole
    FailuresHaveACause
PROPERTIES
    FirstResponseWins
    CallsEnd
CHECK_DEADLOCK FALSE
