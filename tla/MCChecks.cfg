SPECIFICATION Spec
CONSTANTS
    first = first
    second = second
    Procs = {first, second}
    Settings <- MCSettings
INVARIANTS
    TypeOK
    DependenciesMatchSpec
    DepsClaimIsHonest
    IsolationKept
    VerdictCoversChecks
PROPERTY
    StageEnds
CHECK_DEADLOCK FALSE
