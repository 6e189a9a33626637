SPECIFICATION Spec
CONSTANTS
    Sessions = {s1, s2}
    Limit = 2
    Documents = 2
    MaxLaunches = 2
    MaxSubmits = 2
SYMMETRY SessionsAreAlike
INVARIANTS
    TypeOK
    SessionIsBounded
PROPERTY
    LaunchIsInformed
CHECK_DEADLOCK FALSE
