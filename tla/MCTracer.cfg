SPECIFICATION Spec
CONSTANT
    MaxCalls = 3
INVARIANTS
    TypeOK
    ChainBreaksOnlyMidWrite
    AckedAreOnFile
    OnlyPrefixesVerify
PROPERTY
    ShutdownEnds
CHECK_DEADLOCK FALSE
