SPECIFICATION Spec
CONSTANTS
    Hidden = {".env.example"}
    Structural = {"requirements.txt"}
    Unsafe = {"../b.py"}
    Blank = {" "}
    Aliases <- MCAliases
    Designs <- MCDesigns
    Plans <- MCPlans
    Responses <- MCResponses
    Effects <- MCEffects
    MaxEntries = 3
    MaxRuns = 2
    MaxCalls = 3
INVARIANTS
    TypeOK
    UsageIsAccounted
    MissingMarkersAreDiagnosed
    ReplayIsExact
    ConflictsRepeat
    TreeFollowsManifest
    ComplianceAgreesWithContract
    PassedMeansProduced
PROPERTY
    ExecutionEnds
CHECK_DEADLOCK FALSE
