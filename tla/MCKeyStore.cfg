SPECIFICATION Spec
CONSTANTS
    Verifiers = {v1, v2}
    Dirs = {d1, d2}
INVARIANTS
    TypeOK
    KeyIsNeverLost
PROPERTIES
    QuietVerdictIsRight
    VerifierEnds
