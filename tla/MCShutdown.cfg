SPECIFICATION Spec
CONSTANT
    MaxCalls = 2
INVARIANT
    ShutdownKeepsChain
CHECK_DEADLOCK FALSE
