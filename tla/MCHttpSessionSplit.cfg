SPECIFICATION Spec
CONSTANTS
    Requests <- MCGood
    Probe = 1
    Chunk = 1
    MaxContent = 1
    MaxCalls = 1
INVARIANTS
    GoodIsNotRejected
CHECK_DEADLOCK FALSE
