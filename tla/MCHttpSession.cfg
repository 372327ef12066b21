SPECIFICATION Spec
CONSTANTS
    Requests <- MCRequests
    Probe = 1
    Chunk = 2
    MaxContent = 3
    MaxCalls = 3
INVARIANTS
    TypeOK
    AcceptedIsWhole
    WholeIsAccepted
    AcceptedOnce
    RepliedOnce
    SentIsComplete
    NeverStalls
PROPERTIES
    LifeSpec
    SessionsEnd
CHECK_DEADLOCK FALSE
