SPECIFICATION Spec
CONSTANTS
    Ssl = TRUE
    Sessions = {s1, s2}
    MaxThreads = 2
    MaxListens = 3
    MaxAccepts = 2
INVARIANTS
    TypeOK
    ListenTellsTheTruth
    FinishHasServer
    NothingOutlivesManager
    NoDanglingSession
PROPERTIES
    LifeSpecs
    ListenReturns
    DestructorReturns
CHECK_DEADLOCK FALSE
