SPECIFICATION Spec
CONSTANTS
    Threads = {t1, t2}
    Micros <- MCMicros
    NanoPerMicro = 6
    Width = 16
    MaxCallbacks = 2
    MaxCreations = 2
INVARIANTS
    TypeOK
    CreatedOnce
    QuietDeleteIsSafe
CHECK_DEADLOCK FALSE
