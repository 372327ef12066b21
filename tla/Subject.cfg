SPECIFICATION Spec
CONSTANTS
    Observers = {o1, o2, o3}
    Ids = {0, 1}
    MaxDepth = 3
INVARIANTS
    TypeOK
    NobodyIsStale
