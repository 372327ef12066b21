SPECIFICATION Spec
CONSTANTS
    ProcNum = 2
    ResNum = 2
    MaxClaim <- MCMaxClaim
    Capacity <- MCCapacity
    Amounts = {0, 1}
    Depth = 1
INVARIANTS
    Safe
