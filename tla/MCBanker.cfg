SPECIFICATION Spec
CONSTANTS
    ProcNum = 2
    ResNum = 3
    MaxClaim <- MCPartClaim
    Capacity <- MCCapacity
    Amounts <- MCAmounts
    Depth = 1
INVARIANTS
    ClaimIsKept
    NothingIsLost
    CheckedIsCovered
