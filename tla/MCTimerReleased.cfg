SPECIFICATION Spec
CONSTANTS
    Periods <- MCPeriods
    MaxTime = 1
    MaxAdds = 2
INVARIANTS
    ReleasedIdsAreStored
CHECK_DEADLOCK FALSE
