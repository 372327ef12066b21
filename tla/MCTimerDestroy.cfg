SPECIFICATION Spec
CONSTANTS
    Periods <- MCPeriods
    MaxTime = 1
    MaxAdds = 1
PROPERTIES
    DestructorReturns
CHECK_DEADLOCK FALSE
