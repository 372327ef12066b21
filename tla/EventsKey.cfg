SPECIFICATION Spec
CONSTANTS
    MaxConnects = 3
    MaxDepth = 2
INVARIANT KeyIsOfItsCallback
CHECK_DEADLOCK FALSE
