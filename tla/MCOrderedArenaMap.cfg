CONSTANTS
    a = a
    b = b
    none = none
    Vals <- MCVals
    NoVal = none
    MaxKeys = 3
    MaxNodes = 4
    DebugAssertions = TRUE

SPECIFICATION Spec

INVARIANT TypeOK
INVARIANT ListHoldsCurrentNodes
PROPERTY ImplementsLayout
CHECK_DEADLOCK FALSE
