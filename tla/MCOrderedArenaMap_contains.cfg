CONSTANTS
    a = a
    b = b
    none = none
    Vals <- MCVals
    NoVal = none
    MaxKeys = 3
    MaxNodes = 4
    DebugAssertions = TRUE

SPECIFICATION Spec

INVARIANT ContainsAndLenCountLinked
CHECK_DEADLOCK FALSE
