CONSTANTS
    a = a
    b = b
    none = none
    Vals <- MCVals
    NoVal = none
    MaxKeys = 3
    MaxNodes = 4
    DebugAssertions = TRUE

SPECIFICATION SpecWithClone

PROPERTY CloneKeepsLayout
CHECK_DEADLOCK FALSE
