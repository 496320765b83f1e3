CONSTANTS
    m1 = m1
    m2 = m2
    f1 = f1
    f2 = f2
    None = None
    ModNames <- MCModNames
    FnNames <- MCFnNames

SPECIFICATION Spec

INVARIANT TypeOK
PROPERTY FunctionsLostOnlyByDrop

\* After link the builder is consumed: the program is final.
CHECK_DEADLOCK FALSE
