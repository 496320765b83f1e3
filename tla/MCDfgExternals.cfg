CONSTANTS
    Tys <- MCTys
    Idents <- MCIdents
    Sigs <- MCSigs
    f1 = f1
    f2 = f2
    MaxParams = 1
    MaxInsts = 2
    MaxGlobals = 3
    None = None

SPECIFICATION Spec

INVARIANT TypeOK
INVARIANT ImportOkIffRegistered
INVARIANT CallsCheckAgainstImports
CHECK_DEADLOCK FALSE
