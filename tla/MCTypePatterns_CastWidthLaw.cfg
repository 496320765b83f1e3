CONSTANTS
    Tys <- MCTys
    MaxArgs = 3
    MaxResults = 1
    Discriminants = {0, 1}
    Succs = {b0, b1}
    ParamBlocks = {b1}
    MaxArms = 3
    b0 = b0
    b1 = b1

SPECIFICATION Spec

INVARIANT CastWidthLaw
CHECK_DEADLOCK FALSE
