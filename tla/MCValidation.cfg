CONSTANTS
    Types <- MCTypes
    FnResults <- MCFnResults
    MaxBlocks = 2
    MaxInsts = 2
    MaxValues = 2
    MaxBranchArgs = 1
    DebugAssertions = TRUE
    ElseTables <- MCElseTables

SPECIFICATION Spec

INVARIANT TypeOK
INVARIANT ProducersAgree
INVARIANT ValidatedGraphWellFormed
