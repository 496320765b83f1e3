CONSTANTS
    WordSizes <- MCWordSizes
    MaxLocals = 3
    MaxBlocks = 3
    MaxOps = 2
    None = None

SPECIFICATION Spec

INVARIANT AstFrameCoversLocals

\* A caller may stop building the function at any point.
CHECK_DEADLOCK FALSE
