------------------------- MODULE MCProgramBuilder -------------------------
EXTENDS ProgramBuilder

CONSTANTS m1, m2, f1, f2

MCModNames == {m1, m2}
MCFnNames == {f1, f2}

=============================================================================
