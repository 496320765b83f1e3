-------------------------- MODULE MCMasmFunction --------------------------
EXTENDS MasmFunction

\* One-word scalars and a multi-word type large enough that two locals
\* of it reach the u8::MAX bound of alloc_local.
MCWordSizes == {1, 127}

=============================================================================
