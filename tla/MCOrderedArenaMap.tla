------------------------- MODULE MCOrderedArenaMap -------------------------
(* Model-checking instance of OrderedArenaMap: two values, three keys and *)
(* four arena nodes, so that a key can be linked, removed and its         *)
(* neighbours inserted around in one behaviour.                           *)
EXTENDS OrderedArenaMap

CONSTANTS a, b, none

MCVals == {a, b}

=============================================================================
