------------------------- MODULE MCTypePatterns -------------------------
(* Model-checking instance of TypePatterns: the boolean, an 8- and a      *)
(* 32-bit integer of each signedness, the field element and a 32-bit      *)
(* pointer to bytes, so that every TypePattern both matches and fails,    *)
(* and casts meet narrower, equal and wider widths.                       *)
EXTENDS TypePatterns

\* Two successor blocks, b1 with block parameters.
CONSTANTS b0, b1

Ty(n, b, c, pt) == [name |-> n, bits |-> b, cls |-> c, pointee |-> pt]

MCTys ==
    { Ty("i1", 1, "uint", "none"), Ty("u8", 8, "uint", "none"),
      Ty("i8", 8, "sint", "none"), Ty("u32", 32, "uint", "none"),
      Ty("i32", 32, "sint", "none"), Ty("felt", 64, "felt", "none"),
      Ty("ptr", 32, "ptr", "u8") }

=============================================================================
