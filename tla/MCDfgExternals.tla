--------------------------- MODULE MCDfgExternals ---------------------------
(* Model-checking instance of DfgExternals: the boolean, a u32 and a *i8  *)
(* pointer; two function identifiers; three signatures that share their   *)
(* parameters or their results, so that re-importing with a different     *)
(* signature can leave an existing call's arguments or results stale.     *)
EXTENDS DfgExternals

CONSTANTS f1, f2

Ty(n, b, c, pt) == [name |-> n, bits |-> b, cls |-> c, pointee |-> pt]

MCTys ==
    { Ty("i1", 1, "uint", "none"), Ty("u32", 32, "uint", "none"),
      Ty("ptr", 32, "ptr", "i8") }

MCIdents == {f1, f2}

MCSigs ==
    LET u32 == CHOOSE t \in MCTys : t.name = "u32"
        i1  == CHOOSE t \in MCTys : t.name = "i1"
    IN { [params |-> <<u32>>, results |-> <<i1>>],
         [params |-> <<u32>>, results |-> <<>>],
         [params |-> <<>>, results |-> <<i1>>] }

=============================================================================
