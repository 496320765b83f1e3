---------------------------- MODULE MCValidation ----------------------------
(* Model-checking instance of Validation: two types and a function        *)
(* returning one i32.  The payloads handed to insert_inst are those of    *)
(* DataFlowGraph, except that the else-successor of a condbr passes no    *)
(* arguments: argument lists are checked the same way on both sides, and  *)
(* the then-side already covers them.                                     *)
EXTENDS Validation

MCTypes == {"i1", "i32"}
MCFnResults == <<"i32">>

\* A single type, for the run that spends its bounds on control flow.
MCOneType == {"i1"}
MCOneResult == <<"i1">>

MCElseTables(V) == [block : Blocks, args : {<<>>}]

=============================================================================
