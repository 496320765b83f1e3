----------------------------- MODULE Validation -----------------------------
(***************************************************************************)
(* The three per-block validation rules of hir-analysis/src/validation,    *)
(* run over a graph built by any sequence of DataFlowGraph operations:     *)
(* BlockValidator and DefsDominateUses (block.rs) and TypeCheck            *)
(* (typecheck.rs).  Each rule is an operator giving "ok" or the kind of    *)
(* the first error it meets, checking in the order the code does.          *)
(*                                                                         *)
(* The dominance relation is supplied to DefsDominateUses by an external   *)
(* DominatorTree.  It is modelled, from the spec, by the classic iterative *)
(* dominator computation over the control-flow graph of the linked blocks; *)
(* the properties below compare the rules with a path-based definition.    *)
(***************************************************************************)
EXTENDS DataFlowGraph

Ok == "ok"

\* The first non-ok result of F over the elements of s, in order.
FirstError(s, F(_)) ==
    LET k == SelectInSeq(s, LAMBDA x : F(x) # Ok)
    IN  IF k = 0 THEN Ok ELSE F(s[k])

-----------------------------------------------------------------------------
(* The dominance oracle                                                   *)

\* Control-flow edges: the jump-table targets of the instructions of each
\* block in the layout.
Succs(b) == IF InLayout(b) THEN UNION {Targets(i) : i \in ToSet(body[b])} ELSE {}
Preds(b) == {p \in Blocks : b \in Succs(p)}

\* Blocks reachable from the entry along control-flow edges without
\* entering block avoid.
RECURSIVE ReachAvoiding(_, _)
ReachAvoiding(S, avoid) ==
    LET S2 == S \cup {s \in Blocks \ {avoid} : \E p \in S : s \in Succs(p)}
    IN  IF S2 = S THEN S ELSE ReachAvoiding(S2, avoid)

Reachable == ReachAvoiding({Entry}, 0)

\* Dom[n], the blocks dominating a reachable block n, as the greatest fixed
\* point of Dom(n) = {n} \cup (intersection of Dom(p) over the reachable
\* predecessors p).  As in a dominator tree, a block no path reaches has no
\* immediate dominator and is dominated by itself alone.
RECURSIVE DomIterate(_)
DomIterate(D) ==
    LET Meet(n) == {d \in Blocks : \A p \in Preds(n) \cap Reachable : d \in D[p]}
        D2 == [n \in Blocks |-> IF n = Entry \/ n \notin Reachable THEN D[n]
                                ELSE {n} \cup Meet(n)]
    IN  IF D2 = D THEN D ELSE DomIterate(D2)

Dom == DomIterate([n \in Blocks |-> IF n = Entry \/ n \notin Reachable THEN {n}
                                    ELSE Blocks])

DomBlock(a, b) == a \in Dom[b]

\* Instruction a dominates instruction b: earlier or equal in one block, or
\* a's block dominates b's.  An instruction outside the layout has no
\* program point and dominates nothing.
DomInst(a, b) ==
    /\ InstLinked(a)
    /\ InLayout(home[a])
    /\ IF home[a] = home[b] THEN PosOf(a) <= PosOf(b)
       ELSE DomBlock(home[a], home[b])

-----------------------------------------------------------------------------
(* BlockValidator (block.rs, Rule<BlockData> for BlockValidator)          *)

\* The first jump table whose block is outside the layout or was already
\* seen decides the error of a multi-way branch.
MultiDestError(ds) ==
    LET bad(k) == ~InLayout(ds[k].block)
                  \/ \E j \in 1..(k - 1) : ds[j].block = ds[k].block
        first  == SelectInSeq([k \in DOMAIN ds |-> bad(k)], LAMBDA x : x)
    IN  IF ds = <<>> THEN "incomplete_branch"
        ELSE IF first = 0 THEN Ok
        ELSE IF ~InLayout(ds[first].block) THEN "invalid_successor"
        ELSE "duplicate_successor"

\* Mutant: BlockValidator without the terminator_in_middle check.
BlockValidatorNoMiddle(b) ==
    LET insts == body[b]
        term  == inst[Last(insts)]
    IN  IF ~InLayout(b) THEN Ok
        ELSE IF insts = <<>> THEN "empty_block"
        ELSE IF ~IsTerminator(term.op) THEN "invalid_terminator"
        ELSE IF term.op = "br" /\ ~InLayout(term.dests[1].block)
             THEN "invalid_successor"
        ELSE IF term.op = "condbr" /\ MultiDestError(term.dests) # Ok
             THEN MultiDestError(term.dests)
        ELSE Ok

BlockValidator(b) ==
    LET insts == body[b]
        term  == inst[Last(insts)]
    IN  IF ~InLayout(b) THEN Ok
        ELSE IF insts = <<>> THEN "empty_block"
        ELSE IF ~IsTerminator(term.op) THEN "invalid_terminator"
        ELSE IF term.op = "br" /\ ~InLayout(term.dests[1].block)
             THEN "invalid_successor"
        ELSE IF term.op = "condbr" /\ MultiDestError(term.dests) # Ok
             THEN MultiDestError(term.dests)
        ELSE IF \E k \in 1..(Len(insts) - 1) : IsTerminator(inst[insts[k]].op)
             THEN "terminator_in_middle"
        ELSE Ok

-----------------------------------------------------------------------------
(* DefsDominateUses (block.rs, Rule<BlockData> for DefsDominateUses)      *)

\* Mutant: a block parameter taken as dominating every use.
UseDominatedLoose(b, i, v) ==
    IF value[v].kind = "param" THEN TRUE ELSE DomInst(value[v].owner, i)

\* A use of v at instruction i of block b is dominated by v's definition.
UseDominated(b, i, v) ==
    IF value[v].kind = "param"
    THEN value[v].owner = b \/ DomBlock(value[v].owner, b)
    ELSE DomInst(value[v].owner, i)

DefsDominateUsesInst(b, i) ==
    IF ToSet(results[i]) \cap Uses(i) # {} THEN "self_use"
    ELSE IF \E v \in Uses(i) : ~UseDominated(b, i, v) THEN "not_dominated"
    ELSE Ok

DefsDominateUses(b) == FirstError(body[b], LAMBDA i : DefsDominateUsesInst(b, i))

-----------------------------------------------------------------------------
(* TypeCheck (typecheck.rs, Rule<BlockData> for TypeCheck)                *)

Ty(v) == value[v].ty

\* TypePattern::matches for the patterns the modelled opcodes use; every
\* modelled type is an integer, hence numeric and primitive.
Matches(pat, t) == IF pat \in {"int", "primitive", "any"} THEN TRUE ELSE pat = t

\* The successor argument check of br and condbr: count, then types.
SuccessorError(j) ==
    LET ps == params[j.block] IN
    IF Len(j.args) # Len(ps) THEN "successor_arg_count"
    ELSE IF \E k \in DOMAIN ps : Ty(j.args[k]) # Ty(ps[k]) THEN "successor_arg_type"
    ELSE Ok

\* InstPattern::into_match / into_match_with_immediate for one instruction.
InstTypeError(i) ==
    LET d  == inst[i]
        rs == results[i]
        lhs == Ty(d.args[1])
        rhs == IF Len(d.args) > 1 THEN Ty(d.args[2]) ELSE "none"
    IN
    CASE d.op = "imm" ->                      \* Unary(Exact(imm type))
            IF Len(rs) # 1 THEN "result_count"
            ELSE IF d.imm # Ty(rs[1]) THEN "matching_result"
            ELSE Ok
      [] d.op \in {"add", "eq"} ->            \* BinaryMatching / BinaryPredicate
            IF Len(rs) # 1 THEN "result_count"
            ELSE IF ~Matches(IF d.op = "add" THEN "int" ELSE "primitive", lhs)
                 THEN "argument_type"
            ELSE IF lhs # rhs THEN "matching_argument"
            ELSE IF Ty(rs[1]) # (IF d.op = "add" THEN lhs ELSE "i1")
                 THEN "matching_result"
            ELSE Ok
      [] d.op = "assert_eq" ->                \* BinaryMatchingNoResult(i1)
            IF rs # <<>> THEN "result_count"
            ELSE IF lhs # "i1" THEN "argument_type"
            ELSE IF lhs # rhs THEN "matching_argument"
            ELSE Ok
      [] d.op = "br" -> SuccessorError(d.dests[1])
      [] d.op = "condbr" ->                   \* Exact([i1], []) then successors
            IF rs # <<>> THEN "result_count"
            ELSE IF lhs # "i1" THEN "argument_type"
            ELSE FirstError(d.dests, SuccessorError)
      [] d.op = "ret" ->                      \* against the function signature
            IF Len(d.args) # Len(FnResults) THEN "argument_count"
            ELSE IF \E k \in DOMAIN d.args : Ty(d.args[k]) # FnResults[k]
                 THEN "argument_type"
            ELSE Ok

TypeCheck(b) == FirstError(body[b], InstTypeError)

-----------------------------------------------------------------------------
(* The validation driver (spec): every rule over every block in layout.   *)

BlockValid(b) ==
    BlockValidator(b) = Ok /\ TypeCheck(b) = Ok /\ DefsDominateUses(b) = Ok

Valid == \A b \in ToSet(layout) : BlockValid(b)

-----------------------------------------------------------------------------
(* Reference definitions the properties use                               *)

\* Every path from the entry to b goes through a.
OnAllPaths(a, b) == a = b \/ b \notin (IF a = Entry THEN {} ELSE ReachAvoiding({Entry}, a))

\* The definition of v is met on every path to the use at position k of b.
DefinedBefore(v, b, k) ==
    LET p == value[v].owner IN
    IF value[v].kind = "param" THEN OnAllPaths(p, b)
    ELSE /\ InstLinked(p) /\ InLayout(home[p])
         /\ IF home[p] = b THEN PosOf(p) < k ELSE OnAllPaths(home[p], b)

\* v is still produced: a parameter of its block or a current result of
\* its instruction.
Live(v) ==
    IF value[v].kind = "param" THEN Contains(params[value[v].owner], v)
    ELSE Contains(results[value[v].owner], v)

\* The successors named by the jump tables of an instruction.
JumpTablesOf(i) == {inst[i].dests[k] : k \in DOMAIN inst[i].dests}

-----------------------------------------------------------------------------
(* Properties                                                             *)

\* Validation soundness (spec section 3, invariants 1, 2, 3 and 5 for
\* branches): when all three rules accept every block in the layout, then
\* every linked block ends in its only terminator, every successor is
\* linked and named once, no instruction uses its own result, every use in
\* a reachable block of a value still produced is preceded by its
\* definition on every path, and every
\* jump passes arguments matching the target's parameters.
ValidatedGraphWellFormed ==
    Valid =>
      \A b \in ToSet(layout) :
        /\ body[b] # <<>>
        /\ \A k \in DOMAIN body[b] : IsTerminator(inst[body[b][k]].op) <=> k = Len(body[b])
        /\ \A k \in DOMAIN body[b] :
             LET i == body[b][k] IN
             /\ Targets(i) \subseteq ToSet(layout)
             /\ Cardinality(Targets(i)) = Len(inst[i].dests)
             /\ ToSet(results[i]) \cap Uses(i) = {}
             /\ b \in Reachable =>
                  \A v \in Uses(i) : Live(v) => DefinedBefore(v, b, k)
             /\ \A j \in JumpTablesOf(i) :
                  /\ Len(j.args) = Len(params[j.block])
                  /\ \A a \in DOMAIN j.args : Ty(j.args[a]) = Ty(params[j.block][a])

\* A use accepted by validation names a value that its producer still
\* produces: a parameter of its block or a current result of its
\* instruction (spec section 3, invariant 1: every value has exactly one
\* producer).  replace_results cuts surplus results without looking at
\* their uses.
ValidatedUsesHaveLiveProducer ==
    Valid =>
      \A b \in ToSet(layout) : \A i \in ToSet(body[b]) : \A v \in Uses(i) : Live(v)

=============================================================================
