---------------------------- MODULE TypePatterns ----------------------------
(***************************************************************************)
(* The instruction type patterns of hir-analysis/src/validation/           *)
(* typecheck.rs: TypePattern::matches, InstPattern::into_match and its     *)
(* unary, binary and ternary helpers, and the opcode-to-pattern table of   *)
(* InstTypeChecker::new.  A pattern evaluation returns Ok or the TypeError *)
(* the code returns first, with its counts and operand index (the types    *)
(* in an error are left out).                                              *)
(*                                                                         *)
(* Each behaviour type-checks one instruction: an opcode with the types of *)
(* its operands and results, from small sets; InstTypeChecker::check then  *)
(* records the verdict.                                                    *)
(***************************************************************************)
EXTENDS Naturals, Sequences, SequencesExt

CONSTANTS
    Tys,        \* the types: records [name, bits, cls], cls one of
                \* "uint", "sint", "felt", "ptr"
    MaxArgs,    \* bound on an instruction's operand count
    MaxResults, \* bound on its result count
    Discriminants, \* the u32 discriminants a switch arm may carry
    Succs,      \* the successor blocks a switch may name
    ParamBlocks, \* the blocks among Succs that have block parameters
    MaxArms     \* bound on a switch's arm count

VARIABLES
    op,       \* the opcode
    args,     \* the types of its value operands
    imm,      \* the type of its immediate operand (Immediate::ty), or NoImm
    res,      \* the types of its results
    verdict,  \* what TypeCheck returns for it, Pending before the check
    arms,     \* a switch's arms: [key, blk] records, in order
    dflt      \* a switch's default successor

vars == <<op, args, imm, res, verdict, arms, dflt>>

NoImm == [name |-> "no_immediate", bits |-> 0, cls |-> "none", pointee |-> "none"]

TyNamed(n) == CHOOSE t \in Tys : t.name = n
I1 == TyNamed("i1")
U32 == TyNamed("u32")

-----------------------------------------------------------------------------
(* TypePattern                                                            *)

TP(kind) == [kind |-> kind, ty |-> "none"]
Exact(t) == [kind |-> "exact", ty |-> t]

IsInteger(t) == t.cls \in {"uint", "sint"}

\* TypePattern::matches
Matches(p, t) ==
    CASE p.kind = "any"       -> TRUE
      [] p.kind = "int"       -> IsInteger(t)
      [] p.kind = "uint"      -> t.cls = "uint"
      [] p.kind = "sint"      -> t.cls = "sint"
      [] p.kind = "pointer"   -> t.cls = "ptr"
      [] p.kind = "primitive" -> t.cls \in {"uint", "sint", "felt", "ptr"}
      [] p.kind = "exact"     -> p.ty = t

-----------------------------------------------------------------------------
(* TypeError                                                              *)

Ok == [kind |-> "ok", expected |-> 0, actual |-> 0, index |-> 0]
Pending == [kind |-> "pending", expected |-> 0, actual |-> 0, index |-> 0]
CountErr(kind, e, a) == [kind |-> kind, expected |-> e, actual |-> a, index |-> 0]
TypeErr(kind, i) == [kind |-> kind, expected |-> 0, actual |-> 0, index |-> i]

\* The checks of a pattern, in order: the first failing one gives the error.
First(checks) ==
    LET k == SelectInSeq(checks, LAMBDA c : c.fail) IN
    IF k = 0 THEN Ok ELSE checks[k].err

Check(fail, err) == [fail |-> fail, err |-> err]

-----------------------------------------------------------------------------
(* InstPattern: a shape and the TypePatterns it names                     *)

Pat(shape, ps, rs) == [shape |-> shape, p |-> ps, r |-> rs]

UnaryShapes == {"unary", "unary_map", "widening", "narrowing"}
BinaryShapes == {"binary", "binary_matching", "binary_predicate"}

\* into_unary_match: out is <<>> for UnaryNoResult.
IntoUnaryMatch(ip, in, out) ==
    LET o == out[1] IN
    CASE ip.shape \in {"unary", "unary_no_result"} ->
            First(<< Check(~Matches(ip.p[1], in), TypeErr("incorrect_argument_type", 0)),
                     Check(out # <<>> /\ in # out[1],
                           TypeErr("matching_result_type", 0)) >>)
      [] ip.shape = "unary_map" ->
            First(<< Check(~Matches(ip.p[1], in), TypeErr("incorrect_argument_type", 0)),
                     Check(~Matches(ip.p[2], o), TypeErr("invalid_result_type", 0)) >>)
      [] ip.shape = "widening" ->
            First(<< Check(~Matches(ip.p[1], in), TypeErr("incorrect_argument_type", 0)),
                     Check(~Matches(ip.p[2], o), TypeErr("invalid_result_type", 0)),
                     Check(in.bits > o.bits, TypeErr("invalid_widening_cast", 0)) >>)
      [] ip.shape = "narrowing" ->
            First(<< Check(~Matches(ip.p[1], in), TypeErr("incorrect_argument_type", 0)),
                     Check(~Matches(ip.p[2], o), TypeErr("invalid_result_type", 0)),
                     Check(in.bits < o.bits, TypeErr("invalid_narrowing_cast", 0)) >>)

\* Mutant: into_binary_match without the matching-argument check.
IntoBinaryMatchNoMatch(ip, lhs, rhs, result) ==
    CASE ip.shape = "binary" ->
            First(<< Check(~Matches(ip.p[1], lhs), TypeErr("incorrect_argument_type", 0)),
                     Check(~Matches(ip.p[2], rhs), TypeErr("incorrect_argument_type", 1)),
                     Check(lhs # result[1], TypeErr("matching_result_type", 0)) >>)
      [] ip.shape \in {"binary_matching", "binary_matching_no_result"} ->
            First(<< Check(~Matches(ip.p[1], lhs), TypeErr("incorrect_argument_type", 0)),
                     Check(result # <<>> /\ lhs # result[1],
                           TypeErr("matching_result_type", 0)) >>)
      [] ip.shape = "binary_predicate" ->
            First(<< Check(~Matches(ip.p[1], lhs), TypeErr("incorrect_argument_type", 0)),
                     Check(result[1] # I1, TypeErr("matching_result_type", 0)) >>)

\* into_binary_match: result is <<>> for BinaryMatchingNoResult.
IntoBinaryMatch(ip, lhs, rhs, result) ==
    CASE ip.shape = "binary" ->
            First(<< Check(~Matches(ip.p[1], lhs), TypeErr("incorrect_argument_type", 0)),
                     Check(~Matches(ip.p[2], rhs), TypeErr("incorrect_argument_type", 1)),
                     Check(lhs # result[1], TypeErr("matching_result_type", 0)) >>)
      [] ip.shape \in {"binary_matching", "binary_matching_no_result"} ->
            First(<< Check(~Matches(ip.p[1], lhs), TypeErr("incorrect_argument_type", 0)),
                     Check(lhs # rhs, TypeErr("matching_argument_type", 1)),
                     Check(result # <<>> /\ lhs # result[1],
                           TypeErr("matching_result_type", 0)) >>)
      [] ip.shape = "binary_predicate" ->
            First(<< Check(~Matches(ip.p[1], lhs), TypeErr("incorrect_argument_type", 0)),
                     Check(lhs # rhs, TypeErr("matching_argument_type", 1)),
                     Check(result[1] # I1, TypeErr("matching_result_type", 0)) >>)

\* into_ternary_match (TernaryMatching).
IntoTernaryMatch(ip, cond, lhs, rhs, result) ==
    First(<< Check(~Matches(ip.p[1], cond), TypeErr("incorrect_argument_type", 0)),
             Check(~Matches(ip.p[2], lhs), TypeErr("incorrect_argument_type", 1)),
             Check(lhs # rhs, TypeErr("incorrect_argument_type", 2)),
             Check(lhs # result, TypeErr("matching_result_type", 0)) >>)

\* Mutant: a ternary pattern expecting one operand too many.
ArgCountOff(ip) ==
    CASE ip.shape \in UnaryShapes \cup {"unary_no_result"} -> 1
      [] ip.shape \in BinaryShapes \cup {"binary_matching_no_result"} -> 2
      [] ip.shape = "ternary" -> 4
      [] ip.shape = "exact" -> Len(ip.p)
      [] ip.shape = "empty" -> 0

\* The argument and result counts a shape requires.
ArgCount(ip) ==
    CASE ip.shape \in UnaryShapes \cup {"unary_no_result"} -> 1
      [] ip.shape \in BinaryShapes \cup {"binary_matching_no_result"} -> 2
      [] ip.shape = "ternary" -> 3
      [] ip.shape = "exact" -> Len(ip.p)
      [] ip.shape = "empty" -> 0
ResultCount(ip) ==
    CASE ip.shape \in {"unary_no_result", "binary_matching_no_result", "empty"} -> 0
      [] ip.shape = "exact" -> Len(ip.r)
      [] OTHER -> 1

\* into_match: the counts, then the shape's own checks.  Empty reports
\* args.len() as the actual result count, as the code does.
IntoMatch(ip, as, rs) ==
    IF ip.shape = "any" THEN Ok
    ELSE IF Len(as) # ArgCount(ip)
         THEN CountErr("incorrect_argument_count", ArgCount(ip), Len(as))
    ELSE IF Len(rs) # ResultCount(ip)
         THEN CountErr("incorrect_result_count", ResultCount(ip),
                       IF ip.shape = "empty" THEN Len(as) ELSE Len(rs))
    ELSE CASE ip.shape \in UnaryShapes \cup {"unary_no_result"} ->
                IntoUnaryMatch(ip, as[1], rs)
           [] ip.shape \in BinaryShapes \cup {"binary_matching_no_result"} ->
                IntoBinaryMatch(ip, as[1], as[2], rs)
           [] ip.shape = "ternary" -> IntoTernaryMatch(ip, as[1], as[2], as[3], rs[1])
           [] ip.shape = "empty" -> Ok
           [] ip.shape = "exact" ->
                First([k \in 1..(Len(as) + Len(rs)) |->
                        IF k <= Len(as)
                        THEN Check(~Matches(ip.p[k], as[k]),
                                   TypeErr("incorrect_argument_type", k - 1))
                        ELSE Check(~Matches(ip.r[k - Len(as)], rs[k - Len(as)]),
                                   TypeErr("invalid_result_type", k - Len(as) - 1))])

\* Mutant: the immediate forms reporting only the value operands as the
\* actual argument count.
IntoMatchWithImmediateCountOff(ip, as, i, rs) ==
    IF ip.shape \in {"exact", "any"} THEN IntoMatch(ip, as, rs)
    ELSE IF Len(as) + 1 # ArgCount(ip)
         THEN CountErr("incorrect_argument_count", ArgCount(ip), Len(as))
    ELSE IntoMatch(ip, as \o <<i>>, rs)

\* into_match_with_immediate: the immediate is the last operand, so each
\* shape checks as into_match does on the value operands followed by the
\* immediate (its counts report args.len() + 1).  Exact checks the value
\* operands alone: the immediate is neither counted nor typed.  Empty
\* panics, which is a guard of CheckInst.
IntoMatchWithImmediate(ip, as, i, rs) ==
    IF ip.shape \in {"exact", "any"} THEN IntoMatch(ip, as, rs)
    ELSE IntoMatch(ip, as \o <<i>>, rs)

-----------------------------------------------------------------------------
(* InstTypeChecker::new, for the opcodes without a callee                 *)

PatternOf(o) ==
    CASE o \in {"assert", "assertz"} -> Pat("unary_no_result", <<Exact(I1)>>, <<>>)
      [] o = "assert_eq" -> Pat("binary_matching_no_result", <<Exact(I1)>>, <<>>)
      [] o = "load"      -> Pat("unary_map", <<TP("pointer"), TP("any")>>, <<>>)
      [] o = "store"     -> Pat("exact", <<TP("pointer"), TP("any")>>, <<>>)
      [] o = "memcpy"    -> Pat("exact", <<TP("pointer"), TP("pointer"), Exact(U32)>>, <<>>)
      [] o = "ptrtoint"  -> Pat("unary_map", <<TP("pointer"), TP("int")>>, <<>>)
      [] o = "inttoptr"  -> Pat("unary_map", <<TP("uint"), TP("pointer")>>, <<>>)
      [] o = "cast"      -> Pat("unary_map", <<TP("int"), TP("int")>>, <<>>)
      [] o = "trunc"     -> Pat("narrowing", <<TP("int"), TP("int")>>, <<>>)
      [] o = "zext"      -> Pat("widening", <<TP("int"), TP("uint")>>, <<>>)
      [] o = "sext"      -> Pat("widening", <<TP("int"), TP("int")>>, <<>>)
      [] o = "test"      -> Pat("unary_map", <<TP("int"), Exact(I1)>>, <<>>)
      [] o = "select"    -> Pat("ternary", <<Exact(I1), TP("primitive")>>, <<>>)
      [] o = "add"       -> Pat("binary_matching", <<TP("int")>>, <<>>)
      [] o = "shl"       -> Pat("binary", <<TP("int"), TP("uint")>>, <<>>)
      [] o = "neg"       -> Pat("unary", <<TP("int")>>, <<>>)
      [] o = "not"       -> Pat("unary", <<Exact(I1)>>, <<>>)
      [] o = "and"       -> Pat("binary_matching", <<Exact(I1)>>, <<>>)
      [] o = "eq"        -> Pat("binary_predicate", <<TP("primitive")>>, <<>>)
      [] o = "gt"        -> Pat("binary_predicate", <<TP("int")>>, <<>>)
      [] o = "is_odd"    -> Pat("exact", <<TP("int")>>, <<Exact(I1)>>)
      [] o = "alloca"    -> Pat("exact", <<>>, <<TP("pointer")>>)
      [] o = "condbr"    -> Pat("exact", <<Exact(I1)>>, <<>>)
      [] o = "switch"    -> Pat("exact", <<Exact(U32)>>, <<>>)
      [] o \in {"br", "ret", "inline_asm"} -> Pat("any", <<>>, <<>>)
      [] o = "unreachable" -> Pat("empty", <<>>, <<>>)
      [] o = "memory_grow" -> Pat("unary", <<Exact(U32)>>, <<>>)
      [] o = "imm_i1"    -> Pat("unary", <<Exact(I1)>>, <<>>)
      [] o = "imm_u32"   -> Pat("unary", <<Exact(U32)>>, <<>>)

\* The opcodes of constants (ImmI1 .. ImmF64), two of them.
ImmOpcodes == {"imm_i1", "imm_u32"}

Opcodes ==
    {"assert", "assertz", "assert_eq", "load", "store", "memcpy", "ptrtoint",
     "inttoptr", "cast", "trunc", "zext", "sext", "test", "select", "add",
     "shl", "neg", "not", "and", "eq", "gt", "is_odd", "alloca", "condbr",
     "switch", "br", "ret", "inline_asm", "unreachable", "memory_grow"}
      \cup ImmOpcodes

-----------------------------------------------------------------------------
(* Opcode metadata (hir/src/instruction.rs)                               *)

\* Opcode::num_fixed_args
NumFixedArgs(o) ==
    CASE o \in {"br", "alloca", "unreachable", "inline_asm"} \cup ImmOpcodes -> 0
      [] o \in {"assert_eq", "store", "add", "shl", "and", "eq", "gt"} -> 2
      [] o \in {"select", "memcpy"} -> 3
      [] OTHER -> 1

\* Mutant: a shift listed among the commutative opcodes.
IsCommutativeShl(o) == o \in {"add", "and", "eq", "shl"}

\* Opcode::is_commutative, on the modelled opcodes (Mul, Min, Max, Neq,
\* Band, Or, Bor, Xor and Bxor are the others it lists).
IsCommutative(o) == o \in {"add", "and", "eq"}

\* Mutant: assert missing from the effectful opcodes.
HasSideEffectsNoAssert(o) ==
    o \in {"assertz", "assert_eq", "store", "alloca", "memcpy", "memory_grow",
           "br", "condbr", "switch", "ret", "unreachable", "inline_asm"}

\* Opcode::has_side_effects, on the modelled opcodes: the effectful ones;
\* immediates, loads, casts, tests, select and arithmetic are not.
HasSideEffects(o) ==
    o \in {"assert", "assertz", "assert_eq", "store", "alloca", "memcpy", "memory_grow",
           "br", "condbr", "switch", "ret", "unreachable", "inline_asm"}

\* Opcode::results: the result types given the controlling type; a load
\* yields the pointee of its controlling pointer type.
OpResults(o, ctrl) ==
    CASE o \in {"assert", "assertz", "assert_eq", "store", "memory_grow",
               "memcpy", "br", "condbr", "switch", "ret", "unreachable"} -> <<>>
      [] o \in {"test", "is_odd", "not", "and", "eq", "gt"} -> <<I1>>
      [] o = "load" -> IF ctrl.pointee = "none" THEN <<>> ELSE <<TyNamed(ctrl.pointee)>>
      [] OTHER -> <<ctrl>>

-----------------------------------------------------------------------------
(* One instruction checked                                                *)

\* An instruction without an immediate has up to MaxArgs value operands;
\* one with an immediate (UnaryOpImm, BinaryOpImm, PrimOpImm) one fewer.
Init ==
    /\ op \in Opcodes
    /\ imm \in {NoImm} \cup Tys
    /\ args \in BoundedSeq(Tys, IF imm = NoImm THEN MaxArgs ELSE MaxArgs - 1)
    /\ res \in BoundedSeq(Tys, MaxResults)
    /\ verdict = Pending
    \* The arms matter only to a Switch whose operand check passed: the
    \* code returns the check's error before it reads them.
    /\ arms \in IF op = "switch" /\ imm = NoImm /\ IntoMatch(PatternOf(op), args, res) = Ok
                THEN BoundedSeq([key : Discriminants, blk : Succs], MaxArms)
                ELSE {<<>>}
    /\ dflt \in IF op = "switch" /\ imm = NoImm /\ IntoMatch(PatternOf(op), args, res) = Ok
                THEN Succs ELSE {CHOOSE b \in Succs : b \notin ParamBlocks}

\* A switch error: its kind, the arm index, and the earlier arm cited.
SwitchErr(kind, i, prev) == [kind |-> kind, expected |-> 0, actual |-> prev, index |-> i]

\* Mutant: each arm compared with the arm just before it only.
SwitchArmsCheckAdjacent ==
    First([i \in DOMAIN arms |->
             IF i > 1 /\ arms[i - 1].key = arms[i].key
             THEN Check(TRUE, SwitchErr("switch_duplicate_discriminant", i - 1, i - 2))
             ELSE Check(arms[i].blk \in ParamBlocks,
                        SwitchErr("switch_successor_params", i - 1, 0))]
          \o << Check(dflt \in ParamBlocks, SwitchErr("switch_default_params", 0, 0)) >>)

\* TypeCheck::validate on a Switch whose operand passed check(&[arg]):
\* each arm in order, through the seen map, fails on a discriminant an
\* earlier arm has (citing both indices) or a successor with block
\* parameters; then the default successor must have none.
SwitchArmsCheck ==
    LET Prev(i) == SelectInSeq(arms, LAMBDA a : a.key = arms[i].key) IN
    First([i \in DOMAIN arms |->
             IF Prev(i) < i
             THEN Check(TRUE, SwitchErr("switch_duplicate_discriminant", i - 1, Prev(i) - 1))
             ELSE Check(arms[i].blk \in ParamBlocks,
                        SwitchErr("switch_successor_params", i - 1, 0))]
          \o << Check(dflt \in ParamBlocks, SwitchErr("switch_default_params", 0, 0)) >>)

\* invalid_instruction!: a form TypeCheck rejects before any pattern.
InvalidInst == [kind |-> "invalid_instruction", expected |-> 0, actual |-> 0, index |-> 0]

\* The forms TypeCheck::validate rejects outright: an immediate opcode as
\* a UnaryOp on a value, and ptrtoint as a UnaryOpImm.
InvalidForm ==
    \/ imm = NoImm /\ op \in ImmOpcodes /\ Len(args) = 1
    \/ imm # NoImm /\ op = "ptrtoint" /\ args = <<>>

\* TypeCheck::validate on one instruction: the invalid forms, then
\* InstTypeChecker::check, or check_immediate when it has an immediate,
\* then a Switch's arms
\* (which panics on the Empty pattern: the guard).
CheckInst ==
    /\ verdict = Pending
    /\ imm # NoImm => PatternOf(op).shape # "empty"
    /\ LET checked == IntoMatch(PatternOf(op), args, res) IN
       verdict' = CASE InvalidForm -> InvalidInst
                    [] imm # NoImm -> IntoMatchWithImmediate(PatternOf(op), args, imm, res)
                    [] op = "switch" /\ checked = Ok -> SwitchArmsCheck
                    [] OTHER -> checked
    /\ UNCHANGED <<op, args, imm, res, arms, dflt>>

Next == CheckInst

Spec == Init /\ [][Next]_vars

-----------------------------------------------------------------------------
(* Properties                                                             *)

SwitchKinds ==
    {"switch_duplicate_discriminant", "switch_successor_params", "switch_default_params"}

Verdicts ==
    {Ok, InvalidInst}
      \cup [kind : SwitchKinds, expected : {0}, actual : 0..MaxArms, index : 0..MaxArms]
      \cup [kind : {"incorrect_argument_count", "incorrect_result_count",
                       "incorrect_argument_type", "invalid_result_type",
                       "invalid_widening_cast", "invalid_narrowing_cast",
                       "matching_argument_type", "matching_result_type"},
               expected : 0..MaxArgs, actual : 0..MaxArgs, index : 0..MaxArgs]

\* Type invariant: every verdict is Ok or a TypeError whose counts and
\* index lie within the operand bounds.
TypeOK ==
    /\ op \in Opcodes
    /\ args \in Seq(Tys) /\ res \in Seq(Tys) /\ imm \in Tys \cup {NoImm}
    /\ verdict \in Verdicts \cup {Pending}
    /\ arms \in Seq([key : Discriminants, blk : Succs]) /\ dflt \in Succs

\* The patterns as the spec (section 4.4) describes them, stated over the
\* operand types a and result types r without an order of checks.
SpecAccepts(o, a, r) ==
    LET ip == PatternOf(o)
        p  == ip.p
        Shape(na, nr) == Len(a) = na /\ Len(r) = nr
    IN
    CASE ip.shape = "any" -> TRUE
      [] ip.shape = "empty" -> Shape(0, 0)
      [] ip.shape = "unary" -> Shape(1, 1) /\ Matches(p[1], a[1]) /\ r[1] = a[1]
      [] ip.shape = "unary_no_result" -> Shape(1, 0) /\ Matches(p[1], a[1])
      [] ip.shape \in {"unary_map", "widening", "narrowing"} ->
            Shape(1, 1) /\ Matches(p[1], a[1]) /\ Matches(p[2], r[1])
            /\ (ip.shape = "widening" => a[1].bits < r[1].bits)
            /\ (ip.shape = "narrowing" => a[1].bits > r[1].bits)
      [] ip.shape = "binary" ->
            Shape(2, 1) /\ Matches(p[1], a[1]) /\ Matches(p[2], a[2]) /\ r[1] = a[1]
      [] ip.shape = "binary_matching" ->
            Shape(2, 1) /\ Matches(p[1], a[1]) /\ a[2] = a[1] /\ r[1] = a[1]
      [] ip.shape = "binary_matching_no_result" ->
            Shape(2, 0) /\ Matches(p[1], a[1]) /\ a[2] = a[1]
      [] ip.shape = "binary_predicate" ->
            Shape(2, 1) /\ Matches(p[1], a[1]) /\ a[2] = a[1] /\ r[1] = I1
      [] ip.shape = "ternary" ->
            Shape(3, 1) /\ Matches(p[1], a[1]) /\ Matches(p[2], a[2])
            /\ a[3] = a[2] /\ r[1] = a[2]
      [] ip.shape = "exact" ->
            /\ Shape(Len(p), Len(ip.r))
            /\ \A k \in DOMAIN p : Matches(p[k], a[k])
            /\ \A k \in DOMAIN ip.r : Matches(ip.r[k], r[k])

\* The operands the spec's patterns range over: the value operands, then
\* the immediate if there is one.
Operands == IF imm = NoImm THEN args ELSE args \o <<imm>>

\* The type checker (into_match and into_match_with_immediate with their
\* helpers, after the table of InstTypeChecker::new) accepts an
\* instruction exactly when the spec's description of its opcode's
\* pattern does over all its operands, the immediate included; a
\* rejection names an operand that is at fault or a count that is off.
\* Left out: the casts (see CastWidthLaw), the forms validate rejects
\* outright, and Exact patterns given an immediate, which the code checks
\* without the immediate.
CheckerMatchesSpec ==
    /\ verdict # Pending /\ op \notin {"zext", "sext", "trunc"} /\ ~InvalidForm
    /\ verdict.kind \notin SwitchKinds
    /\ imm # NoImm => PatternOf(op).shape # "exact"
    => /\ (verdict = Ok <=> SpecAccepts(op, Operands, res))
       /\ verdict.kind \in {"incorrect_argument_type", "matching_argument_type"} =>
             verdict.index < Len(Operands)
       /\ verdict.kind = "incorrect_argument_count" =>
             verdict.actual = Len(Operands) /\ verdict.expected # Len(Operands)

\* Switch arm uniqueness (spec section 9): a switch whose operand and
\* results type-check is accepted exactly when its arms have pairwise
\* distinct discriminants and neither an arm nor the default targets a
\* block with parameters; a duplicate is reported citing two arms that
\* share a discriminant (the seen map of TypeCheck::validate).
SwitchArmsMatchSpec ==
    verdict # Pending /\ op = "switch" /\ imm = NoImm /\ SpecAccepts(op, args, res) =>
      /\ verdict = Ok <=>
            /\ \A i, j \in DOMAIN arms : i # j => arms[i].key # arms[j].key
            /\ \A i \in DOMAIN arms : arms[i].blk \notin ParamBlocks
            /\ dflt \notin ParamBlocks
      /\ verdict.kind = "switch_duplicate_discriminant" =>
            /\ verdict.index # verdict.actual
            /\ arms[verdict.index + 1].key = arms[verdict.actual + 1].key

\* Cast width laws (spec section 8): a widening cast (zext, sext) is
\* accepted only if the operand is strictly narrower than the result, a
\* narrowing cast (trunc) only if strictly wider; equal widths fail both.
CastWidthLaw ==
    verdict # Pending /\ op \in {"zext", "sext", "trunc"} =>
      (verdict = Ok <=> SpecAccepts(op, Operands, res))

\* Instruction::is_commutative says a binary operator's operands "may
\* appear in any order": for those opcodes the type checker accepts an
\* instruction exactly when it accepts it with its two operands swapped,
\* so a pass that reorders them never turns well-typed IR into ill-typed.
CommutedOperandsTypeCheck ==
    verdict # Pending /\ IsCommutative(op) /\ imm = NoImm /\ Len(args) = 2 =>
      (verdict = Ok <=> IntoMatch(PatternOf(op), <<args[2], args[1]>>, res) = Ok)

\* An instruction accepted by the type checker that has_side_effects calls
\* pure has a result: dead-code elimination, which may drop a pure
\* instruction whose results are unused, never drops one that only acts
\* (an assertion, a store, a branch) because it has nothing to use.
PureAcceptedHasResult ==
    verdict = Ok /\ ~HasSideEffects(op) => res # <<>>

\* Every opcode can be built well typed: the instruction the builder makes
\* for it, with Opcode::num_fixed_args operands and the results
\* Opcode::results gives some controlling type, is accepted for some
\* operand types (an immediate opcode is built as a UnaryOpImm).
OpcodeShapesAgree ==
    \E a \in [1..NumFixedArgs(op) -> Tys], ctrl \in Tys, i \in Tys :
      IF op \in ImmOpcodes
      THEN IntoMatchWithImmediate(PatternOf(op), a, i, OpResults(op, ctrl)) = Ok
      ELSE IntoMatch(PatternOf(op), a, OpResults(op, ctrl)) = Ok

=============================================================================
