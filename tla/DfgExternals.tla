---------------------------- MODULE DfgExternals ----------------------------
(***************************************************************************)
(* The parts of a DataFlowGraph (hir/src/dataflow.rs) that name things     *)
(* outside the function: the import table of external functions, the      *)
(* global-value table, and the instructions built on them (call and        *)
(* global), together with how TypeCheck (hir-analysis/src/validation/      *)
(* typecheck.rs) checks those instructions against the tables.             *)
(*                                                                         *)
(* A Signature is abstracted to its parameter and result types (its        *)
(* calling convention and linkage are left out: they take part in the      *)
(* signature comparison only as more ways for two signatures to differ).   *)
(* An instruction is abstracted to its opcode, what it names, and the      *)
(* types of its operands and results; the operand values themselves are    *)
(* any values of the function, so their types range over Tys.             *)
(***************************************************************************)
EXTENDS Naturals, Sequences, SequencesExt, Functions

CONSTANTS
    Tys,         \* types, as records [name, bits, cls, pointee] (TypePatterns)
    Idents,      \* FunctionIdents an import or a call may name
    Sigs,        \* the Signatures import_function is given: [params, results]
    MaxParams,   \* bound on a call's operand count
    MaxInsts,    \* bound on instructions built
    MaxGlobals,  \* bound on create_global_value calls
    None

\* The type patterns and InstPattern::into_match, shared with TypePatterns.
TP == INSTANCE TypePatterns
        WITH op <- "call", args <- <<>>, imm <- None, res <- <<>>, verdict <- None,
             arms <- <<>>, dflt <- None,
             MaxArgs <- MaxParams, MaxResults <- 1,
             Discriminants <- {}, Succs <- {None}, ParamBlocks <- {}, MaxArms <- 0

\* Type::Ptr(Box::new(Type::I8)), the type of a global symbol.
PtrI8 == CHOOSE t \in Tys : t.cls = "ptr" /\ t.pointee = "i8"

VARIABLES
    imports,  \* DataFlowGraph.imports: FunctionIdent -> Signature
    ret,      \* the last import_function call: [id, sig, kind "ok"/"conflict"]
    globals,  \* DataFlowGraph.globals: <<GlobalValueData>>, key = index
    insts     \* the call and global instructions built, in order

vars == <<imports, ret, globals, insts>>

\* GlobalValueData: Symbol, IAddImm { base, .. } or Load { base, ty }.
Symbol == [kind |-> "symbol", base |-> 0, ty |-> None]
IAddImm(b) == [kind |-> "iadd", base |-> b, ty |-> None]
Load(b, t) == [kind |-> "load", base |-> b, ty |-> t]

\* DataFlowGraph::default: no imports and no globals.
Init ==
    /\ imports = <<>>
    /\ ret = None
    /\ globals = <<>>
    /\ insts = <<>>

-----------------------------------------------------------------------------
(* The import table                                                       *)

\* DataFlowGraph::get_import
GetImport(id) == IF id \in DOMAIN imports THEN imports[id] ELSE None

\* Mutant: import_function that overwrites an existing entry.
ImportFunctionOverwrite(id, sig) ==
    /\ imports' = (id :> sig) @@ imports
    /\ ret' = [id |-> id, sig |-> sig, kind |-> "ok"]
    /\ UNCHANGED <<globals, insts>>

\* Mutant: import_function that never compares signatures.
ImportFunctionNoCompare(id, sig) ==
    /\ imports' = IF id \in DOMAIN imports THEN imports ELSE imports @@ (id :> sig)
    /\ ret' = [id |-> id, sig |-> sig, kind |-> "ok"]
    /\ UNCHANGED <<globals, insts>>

\* import_function: a vacant entry takes the signature; an occupied one is
\* kept, and the call fails with SymbolConflictError if the signatures
\* differ.
ImportFunction(id, sig) ==
    /\ imports' = IF id \in DOMAIN imports THEN imports ELSE imports @@ (id :> sig)
    /\ ret' = [id |-> id, sig |-> sig,
               kind |-> IF id \in DOMAIN imports /\ imports[id] # sig
                        THEN "conflict" ELSE "ok"]
    /\ UNCHANGED <<globals, insts>>

\* call_signature: Some(imports[f].signature) for a call, which panics
\* (HashMap indexing) when f was never imported.
CallSignature(f) == imports[f]

\* append_inst of a call: make_results takes the result types from
\* call_signature.  A callee that is not imported panics there: the guard.
BuildCall(f, as) ==
    /\ Len(insts) < MaxInsts
    /\ f \in DOMAIN imports
    /\ insts' = Append(insts, [op |-> "call", callee |-> f, gv |-> 0,
                               args |-> as, res |-> CallSignature(f).results])
    /\ UNCHANGED <<imports, ret, globals>>

-----------------------------------------------------------------------------
(* Global values                                                          *)

\* The GlobalValueData a caller can build when k globals exist: a base is
\* a GlobalValue that create_global_value returned.
GlobalData(k) ==
    {Symbol} \cup {IAddImm(b) : b \in 1..k} \cup {Load(b, t) : b \in 1..k, t \in Tys}

\* Mutant: the new global put in front of the others, shifting their keys.
CreateGlobalValuePrepend(data) ==
    /\ Len(globals) < MaxGlobals
    /\ globals' = <<data>> \o globals
    /\ UNCHANGED <<imports, ret, insts>>

\* create_global_value: push onto the PrimaryMap.
CreateGlobalValue(data) ==
    /\ Len(globals) < MaxGlobals
    /\ globals' = Append(globals, data)
    /\ UNCHANGED <<imports, ret, insts>>

\* global_value
GlobalValue(gv) == globals[gv]

\* is_global_addr: a Symbol or IAddImm is an address; a Load is one if
\* its base is.
RECURSIVE IsGlobalAddr(_)
IsGlobalAddr(gv) ==
    \/ GlobalValue(gv).kind \in {"symbol", "iadd"}
    \/ IsGlobalAddr(GlobalValue(gv).base)

\* global_type: a Symbol is a *i8, an IAddImm has its base's type, a Load
\* the type it loads.
RECURSIVE GlobalType(_)
GlobalType(gv) ==
    CASE GlobalValue(gv).kind = "symbol" -> PtrI8
      [] GlobalValue(gv).kind = "iadd"   -> GlobalType(GlobalValue(gv).base)
      [] GlobalValue(gv).kind = "load"   -> GlobalValue(gv).ty

\* append_inst of `global gv` with controlling type ctrl: Opcode::results
\* gives <<ctrl>>.
BuildGlobal(gv, ctrl) ==
    /\ Len(insts) < MaxInsts
    /\ insts' = Append(insts, [op |-> "global", callee |-> None, gv |-> gv,
                               args |-> <<>>, res |-> <<ctrl>>])
    /\ UNCHANGED <<imports, ret, globals>>

Next ==
    \/ \E id \in Idents, sig \in Sigs : ImportFunction(id, sig)
    \/ \E f \in Idents, as \in BoundedSeq(Tys, MaxParams) : BuildCall(f, as)
    \/ \E data \in GlobalData(Len(globals)) : CreateGlobalValue(data)
    \/ \E gv \in DOMAIN globals, t \in Tys : BuildGlobal(gv, t)

Spec == Init /\ [][Next]_vars

-----------------------------------------------------------------------------
(* TypeCheck of the call and global instructions                          *)

\* invalid_instruction!("no signature is available for {callee}")
NoSignature == [kind |-> "invalid_instruction", expected |-> 0, actual |-> 0, index |-> 0]

ExactAll(ts) == [k \in DOMAIN ts |-> TP!Exact(ts[k])]

\* InstTypeChecker::new for Call (the import's signature as exact
\* patterns) and GlobalValue (by the kind of global_value(gv)).
InstPatternOf(i) ==
    IF i.op = "call"
    THEN TP!Pat("exact", ExactAll(GetImport(i.callee).params),
                ExactAll(GetImport(i.callee).results))
    ELSE IF GlobalValue(i.gv).kind = "load"
         THEN TP!Pat("exact", <<>>, <<TP!Exact(GlobalValue(i.gv).ty)>>)
         ELSE TP!Pat("exact", <<>>, <<TP!TP("pointer")>>)

\* The verdict of TypeCheck on instruction i: InstTypeChecker::new, then
\* check(args, results).
CheckInst(i) ==
    IF i.op = "call" /\ GetImport(i.callee) = None THEN NoSignature
    ELSE TP!IntoMatch(InstPatternOf(i), i.args, i.res)

-----------------------------------------------------------------------------
(* Properties                                                             *)

Verdicts == {TP!Ok, NoSignature} \cup
    [kind : {"incorrect_argument_count", "incorrect_result_count",
             "incorrect_argument_type", "invalid_result_type"},
     expected : 0..MaxParams, actual : 0..MaxParams, index : 0..MaxParams]

\* Type invariant, including that the base of every global value is a
\* global created before it (so that the recursions of is_global_addr
\* and global_type end), and that every instruction gets a verdict of the
\* kinds an exact pattern can give.
TypeOK ==
    /\ imports \in UNION {[D -> Sigs] : D \in SUBSET Idents}
    /\ ret \in [id : Idents, sig : Sigs, kind : {"ok", "conflict"}] \cup {None}
    /\ globals \in Seq(UNION {GlobalData(k) : k \in 0..MaxGlobals})
    /\ \A g \in DOMAIN globals : globals[g] \in GlobalData(g - 1)
    /\ \A k \in 1..Len(insts) : CheckInst(insts[k]) \in Verdicts

\* import_function returns Ok exactly when the table then holds the
\* signature it was given (spec: importing twice with the same signature
\* succeeds, with a different one fails with a conflict).
ImportOkIffRegistered ==
    ret # None => (ret.kind = "ok" <=> imports[ret.id] = ret.sig)

\* Every call the graph built stays resolvable, and TypeCheck accepts it
\* exactly when its operands have its import's parameter types: the
\* results make_results gave it from call_signature still agree with the
\* import table however many import_function calls came after.
CallsCheckAgainstImports ==
    \A k \in 1..Len(insts) : insts[k].op = "call" =>
      /\ GetImport(insts[k].callee) # None
      /\ (CheckInst(insts[k]) = TP!Ok <=> insts[k].args = imports[insts[k].callee].params)

=============================================================================
