--------------------------- MODULE ProgramBuilder ---------------------------
(***************************************************************************)
(* ProgramBuilder and ProgramModuleBuilder (hir/src/program/mod.rs), and   *)
(* the Program they link into.                                             *)
(*                                                                         *)
(* A module is abstracted to its name and the names of its functions.  The *)
(* builder's BTreeMap is a function from module names to function sets.    *)
(* While a ProgramModuleBuilder is alive it holds the builder by &mut, so  *)
(* the builder itself takes no call until the module builder is built or  *)
(* dropped: that is the guard open = None.  ModuleBuilder::function and    *)
(* the Linker are not in the sources and are modelled from the spec.       *)
(***************************************************************************)
EXTENDS FiniteSets, Functions, TLC

CONSTANTS
    ModNames,   \* module identifiers
    FnNames,    \* function identifiers
    None        \* Option::None

FunctionIdent == ModNames \X FnNames

VARIABLES
    modules,  \* ProgramBuilder.modules: module name -> its function names
    entry,    \* ProgramBuilder.entry: a FunctionIdent or None
    open,     \* the live ProgramModuleBuilder's module [name, fns], or None
    program,  \* the Program returned by link, or None before link
    ret       \* the Result of the last add_module or build: [call, ok]

vars == <<modules, entry, open, program, ret>>

\* ProgramBuilder::new
Init ==
    /\ modules = <<>>
    /\ entry = None
    /\ open = None
    /\ program = None
    /\ ret = None

Idle == open = None /\ program = None

\* with_entrypoint
WithEntrypoint(id) ==
    /\ Idle
    /\ entry' = id
    /\ UNCHANGED <<modules, open, program, ret>>

\* Mutant: add_module that inserts without the contains_key check,
\* replacing the module already there.
AddToOverwrite(ms, m, fs) == (m :> fs) @@ ms

\* add_module, on the map ms: a name already present is a conflict and
\* leaves the map as it was.
AddTo(ms, m, fs) == IF m \in DOMAIN ms THEN ms ELSE ms @@ (m :> fs)

\* add_module / with_module with a module built elsewhere.
AddModule(m, fs) ==
    /\ Idle
    /\ modules' = AddTo(modules, m, fs)
    /\ ret' = [call |-> "add_module", ok |-> m \notin DOMAIN modules]
    /\ UNCHANGED <<entry, open, program>>

\* Mutant: module(name) that copies the existing module, leaving it in
\* the map (so that build then meets a ModuleConflictError).
ModuleKeep(m) ==
    /\ Idle
    /\ open' = [name |-> m, fns |-> IF m \in DOMAIN modules THEN modules[m] ELSE {}]
    /\ UNCHANGED <<modules, entry, program, ret>>

\* module(name): take the module out of the map, or start a new one.
Module(m) ==
    /\ Idle
    /\ open' = [name |-> m, fns |-> IF m \in DOMAIN modules THEN modules[m] ELSE {}]
    /\ modules' = RestrictDomain(modules, LAMBDA x : x # m)
    /\ UNCHANGED <<entry, program, ret>>

\* ProgramModuleBuilder::function, delegating to ModuleBuilder::function:
\* a name already defined is a SymbolConflictError (spec section 4).
Function(f) ==
    /\ open # None
    /\ f \notin open.fns
    /\ open' = [open EXCEPT !.fns = @ \cup {f}]
    /\ UNCHANGED <<modules, entry, program, ret>>

\* ProgramModuleBuilder::build: pb.add_module(mb.build()).
Build ==
    /\ open # None
    /\ modules' = AddTo(modules, open.name, open.fns)
    /\ ret' = [call |-> "build", ok |-> open.name \notin DOMAIN modules]
    /\ open' = None
    /\ UNCHANGED <<entry, program>>

\* The ProgramModuleBuilder goes out of scope without build.
DropBuilder ==
    /\ open # None
    /\ open' = None
    /\ UNCHANGED <<modules, entry, program, ret>>

\* link: the Linker takes the entrypoint and every module (spec: linking is
\* an external collaborator, modelled as succeeding).
Link ==
    /\ Idle
    /\ program' = [entrypoint |-> entry, modules |-> modules]
    /\ UNCHANGED <<modules, entry, open, ret>>

\* Program::has_entrypoint: entrypoint.is_none(), the negation of what its
\* doc comment ("true if this program has a defined entrypoint") says.
HasEntrypoint == program.entrypoint = None

\* Program::is_executable: has_entrypoint(), inverted with it.
IsExecutable == HasEntrypoint

\* Program::entrypoint
Entrypoint == program.entrypoint

\* Program::contains: the module tree holds a module of that name.
Contains(m) == m \in DOMAIN program.modules

\* Program::signature: find the module (the `?` on a missing one), then
\* module.function(id.function).  A function stands for its signature.
Signature(id) ==
    IF id[1] \in DOMAIN program.modules /\ id[2] \in program.modules[id[1]]
    THEN id ELSE None

Next ==
    \/ \E id \in FunctionIdent : WithEntrypoint(id)
    \/ \E m \in ModNames, fs \in SUBSET FnNames : AddModule(m, fs)
    \/ \E m \in ModNames : Module(m)
    \/ \E f \in FnNames : Function(f)
    \/ Build
    \/ DropBuilder
    \/ Link

Spec == Init /\ [][Next]_vars

-----------------------------------------------------------------------------
(* Properties                                                             *)

\* Type invariant, including that while a ProgramModuleBuilder is open its
\* module is out of the builder's map (module(name) removed it).
TypeOK ==
    /\ DOMAIN modules \subseteq ModNames
    /\ \A m \in DOMAIN modules : modules[m] \subseteq FnNames
    /\ entry \in FunctionIdent \cup {None}
    /\ open \in [name : ModNames, fns : SUBSET FnNames] \cup {None}
    /\ open = None \/ open.name \notin DOMAIN modules
    /\ program \in [entrypoint : FunctionIdent \cup {None},
                    modules : UNION {[D -> SUBSET FnNames] : D \in SUBSET ModNames}]
                   \cup {None}
    /\ ret \in [call : {"add_module", "build"}, ok : BOOLEAN] \cup {None}

\* The functions the builder holds, as <<module, function>> pairs: in its
\* map, or in the open module builder.
Held == UNION {{m} \X modules[m] : m \in DOMAIN modules}
          \cup (IF open = None THEN {} ELSE {open.name} \X open.fns)

\* A function defined through the builder is lost only by dropping the
\* ProgramModuleBuilder that holds it (after module(name) took its module
\* out of the map, e.g. when function() fails and `?` returns early):
\* build never loses one, since it never meets the ModuleConflictError of
\* add_module for the module module(name) opened.
FunctionsLostOnlyByDrop ==
    [][Held \subseteq Held' \/ (open # None /\ open' = None /\ UNCHANGED <<modules, ret>>)]_vars

=============================================================================
