# TLA+ models of miden-ir

These modules model the intermediate representation (IR) of the Miden compiler. The IR is the data-flow graph of a function, the ordered arena maps beneath it, and the validation rules run over it. The project also models the program builder and the MASM function lowering. Every definition is written from the sources under `src/`; `PROJECT.json` maps each one to the lines it stands for.

## The system and how its parts interact

- **`hir/src/layout.rs`**
  - An `ArenaMap` is a vector of optional pointers into an arena that only grows.
  - An `OrderedArenaMap` threads an intrusive linked list through some of the arena's nodes.
  - Blocks within a function and instructions within a block are both laid out this way.
- **`hir/src/dataflow.rs`: the `DataFlowGraph`.** It is built by a frontend through a sequence of calls:
  - create blocks;
  - insert instructions, whose result values come from `Opcode::results` in `hir/src/instruction.rs`;
  - add block parameters;
  - rewrite instructions (`replace_results`, `replace_uses`);
  - detach blocks.
- **`hir-analysis/src/validation/`: three rules per linked block.**
  - `BlockValidator` checks structure.
  - `DefsDominateUses` checks dominance, against an external `DominatorTree`.
  - `TypeCheck` checks types, through the `InstPattern`s built by `InstTypeChecker::new`.
  - The frontend relies on validation to reject a bad graph.
- **`hir/src/program/mod.rs`: `ProgramBuilder`.** It collects modules and hands them to a `Linker`, which is not in the sources.
- **`codegen/masm/src/masm/function.rs`: a Miden Assembly function.** It has code blocks and locals. `to_function_ast` lowers it to a `ProcedureAst` by recursing through the blocks that its `If`, `While` and `Repeat` ops name. Nothing stops a builder from making a block name one of its own ancestors.

Everything is single-threaded and synchronous (spec section 5). No operation runs concurrently with another, nothing is persisted, and there is no message passing. The hard cases are therefore long sequences of legal calls, not interleavings.

## Modules

| Module | Models | State ↔ code |
|---|---|---|
| `Layout` | What an `OrderedArenaMap` promises (abstract) | `created` = keys allocated; `order` = linked keys; `val` = what `get` answers per key, for linked keys only (its doc: "if present and linked") |
| `OrderedArenaMap` | `ArenaMap` + `OrderedArenaMap` | `keys` = `ArenaMap.keys` (0 = None); `nodes` = arena; `list` = intrusive list |
| `DataFlowGraph` | `DataFlowGraph` builder calls | layout, `params`, `body` (`BlockData.insts`), `inst`, `home` (`InstNode.block`), `results`, `value` (`ValueData`) |
| `Validation` | `BlockValidator`, `DefsDominateUses`, `TypeCheck` over a `DataFlowGraph` | operators returning `"ok"` or the first error, in the code's order of checks |
| `TypePatterns` | `TypePattern::matches`, `into_match`, `into_match_with_immediate` and helpers, `InstTypeChecker::new`, the instruction forms `TypeCheck::validate` rejects, `Opcode::num_fixed_args`/`results`/`is_commutative`/`has_side_effects`, the `Switch` arm checks of `TypeCheck::validate` | one instruction per behaviour: `op`, `args`, `imm` (the immediate's type, or none), `res` types, a switch's `arms` and default successor `dflt`, and the checker's `verdict` |
| `DfgExternals` | The `DataFlowGraph`'s import table, global-value table, and the `call` and `global` instructions built on them, with their `TypeCheck` patterns | `imports` (`FunctionIdent` → signature), `ret` (result of the last `import_function`), `globals` (`PrimaryMap` as a sequence), `insts` (opcode, callee or global, operand and result types) |
| `ProgramBuilder` | `ProgramBuilder`, `ProgramModuleBuilder`, and the `Program` queries `entrypoint`, `contains`, `signature`, `has_entrypoint`, `is_executable` (as operators over `program`) | `modules` (name → function names), `entry`, `open` (live module builder), `program`, `ret` (result of the last `add_module` or `build`) |
| `MasmFunction` | `Function::new`, `alloc_local`, `create_block`, ops pushed through `block_mut`, `to_function_ast` and `emit_block` | `locals`, `next_local_id`, `blocks` (each block's ops: a plain op, or `If`/`While`/`Repeat` with block ids), `phase` (building, emitting, or a recursion that never returns), `stack` (the `emit_block` calls in progress: block, next op, and the else block an `If`'s then call still owes), `out` (the emitted nodes in preorder, each body closed by `end`), `ast` |

The `MC*` modules only give the constants values.

Each action models one whole public call:
- guards are the code's early returns and panics;
- `UNCHANGED` lists what the call leaves alone.

Calls that the code leaves undefined are guards, so the model never takes them:
- a cursor built from an unlinked node;
- indexing a missing key;
- inserting next to a detached instruction;
- the `alloc_local` assertion.

`DebugAssertions` makes the `debug_assert!`s guards, as in a debug build.

Definitions modelled from the spec, because their code is not under `src/`:
- the dominator tree: the iterative dominator fixpoint over reachable blocks;
- `ModuleBuilder::function`'s conflict check;
- the `Linker`;
- the abstract `Layout`;
- the `GlobalValueData` forms (`Symbol`, `IAddImm`, `Load`), whose type is not under `src/`.

The `DataFlowGraph` models these opcodes:
- an integer immediate;
- `add`, `eq` and `assert.eq`;
- `br`, `condbr` and `ret`.

That set contains a value producer, a predicate, a no-result instruction, and single- and multi-destination branches. `TypePatterns` covers the type patterns of 32 opcodes exhaustively, two of them immediate opcodes (`imm_i1`, `imm_u32`, standing for `ImmI1` .. `ImmF64`). Every opcode may be given an immediate, as `UnaryOpImm`, `BinaryOpImm` and `PrimOpImm` allow. `DfgExternals` covers `call` and `global`, whose patterns depend on the import and global tables.

## Runs

Passing runs:

| Run (cfg) | Checks | Shows |
|---|---|---|
| `MCValidation.cfg` | `TypeOK`, `ProducersAgree`, `ValidatedGraphWellFormed` | A graph built by any calls keeps every value's producer and index right. When all three rules accept a graph, its blocks end in their only terminator, successors are linked and distinct, and no instruction uses its own result. Every live value used in a reachable block is defined on every path to the use, and jump arguments match their target's parameters. |
| `MCOrderedArenaMap.cfg` | `TypeOK`, `ListHoldsCurrentNodes`, `ImplementsLayout` | The list never holds a stale or repeated node. The map refines `Layout` (`INSTANCE Layout WITH ...`): keys are handed out in order, and the key `push`/`push_after` returns is the one it links. No operation reorders the linked keys, and a linked key keeps its value until `remove`. The mapping shows a value only for a linked key, following `get`'s doc comment. Whether `get`, `contains` and `len` still answer for a removed key is the question of `MCOrderedArenaMap_contains.cfg`. The abstract layout allows an insertion at any position, so the refinement does not tell `insert_before` from `insert_after`. |
| `MCTypePatterns.cfg` | `TypeOK`, `CheckerMatchesSpec`, `CommutedOperandsTypeCheck`, `PureAcceptedHasResult`, `SwitchArmsMatchSpec` | For each non-cast opcode and every operand/result type list, with or without an immediate, the checker accepts exactly what spec section 4.4 describes, with the immediate as the last operand. An error names an existing operand or a wrong count, and a count error counts the immediate. The opcode metadata of `instruction.rs` agrees with the checker. For the opcodes `is_commutative` lists, swapping the two operands never changes the verdict. Every accepted instruction of an opcode that `has_side_effects` calls pure has a result, so a dead-code pass cannot drop an assertion or a store. A `switch` whose operand type-checks is accepted exactly when its arms have distinct discriminants and no arm or default successor has block parameters (spec section 9). A duplicate is reported citing two arms with the same discriminant. |
| `MCProgramBuilder.cfg` | `TypeOK`, `FunctionsLostOnlyByDrop` | While a module builder is open, its module is out of the builder's map. A module's functions, or those of an open module builder, disappear only when an open module builder is dropped without `build`. `module(name)` takes an existing module out of the map, so such a drop loses it (spec-silent; see below). Every other sequence of calls, including a failing `add_module` or `build`, keeps them. |
| `MCDfgExternals.cfg` | `TypeOK`, `ImportOkIffRegistered`, `CallsCheckAgainstImports` | `import_function` returns `Ok` exactly when the table then holds the signature it was given. Every call built stays resolvable. `TypeCheck` accepts a call exactly when its operands have its import's parameter types, however many re-imports with other signatures came after. Every global's base is a global created before it, so `is_global_addr` and `global_type` terminate. |
| `MCMasmFunction.cfg` | `TypeOK`, `LocalFramesDisjoint`, `EmitMatchesLowering` | Locals occupy disjoint words within the u8 range, and `next_local_id` is past all of them. On a body whose blocks never contain themselves, `to_function_ast`, one `emit_block` call at a time, produces exactly the structural lowering of the body. Each `If`, `While` and `Repeat` has its blocks nested in order, and a block shared by several ops is emitted once per reference. A body that names an enclosing block reaches `overflow`, and no run checks those bodies (see the hazards). |

Violation runs: each one is a finding in `PROJECT.json`.

| Cfg | Property | What TLC finds |
|---|---|---|
| `MCValidation_orphan.cfg` | `ValidatedUsesHaveLiveProducer` | A rewrite to `assert.eq` truncates a result that a `br` still passes, and validation accepts the graph. |
| `MCOrderedArenaMap_contains.cfg` | `ContainsAndLenCountLinked` | After `push` then `remove`, `contains`/`len` still count the key. |
| `MCTypePatterns_CastWidthLaw.cfg` | `CastWidthLaw` | `trunc i1 -> i1` is accepted; casts between equal widths pass. |
| `MCTypePatterns_OpcodeShapesAgree.cfg` | `OpcodeShapesAgree` | `memory_grow` is made with no results, but its pattern needs one. |
| `MCOrderedArenaMap_clone.cfg` | `CloneKeepsLayout` | `create`, `append`, `remove`, then `clone`: the clone links the removed key again. `clone` walks the keys in key order and pushes every key that still has a pointer, and `remove` leaves the pointer. The doc comment of `remove` offers cloning as garbage collection. The clone also lists entries in key order, losing `insert_before` orderings. |
| `MCMasmFunction_frame.cfg` | `AstFrameCoversLocals` | A 127-word local gets a procedure that declares 1 local word. |

Every property of a passing run has a mutant in `PROJECT.json`: an operator placed just before the definition it replaces, reproducing a plausible bug, that TLC finds breaks the property. The mutants include:
- dropping the `terminator_in_middle` check;
- treating block parameters as always dominating;
- `next_local_id += 1`;
- `module()` not removing the module;
- `add_module` replacing an existing module instead of reporting the conflict;
- `import_function` overwriting an existing import, or never comparing signatures;
- `into_match_with_immediate` not counting the immediate in its count error;
- `create_global_value` shifting existing keys;
- `push_after` inserting under the key before the one `alloc_key` made;
- `emit_block` emitting an `If`'s else block before its then block;
- `shl` listed as commutative, and `assert` missing from the effectful opcodes;
- the switch discriminant check comparing each arm with the one before it only.

## Bounds and why they suffice

- **Graphs: 2 blocks, 2 instructions, 2 values, 2 types, one-argument jump tables.** These reach:
  - terminators in the middle of a block;
  - branches to detached blocks and duplicate successors;
  - self-uses;
  - uses across blocks, in both dominance directions, and in unreachable blocks;
  - argument count and type mismatches;
  - rewrites that grow or cut results.

  Counterexamples to the properties need at most 4 calls, well within these bounds. The else branch of a `condbr` takes no arguments, to keep the state space small; the then branch carries them.
- **Ordered arena map: 3 keys, 4 nodes, 2 values.** Inserts can go before and after both ends, and after a `remove`. With `DebugAssertions = TRUE`, a removed key keeps its pointer and cannot be linked again. So each key gets at most one node, and `MaxNodes = 4` is never the binding bound.
- **Type patterns: 7 types, up to 3 operands and 1 result.** The types are i1, u8, i8, u32, i32, felt and ptr. They give every type class, a pointer with a pointee, and equal, wider and narrower widths. The check is exhaustive over every opcode.
- **Program builder: 2 module names and 2 function names.** This allows a module with no functions next to one with some, re-opening a module that `add_module` supplied, and a conflicting `add_module`.
- **Externals: 3 types (i1, u32, `*i8`), 2 function identifiers, 3 signatures, 2 instructions, 3 globals, calls of up to 1 operand.** The signatures share their parameters or their results, so a re-import can differ from the first import in either. Two instructions allow a call before and after a re-import. Three globals allow a `Load` or `IAddImm` over a `Symbol`, a `Load` of a non-pointer, and chains of two, such as an `IAddImm` over a `Load` of a `u32`.
- **Switch: 2 discriminants, 2 successors (one with block parameters), up to 3 arms.** Three arms over two discriminants give a duplicate that is not adjacent. The arms are enumerated only for a switch whose operand types pass, because the code returns the type error before it reads them.
- **Type patterns with immediates:** an instruction with an immediate has at most 2 value operands. This covers `BinaryOpImm` and the 3-operand form of `PrimOpImm`.
- **MASM function: word sizes 1 and 127, 3 locals, 3 blocks and 2 ops over all blocks.** Two 127-word locals reach the `u8::MAX` assertion. 3 blocks and 2 ops build every body shape that matters:
  - nested and sequential `If`/`While`/`Repeat`;
  - a block shared by the then and else of one `If`, or by two ops;
  - a loop on the body;
  - an `If` whose else is an enclosing block.

## Fairness

The code is a library of synchronous calls, and a caller may stop at any point. So no builder call is fair, and the runs whose bounds end every behaviour say `CHECK_DEADLOCK FALSE`.

No liveness property is checked. On a body whose blocks never contain themselves, `to_function_ast`'s return follows from the shape of its recursion. On a body that contains itself it never returns, and the model reaches that case as its `overflow` step. Neither case needs a fairness assumption to state it.

## Not modelled

- **Out of reach, or nothing to model faithfully:**
  - `display.rs`, which only formats;
  - `ir/src/codegen.rs`, an unfinished stub;
  - the frontend test harness;
  - `switch` in the data-flow graph and validation models (its arm checks are in `TypePatterns`), `syscall`, `RetImm`, and inline assembly;
  - immediate opcodes other than `ImmI1` and `ImmU32`: their patterns differ only in the exact type;
  - `into_match_with_immediate`'s panic on the `Empty` pattern, which is a guard;
  - the `ExternalFunction`'s calling convention and linkage, which enter signature comparison only as more ways to differ;
  - the MASM instruction behind a plain op (`into_node`), and `Repeat`'s count, which do not change the control of `emit_block`;
  - the MASM function's name and signature: `to_function_ast` panics on a name that is not a valid procedure name (a hazard without a property);
  - `ArenaMap`'s own `push`/`remove`/`take`;
  - `Program`'s global-variable and data-segment tables: `GlobalVariableTable` and `DataSegmentTable` are not defined under `src/`, and `program/mod.rs` only hands out references to them.
- **Hazards with no property yet:** `PROJECT.json` lists them with the reason.

## Observations outside the runs

- **`global_type` against the type checker.** `DataFlowGraph::global_type` (dataflow.rs:118) gives an `IAddImm` its base's type. `InstTypeChecker::new` (typecheck.rs:992) requires a pointer result for every `IAddImm`. Take an `IAddImm` over a `Load` of a `u32`: `global_type` gives `u32`, and a `global_value` instruction of that type is rejected. The 3-global bound of `MCDfgExternals` reaches this chain. No run checks it, because all twelve run slots hold other findings.
- **`Program::has_entrypoint`** returns `entrypoint.is_none()`, the opposite of its doc comment. `ProgramBuilder`'s `HasEntrypoint` and `IsExecutable` model it as written. The other `Program` queries are translated too. No property is stated over them: `link` hands the builder's map to a `Linker` that is outside the sources, and the model treats it as a plain copy, so they would read the copy back whatever the builder did. No run checks it: the error is a single line that a unit test reaches directly.
- **Re-opening a module.** `ProgramBuilder::module` takes an existing module out of the map and puts it back only on `build`. Dropping the module builder therefore loses the module, which the spec does not mention. `FunctionsLostOnlyByDrop` allows this one loss and checks that no other sequence of calls loses functions.
- **Globals.** `global_type` gives an `IAddImm` its base's type, while `TypeCheck` wants a pointer for it. `is_global_addr` calls a `Load` whose base is an address an address, whatever type it loads. Spec section 3 says neither, so no property takes a side.
- **Immediates and `Exact` patterns.** `into_match_with_immediate` checks an `Exact` pattern against the value operands alone: the immediate is neither counted nor typed. `CheckerMatchesSpec` leaves such instructions out.
- **Calls to a callee that was never imported** panic in `call_signature` while the call is being built. So the "no signature" error of `TypeCheck` cannot occur for a graph built through the `DataFlowGraph` API.
