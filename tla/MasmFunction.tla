---------------------------- MODULE MasmFunction ----------------------------
(***************************************************************************)
(* A Miden Assembly function under construction (codegen/masm/src/masm/    *)
(* function.rs): its code blocks, its locals, and the procedure AST it is  *)
(* lowered to.                                                             *)
(*                                                                         *)
(* A local of a type occupying w words gets the id of the next free word   *)
(* and reserves w words; a type is abstracted to its size in words.  An    *)
(* Op is abstracted to its control structure: If(then, else), While(body), *)
(* Repeat(n, body), or any other op, which lowers to straight-line nodes.  *)
(* The AST body is the pre-order sequence of node tokens emit_block        *)
(* produces, each block closed by "end".                                   *)
(*                                                                         *)
(* to_function_ast runs emit_block's recursion step by step: a frame per   *)
(* active emit_block call, holding its block and the index of its next op  *)
(* (the for loop's position).  An If pushes the else block's frame under   *)
(* the then block's, so that the then case is emitted first.  A recursion  *)
(* into a block that is already being emitted never ends (the block        *)
(* replays the same ops): the model stops there, in phase "overflow",      *)
(* where the program aborts on stack overflow.                             *)
(***************************************************************************)
EXTENDS Naturals, Sequences, SequencesExt, FiniteSets, Relation

CONSTANTS
    WordSizes,  \* Type::size_in_words of the types given to alloc_local
    MaxLocals,  \* bound on alloc_local calls
    MaxBlocks,  \* bound on the blocks: the body and create_block calls
    MaxOps,     \* bound on the ops pushed into blocks, over all blocks
    None

U8Max == 255

VARIABLES
    locals,         \* Function.locals: <<[id, words]>> in allocation order
    next_local_id,  \* Function.next_local_id
    blocks,         \* Function.blocks: block id -> its ops; block 1 is the body
    phase,          \* "build", "emit" (inside to_function_ast) or "overflow"
    stack,          \* the emit_block frames [blk, pc], innermost last
    out,            \* the nodes emitted so far
    ast             \* the last ProcedureAst of to_function_ast, with the
                    \* locals it was made from, or None

vars == <<locals, next_local_id, blocks, phase, stack, out, ast>>

\* The Op forms (masm::Op): a is the then/body block, b the else block.
OtherOp == [kind |-> "op", a |-> 0, b |-> 0]
While(x) == [kind |-> "while", a |-> x, b |-> 0]
Repeat(x) == [kind |-> "repeat", a |-> x, b |-> 0]
If(x, y) == [kind |-> "if", a |-> x, b |-> y]

\* The ops a caller can push when n blocks exist: a block reference is a
\* BlockId that Function::new or create_block returned.
OpsOver(n) ==
    {OtherOp} \cup {While(x) : x \in 1..n} \cup {Repeat(x) : x \in 1..n}
      \cup {If(x, y) : x, y \in 1..n}

\* Function::new: the body block, empty, and no locals.
Init ==
    /\ locals = <<>>
    /\ next_local_id = 0
    /\ blocks = <<<<>>>>
    /\ phase = "build"
    /\ stack = <<>>
    /\ out = <<>>
    /\ ast = None

Building == phase = "build"

\* Mutant: alloc_local without its assertion.
AllocLocalUnchecked(num_words) ==
    /\ Building
    /\ Len(locals) < MaxLocals
    /\ locals' = Append(locals, [id |-> next_local_id, words |-> num_words])
    /\ next_local_id' = next_local_id + num_words
    /\ UNCHANGED <<blocks, phase, stack, out, ast>>

\* Mutant: alloc_local advancing next_local_id by one word.
AllocLocalOneWord(num_words) ==
    /\ Building
    /\ Len(locals) < MaxLocals
    /\ next_local_id + num_words < U8Max
    /\ locals' = Append(locals, [id |-> next_local_id, words |-> num_words])
    /\ next_local_id' = next_local_id + 1
    /\ UNCHANGED <<blocks, phase, stack, out, ast>>

\* alloc_local: assert that the local ends below u8::MAX, then take the
\* next word as its id and reserve num_words words.
AllocLocal(num_words) ==
    /\ Building
    /\ Len(locals) < MaxLocals
    /\ next_local_id + num_words < U8Max
    /\ locals' = Append(locals, [id |-> next_local_id, words |-> num_words])
    /\ next_local_id' = next_local_id + num_words
    /\ UNCHANGED <<blocks, phase, stack, out, ast>>

\* create_block: push an empty block.
CreateBlock ==
    /\ Building
    /\ Len(blocks) < MaxBlocks
    /\ blocks' = Append(blocks, <<>>)
    /\ UNCHANGED <<locals, next_local_id, phase, stack, out, ast>>

NumOps == FoldFunctionOnSet(LAMBDA ops, n : Len(ops) + n, 0, blocks, DOMAIN blocks)

\* block_mut(id).ops.push(op)
PushOp(id, op) ==
    /\ Building
    /\ NumOps < MaxOps
    /\ blocks' = [blocks EXCEPT ![id] = Append(@, op)]
    /\ UNCHANGED <<locals, next_local_id, phase, stack, out, ast>>

\* The num_locals of to_function_ast: the number of locals allocated.
NumLocals == Len(locals)

\* The blocks of the emit_block calls in progress on stack s.
Calls(s) == {s[k].blk : k \in DOMAIN s}
\* A new emit_block call for block x: the else block still owed after it.
Call(x, els) == [blk |-> x, pc |-> 1, els |-> els]

\* to_function_ast: emit_block(self.body, ..).
ToFunctionAst ==
    /\ Building
    /\ phase' = "emit"
    /\ stack' = <<Call(1, 0)>>
    /\ out' = <<>>
    /\ UNCHANGED <<locals, next_local_id, blocks, ast>>

Top == stack[Len(stack)]
TopOp == blocks[Top.blk][Top.pc]
Advanced == Append(Front(stack), [Top EXCEPT !.pc = @ + 1])

\* emit_block's for loop at an op other than If, While and Repeat:
\* ops.extend(op.into_node(..)).
EmitOp ==
    /\ phase = "emit" /\ stack # <<>>
    /\ Top.pc <= Len(blocks[Top.blk])
    /\ TopOp.kind = "op"
    /\ stack' = Advanced
    /\ out' = Append(out, "op")
    /\ UNCHANGED <<locals, next_local_id, blocks, phase, ast>>

\* Mutant: While/Repeat recursing without moving past the loop op.
EmitLoopNoAdvance ==
    /\ phase = "emit" /\ stack # <<>>
    /\ Top.pc <= Len(blocks[Top.blk])
    /\ TopOp.kind \in {"while", "repeat"}
    /\ TopOp.a \notin Calls(stack)
    /\ stack' = Append(stack, Call(TopOp.a, 0))
    /\ out' = Append(out, TopOp.kind)
    /\ UNCHANGED <<locals, next_local_id, blocks, phase, ast>>

\* Op::While(blk) and Op::Repeat(n, blk): recurse into blk.
EmitLoop ==
    /\ phase = "emit" /\ stack # <<>>
    /\ Top.pc <= Len(blocks[Top.blk])
    /\ TopOp.kind \in {"while", "repeat"}
    /\ TopOp.a \notin Calls(stack)
    /\ stack' = Append(Advanced, Call(TopOp.a, 0))
    /\ out' = Append(out, TopOp.kind)
    /\ UNCHANGED <<locals, next_local_id, blocks, phase, ast>>

\* Mutant: the else case emitted before the then case.
EmitIfSwapped ==
    /\ phase = "emit" /\ stack # <<>>
    /\ Top.pc <= Len(blocks[Top.blk])
    /\ TopOp.kind = "if"
    /\ TopOp.b \notin Calls(stack)
    /\ stack' = Append(Advanced, Call(TopOp.b, TopOp.a))
    /\ out' = Append(out, "if")
    /\ UNCHANGED <<locals, next_local_id, blocks, phase, ast>>

\* Op::If(then_blk, else_blk): the true_case emit_block call, which owes
\* the false_case call when it returns.
EmitIf ==
    /\ phase = "emit" /\ stack # <<>>
    /\ Top.pc <= Len(blocks[Top.blk])
    /\ TopOp.kind = "if"
    /\ TopOp.a \notin Calls(stack)
    /\ stack' = Append(Advanced, Call(TopOp.a, TopOp.b))
    /\ out' = Append(out, "if")
    /\ UNCHANGED <<locals, next_local_id, blocks, phase, ast>>

\* A recursion into a block whose emit_block call is still in progress:
\* it replays the same ops forever and never returns.
Overflow ==
    /\ phase = "emit" /\ stack # <<>>
    /\ \/ /\ Top.pc <= Len(blocks[Top.blk])
          /\ TopOp.kind # "op"
          /\ TopOp.a \in Calls(stack)
       \/ /\ Top.pc > Len(blocks[Top.blk])
          /\ Top.els \in Calls(Front(stack))
    /\ phase' = "overflow"
    /\ UNCHANGED <<locals, next_local_id, blocks, stack, out, ast>>

\* The end of emit_block's loop: CodeBody::new(ops) returns to the caller.
EmitEnd ==
    /\ phase = "emit" /\ stack # <<>>
    /\ Top.pc > Len(blocks[Top.blk])
    /\ Top.els = 0
    /\ stack' = Front(stack)
    /\ out' = Append(out, "end")
    /\ UNCHANGED <<locals, next_local_id, blocks, phase, ast>>

\* The true_case call returns and the If arm calls emit_block(else_blk).
EmitElse ==
    /\ phase = "emit" /\ stack # <<>>
    /\ Top.pc > Len(blocks[Top.blk])
    /\ Top.els # 0
    /\ Top.els \notin Calls(Front(stack))
    /\ stack' = Append(Front(stack), Call(Top.els, 0))
    /\ out' = Append(out, "end")
    /\ UNCHANGED <<locals, next_local_id, blocks, phase, ast>>

\* to_function_ast returns the ProcedureAst: num_locals and the body.
Finish ==
    /\ phase = "emit" /\ stack = <<>>
    /\ phase' = "build"
    /\ ast' = [num_locals |-> NumLocals, locals |-> locals, body |-> out]
    /\ UNCHANGED <<locals, next_local_id, blocks, stack, out>>

Emit == EmitOp \/ EmitLoop \/ EmitIf \/ EmitElse \/ Overflow \/ EmitEnd \/ Finish

Next ==
    \/ \E w \in WordSizes : AllocLocal(w)
    \/ CreateBlock
    \/ \E id \in DOMAIN blocks, op \in OpsOver(Len(blocks)) : PushOp(id, op)
    \/ ToFunctionAst
    \/ Emit

Spec == Init /\ [][Next]_vars

-----------------------------------------------------------------------------
(* Properties                                                             *)

\* The words local l occupies.
Words(l) == l.id .. (l.id + l.words - 1)

Ops == OpsOver(MaxBlocks)

\* The type invariant includes that every local id, and next_local_id,
\* stay within the u8 range of a LocalId.
TypeOK ==
    /\ locals \in Seq([id : 0..U8Max, words : WordSizes])
    /\ next_local_id \in 0..U8Max
    /\ blocks \in Seq(Seq(Ops)) /\ Len(blocks) \in 1..MaxBlocks
    /\ phase \in {"build", "emit", "overflow"}
    /\ stack \in Seq([blk : 1..MaxBlocks, pc : 1..MaxOps + 1, els : 0..MaxBlocks])
    /\ ast \in [num_locals : 0..MaxLocals, locals : Seq([id : 0..U8Max, words : WordSizes]),
                body : Seq({"op", "while", "repeat", "if", "end"})] \cup {None}

\* The locals that alloc_local hands out occupy disjoint words and
\* next_local_id is the first word past them: Function::local(id) finds
\* the one local of an id, whatever the sequence and sizes of allocations.
LocalFramesDisjoint ==
    /\ \A i, j \in DOMAIN locals : i # j => Words(locals[i]) \cap Words(locals[j]) = {}
    /\ \A i \in DOMAIN locals : locals[i].id + locals[i].words <= next_local_id

\* The procedure to_function_ast emits reserves every word its locals
\* occupy: loc_load/loc_store of a local id address a word below
\* num_locals.
AstFrameCoversLocals ==
    ast # None => \A l \in ToSet(ast.locals) : \A w \in Words(l) : w < ast.num_locals

\* The blocks an op of block x names, and whether the recursion from the
\* body can come back to a block it is inside.
Refs(x) == ({blocks[x][i].a : i \in DOMAIN blocks[x]} \cup {blocks[x][i].b : i \in DOMAIN blocks[x]}) \ {0}
Reach == TransitiveClosure([p \in (DOMAIN blocks) \X (DOMAIN blocks) |-> p[2] \in Refs(p[1])], DOMAIN blocks)
BodyFinite == \A x \in DOMAIN blocks : (x = 1 \/ Reach[1, x]) => ~Reach[x, x]

\* The reference lowering, by structural recursion: a block is its ops'
\* nodes followed by "end"; If nests its then and else blocks, While and
\* Repeat their body.
RECURSIVE Lower(_), LowerOp(_)
Lower(x) == FlattenSeq([i \in DOMAIN blocks[x] |-> LowerOp(blocks[x][i])]) \o <<"end">>
LowerOp(op) ==
    CASE op.kind = "op" -> <<"op">>
      [] op.kind = "if" -> <<"if">> \o Lower(op.a) \o Lower(op.b)
      [] OTHER          -> <<op.kind>> \o Lower(op.a)

\* What a frame still has to emit: its remaining ops, "end", and the
\* else block it owes.
Rest(f) ==
    FlattenSeq([i \in 1..(Len(blocks[f.blk]) - f.pc + 1) |-> LowerOp(blocks[f.blk][f.pc + i - 1])])
      \o <<"end">> \o (IF f.els = 0 THEN <<>> ELSE Lower(f.els))
Pending == FlattenSeq([k \in DOMAIN stack |-> Rest(stack[Len(stack) - k + 1])])

\* While to_function_ast runs on a body whose blocks never contain
\* themselves, what it has emitted followed by what its active emit_block
\* calls still owe is exactly the reference lowering of the body: the
\* procedure nests every If, While and Repeat body in its op, in order,
\* however blocks are shared.
EmitMatchesLowering ==
    phase = "emit" /\ BodyFinite => out \o Pending = Lower(1)

=============================================================================
