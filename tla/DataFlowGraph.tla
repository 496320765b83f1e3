--------------------------- MODULE DataFlowGraph ---------------------------
(***************************************************************************)
(* The data-flow graph of one function (hir/src/dataflow.rs).              *)
(*                                                                         *)
(* Blocks, instructions and values are arena keys allocated in order, so   *)
(* they are the naturals 1..MaxBlocks, 1..MaxInsts, 1..MaxValues.  Block 1 *)
(* is the entry block created by DataFlowGraph::default.  The block layout *)
(* (an OrderedArenaMap, modelled on its own in OrderedArenaMap.tla) is     *)
(* abstracted to the sequence of linked block keys; a created block never  *)
(* loses its data, detaching only unlinks it.                              *)
(*                                                                         *)
(* Instructions keep the control-relevant shape of the Instruction enum:   *)
(* the opcode, arguments() (the operands outside any jump table), the jump *)
(* tables analyze_branch returns, and the type of an immediate.  Modelled  *)
(* opcodes: an integer immediate (UnaryOpImm), add / eq / assert.eq        *)
(* (BinaryOp), br, condbr and ret.                                         *)
(***************************************************************************)
EXTENDS Naturals, Sequences, SequencesExt, FiniteSets

CONSTANTS
    Types,          \* the value types, e.g. {"i1", "i32"}
    FnResults,      \* the result types of the function's signature
    MaxBlocks,      \* bound on block keys
    MaxInsts,       \* bound on instruction keys
    MaxValues,      \* bound on values
    MaxBranchArgs,  \* bound on the length of a jump table's argument list
    DebugAssertions \* TRUE for a debug build: debug_assert! aborts the call

ASSUME "i1" \in Types /\ FnResults \in Seq(Types)
ASSUME DebugAssertions \in BOOLEAN

Entry == 1
BlockId == 1..MaxBlocks
InstId == 1..MaxInsts
ValueId == 1..MaxValues

BinaryOps == {"add", "eq", "assert_eq"}
Opcodes == {"imm", "br", "condbr", "ret"} \cup BinaryOps

NoInst == [op |-> "none", args |-> <<>>, dests |-> <<>>, imm |-> "none"]
NoValue == [kind |-> "none", owner |-> 0, num |-> 0, ty |-> "none"]

VARIABLES
    nblocks,  \* block keys allocated by blocks.create()
    layout,   \* the blocks linked into the function body, in layout order
    params,   \* params[b]: BlockData.params, the block parameter values
    body,     \* body[b]: BlockData.insts, the instructions linked into b
    ninsts,   \* instruction keys allocated by insts.alloc_key()
    inst,     \* inst[i]: InstNode.data
    home,     \* home[i]: InstNode.block (0 for Block::default of a clone)
    results,  \* results[i]: DataFlowGraph.results[i]
    nvalues,  \* values allocated in DataFlowGraph.values
    value     \* value[v]: ValueData, its producer, position and type

vars == <<nblocks, layout, params, body, ninsts, inst, home, results,
          nvalues, value>>

-----------------------------------------------------------------------------
(* Opcode metadata (hir/src/instruction.rs)                               *)

IsTerminator(op) == op \in {"br", "condbr", "ret"}

\* Opcode::results: the result types given the controlling type.
OpResults(op, ctrl) ==
    CASE op \in {"imm", "add"} -> <<ctrl>>
      [] op = "eq"             -> <<"i1">>
      [] OTHER                 -> <<>>

\* The controlling types that give op distinct results: one suffices for
\* the opcodes whose results do not depend on it.
CtrlTypes(op) ==
    IF op \in {"imm", "add"} THEN Types ELSE {CHOOSE t \in Types : TRUE}

\* The values an instruction uses: arguments() and its jump tables' args.
Uses(i) ==
    ToSet(inst[i].args)
      \cup UNION {ToSet(inst[i].dests[k].args) : k \in DOMAIN inst[i].dests}

\* The blocks named by analyze_branch of instruction i.
Targets(i) == {inst[i].dests[k].block : k \in DOMAIN inst[i].dests}

-----------------------------------------------------------------------------
(* Queries                                                                *)

Blocks == 1..nblocks
Insts == 1..ninsts
Values == 1..nvalues

InLayout(b) == Contains(layout, b)

\* InstNode.link.is_linked(): the instruction is in some block's list.
InstLinked(i) == \E b \in Blocks : Contains(body[b], i)

\* Position of a linked instruction within its block's list.
PosOf(i) == CHOOSE k \in DOMAIN body[home[i]] : body[home[i]][k] = i

-----------------------------------------------------------------------------
(* Result allocation                                                      *)

\* append_result, once per type of tys, after results[i] was cut to keep:
\* the first keep old results are reused with their new type, the rest are
\* fresh values numbered by their position (replace_results, make_results).
SetResults(i, keep, tys) ==
    LET old   == SubSeq(results[i], 1, keep)
        fresh == Len(tys) - keep
    IN  /\ nvalues + fresh <= MaxValues
        /\ results' = [results EXCEPT ![i] =
                         old \o [k \in 1..fresh |-> nvalues + k]]
        /\ value' = [v \in ValueId |->
                       IF v > nvalues /\ v <= nvalues + fresh
                       THEN [kind |-> "inst", owner |-> i,
                             num |-> keep + (v - nvalues) - 1,
                             ty |-> tys[keep + (v - nvalues)]]
                       ELSE IF \E k \in 1..keep : old[k] = v
                       THEN [value[v] EXCEPT !.ty =
                               tys[CHOOSE k \in 1..keep : old[k] = v]]
                       ELSE value[v]]
        /\ nvalues' = nvalues + fresh

-----------------------------------------------------------------------------
(* Inputs                                                                 *)

ArgLists(V) == BoundedSeq(V, MaxBranchArgs)
JumpTables(V) == [block : Blocks, args : ArgLists(V)]

\* The jump tables a condbr may take when its condition is false.
ElseTables(V) == JumpTables(V)

\* The instruction payloads a builder can hand to insert_inst.
InstData ==
    LET V == Values IN
       {[op |-> "imm", args |-> <<>>, dests |-> <<>>, imm |-> t] : t \in Types}
  \cup {[op |-> o, args |-> <<x, y>>, dests |-> <<>>, imm |-> "none"] :
          o \in BinaryOps, x \in V, y \in V}
  \cup {[op |-> "br", args |-> <<>>, dests |-> <<j>>, imm |-> "none"] :
          j \in JumpTables(V)}
  \cup {[op |-> "condbr", args |-> <<c>>, dests |-> <<t, e>>, imm |-> "none"] :
          c \in V, t \in JumpTables(V), e \in ElseTables(V)}
  \cup {[op |-> "ret", args |-> a, dests |-> <<>>, imm |-> "none"] :
          a \in ArgLists(V)}

\* InsertionPoint: after/before a block (its end/start) or an instruction.
InsertionPoints ==
    [at : {"block"}, id : Blocks, action : {"before", "after"}]
      \cup [at : {"inst"}, id : Insts, action : {"before", "after"}]

-----------------------------------------------------------------------------
(* Operations                                                             *)

Init ==
    /\ nblocks = 1
    /\ layout = <<Entry>>
    /\ params = [b \in BlockId |-> <<>>]
    /\ body = [b \in BlockId |-> <<>>]
    /\ ninsts = 0
    /\ inst = [i \in InstId |-> NoInst]
    /\ home = [i \in InstId |-> 0]
    /\ results = [i \in InstId |-> <<>>]
    /\ nvalues = 0
    /\ value = [v \in ValueId |-> NoValue]

\* insert_inst (and append_inst, its after-block case): allocate the key,
\* store the node, make its results from the opcode and controlling type,
\* then link it at the insertion point.  Inserting relative to a detached
\* instruction panics (the guard).
InsertInst(ip, data, ctrl) ==
    LET id    == ninsts + 1
        blk   == IF ip.at = "block" THEN ip.id ELSE home[ip.id]
        list  == body[blk]
        here  == IF ip.at = "inst" THEN PosOf(ip.id) ELSE 0
        list2 == CASE ip.at = "block" /\ ip.action = "after"  -> Append(list, id)
                   [] ip.at = "block" /\ ip.action = "before" -> <<id>> \o list
                   [] ip.action = "after"  -> InsertAt(list, here + 1, id)
                   [] ip.action = "before" -> InsertAt(list, here, id)
    IN  /\ ninsts < MaxInsts
        /\ ip.at = "inst" => InstLinked(ip.id)
        /\ ninsts' = id
        /\ inst' = [inst EXCEPT ![id] = data]
        /\ home' = [home EXCEPT ![id] = blk]
        /\ SetResults(id, 0, OpResults(data.op, ctrl))
        /\ body' = [body EXCEPT ![blk] = list2]
        /\ UNCHANGED <<nblocks, layout, params>>

\* clone_inst: a detached copy with fresh results of the original's types;
\* its operands still name the original's values.
CloneInst(i) ==
    LET id == ninsts + 1 IN
    /\ ninsts < MaxInsts
    /\ ninsts' = id
    /\ inst' = [inst EXCEPT ![id] = inst[i]]
    /\ home' = [home EXCEPT ![id] = 0]
    /\ SetResults(id, 0, [k \in DOMAIN results[i] |-> value[results[i][k]].ty])
    /\ UNCHANGED <<nblocks, layout, params, body>>

\* A ReplaceBuilder rewrite of a binary instruction to another binary
\* opcode over the same operands, followed by replace_results: old result
\* values are reused up to the new count, the surplus is cut off.
ReplaceResults(i, op, ctrl) ==
    LET tys == OpResults(op, ctrl) IN
    /\ inst[i].op \in BinaryOps
    /\ inst' = [inst EXCEPT ![i].op = op]
    /\ SetResults(i, Min({Len(results[i]), Len(tys)}), tys)
    /\ UNCHANGED <<nblocks, layout, params, body, ninsts, home>>

\* replace_uses: substitute new for old among the arguments and the
\* argument lists of every jump table (condbr's cond and both lists).
Subst(s, old, new) == [k \in DOMAIN s |-> IF s[k] = old THEN new ELSE s[k]]
ReplaceUses(i, old, new) ==
    /\ inst' = [inst EXCEPT
                  ![i].args = Subst(@, old, new),
                  ![i].dests = [k \in DOMAIN @ |->
                                  [@[k] EXCEPT !.args = Subst(@, old, new)]]]
    /\ UNCHANGED <<nblocks, layout, params, body, ninsts, home, results,
                   nvalues, value>>

\* Mutant: create_block linking the last allocated key, not the new one.
CreateBlockStale ==
    /\ nblocks < MaxBlocks
    /\ nblocks' = nblocks + 1
    /\ layout' = Append(layout, nblocks)
    /\ UNCHANGED <<params, body, ninsts, inst, home, results, nvalues, value>>

\* create_block: allocate a key and link the block at the end of the layout.
CreateBlock ==
    /\ nblocks < MaxBlocks
    /\ nblocks' = nblocks + 1
    /\ layout' = Append(layout, nblocks + 1)
    /\ UNCHANGED <<params, body, ninsts, inst, home, results, nvalues, value>>

\* create_block_after: link the new block right after a linked block.
CreateBlockAfter(b) ==
    /\ nblocks < MaxBlocks
    /\ InLayout(b)
    /\ nblocks' = nblocks + 1
    /\ layout' = InsertAt(layout, SelectInSeq(layout, LAMBDA x : x = b) + 1, nblocks + 1)
    /\ UNCHANGED <<params, body, ninsts, inst, home, results, nvalues, value>>

\* detach_block: unlink the block, keeping its data.
DetachBlock(b) ==
    /\ InLayout(b)
    /\ layout' = Remove(layout, b)
    /\ UNCHANGED <<nblocks, params, body, ninsts, inst, home, results,
                   nvalues, value>>

\* Mutant: parameters numbered within the batch, not within the block.
NewParamsNumOff(b, tys) ==
    /\ nvalues + Len(tys) <= MaxValues
    /\ params' = [params EXCEPT ![b] = @ \o [k \in 1..Len(tys) |-> nvalues + k]]
    /\ value' = [v \in ValueId |->
                   IF v > nvalues /\ v <= nvalues + Len(tys)
                   THEN [kind |-> "param", owner |-> b, num |-> (v - nvalues) - 1,
                         ty |-> tys[v - nvalues]]
                   ELSE value[v]]
    /\ nvalues' = nvalues + Len(tys)

\* append_block_param: a fresh value numbered by its position.
NewParams(b, tys) ==
    /\ nvalues + Len(tys) <= MaxValues
    /\ params' = [params EXCEPT ![b] = @ \o [k \in 1..Len(tys) |-> nvalues + k]]
    /\ value' = [v \in ValueId |->
                   IF v > nvalues /\ v <= nvalues + Len(tys)
                   THEN [kind |-> "param", owner |-> b,
                         num |-> Len(params[b]) + (v - nvalues) - 1,
                         ty |-> tys[v - nvalues]]
                   ELSE value[v]]
    /\ nvalues' = nvalues + Len(tys)

AppendBlockParam(b, ty) ==
    /\ NewParams(b, <<ty>>)
    /\ UNCHANGED <<nblocks, layout, body, ninsts, inst, home, results>>

\* clone_block_params: copy src's parameter types onto dest, which must
\* have none (a debug assertion).
CloneBlockParams(src, dest) ==
    /\ DebugAssertions => params[dest] = <<>>
    /\ NewParams(dest, [k \in DOMAIN params[src] |-> value[params[src][k]].ty])
    /\ UNCHANGED <<nblocks, layout, body, ninsts, inst, home, results>>

\* set_value_type
SetValueType(v, ty) ==
    /\ value' = [value EXCEPT ![v].ty = ty]
    /\ UNCHANGED <<nblocks, layout, params, body, ninsts, inst, home, results,
                   nvalues>>

Next ==
    \/ \E ip \in InsertionPoints, data \in InstData :
          \E ctrl \in CtrlTypes(data.op) : InsertInst(ip, data, ctrl)
    \/ \E i \in Insts : CloneInst(i)
    \/ \E i \in Insts, op \in BinaryOps :
          \E ctrl \in CtrlTypes(op) : ReplaceResults(i, op, ctrl)
    \/ \E i \in Insts, old, new \in Values : ReplaceUses(i, old, new)
    \/ CreateBlock
    \/ \E b \in Blocks : CreateBlockAfter(b)
    \/ \E b \in Blocks : DetachBlock(b)
    \/ \E b \in Blocks, ty \in Types : AppendBlockParam(b, ty)
    \/ \E src, dest \in Blocks : CloneBlockParams(src, dest)
    \/ \E v \in Values, ty \in Types : SetValueType(v, ty)

Spec == Init /\ [][Next]_vars

-----------------------------------------------------------------------------
(* Properties of the graph alone                                          *)

\* Type invariant: the key counters stay within their bounds, the layout
\* lists each linked block once, and every allocated value has a producer
\* kind and a type.
TypeOK ==
    /\ nblocks \in BlockId /\ ninsts \in 0..MaxInsts /\ nvalues \in 0..MaxValues
    /\ layout \in Seq(Blocks) /\ IsInjective(layout)
    /\ params \in [BlockId -> Seq(Values)]
    /\ body \in [BlockId -> Seq(Insts)]
    /\ \A i \in Insts : inst[i].op \in Opcodes /\ home[i] \in 0..nblocks
    /\ results \in [InstId -> Seq(Values)]
    /\ \A v \in Values : value[v].kind \in {"param", "inst"} /\ value[v].ty \in Types

\* Every value listed as a result or parameter records that producer and
\* its position: append_result, replace_results and append_block_param
\* number a value by the index at which it was pushed.
ProducersAgree ==
    /\ \A i \in Insts : \A k \in DOMAIN results[i] :
          value[results[i][k]] \in [kind : {"inst"}, owner : {i}, num : {k - 1}, ty : Types]
    /\ \A b \in Blocks : \A k \in DOMAIN params[b] :
          value[params[b][k]] \in [kind : {"param"}, owner : {b}, num : {k - 1}, ty : Types]

=============================================================================
