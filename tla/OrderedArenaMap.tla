-------------------------- MODULE OrderedArenaMap --------------------------
(***************************************************************************)
(* ArenaMap and OrderedArenaMap (hir/src/layout.rs).                       *)
(*                                                                         *)
(* An ArenaMap is a vector of optional pointers (keys) into an arena that  *)
(* only grows (nodes).  An OrderedArenaMap adds an intrusive doubly linked *)
(* list (list) threading some of the arena's nodes; a node carries its key *)
(* and value.  Pointers are node indices, None is 0.                       *)
(*                                                                         *)
(* Calls the code leaves undefined are guards: a cursor built from a node  *)
(* that is not in the list (remove of an unlinked key, insert_before/after *)
(* next to an unlinked key) and indexing a key without a node (a panic).   *)
(***************************************************************************)
EXTENDS Naturals, Sequences, SequencesExt, FiniteSets

CONSTANTS
    Vals,           \* the values stored, e.g. block data
    NoVal,          \* no value
    MaxKeys,        \* bound on alloc_key
    MaxNodes,       \* bound on arena allocations
    DebugAssertions \* TRUE for a debug build: debug_assert! aborts the call

VARIABLES
    keys,   \* ArenaMap.keys: keys[k] is the node of key k, or 0
    nodes,  \* ArenaMap.arena: nodes[n] = [key, value], never freed
    list    \* OrderedArenaMap.list: the linked nodes, front to back

vars == <<keys, nodes, list>>

NewNode == Len(nodes) + 1

-----------------------------------------------------------------------------
(* ArenaMap                                                               *)

\* ArenaMap::contains
MapContains(k) == k \in DOMAIN keys /\ keys[k] # 0

\* ArenaMap::len: the keys holding a pointer.
MapLen == Cardinality({k \in DOMAIN keys : keys[k] # 0})

\* ArenaMap::get and OrderedArenaMap::get: the value of the key's node,
\* or none.
Get(k) == IF MapContains(k) THEN nodes[keys[k]].value ELSE NoVal

\* ArenaMap::alloc_key: push None.
AllocKey(ks) == Append(ks, 0)

\* ArenaMap::alloc_node: allocate in the arena and overwrite the key's
\* pointer, on top of the keys ks.
AllocNode(ks, k, v) ==
    /\ Len(nodes) < MaxNodes
    /\ nodes' = Append(nodes, [key |-> k, value |-> v])
    /\ keys' = [ks EXCEPT ![k] = NewNode]

-----------------------------------------------------------------------------
(* OrderedArenaMap                                                        *)

\* OrderedArenaMap::keys, the keys of the list in order.
KeysInOrder == [i \in DOMAIN list |-> nodes[list[i]].key]

NodeLinked(n) == Contains(list, n)

\* create
Create ==
    /\ Len(keys) < MaxKeys
    /\ keys' = AllocKey(keys)
    /\ UNCHANGED <<nodes, list>>

\* Mutant: append that does not check the key is free.
AppendKeyNoAssert(k, v) ==
    /\ k \in DOMAIN keys
    /\ AllocNode(keys, k, v)
    /\ list' = Append(list, NewNode)

\* append: debug_assert!(!contains(key)), then link at the back.
AppendKey(k, v) ==
    /\ k \in DOMAIN keys
    /\ DebugAssertions => ~MapContains(k)
    /\ AllocNode(keys, k, v)
    /\ list' = Append(list, NewNode)

\* insert_before / insert_after: debug_assert!(get_mut(key).is_none()),
\* alloc_node, then a cursor at the anchor's node, which must be present
\* (map[anchor] unwraps) and linked.  Offset 0 is before, 1 after.
InsertNear(ks, k, anchor, v, offset) ==
    /\ DebugAssertions => ks[k] = 0
    /\ AllocNode(ks, k, v)
    /\ keys'[anchor] # 0
    /\ NodeLinked(keys'[anchor])
    /\ list' = InsertAt(list, SelectInSeq(list, LAMBDA n : n = keys'[anchor]) + offset,
                        NewNode)

InsertBefore(k, before, v) ==
    /\ k \in DOMAIN keys /\ before \in DOMAIN keys
    /\ InsertNear(keys, k, before, v, 0)

InsertAfter(k, after, v) ==
    /\ k \in DOMAIN keys /\ after \in DOMAIN keys
    /\ InsertNear(keys, k, after, v, 1)

\* Mutant: push appending under the key before the one alloc_key made.
PushOff(v) ==
    /\ Len(keys) < MaxKeys
    /\ AllocNode(AllocKey(keys), Len(keys), v)
    /\ list' = Append(list, NewNode)

\* push: alloc_key then append.
Push(v) ==
    /\ Len(keys) < MaxKeys
    /\ AllocNode(AllocKey(keys), Len(keys) + 1, v)
    /\ list' = Append(list, NewNode)

\* Mutant: push_after inserting under the key before the one alloc_key made.
PushAfterOff(after, v) ==
    /\ Len(keys) < MaxKeys
    /\ after \in DOMAIN keys
    /\ InsertNear(AllocKey(keys), Len(keys), after, v, 1)

\* push_after: alloc_key then insert_after.
PushAfter(after, v) ==
    /\ Len(keys) < MaxKeys
    /\ after \in DOMAIN keys
    /\ InsertNear(AllocKey(keys), Len(keys) + 1, after, v, 1)

\* remove: when the key has a node, unlink it through a cursor made from
\* the node's pointer; the pointer in keys stays.
RemoveKey(k) ==
    /\ MapContains(k)
    /\ NodeLinked(keys[k])
    /\ list' = Remove(list, keys[k])
    /\ UNCHANGED <<keys, nodes>>

\* The keys holding a pointer, in key order: what iterating ArenaMap::iter
\* meets.
KeysWithNode == SelectSeq([k \in 1..Len(keys) |-> k], LAMBDA k : keys[k] # 0)

\* Clone for OrderedArenaMap, the clone taking the original's place: a new
\* map that, for each key in key order, allocates a free key (None) or
\* pushes a copy of the key's value, so linking it at the back.
CloneMap ==
    LET live == KeysWithNode IN
    /\ nodes' = [i \in DOMAIN live |-> [key |-> live[i], value |-> nodes[keys[live[i]]].value]]
    /\ keys' = [k \in DOMAIN keys |->
                  IF keys[k] = 0 THEN 0 ELSE SelectInSeq(live, LAMBDA x : x = k)]
    /\ list' = [i \in DOMAIN live |-> i]

Init ==
    /\ keys = <<>>
    /\ nodes = <<>>
    /\ list = <<>>

Next ==
    \/ Create
    \/ \E k \in DOMAIN keys, v \in Vals : AppendKey(k, v)
    \/ \E k, a \in DOMAIN keys, v \in Vals : InsertAfter(k, a, v)
    \/ \E k, a \in DOMAIN keys, v \in Vals : InsertBefore(k, a, v)
    \/ \E v \in Vals : Push(v)
    \/ \E a \in DOMAIN keys, v \in Vals : PushAfter(a, v)
    \/ \E k \in DOMAIN keys : RemoveKey(k)

Spec == Init /\ [][Next]_vars

\* The map used by a client that also clones it.
SpecWithClone == Init /\ [][Next \/ CloneMap]_vars

-----------------------------------------------------------------------------
(* Properties                                                             *)

\* Type invariant: the keys point into the arena or are None, every node
\* carries an allocated key, and the list holds arena nodes.
TypeOK ==
    /\ keys \in Seq(0..Len(nodes)) /\ Len(keys) <= MaxKeys
    /\ nodes \in Seq([key : DOMAIN keys, value : Vals]) /\ Len(nodes) <= MaxNodes
    /\ list \in Seq(DOMAIN nodes)

\* Iterating the list (keys(), values(), the layout's cursors) meets each
\* node once, and only the node that get(key) returns for its key: no
\* sequence of create, append, insert_before/after, push, push_after and
\* remove links a node that its key no longer points to, or links a node
\* twice.
ListHoldsCurrentNodes ==
    /\ IsInjective(list)
    /\ \A i \in DOMAIN list : keys[nodes[list[i]].key] = list[i]

\* The map implements the abstract layout: the list's keys, the key count
\* and the values of the linked keys change as Layout allows and no other
\* way: keys are handed out in order and the one push or push_after
\* returns is the one it links, no operation reorders the linked keys, and
\* a linked key keeps its value until it is unlinked.  A key that remove
\* unlinked is out of view (whether get still answers for it is the
\* question ContainsAndLenCountLinked asks of contains and len).
Abs == INSTANCE Layout
         WITH created <- Len(keys),
              order <- KeysInOrder,
              val <- [k \in 1..MaxKeys |->
                        IF MapContains(k) /\ NodeLinked(keys[k]) THEN Get(k) ELSE NoVal]

ImplementsLayout == Abs!Spec

\* The doc comments of OrderedArenaMap::contains ("contains the given key
\* and its value has been linked") and ::len ("the total number of
\* actively linked items"): both agree with the list.
ContainsAndLenCountLinked ==
    /\ \A k \in DOMAIN keys : MapContains(k) <=> NodeLinked(keys[k])
    /\ MapLen = Len(list)

\* Clone gives the same layout: the clone links exactly the keys the
\* original links, in the same order.  The doc comment of remove relies on
\* it: "To perform early garbage collection, you can clone the map, and
\* drop the original."
CloneKeepsLayout == [][CloneMap => KeysInOrder' = KeysInOrder]_vars

=============================================================================
