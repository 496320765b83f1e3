------------------------------- MODULE Layout -------------------------------
(***************************************************************************)
(* What an OrderedArenaMap (hir/src/layout.rs) promises its users: keys    *)
(* are handed out in order, each key has at most one value, and the keys   *)
(* linked into the map form a sequence without repetition that the         *)
(* operations change only at the named place.  get answers only for a     *)
(* key that is present and linked (its doc comment), so unlinking a key    *)
(* takes its value out of view.                                            *)
(***************************************************************************)
EXTENDS Naturals, Sequences, SequencesExt

CONSTANTS Vals, NoVal, MaxKeys

VARIABLES
    created,  \* the number of keys allocated so far: keys are 1..created
    order,    \* the linked keys in list order
    val       \* val[k]: what get(k) answers, or NoVal

Keys == 1..MaxKeys

Linked(k) == Contains(order, k)

\* The position of a linked key in the order.
Pos(k) == SelectInSeq(order, LAMBDA x : x = k)

Init ==
    /\ created = 0
    /\ order = <<>>
    /\ val = [k \in Keys |-> NoVal]

Create ==
    /\ created < MaxKeys
    /\ created' = created + 1
    /\ UNCHANGED <<order, val>>

\* Link an unlinked key with a value at position p of the order; the key
\* is either allocated already or allocated by this very step.
LinkAt(k, v, p) ==
    /\ k <= created + 1
    /\ ~Linked(k)
    /\ order' = InsertAt(order, p, k)
    /\ val' = [val EXCEPT ![k] = v]
    /\ created' = IF k > created THEN k ELSE created

Unlink(k) ==
    /\ Linked(k)
    /\ order' = Remove(order, k)
    /\ val' = [val EXCEPT ![k] = NoVal]
    /\ UNCHANGED created

Next ==
    \/ Create
    \/ \E k \in Keys, v \in Vals :
          \/ LinkAt(k, v, Len(order) + 1)
          \/ \E a \in ToSet(order) : LinkAt(k, v, Pos(a))
          \/ \E a \in ToSet(order) : LinkAt(k, v, Pos(a) + 1)
    \/ \E k \in Keys : Unlink(k)

Spec == Init /\ [][Next]_<<created, order, val>>

=============================================================================
