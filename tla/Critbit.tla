------------------------------- MODULE Critbit -------------------------------
(***************************************************************************)
(* The crit-bit tree of xt_critbit.c, with the names of functional blocks  *)
(* (idpmap in xt_fblock.c) as its elements: writers under a spinlock,      *)
(* readers in RCU read-side sections that walk down one pointer at a time. *)
(*                                                                         *)
(* A writer prepares a node that no reader can reach and then publishes it *)
(* by one pointer, or takes one out by one pointer: one step each.  Nodes  *)
(* and elements that were taken out are freed when the readers of that     *)
(* time are done, and their memory is used again.                          *)
(***************************************************************************)
EXTENDS Naturals, Sequences, FiniteSets, Bitwise

CONSTANTS
    Key,        \* names: sequences of non-zero bytes
    Width,      \* bits of a byte: 8
    Elem,       \* idp_elem objects
    KeyOf,      \* KeyOf[e]: the name in e
    Node,       \* critbit_node objects
    Reader,     \* readers at a time
    NULL

ASSUME WidthAssumption == Width \in Nat \ {0}
ASSUME KeyAssumption ==
    \A k \in Key : \A i \in DOMAIN k : k[i] \in 1 .. 2 ^ Width - 1
ASSUME KeyOfAssumption == KeyOf \in [Elem -> Key]
ASSUME DisjointAssumption == Elem \cap Node = {} /\ NULL \notin Elem \cup Node

VARIABLES
    root,       \* tree->root: an element, a node or NULL
    node,       \* node[n]: its contents and the state of its memory
    elem,       \* elem[e]: the state of its memory
    reader      \* reader[r]: a lookup under way

vars == <<root, node, elem, reader>>

(* Memory that waits for the end of a grace period waits for the readers   *)
(* in `wait'.                                                              *)
Mem      == [state : {"free", "used", "rcu"}, wait : SUBSET Reader]
FreeMem  == [state |-> "free", wait |-> {}]
UsedMem  == [state |-> "used", wait |-> {}]
EmptyNode == [byte |-> 0, otherbits |-> 0, child |-> [d \in 0 .. 1 |-> NULL], mem |-> FreeMem]

(* A lookup: its key and pointer p, and, as a history, whether the key was *)
(* in the tree (or was not) at some time since it began.                   *)
NoLookup == [key |-> NULL, p |-> NULL, present |-> FALSE, absent |-> FALSE]

Init ==
    /\ root = NULL
    /\ node = [n \in Node |-> EmptyNode]
    /\ elem = [e \in Elem |-> FreeMem]
    /\ reader = [r \in Reader |-> NoLookup]

-----------------------------------------------------------------------------
(* The byte at position i >= 0 of a name; a terminating zero follows it. *)
Byte(k, i) == IF i < Len(k) THEN k[i + 1] ELSE 0

(* Wrong variant: the bits are combined the wrong way. *)
DirectionAnd(otherbits, c) == (1 + (otherbits & c)) \div 2 ^ Width

(* direction = (1 + (otherbits | c)) >> 8 *)
Direction(otherbits, c) == (1 + (otherbits | c)) \div 2 ^ Width

Turn(q, k) == Direction(node[q].otherbits, Byte(k, node[q].byte))

(* The element at which the walk for the name k ends. *)
RECURSIVE Walk(_, _)
Walk(p, k) == IF p \in Node THEN Walk(node[p].child[Turn(p, k)], k) ELSE p

(* critbit_get for a reader that is not disturbed *)
Get(k) ==
    LET p == Walk(root, k) IN IF p # NULL /\ KeyOf[p] = k THEN p ELSE NULL

(* The first byte in which two different names differ. *)
FirstDiff(k, l) ==
    CHOOSE i \in 0 .. Len(k) :
        /\ Byte(k, i) # Byte(l, i)
        /\ \A j \in 0 .. i - 1 : Byte(k, j) = Byte(l, j)

(* while (x & (x - 1)) x &= x - 1 *)
RECURSIVE HighestBit(_)
HighestBit(x) == IF x & (x - 1) = 0 THEN x ELSE HighestBit(x & (x - 1))

(* The place, a node and a direction or <<NULL, 0>> for the root, where a  *)
(* node for (byte, otherbits) belongs on the way to k.                     *)
Pointer(place) == IF place[1] = NULL THEN root ELSE node[place[1]].child[place[2]]

RECURSIVE Where(_, _, _, _)
Where(place, k, byte, otherbits) ==
    LET q == Pointer(place) IN
    IF \/ q \notin Node
       \/ node[q].byte > byte
       \/ node[q].byte = byte /\ node[q].otherbits > otherbits
    THEN place
    ELSE Where(<<q, Turn(q, k)>>, k, byte, otherbits)

(* The place of the node above the element at which the walk for k ends. *)
RECURSIVE Above(_, _)
Above(place, k) ==
    LET q    == Pointer(place)
        next == <<q, Turn(q, k)>>
    IN  IF Pointer(next) \in Node THEN Above(next, k) ELSE place

-----------------------------------------------------------------------------
(* One pointer is written; nodes is the memory of the nodes before that. *)
Assign(nodes, place, p) ==
    IF place[1] = NULL
    THEN root' = p /\ node' = nodes
    ELSE root' = root /\ node' = [nodes EXCEPT ![place[1]].child[place[2]] = p]

(* What lookups have seen of a name that is now there, or is not. *)
Noted(k, there) ==
    [r \in Reader |-> IF reader[r].key # k THEN reader[r]
                      ELSE [reader[r] EXCEPT !.present = @ \/ there, !.absent = @ \/ ~there]]

(* register_to_fblock_namespace and __critbit_insert of a name that is not *)
(* there: a new element, and, unless it is the first one, a new node that  *)
(* tells it from the element p that is most like it.                       *)
Insert(e) ==
    LET k     == KeyOf[e]
        p     == Walk(root, k)
        byte  == FirstDiff(k, KeyOf[p])
        other == (2 ^ Width - 1) - HighestBit(Byte(k, byte) ^^ Byte(KeyOf[p], byte))
        dir   == Direction(other, Byte(KeyOf[p], byte))
        place == Where(<<NULL, 0>>, k, byte, other)
    IN  /\ elem[e].state = "free"
        /\ Get(k) = NULL
        /\ elem' = [elem EXCEPT ![e] = UsedMem]
        /\ reader' = Noted(k, TRUE)
        /\ \/ root = NULL /\ Assign(node, <<NULL, 0>>, e)
           \/ /\ root # NULL
              /\ \E n \in Node :
                    /\ node[n].mem.state = "free"
                    /\ Assign([node EXCEPT ![n] =
                                  [byte |-> byte, otherbits |-> other, mem |-> UsedMem,
                                   child |-> [d \in 0 .. 1 |-> IF d = dir THEN Pointer(place)
                                                               ELSE e]]],
                              place, n)

Active == {r \in Reader : reader[r].key # NULL}
Rcu    == [state |-> "rcu", wait |-> Active]

(* Wrong variant: the node is freed at once. *)
DeleteFrees(k) ==
    LET e     == Get(k)
        place == Above(<<NULL, 0>>, k)
        q     == Pointer(place)
    IN  /\ e # NULL
        /\ elem' = [elem EXCEPT ![e] = Rcu]
        /\ reader' = Noted(k, FALSE)
        /\ \/ root = e /\ Assign(node, <<NULL, 0>>, NULL)
           \/ /\ root # e
              /\ Assign([node EXCEPT ![q].mem = FreeMem], place, node[q].child[1 - Turn(q, k)])

(* Wrong variant: the node is not given back. *)
DeleteKeepsNode(k) ==
    LET e     == Get(k)
        place == Above(<<NULL, 0>>, k)
        q     == Pointer(place)
    IN  /\ e # NULL
        /\ elem' = [elem EXCEPT ![e] = Rcu]
        /\ reader' = Noted(k, FALSE)
        /\ \/ root = e /\ Assign(node, <<NULL, 0>>, NULL)
           \/ root # e /\ Assign(node, place, node[q].child[1 - Turn(q, k)])

(* unregister_from_fblock_namespace and __critbit_delete: the sibling      *)
(* takes the place of the node, which is freed after a grace period, as is *)
(* the element.                                                            *)
Delete(k) ==
    LET e     == Get(k)
        place == Above(<<NULL, 0>>, k)
        q     == Pointer(place)
    IN  /\ e # NULL
        /\ elem' = [elem EXCEPT ![e] = Rcu]
        /\ reader' = Noted(k, FALSE)
        /\ \/ root = e /\ Assign(node, <<NULL, 0>>, NULL)
           \/ /\ root # e
              /\ Assign([node EXCEPT ![q].mem = Rcu], place, node[q].child[1 - Turn(q, k)])

(* critbit_do_free_rcu, fblock_namespace_do_free_rcu *)
FreeNode(n) ==
    /\ node[n].mem = [state |-> "rcu", wait |-> {}]
    /\ node' = [node EXCEPT ![n] = EmptyNode]
    /\ UNCHANGED <<root, elem, reader>>

FreeElem(e) ==
    /\ elem[e] = [state |-> "rcu", wait |-> {}]
    /\ elem' = [elem EXCEPT ![e] = FreeMem]
    /\ UNCHANGED <<root, node, reader>>

-----------------------------------------------------------------------------
(* rcu_read_lock and the first pointer of __critbit_get *)
LookupBegin(r, k) ==
    /\ reader[r].key = NULL
    /\ reader' = [reader EXCEPT ![r] = [key |-> k, p |-> root, present |-> Get(k) # NULL,
                                        absent |-> Get(k) = NULL]]
    /\ UNCHANGED <<root, node, elem>>

(* Wrong variant: the byte after the one that tells names apart is tested. *)
LookupStepNextByte(r) ==
    LET q == node[reader[r].p] IN
    /\ reader[r].p \in Node
    /\ reader' = [reader EXCEPT ![r].p =
                     q.child[Direction(q.otherbits, Byte(reader[r].key, q.byte + 1))]]
    /\ UNCHANGED <<root, node, elem>>

(* One round of the loop of __critbit_get. *)
LookupStep(r) ==
    /\ reader[r].p \in Node
    /\ reader' = [reader EXCEPT ![r].p = node[@].child[Turn(@, reader[r].key)]]
    /\ UNCHANGED <<root, node, elem>>

(* strcmp with the element and rcu_read_unlock *)
LookupEnd(r) ==
    /\ reader[r].key # NULL
    /\ reader[r].p \notin Node
    /\ reader' = [reader EXCEPT ![r] = NoLookup]
    /\ node' = [n \in Node |-> [node[n] EXCEPT !.mem.wait = @ \ {r}]]
    /\ elem' = [e \in Elem |-> [elem[e] EXCEPT !.wait = @ \ {r}]]
    /\ UNCHANGED root

-----------------------------------------------------------------------------
Next ==
    \/ \E e \in Elem : Insert(e)
    \/ \E k \in Key : Delete(k)
    \/ \E n \in Node : FreeNode(n)
    \/ \E e \in Elem : FreeElem(e)
    \/ \E r \in Reader, k \in Key : LookupBegin(r, k)
    \/ \E r \in Reader : LookupStep(r)
    \/ \E r \in Reader : LookupEnd(r)

Spec == Init /\ [][Next]_vars

-----------------------------------------------------------------------------
(* Type correctness of the tree, its memory and the lookups. *)
Ptr == Elem \cup Node \cup {NULL}
TypeOK ==
    /\ root \in Ptr
    /\ \A n \in Node : /\ node[n].byte \in Nat
                       /\ node[n].otherbits \in 0 .. 2 ^ Width - 1
                       /\ node[n].child \in [0 .. 1 -> Ptr]
                       /\ node[n].mem \in Mem
    /\ elem \in [Elem -> Mem]
    /\ reader \in [Reader -> [key : Key \cup {NULL}, p : Ptr, present : BOOLEAN, absent : BOOLEAN]]

InTree == {e \in Elem : elem[e].state = "used"}

(* The tree is the set of names it stands for: the walk for a name ends at *)
(* its element if it was inserted and not deleted since, and at another    *)
(* name otherwise, whatever order names came and went in.                  *)
TreeIsSet ==
    \A k \in Key : IF \E e \in InTree : KeyOf[e] = k
                   THEN Get(k) \in InTree /\ KeyOf[Get(k)] = k
                   ELSE Get(k) = NULL

(* The tree has no node too many, none too few, and none is lost: a tree   *)
(* of m > 0 names has m - 1 nodes in use.                                  *)
NodesExact ==
    Cardinality({n \in Node : node[n].mem.state = "used"})
        = IF InTree = {} THEN 0 ELSE Cardinality(InTree) - 1

(* A reader never holds a pointer to memory that was freed, however many   *)
(* names and nodes are taken out while it walks.                           *)
NoFreedMemory ==
    \A r \in Reader :
        /\ reader[r].p \in Node => node[reader[r].p].mem.state # "free"
        /\ reader[r].p \in Elem => elem[reader[r].p].state # "free"

(* Lookups without a lock are linearizable: a name that is found was in    *)
(* the tree, and one that is not found was not in the tree, at some time   *)
(* during the lookup.                                                      *)
LookupLinearizable ==
    \A r \in Reader :
        LET p == reader[r].p IN
        reader[r].key # NULL /\ p \notin Node =>
            IF p # NULL /\ KeyOf[p] = reader[r].key THEN reader[r].present ELSE reader[r].absent
=============================================================================
