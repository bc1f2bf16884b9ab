------------------------------ MODULE AvlTree -------------------------------
(***************************************************************************)
(* AVLTree (lib/avltree.c): the balanced search tree with parent pointers  *)
(* that indexes the connections of a service by their fd, its interfaces   *)
(* and their members by name, and the fields of an object.                 *)
(*                                                                         *)
(* heap is the memory: a node, which is the C struct, at every address     *)
(* that is allocated.  Values are their own keys.  avl_tree_insert and     *)
(* avl_tree_remove are one action each: nothing can come between.          *)
(***************************************************************************)
EXTENDS Integers, FiniteSets, SequencesExt

CONSTANTS Keys,   \* the keys, ordered as integers
          Nodes,  \* the addresses calloc can return
          NULL

\* struct AVLTreeNode
NodeType == [value : Keys, height : Nat, parent : Nodes \cup {NULL},
             left : Nodes \cup {NULL}, right : Nodes \cup {NULL}]

ASSUME AvlAssumption == /\ Keys \subseteq Int /\ IsFiniteSet(Keys)
                        /\ IsFiniteSet(Nodes) /\ Cardinality(Nodes) >= Cardinality(Keys)
                        /\ NULL \notin Nodes /\ NULL \notin NodeType

VARIABLES heap, root, n_elements

vars == <<heap, root, n_elements>>

Sides == {"left", "right"}
Other(side) == IF side = "left" THEN "right" ELSE "left"

-----------------------------------------------------------------------------
(* Moving through the tree.                                                *)

\* The nodes there are in a heap.
Live(h) == {n \in DOMAIN h : h[n] # NULL}

\* The node at the end of the links of one side, from n.
End(h, n, side) ==
    LET end[m \in Live(h)] == IF h[m][side] = NULL THEN m ELSE end[h[m][side]]
    IN end[n]

\* avl_tree_first and avl_tree_last
Extreme(h, top, side) == IF top = NULL THEN NULL ELSE End(h, top, side)

\* avl_tree_node_next (towards the right) and avl_tree_node_previous
Neighbour(h, n, side) ==
    LET climb[m \in Live(h)] ==
          LET p == h[m].parent
          IN IF p # NULL /\ h[p][side] = m THEN climb[p] ELSE p
    IN IF h[n][side] # NULL THEN End(h, h[n][side], Other(side)) ELSE climb[n]

\* The nodes a search for k passes, the one that holds it the last.
Path(h, top, k) ==
    LET path[n \in Live(h) \cup {NULL}] ==
          IF n = NULL THEN <<>>
          ELSE IF k = h[n].value THEN <<n>>
          ELSE <<n>> \o path[h[n][IF k < h[n].value THEN "left" ELSE "right"]]
    IN path[top]

\* avl_tree_find_node
FindNode(h, top, k) ==
    LET p == Path(h, top, k)
    IN IF p # <<>> /\ h[Last(p)].value = k THEN Last(p) ELSE NULL

\* avl_tree_get_elements: from the first node to the next and the next.
Elements(h, top, side) ==
    LET from[n \in Live(h) \cup {NULL}] ==
          IF n = NULL THEN <<>> ELSE <<h[n].value>> \o from[Neighbour(h, n, side)]
    IN from[Extreme(h, top, Other(side))]

-----------------------------------------------------------------------------
(* Rotating and balancing.                                                 *)

Height(h, n) == IF n = NULL THEN 0 ELSE h[n].height

HeightOver(h, n) ==
    1 + (IF Height(h, h[n].left) > Height(h, h[n].right)
         THEN Height(h, h[n].left) ELSE Height(h, h[n].right))

WithHeight(h, n) == [h EXCEPT ![n].height = HeightOver(h, n)]

\* Where a parent pointed to a, it points to b.
Relinked(h, p, a, b) ==
    IF p = NULL THEN h
    ELSE [h EXCEPT ![p][IF h[p].left = a THEN "left" ELSE "right"] = b]

\* node_rotate_left and node_rotate_right: a goes down on `side`, its child b
\* of the other side takes its place, and the subtree t between them moves.
AdoptedNot(h, t, a) == h
Adopted(h, t, a) == IF t = NULL THEN h ELSE [h EXCEPT ![t].parent = a]

Rotate(h, a, side) ==
    LET b  == h[a][Other(side)]
        t  == h[b][side]
        p  == h[a].parent
        h1 == [Relinked(h, p, a, b) EXCEPT ![a].parent = b, ![a][Other(side)] = t]
        h2 == [WithHeight(h1, a) EXCEPT ![b].parent = p, ![b][side] = a]
    IN Adopted(WithHeight(h2, b), t, a)

\* node_get_balance, counted towards `side`
Lean(h, n, side) == Height(h, h[n][side]) - Height(h, h[n][Other(side)])

\* node_rebalance: the heavy child goes up; one that leans to the inside is
\* turned first.
StraightOnly(h, c, side) == Lean(h, c, side) > 0
Straight(h, c, side) == Lean(h, c, side) >= 0

Rebalance(h, n) ==
    IF \A side \in Sides : Lean(h, n, side) <= 1
    THEN [heap |-> h, top |-> n]
    ELSE LET side == CHOOSE s \in Sides : Lean(h, n, s) > 1
             c    == h[n][side]
             h1   == IF Straight(h, c, side) THEN h ELSE Rotate(h, c, side)
         IN [heap |-> Rotate(h1, n, Other(side)), top |-> h1[n][side]]

\* The heights and the balance of the nodes of a sequence, bottom up; top is
\* what became of the last one.
RebalanceAll(h, nodes) ==
    LET upTo[i \in 0..Len(nodes)] ==
          IF i = 0 THEN [heap |-> h, top |-> NULL]
          ELSE LET below == upTo[i - 1]
               IN Rebalance(WithHeight(below.heap, nodes[i]), nodes[i])
    IN upTo[Len(nodes)]

\* rebalance_from: n and the nodes above it
Ancestors(h, n) ==
    LET up[m \in Live(h) \cup {NULL}] ==
          IF m = NULL THEN <<>> ELSE <<m>> \o up[h[m].parent]
    IN up[n]

-----------------------------------------------------------------------------

\* The heap without the link to n, and without n.
Unlinked(h, n) == Relinked(h, h[n].parent, n, NULL)
FreedNot(h, n) == h
Freed(h, n) == [h EXCEPT ![n] = NULL]

\* avl_tree_insert of a key that is not there: a leaf is linked to the last
\* node of the search, and the nodes of the search are balanced.
Insert(k) ==
    LET path == Path(heap, root, k)
        leaf == CHOOSE n \in Nodes : heap[n] = NULL
        p    == IF path = <<>> THEN NULL ELSE Last(path)
        side == IF k < heap[p].value THEN "left" ELSE "right"
        node == [value |-> k, parent |-> p, left |-> NULL, right |-> NULL, height |-> 1]
        h    == [heap EXCEPT ![leaf] = node]
        t    == RebalanceAll([h EXCEPT ![p][side] = leaf], Reverse(path))
    IN /\ FindNode(heap, root, k) = NULL
       /\ n_elements' = n_elements + 1
       /\ IF p = NULL THEN heap' = h /\ root' = leaf
                      ELSE heap' = t.heap /\ root' = t.top

\* The value of m is gone: its child on `side`, by the balance a leaf, gives
\* it its own and is freed, or m is.  changed is where the heights changed.
VacatedEmpty(h, m, side) ==
    LET c == h[m][side]
    IN IF c = NULL THEN [heap |-> Freed(Unlinked(h, m), m), changed |-> h[m].parent]
       ELSE [heap |-> Freed([h EXCEPT ![m][side] = NULL], c), changed |-> m]

Vacated(h, m, side) ==
    LET c == h[m][side]
    IN IF c = NULL
       THEN [heap |-> Freed(Unlinked(h, m), m), changed |-> h[m].parent]
       ELSE [heap |-> Freed([h EXCEPT ![m].value = h[c].value, ![m][side] = NULL], c),
             changed |-> m]

\* What avl_tree_remove makes of the heap before it balances: n gets the
\* largest value on its left, if there is one.
Without(h, n) ==
    IF h[n].left = NULL THEN Vacated(h, n, "right")
    ELSE LET m == End(h, h[n].left, "right")
         IN Vacated([h EXCEPT ![n].value = h[m].value], m, "left")

\* avl_tree_remove of a key that is there
Delete(k) ==
    LET n == FindNode(heap, root, k)
        w == Without(heap, n)
        t == RebalanceAll(w.heap, Ancestors(w.heap, w.changed))
    IN /\ n # NULL
       /\ n_elements' = n_elements - 1
       /\ IF w.changed = NULL THEN heap' = w.heap /\ root' = NULL
                              ELSE heap' = t.heap /\ root' = t.top

Init == heap = [n \in Nodes |-> NULL] /\ root = NULL /\ n_elements = 0

Next == \E k \in Keys : Insert(k) \/ Delete(k)

Spec == Init /\ [][Next]_vars

-----------------------------------------------------------------------------
(* Properties.                                                             *)

Allocated == Live(heap)
Contents == {heap[n].value : n \in Allocated}

\* Every variable has its type.
TypeOK ==
    /\ DOMAIN heap = Nodes /\ root \in Allocated \cup {NULL}
    /\ \A n \in Allocated :
         heap[n] \in [value : Keys, height : 1..Cardinality(Nodes),
                      parent : Allocated \cup {NULL},
                      left : Allocated \cup {NULL}, right : Allocated \cup {NULL}]
    /\ n_elements = Cardinality(Allocated)

\* Parents and children point to each other, and only the root has no
\* parent: no node is lost and no freed one is reached, although
\* avl_tree_remove moves values between nodes.
LinksAgree ==
    \A n \in Allocated :
       /\ \A side \in Sides : heap[n][side] # NULL => heap[heap[n][side]].parent = n
       /\ IF n = root THEN heap[n].parent = NULL
          ELSE heap[n].parent # NULL /\ \E side \in Sides : heap[heap[n].parent][side] = n

\* Heights are exact and the subtrees of a node differ by one at most, after
\* removals too: a right child without a left sibling is a leaf, on which
\* avl_tree_remove relies (avltree.c:349).
Balanced ==
    \A n \in Allocated :
       /\ heap[n].height = HeightOver(heap, n)
       /\ \A side \in Sides : Lean(heap, n, side) <= 1

\* A search finds every element, and the walks in both directions meet them
\* in order (avl_tree_find, avl_tree_get_elements).
ElementsAreFound ==
    LET elements == Elements(heap, root, "right")
    IN /\ \A k \in Contents : FindNode(heap, root, k) # NULL
       /\ Range(elements) = Contents
       /\ \A i, j \in DOMAIN elements : i < j => elements[i] < elements[j]
       /\ Elements(heap, root, "left") = Reverse(elements)

\* An insertion adds its key and a removal takes its key, and no other
\* element comes or goes.
OnlyTheKeyChanges ==
    [][\A k \in Keys : \/ Contents' = Contents \cup {k} /\ k \notin Contents
                       \/ Contents' = Contents \ {k} /\ k \in Contents
                       \/ ~Insert(k) /\ ~Delete(k)]_vars
=============================================================================
