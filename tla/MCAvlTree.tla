----------------------------- MODULE MCAvlTree ------------------------------
(* The model that TLC checks.  Which address a node has does not matter:   *)
(* states that differ in nothing else are explored once.                   *)
EXTENDS AvlTree
Key(n) == IF n = NULL THEN NULL ELSE heap[n].value
Shape == <<Key(root), n_elements,
           [k \in Contents |->
              LET n == CHOOSE m \in Allocated : heap[m].value = k
              IN <<Key(heap[n].parent), Key(heap[n].left), Key(heap[n].right), heap[n].height>>]>>
=============================================================================
