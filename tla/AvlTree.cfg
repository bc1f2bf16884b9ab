\* Every tree that insertions and removals of twelve keys, in any order, can
\* build: twelve elements are the fewest of which a removal rotates twice.
SPECIFICATION Spec
CONSTANTS
    Keys = {1, 2, 3, 4, 5, 6, 7, 8, 9, 10, 11, 12}
    Nodes = {1, 2, 3, 4, 5, 6, 7, 8, 9, 10, 11, 12}
    NULL = NULL
VIEW Shape
INVARIANTS TypeOK LinksAgree Balanced ElementsAreFound
PROPERTIES OnlyTheKeyChanges
