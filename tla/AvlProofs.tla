----------------------------- MODULE AvlProofs ------------------------------
(***************************************************************************)
(* Proofs about AvlTree, for any keys and any nodes: a rotation keeps the  *)
(* links and the order, balancing from below restores the heights, and so  *)
(* insertions and removals keep a balanced search tree that holds exactly  *)
(* the keys put in and not taken out; the next node is the one with the    *)
(* next value, and the walks from one end to the other meet every element  *)
(* once, in order.                                                         *)
(*                                                                         *)
(* The operators of AvlTree that follow links are recursive functions.     *)
(* That such a function exists on a heap is proved once (FollowExists,     *)
(* ListExists): its links lead to lower ranks.                             *)
(***************************************************************************)
EXTENDS AvlTree, FiniteSetTheorems, TLAPS

-----------------------------------------------------------------------------
(* Induction.                                                              *)

\* Every nonempty set of natural numbers has a least one.
LEMMA LeastNumber ==
    ASSUME NEW T, T \subseteq Nat, T # {}
    PROVE  \E n \in T : \A m \in T : n <= m
  <1> DEFINE F == {1..n : n \in T}
  <1>1. IsWellFoundedOn(StrictSubsetOrdering(Nat), FiniteSubsetsOf(Nat))
    BY FS_StrictSubsetOrderingWellFounded
  <1>2. \A n \in Nat : 1..n \in SUBSET Nat /\ IsFiniteSet(1..n)
    BY FS_Interval
  <1>3. F \subseteq FiniteSubsetsOf(Nat) /\ F # {}
    BY <1>2 DEF FiniteSubsetsOf
  <1> HIDE DEF F
  <1>4. PICK x \in F : \A y \in F : ~(<<y, x>> \in StrictSubsetOrdering(Nat))
    BY <1>1, <1>3, WFMin
  <1>5. PICK n \in T : x = 1..n
    BY DEF F
  <1>6. ASSUME NEW m \in T, ~(n <= m) PROVE FALSE
    <2>1. m \in Nat /\ n \in Nat /\ m < n
      BY <1>6
    <2>2. 1..m \in F
      BY DEF F
    <2>3. 1..m \subseteq 1..n /\ 1..m # 1..n
      <3>1. n \in 1..n /\ n \notin 1..m
        BY <2>1
      <3>2. \A i \in 1..m : i \in 1..n
        BY <2>1
      <3> QED
        BY <3>1, <3>2
    <2>4. <<1..m, x>> \in StrictSubsetOrdering(Nat)
      <3>1. 1..m \in SUBSET Nat /\ 1..n \in SUBSET Nat
        BY <1>2, <2>1
      <3>2. IsFiniteSet(1..m) /\ IsFiniteSet(1..n)
        BY <1>2, <2>1
      <3> QED
        BY <1>5, <2>3, <3>1, <3>2 DEF StrictSubsetOrdering, FiniteSubsetsOf
    <2> QED
      BY <1>4, <2>2, <2>4
  <1> QED
    BY <1>6

\* A set that holds 0 and with every number the next one holds them all.
LEMMA NumbersIn ==
    ASSUME NEW T, 0 \in T, \A n \in Nat : n \in T => n + 1 \in T
    PROVE  \A n \in Nat : n \in T
  <1> DEFINE U == Nat \ T
  <1> SUFFICES ASSUME U # {} PROVE FALSE
    OBVIOUS
  <1>1. PICK n \in U : \A m \in U : n <= m
    BY LeastNumber
  <1>2. n # 0 /\ n \in Nat
    OBVIOUS
  <1>3. n - 1 \in Nat /\ n - 1 \in T
    BY <1>1, <1>2
  <1> QED
    BY <1>2, <1>3

\* Of the elements of a set one has the least rank.
LEMMA LeastRank ==
    ASSUME NEW S, S # {}, NEW rank, \A x \in S : rank[x] \in Nat
    PROVE  \E x \in S : \A y \in S : rank[x] <= rank[y]
  <1> DEFINE T == {rank[x] : x \in S}
  <1>1. T \subseteq Nat /\ T # {}
    OBVIOUS
  <1>2. PICK n \in T : \A m \in T : n <= m
    BY <1>1, LeastNumber
  <1> QED
    BY <1>2

\* Links that lead to lower ranks, and the function that follows them to a
\* stop or lists what it passes: it is well defined.
Falls(D, stop, next, rank, bound) ==
    /\ bound \in Nat
    /\ \A x \in D : rank[x] \in Nat /\ rank[x] < bound
    /\ \A x \in D \ stop : next[x] \in D /\ rank[next[x]] < rank[x]

Follows(f, D, stop, value, next) ==
    f = [x \in D |-> IF x \in stop THEN value[x] ELSE f[next[x]]]

Lists(f, D, stop, value, item, next) ==
    f = [x \in D |-> IF x \in stop THEN value[x] ELSE <<item[x]>> \o f[next[x]]]

LEMMA FollowExists ==
    ASSUME NEW D, NEW stop, NEW value, NEW next, NEW rank, NEW bound,
           Falls(D, stop, next, rank, bound)
    PROVE  \E f : Follows(f, D, stop, value, next)
  <1> DEFINE Below(m) == {x \in D : rank[x] < m}
             Solves(g, m) == g = [x \in Below(m) |-> IF x \in stop THEN value[x] ELSE g[next[x]]]
             T == {m \in Nat : \E g : Solves(g, m)}
  <1> USE DEF Falls
  <1>1. 0 \in T
    <2>1. Below(0) = {}
      OBVIOUS
    <2>2. Solves([x \in {} |-> x], 0)
      BY <2>1
    <2> QED
      BY <2>2
  <1>2. ASSUME NEW m \in Nat, m \in T PROVE m + 1 \in T
    <2>1. PICK g : Solves(g, m)
      BY <1>2
    <2> DEFINE e == [x \in Below(m + 1) |-> IF x \in stop THEN value[x] ELSE g[next[x]]]
    <2>2. Below(m) \subseteq Below(m + 1)
      OBVIOUS
    <2>3. \A x \in Below(m) : e[x] = g[x]
      BY <2>1, <2>2
    <2>4. \A x \in Below(m + 1) \ stop : next[x] \in Below(m)
      OBVIOUS
    <2>5. e = [x \in Below(m + 1) |-> IF x \in stop THEN value[x] ELSE e[next[x]]]
      <3> HIDE DEF Below
      <3> QED
        BY <2>3, <2>4
    <2>6. Solves(e, m + 1)
      BY <2>5
    <2> HIDE DEF e, Solves
    <2> QED
      BY <2>6
  <1>3. bound \in T
    <2> HIDE DEF T
    <2> QED
      BY <1>1, <1>2, NumbersIn
  <1>4. Below(bound) = D
    OBVIOUS
  <1> QED
    BY <1>3, <1>4 DEF Follows

LEMMA ListExists ==
    ASSUME NEW D, NEW stop, NEW value, NEW item, NEW next, NEW rank, NEW bound,
           Falls(D, stop, next, rank, bound)
    PROVE  \E f : Lists(f, D, stop, value, item, next)
  <1> DEFINE Below(m) == {x \in D : rank[x] < m}
             Solves(g, m) == g = [x \in Below(m) |-> IF x \in stop THEN value[x]
                                                     ELSE <<item[x]>> \o g[next[x]]]
             T == {m \in Nat : \E g : Solves(g, m)}
  <1> USE DEF Falls
  <1>1. 0 \in T
    <2>1. Below(0) = {}
      OBVIOUS
    <2>2. Solves([x \in {} |-> x], 0)
      BY <2>1
    <2> QED
      BY <2>2
  <1>2. ASSUME NEW m \in Nat, m \in T PROVE m + 1 \in T
    <2>1. PICK g : Solves(g, m)
      BY <1>2
    <2> DEFINE e == [x \in Below(m + 1) |-> IF x \in stop THEN value[x]
                                            ELSE <<item[x]>> \o g[next[x]]]
    <2>2. Below(m) \subseteq Below(m + 1)
      OBVIOUS
    <2>3. \A x \in Below(m) : e[x] = g[x]
      BY <2>1, <2>2
    <2>4. \A x \in Below(m + 1) \ stop : next[x] \in Below(m)
      OBVIOUS
    <2>5. e = [x \in Below(m + 1) |-> IF x \in stop THEN value[x]
                                      ELSE <<item[x]>> \o e[next[x]]]
      <3> HIDE DEF Below
      <3> QED
        BY <2>3, <2>4
    <2>6. Solves(e, m + 1)
      BY <2>5
    <2> HIDE DEF e, Solves
    <2> QED
      BY <2>6
  <1>3. bound \in T
    <2> HIDE DEF T
    <2> QED
      BY <1>1, <1>2, NumbersIn
  <1>4. Below(bound) = D
    OBVIOUS
  <1> QED
    BY <1>3, <1>4 DEF Lists

-----------------------------------------------------------------------------
(* The shape of a tree.                                                    *)

Heap == [Nodes -> NodeType \cup {NULL}]

\* Parents and children point to each other; only the root has no parent.
Linked(h, r) ==
    /\ r \in Live(h) \cup {NULL}
    /\ \A n \in Live(h) :
         /\ \A side \in Sides : h[n][side] # NULL =>
              h[n][side] \in Live(h) /\ h[h[n][side]].parent = n
         /\ n = r => h[n].parent = NULL
         /\ n # r => /\ h[n].parent \in Live(h)
                     /\ \E side \in Sides : h[h[n].parent][side] = n

Before(side, j, k) == IF side = "left" THEN j < k ELSE k < j
OnSide(S, v, side) == {k \in S : Before(side, k, v)}

\* span[n] holds the values of the nodes below n, and its own: those of a
\* child are on its side of the value of n.
Ordered(h, span) ==
    /\ span \in [Nodes -> SUBSET Keys]
    /\ \A n \in Live(h) :
         /\ h[n].value \in span[n]
         /\ \A side \in Sides : h[n][side] # NULL =>
              span[h[n][side]] \subseteq OnSide(span[n], h[n].value, side)

Tree(h, r, span) == h \in Heap /\ Linked(h, r) /\ Ordered(h, span)

Fields == {"parent", "left", "right"}

\* g is h with another link, or another height, in n.
Link(h, n, field, x, g) ==
    /\ g \in Heap /\ Live(g) = Live(h)
    /\ \A m \in Live(h) : /\ g[m].value = h[m].value /\ g[m].height = h[m].height
                          /\ \A f \in Fields : g[m][f] = IF m = n /\ f = field THEN x ELSE h[m][f]

Sized(h, n, x, g) ==
    /\ g \in Heap /\ Live(g) = Live(h)
    /\ \A m \in Live(h) : /\ g[m].value = h[m].value
                          /\ g[m].height = IF m = n THEN x ELSE h[m].height
                          /\ \A f \in Fields : g[m][f] = h[m][f]

LEMMA RecordUpdate ==
    ASSUME NEW r \in NodeType, NEW field \in Fields, NEW x \in Nodes \cup {NULL}
    PROVE  LET s == [r EXCEPT ![field] = x]
           IN /\ s \in NodeType /\ s.value = r.value /\ s.height = r.height
              /\ \A f \in Fields : s[f] = IF f = field THEN x ELSE r[f]
  BY DEF NodeType, Fields

LEMMA HeightUpdate ==
    ASSUME NEW r \in NodeType, NEW x \in Nat
    PROVE  LET s == [r EXCEPT !.height = x]
           IN /\ s \in NodeType /\ s.value = r.value /\ s.height = x
              /\ \A f \in Fields : s[f] = r[f]
  BY DEF NodeType, Fields

LEMMA LiveRecord ==
    ASSUME NEW h \in Heap, NEW n \in Live(h)
    PROVE  /\ n \in Nodes /\ n # NULL /\ h[n] \in NodeType
           /\ h[n].value \in Keys /\ h[n].height \in Nat
           /\ \A f \in Fields : h[n][f] \in Nodes \cup {NULL}
           /\ h[n].parent = h[n]["parent"] /\ h[n].left = h[n]["left"]
           /\ h[n].right = h[n]["right"]
  BY AvlAssumption DEF Heap, Live, NodeType, Fields

LEMMA LinkSet ==
    ASSUME NEW h \in Heap, NEW n \in Live(h), NEW field \in Fields, NEW x \in Nodes \cup {NULL}
    PROVE  Link(h, n, field, x, [h EXCEPT ![n][field] = x])
  <1> DEFINE s == [h[n] EXCEPT ![field] = x]
             g == [h EXCEPT ![n] = s]
  <1>1. n \in Nodes /\ h[n] \in NodeType
    BY LiveRecord
  <1>2. /\ s \in NodeType /\ s.value = h[n].value /\ s.height = h[n].height
        /\ \A f \in Fields : s[f] = IF f = field THEN x ELSE h[n][f]
    BY <1>1, RecordUpdate
  <1>3. [h EXCEPT ![n][field] = x] = g
    OBVIOUS
  <1> HIDE DEF s
  <1>4. g \in Heap /\ g[n] = s /\ \A m \in Nodes : m # n => g[m] = h[m]
    BY <1>1, <1>2 DEF Heap
  <1>5. Live(g) = Live(h)
    BY <1>1, <1>2, <1>4, AvlAssumption DEF Live, Heap
  <1> HIDE DEF g
  <1>6. \A m \in Live(h) : m \in Nodes
    BY DEF Live, Heap
  <1>7. Link(h, n, field, x, g)
    BY <1>2, <1>4, <1>5, <1>6 DEF Link
  <1> QED
    BY <1>3, <1>7

LEMMA ParentSet ==
    ASSUME NEW h \in Heap, NEW n \in Live(h), NEW x \in Nodes \cup {NULL}
    PROVE  Link(h, n, "parent", x, [h EXCEPT ![n].parent = x])
  <1>1. n \in Nodes /\ h[n] \in NodeType
    BY LiveRecord
  <1>2. [h[n] EXCEPT !.parent = x] = [h[n] EXCEPT !["parent"] = x]
    BY <1>1 DEF NodeType
  <1>3. [h EXCEPT ![n].parent = x] = [h EXCEPT ![n]["parent"] = x]
    BY <1>2
  <1>4. Link(h, n, "parent", x, [h EXCEPT ![n]["parent"] = x])
    BY LinkSet DEF Fields
  <1> QED
    BY <1>3, <1>4

LEMMA HeightSet ==
    ASSUME NEW h \in Heap, NEW n \in Live(h), NEW x \in Nat
    PROVE  Sized(h, n, x, [h EXCEPT ![n].height = x])
  <1> DEFINE s == [h[n] EXCEPT !.height = x]
             g == [h EXCEPT ![n] = s]
  <1>1. n \in Nodes /\ h[n] \in NodeType
    BY LiveRecord
  <1>2. /\ s \in NodeType /\ s.value = h[n].value /\ s.height = x
        /\ \A f \in Fields : s[f] = h[n][f]
    BY <1>1, HeightUpdate
  <1>3. [h EXCEPT ![n].height = x] = g
    OBVIOUS
  <1> HIDE DEF s
  <1>4. g \in Heap /\ g[n] = s /\ \A m \in Nodes : m # n => g[m] = h[m]
    BY <1>1, <1>2 DEF Heap
  <1>5. Live(g) = Live(h)
    BY <1>1, <1>2, <1>4, AvlAssumption DEF Live, Heap
  <1> HIDE DEF g
  <1>6. \A m \in Live(h) : m \in Nodes
    BY DEF Live, Heap
  <1>7. Sized(h, n, x, g)
    BY <1>2, <1>4, <1>5, <1>6 DEF Sized
  <1> QED
    BY <1>3, <1>7

LEMMA SideFields == Sides \subseteq Fields /\ "parent" \in Fields
  BY DEF Sides, Fields

LEMMA OtherSide ==
    ASSUME NEW side \in Sides
    PROVE  /\ Other(side) \in Sides /\ Other(side) # side /\ Other(Other(side)) = side
           /\ \A s \in Sides : s = side \/ s = Other(side)
  BY DEF Sides, Other

LEMMA SidesApart ==
    ASSUME NEW S \in SUBSET Keys, NEW v \in Keys, NEW side \in Sides
    PROVE  /\ OnSide(S, v, side) \subseteq S /\ v \notin OnSide(S, v, side)
           /\ OnSide(S, v, side) \cap OnSide(S, v, Other(side)) = {}
  <1>1. \A k \in S : k \in Int
    BY AvlAssumption
  <1>2. v \in Int
    BY AvlAssumption
  <1>3. OnSide(S, v, side) \subseteq S /\ v \notin OnSide(S, v, side)
    BY <1>1, <1>2 DEF OnSide, Before, Sides
  <1>4. ASSUME NEW k \in OnSide(S, v, side), k \in OnSide(S, v, Other(side)) PROVE FALSE
    <2>1. k \in Int
      BY <1>1, <1>3
    <2>2. CASE side = "left"
      BY <1>2, <1>4, <2>1, <2>2 DEF OnSide, Before, Other
    <2>3. CASE side = "right"
      BY <1>2, <1>4, <2>1, <2>3 DEF OnSide, Before, Other
    <2> QED
      BY <2>2, <2>3 DEF Sides
  <1> QED
    BY <1>3, <1>4

\* The height of a node by either of its sides.
LEMMA HeightOverSides ==
    ASSUME NEW h \in Heap, NEW n \in Live(h), NEW side \in Sides,
           \A s \in Sides : Height(h, h[n][s]) \in Int
    PROVE  HeightOver(h, n) =
             1 + (IF Height(h, h[n][side]) > Height(h, h[n][Other(side)])
                  THEN Height(h, h[n][side]) ELSE Height(h, h[n][Other(side)]))
  <1>1. h[n].left = h[n]["left"] /\ h[n].right = h[n]["right"]
    BY LiveRecord
  <1>2. Height(h, h[n]["left"]) \in Int /\ Height(h, h[n]["right"]) \in Int
    BY DEF Sides
  <1>3. CASE side = "left"
    BY <1>1, <1>3 DEF HeightOver, Other
  <1>4. CASE side = "right"
    BY <1>1, <1>2, <1>4 DEF HeightOver, Other
  <1> QED
    BY <1>3, <1>4 DEF Sides

LEMMA HeightsAreNumbers ==
    ASSUME NEW h \in Heap, NEW r, Linked(h, r)
    PROVE  /\ \A n \in Live(h) \cup {NULL} : Height(h, n) \in Nat
           /\ \A n \in Live(h) : /\ HeightOver(h, n) \in Nat
                                 /\ \A side \in Sides : Height(h, h[n][side]) \in Nat
  <1>1. \A n \in Live(h) \cup {NULL} : Height(h, n) \in Nat
    BY LiveRecord DEF Height
  <1>2. ASSUME NEW n \in Live(h), NEW side \in Sides PROVE Height(h, h[n][side]) \in Nat
    BY <1>1 DEF Linked
  <1>3. ASSUME NEW n \in Live(h) PROVE HeightOver(h, n) \in Nat
    <2>1. "left" \in Sides
      BY DEF Sides
    <2> QED
      BY <1>2, <2>1, HeightOverSides, OtherSide
  <1> QED
    BY <1>1, <1>2, <1>3

\* No two of the nodes next to each other are the same.
LEMMA NeighboursDiffer ==
    ASSUME NEW h, NEW r, NEW span, Tree(h, r, span), NEW n \in Live(h), NEW side \in Sides,
           h[n][side] # NULL
    PROVE  /\ h[n][side] \in Live(h) /\ h[n][side] # n
           /\ h[n][side] # h[n][Other(side)]
           /\ span[h[n][side]] \subseteq OnSide(span[n], h[n].value, side)
           /\ h[n].value \notin span[h[n][side]] /\ h[h[n][side]].value \in span[h[n][side]]
           /\ span[h[n][side]] \subseteq span[n]
  <1>1. h[n][side] \in Live(h) /\ h[n].value \in Keys
    BY LiveRecord DEF Tree, Linked
  <1>2. /\ span[h[n][side]] \subseteq OnSide(span[n], h[n].value, side)
        /\ h[h[n][side]].value \in span[h[n][side]]
    BY <1>1 DEF Tree, Ordered
  <1>3. h[n].value \notin span[h[n][side]] /\ span[h[n][side]] \subseteq span[n]
    <2>1. span[n] \in SUBSET Keys
      BY LiveRecord DEF Tree, Ordered
    <2> QED
      BY <1>1, <1>2, <2>1, SidesApart
  <1>4. h[n][side] # h[n][Other(side)]
    <2> SUFFICES ASSUME h[n][side] = h[n][Other(side)] PROVE FALSE
      OBVIOUS
    <2>1. span[h[n][side]] \subseteq OnSide(span[n], h[n].value, Other(side))
      BY <1>1, OtherSide DEF Tree, Ordered
    <2>2. h[h[n][side]].value \in Keys
      BY <1>1, LiveRecord DEF Tree
    <2>3. span[n] \in SUBSET Keys
      BY LiveRecord DEF Tree, Ordered
    <2> QED
      BY <1>1, <1>2, <2>1, <2>3, SidesApart
  <1> QED
    BY <1>1, <1>2, <1>3, <1>4 DEF Tree, Ordered

-----------------------------------------------------------------------------
(* Rotations.                                                              *)

\* In h, the node a of g went down on `side`, below its child of the other.
Turned(g, h, a, side) ==
    LET b == g[a][Other(side)]
        t == g[b][side]
        p == g[a].parent
    IN /\ h \in Heap /\ Live(h) = Live(g)
       /\ \A n \in Live(g) : h[n].value = g[n].value
       /\ h[a].parent = b /\ h[a][Other(side)] = t /\ h[a][side] = g[a][side]
       /\ h[b].parent = p /\ h[b][side] = a /\ h[b][Other(side)] = g[b][Other(side)]
       /\ h[a].height = HeightOver(h, a) /\ h[b].height = HeightOver(h, b)
       /\ \A n \in Live(g) \ {a, b} :
            /\ h[n].height = g[n].height
            /\ h[n].parent = IF n = t THEN a ELSE g[n].parent
            /\ \A s \in Sides : h[n][s] = IF n = p /\ g[n][s] = a THEN b ELSE g[n][s]

LEMMA HeightOverSame ==
    ASSUME NEW g \in Heap, NEW h \in Heap, NEW n, n \in Live(g), n \in Live(h),
           \A s \in Sides : h[n][s] = g[n][s] /\ Height(h, h[n][s]) = Height(g, g[n][s])
    PROVE  HeightOver(h, n) = HeightOver(g, n)
  <1>1. "left" \in Sides /\ "right" \in Sides
    BY DEF Sides
  <1>2. h[n].left = g[n].left /\ h[n].right = g[n].right
    BY <1>1, LiveRecord
  <1>3. /\ Height(h, h[n].left) = Height(g, g[n].left)
        /\ Height(h, h[n].right) = Height(g, g[n].right)
    BY <1>1, LiveRecord
  <1> QED
    BY <1>2, <1>3 DEF HeightOver

\* The nodes that a rotation touches, and that they are not the same.
Apart(g, r, a, side) ==
    LET b == g[a][Other(side)]
        t == g[b][side]
        p == g[a].parent
    IN /\ b \in Live(g) /\ b # a
       /\ t # NULL => t \in Live(g) /\ t # a /\ t # b
       /\ p # NULL => p \in Live(g) /\ p # a /\ p # b /\ p # t
       /\ g[a][side] # NULL => g[a][side] \in Live(g) \ {a, b}
       /\ g[b][Other(side)] # NULL => g[b][Other(side)] \in Live(g) \ {a, b, t}
       /\ p # NULL => \E s \in Sides : g[p][s] = a
       /\ a = r => p = NULL

LEMMA RotationNodes ==
    ASSUME NEW g, NEW r, NEW span, Tree(g, r, span), NEW a \in Live(g), NEW side \in Sides,
           g[a][Other(side)] # NULL
    PROVE  Apart(g, r, a, side)
  <1> DEFINE b == g[a][Other(side)]
             t == g[b][side]
             p == g[a].parent
             c == g[a][side]
             d == g[b][Other(side)]
  <1>1. Other(side) \in Sides /\ Other(side) # side /\ Other(Other(side)) = side
    BY OtherSide
  <1>2. /\ b \in Live(g) /\ b # a /\ b # c /\ g[a].value \notin span[b]
        /\ span[b] \subseteq span[a] /\ g[b].value \in span[b]
    BY <1>1, NeighboursDiffer
  <1>3. t # NULL => /\ t \in Live(g) /\ t # b /\ g[b].value \notin span[t] /\ t # d
                    /\ g[t].value \in span[t] /\ span[t] \subseteq span[b]
    BY <1>1, <1>2, NeighboursDiffer
  <1>4. d # NULL => /\ d \in Live(g) /\ d # b
                    /\ g[d].value \in span[d] /\ span[d] \subseteq span[b]
    BY <1>1, <1>2, NeighboursDiffer
  <1>5. c # NULL => c \in Live(g) /\ c # a
    BY <1>1, NeighboursDiffer
  <1>6. (a = r => p = NULL) /\ (p # NULL => p \in Live(g) /\ \E s \in Sides : g[p][s] = a)
    BY DEF Tree, Linked
  <1>7. g[a].value \in span[a]
    BY DEF Tree, Ordered
  <1>8. p # NULL => p # a /\ g[p].value \notin span[a]
    <2> SUFFICES ASSUME p # NULL PROVE p # a /\ g[p].value \notin span[a]
      OBVIOUS
    <2>1. PICK s \in Sides : g[p][s] = a
      BY <1>6
    <2>2. a # NULL
      BY LiveRecord DEF Tree
    <2> QED
      BY <1>6, <2>1, <2>2, NeighboursDiffer
  <1> QED
    BY <1>2, <1>3, <1>4, <1>5, <1>6, <1>7, <1>8 DEF Apart

LEMMA RotateTurns ==
    ASSUME NEW g, NEW r, NEW span, Tree(g, r, span), NEW a \in Live(g), NEW side \in Sides,
           g[a][Other(side)] # NULL
    PROVE  Turned(g, Rotate(g, a, side), a, side)
  <1> DEFINE o == Other(side)
             b == g[a][o]
             t == g[b][side]
             p == g[a].parent
             slot == IF g[p].left = a THEN "left" ELSE "right"
             h0 == Relinked(g, p, a, b)
             h1 == [h0 EXCEPT ![a].parent = b]
             h2 == [h1 EXCEPT ![a][o] = t]
             h3 == [h2 EXCEPT ![a].height = HeightOver(h2, a)]
             h4 == [h3 EXCEPT ![b].parent = p]
             h5 == [h4 EXCEPT ![b][side] = a]
             h6 == [h5 EXCEPT ![b].height = HeightOver(h5, b)]
             h7 == Adopted(h6, t, a)
  <1>1. Rotate(g, a, side) = h7
    <2>1. [Relinked(g, p, a, b) EXCEPT ![a].parent = b, ![a][o] = t] = h2
      BY Zenon
    <2>2. WithHeight(h2, a) = h3
      BY DEF WithHeight
    <2>3. [WithHeight(h2, a) EXCEPT ![b].parent = p, ![b][side] = a] = h5
      BY <2>2, Zenon
    <2>4. WithHeight(h5, b) = h6
      BY DEF WithHeight
    <2> HIDE DEF h2, h5, h6
    <2> QED
      BY <2>1, <2>3, <2>4 DEF Rotate
  <1>2. /\ o \in Sides /\ o # side /\ \A s \in Sides : s = side \/ s = o
        /\ o \in Fields /\ side \in Fields /\ "parent" \in Fields /\ o # "parent" /\ side # "parent"
    BY OtherSide, SideFields DEF Sides
  <1>3. /\ b \in Live(g) /\ b # a
        /\ t # NULL => t \in Live(g) /\ t # a /\ t # b
        /\ p # NULL => p \in Live(g) /\ p # a /\ p # b /\ p # t
        /\ g[a][side] # NULL => g[a][side] \in Live(g) \ {a, b}
        /\ g[b][o] # NULL => g[b][o] \in Live(g) \ {a, b, t}
        /\ p # NULL => \E s \in Sides : g[p][s] = a
    BY RotationNodes DEF Apart
  <1>4. g \in Heap /\ b \in Nodes /\ a \in Nodes /\ t \in Nodes \cup {NULL} /\ p \in Nodes \cup {NULL}
    BY <1>3, LiveRecord DEF Tree
  <1>5. p # NULL => slot \in Sides /\ slot \in Fields /\ \A s \in Sides : g[p][s] = a <=> s = slot
    <2> SUFFICES ASSUME p # NULL PROVE slot \in Sides /\ \A s \in Sides : g[p][s] = a <=> s = slot
      BY SideFields
    <2>1. PICK s \in Sides : g[p][s] = a
      BY <1>3
    <2>2. g[p][Other(s)] # a
      BY <1>3, <1>4, <2>1, NeighboursDiffer, LiveRecord
    <2>3. g[p].left = g[p]["left"]
      BY <1>3, <1>4, LiveRecord
    <2>4. s = slot
      BY <2>1, <2>2, <2>3 DEF Sides, Other
    <2> QED
      BY <2>1, <2>2, <2>4, OtherSide
  <1> HIDE DEF slot
  <1>6. /\ h0 \in Heap /\ Live(h0) = Live(g)
        /\ \A m \in Live(g) : /\ h0[m].value = g[m].value /\ h0[m].height = g[m].height
                              /\ h0[m]["parent"] = g[m]["parent"]
                              /\ \A s \in Sides : h0[m][s] = IF m = p /\ g[m][s] = a THEN b ELSE g[m][s]
    <2>1. CASE p = NULL
      BY <1>4, <2>1, LiveRecord DEF Relinked
    <2>2. CASE p # NULL
      <3>1. h0 = [g EXCEPT ![p][slot] = b]
        BY <2>2 DEF Relinked, slot
      <3>2. Link(g, p, slot, b, h0)
        BY <1>3, <1>4, <1>5, <2>2, <3>1, LinkSet
      <3> QED
        BY <1>2, <1>5, <2>2, <3>2, SideFields DEF Link, Sides
    <2> QED
      BY <2>1, <2>2
  <1> HIDE DEF h0
  <1>7. Link(h0, a, "parent", b, h1)
    BY <1>4, <1>6, ParentSet
  <1> HIDE DEF h1
  <1>8. Link(h1, a, o, t, h2)
    <2>1. h1 \in Heap /\ a \in Live(h1)
      BY <1>6, <1>7 DEF Link
    <2> QED
      BY <1>2, <1>4, <2>1, LinkSet
  <1> HIDE DEF h2
  <1>9. /\ h2 \in Heap /\ Live(h2) = Live(g)
        /\ \A m \in Live(g) : /\ h2[m].value = g[m].value /\ h2[m].height = g[m].height
                              /\ h2[m]["parent"] = IF m = a THEN b ELSE g[m]["parent"]
                              /\ m # a => \A s \in Sides :
                                   h2[m][s] = IF m = p /\ g[m][s] = a THEN b ELSE g[m][s]
        /\ h2[a][o] = t /\ h2[a][side] = g[a][side]
    <2>1. /\ h1 \in Heap /\ Live(h1) = Live(g)
          /\ \A m \in Live(g) : /\ h1[m].value = g[m].value /\ h1[m].height = g[m].height
                                /\ h1[m]["parent"] = IF m = a THEN b ELSE g[m]["parent"]
                                /\ \A s \in Sides : h1[m][s] = h0[m][s]
      BY <1>2, <1>6, <1>7, SideFields DEF Link, Sides
    <2>2. /\ h2 \in Heap /\ Live(h2) = Live(g)
          /\ \A m \in Live(g) : /\ h2[m].value = g[m].value /\ h2[m].height = g[m].height
                                /\ h2[m]["parent"] = IF m = a THEN b ELSE g[m]["parent"]
                                /\ \A s \in Sides : h2[m][s] = IF m = a /\ s = o THEN t ELSE h0[m][s]
      BY <1>2, <1>8, <2>1, SideFields DEF Link
    <2>3. h0[a][side] = g[a][side]
      BY <1>2, <1>3, <1>4, <1>6, AvlAssumption
    <2> QED
      BY <1>2, <1>6, <2>2, <2>3
  <1>10. HeightOver(h2, a) \in Nat
    <2>1. \A s \in Sides : Height(h2, h2[a][s]) \in Nat
      BY <1>2, <1>3, <1>9, LiveRecord DEF Height
    <2>2. HeightOver(h2, a) = 1 + (IF Height(h2, h2[a][side]) > Height(h2, h2[a][o])
                                   THEN Height(h2, h2[a][side]) ELSE Height(h2, h2[a][o]))
      BY <1>9, <2>1, HeightOverSides
    <2> QED
      BY <1>2, <2>1, <2>2
  <1>11. Sized(h2, a, HeightOver(h2, a), h3)
    BY <1>9, <1>10, HeightSet
  <1> HIDE DEF h3
  <1>12. Link(h3, b, "parent", p, h4)
    <2>1. h3 \in Heap /\ b \in Live(h3)
      BY <1>3, <1>9, <1>11 DEF Sized
    <2> QED
      BY <1>4, <2>1, ParentSet
  <1> HIDE DEF h4
  <1>13. Link(h4, b, side, a, h5)
    <2>1. h4 \in Heap /\ b \in Live(h4)
      BY <1>3, <1>9, <1>11, <1>12 DEF Sized, Link
    <2> QED
      BY <1>2, <1>4, <2>1, LinkSet
  <1> HIDE DEF h5
  <1>14. /\ h5 \in Heap /\ Live(h5) = Live(g)
         /\ \A m \in Live(g) : /\ h5[m].value = g[m].value
                               /\ h5[m].height = IF m = a THEN HeightOver(h2, a) ELSE g[m].height
                               /\ h5[m]["parent"] = IF m = a THEN b ELSE IF m = b THEN p ELSE g[m]["parent"]
                               /\ m \notin {a, b} => \A s \in Sides :
                                    h5[m][s] = IF m = p /\ g[m][s] = a THEN b ELSE g[m][s]
         /\ h5[a][o] = t /\ h5[a][side] = g[a][side]
         /\ h5[b][side] = a /\ h5[b][o] = g[b][o]
    <2>1. \A m \in Live(g) : /\ h3[m].value = h2[m].value
                             /\ h3[m].height = IF m = a THEN HeightOver(h2, a) ELSE h2[m].height
                             /\ h3[m]["parent"] = h2[m]["parent"]
                             /\ \A s \in Sides : h3[m][s] = h2[m][s]
      BY <1>9, <1>11, SideFields DEF Sized
    <2>2. Live(h3) = Live(g)
      BY <1>9, <1>11 DEF Sized
    <2>3. h5 \in Heap /\ Live(h5) = Live(g)
      BY <1>12, <1>13, <2>2 DEF Link
    <2>4. \A m \in Live(g) : /\ h5[m].value = h3[m].value /\ h5[m].height = h3[m].height
                             /\ h5[m]["parent"] = IF m = b THEN p ELSE h3[m]["parent"]
                             /\ \A s \in Sides : h5[m][s] = IF m = b /\ s = side THEN a ELSE h3[m][s]
      BY <1>2, <1>12, <1>13, <2>2, SideFields DEF Link
    <2>5. h5[b][o] = g[b][o]
      BY <1>2, <1>3, <1>9, <2>1, <2>4
    <2> QED
      BY <1>2, <1>3, <1>9, <2>1, <2>3, <2>4, <2>5
  <1>15. HeightOver(h5, b) \in Nat
    <2>1. \A s \in Sides : Height(h5, h5[b][s]) \in Nat
      BY <1>2, <1>3, <1>14, LiveRecord DEF Height
    <2>2. HeightOver(h5, b) = 1 + (IF Height(h5, h5[b][side]) > Height(h5, h5[b][o])
                                   THEN Height(h5, h5[b][side]) ELSE Height(h5, h5[b][o]))
      BY <1>3, <1>14, <2>1, HeightOverSides
    <2> QED
      BY <1>2, <2>1, <2>2
  <1>16. Sized(h5, b, HeightOver(h5, b), h6)
    BY <1>3, <1>14, <1>15, HeightSet
  <1> HIDE DEF h6
  <1>17. /\ h7 \in Heap /\ Live(h7) = Live(g)
         /\ \A m \in Live(g) : /\ h7[m].value = h6[m].value /\ h7[m].height = h6[m].height
                               /\ h7[m]["parent"] = IF m = t THEN a ELSE h6[m]["parent"]
                               /\ \A s \in Sides : h7[m][s] = h6[m][s]
    <2>1. CASE t = NULL
      <3>1. \A m \in Live(g) : m # NULL
        BY <1>4, LiveRecord
      <3> QED
        BY <1>14, <1>16, <2>1, <3>1 DEF Sized, Adopted
    <2>2. CASE t # NULL
      <3>1. h7 = [h6 EXCEPT ![t].parent = a]
        BY <2>2 DEF Adopted
      <3>2. t \in Live(h6) /\ h6 \in Heap /\ Live(h6) = Live(g)
        BY <1>3, <1>14, <1>16, <2>2 DEF Sized
      <3>3. Link(h6, t, "parent", a, h7)
        <4>1. a \in Nodes \cup {NULL}
          BY <1>4, LiveRecord
        <4> HIDE DEF t
        <4>2. Link(h6, t, "parent", a, [h6 EXCEPT ![t].parent = a])
          BY <3>2, <4>1, ParentSet
        <4> QED
          BY <3>1, <4>2, Zenon
      <3> QED
        BY <1>2, <3>2, <3>3, SideFields DEF Link
    <2> QED
      BY <2>1, <2>2
  <1> HIDE DEF h7
  <1>18. \A m \in Live(g) : /\ h7[m].value = g[m].value
                            /\ h7[m].height = IF m = b THEN HeightOver(h5, b) ELSE h5[m].height
                            /\ h7[m]["parent"] = IF m = t THEN a ELSE h5[m]["parent"]
                            /\ \A s \in Sides : h7[m][s] = h5[m][s]
    BY <1>14, <1>16, <1>17, SideFields DEF Sized
  <1>19. \A m \in Live(g) : h7[m].parent = h7[m]["parent"] /\ g[m].parent = g[m]["parent"]
    BY <1>4, <1>17, LiveRecord
  <1>20. h7[a].height = HeightOver(h7, a)
    <2>1. \A s \in Sides : h7[a][s] = h2[a][s] /\ Height(h7, h7[a][s]) = Height(h2, h2[a][s])
      <3>1. h7[a][o] = t /\ h7[a][side] = g[a][side] /\ h2[a][o] = t /\ h2[a][side] = g[a][side]
        BY <1>2, <1>9, <1>14, <1>18
      <3>2. \A m \in Live(g) \ {a, b} : h7[m].height = h2[m].height
        BY <1>9, <1>14, <1>18
      <3> QED
        BY <1>2, <1>3, <3>1, <3>2 DEF Height
    <2>2. HeightOver(h7, a) = HeightOver(h2, a)
      BY <1>9, <1>17, <2>1, HeightOverSame
    <2> QED
      BY <1>3, <1>14, <1>18, <2>2
  <1>21. h7[b].height = HeightOver(h7, b)
    <2>1. \A s \in Sides : h7[b][s] = h5[b][s] /\ Height(h7, h7[b][s]) = Height(h5, h5[b][s])
      <3>1. \A m \in Live(g) \ {b} : h7[m].height = h5[m].height
        BY <1>18
      <3>2. \A s \in Sides : h7[b][s] = h5[b][s]
        BY <1>3, <1>18
      <3> QED
        BY <1>2, <1>3, <1>14, <3>1, <3>2 DEF Height
    <2>2. HeightOver(h7, b) = HeightOver(h5, b)
      BY <1>3, <1>14, <1>17, <2>1, HeightOverSame
    <2> QED
      BY <1>3, <1>18, <2>2
  <1>22. /\ h7[a].parent = b /\ h7[a][o] = t /\ h7[a][side] = g[a][side]
         /\ h7[b].parent = p /\ h7[b][side] = a /\ h7[b][o] = g[b][o]
    <2>1. a # t /\ b # t
      BY <1>3, <1>4, LiveRecord
    <2> QED
      BY <1>2, <1>3, <1>14, <1>18, <1>19, <2>1
  <1>23. ASSUME NEW n \in Live(g) \ {a, b}
         PROVE  /\ h7[n].height = g[n].height
                /\ h7[n].parent = IF n = t THEN a ELSE g[n].parent
                /\ \A s \in Sides : h7[n][s] = IF n = p /\ g[n][s] = a THEN b ELSE g[n][s]
    BY <1>14, <1>18, <1>19
  <1>24. Turned(g, h7, a, side)
    BY <1>17, <1>18, <1>20, <1>21, <1>22, <1>23 DEF Turned
  <1> QED
    BY <1>1, <1>24

LEMMA BeforeOrders ==
    ASSUME NEW side \in Sides
    PROVE  /\ \A j, k \in Keys : Before(Other(side), j, k) <=> Before(side, k, j)
           /\ \A i, j, k \in Keys : Before(side, i, j) /\ Before(side, j, k) => Before(side, i, k)
           /\ \A j \in Keys : ~Before(side, j, j)
           /\ \A j, k \in Keys : j # k => Before(side, j, k) \/ Before(side, k, j)
  <1>1. \A k \in Keys : k \in Int
    BY AvlAssumption
  <1>2. CASE side = "left"
    BY <1>1, <1>2 DEF Before, Other
  <1>3. CASE side = "right"
    BY <1>1, <1>3 DEF Before, Other
  <1> QED
    BY <1>2, <1>3 DEF Sides

\* What hung elsewhere stays there.
LEMMA TurnElsewhere ==
    ASSUME NEW g, NEW r, NEW span, Tree(g, r, span), NEW a \in Live(g), NEW side \in Sides,
           g[a][Other(side)] # NULL,
           NEW n \in Live(g) \ {a, g[a][Other(side)]}, NEW s \in Sides, g[n][s] # NULL
    PROVE  /\ g[n][s] = a => n = g[a].parent
           /\ g[n][s] # a => g[n][s] \in Live(g) \ {a, g[a][Other(side)], g[g[a][Other(side)]][side]}
  <1> DEFINE b == g[a][Other(side)]
             t == g[b][side]
             x == g[n][s]
  <1>1. /\ b \in Live(g) /\ g[b].parent = a
        /\ t # NULL => g[t].parent = b
        /\ x \in Live(g) /\ g[x].parent = n
    BY OtherSide DEF Tree, Linked
  <1>2. x # NULL /\ n # a /\ n # b
    OBVIOUS
  <1>3. (x = a => n = g[a].parent) /\ (x # a => x \in Live(g) \ {a, b, t})
    <2> HIDE DEF x, b, t
    <2> QED
      BY <1>1, <1>2
  <1> QED
    BY <1>3

LEMMA TurnLinked ==
    ASSUME NEW g, NEW r, NEW span, Tree(g, r, span), NEW a \in Live(g), NEW side \in Sides,
           g[a][Other(side)] # NULL, NEW h, Turned(g, h, a, side)
    PROVE  Linked(h, IF a = r THEN g[a][Other(side)] ELSE r)
  <1> DEFINE o == Other(side)
             b == g[a][o]
             t == g[b][side]
             p == g[a].parent
             c == g[a][side]
             d == g[b][o]
             top == IF a = r THEN b ELSE r
  <1>1. o \in Sides /\ o # side /\ \A s \in Sides : s = side \/ s = o
    BY OtherSide
  <1>2. /\ b \in Live(g) /\ b # a
        /\ t # NULL => t \in Live(g) /\ t # a /\ t # b
        /\ p # NULL => p \in Live(g) /\ p # a /\ p # b /\ p # t
        /\ c # NULL => c \in Live(g) \ {a, b}
        /\ d # NULL => d \in Live(g) \ {a, b, t}
        /\ p # NULL => \E s \in Sides : g[p][s] = a
        /\ a = r => p = NULL
    BY RotationNodes DEF Apart
  <1>3. /\ Live(h) = Live(g)
        /\ h[a].parent = b /\ h[a][o] = t /\ h[a][side] = c
        /\ h[b].parent = p /\ h[b][side] = a /\ h[b][o] = d
        /\ \A n \in Live(g) \ {a, b} :
             /\ h[n].parent = IF n = t THEN a ELSE g[n].parent
             /\ \A s \in Sides : h[n][s] = IF n = p /\ g[n][s] = a THEN b ELSE g[n][s]
    BY DEF Turned
  <1>4. /\ r \in Live(g) \cup {NULL}
        /\ \A n \in Live(g) :
             /\ \A s \in Sides : g[n][s] # NULL =>
                  g[n][s] \in Live(g) /\ g[g[n][s]].parent = n
             /\ n = r => g[n].parent = NULL
             /\ n # r => /\ g[n].parent \in Live(g)
                         /\ \E s \in Sides : g[g[n].parent][s] = n
    BY DEF Tree, Linked
  <1>5. \A n \in Live(g) : n # NULL
    BY LiveRecord DEF Tree
  <1>6. \A n \in Live(g) \ {a, b} : \A s \in Sides : g[n][s] # NULL =>
          /\ g[n][s] = a => n = p
          /\ g[n][s] # a => g[n][s] \in Live(g) \ {a, b, t}
    BY TurnElsewhere
  <1>7. g[b].parent = a /\ (t # NULL => g[t].parent = b)
        /\ (c # NULL => g[c].parent = a) /\ (d # NULL => g[d].parent = b)
    BY <1>1, <1>2, <1>4
  <1> HIDE DEF o, b, t, p, c, d
  <1>8. top \in Live(h) \cup {NULL}
    BY <1>2, <1>3, <1>4
  <1>9. ASSUME NEW n \in Live(h), NEW s \in Sides, h[n][s] # NULL
        PROVE  h[n][s] \in Live(h) /\ h[h[n][s]].parent = n
    <2>1. CASE n = a
      BY <1>1, <1>2, <1>3, <1>7, <1>9, <2>1
    <2>2. CASE n = b
      BY <1>1, <1>2, <1>3, <1>7, <1>9, <2>2
    <2>3. CASE n \notin {a, b} /\ g[n][s] = a
      BY <1>2, <1>3, <1>5, <1>6, <2>3
    <2>4. CASE n \notin {a, b} /\ g[n][s] # a
      <3>1. h[n][s] = g[n][s]
        BY <1>3, <2>4
      <3>2. g[n][s] \in Live(g) \ {a, b, t}
        BY <1>3, <1>6, <1>9, <2>4, <3>1
      <3>3. h[g[n][s]].parent = g[g[n][s]].parent
        BY <1>3, <3>2
      <3> QED
        BY <1>3, <1>4, <1>9, <3>1, <3>2, <3>3
    <2> QED
      BY <2>1, <2>2, <2>3, <2>4
  <1>10. ASSUME NEW n \in Live(h), n = top PROVE h[n].parent = NULL
    <2>1. CASE a = r
      BY <1>2, <1>3, <1>10, <2>1
    <2>2. CASE a # r
      <3>1. n = r /\ n # a
        BY <1>10, <2>2
      <3>2. n # b /\ n # t
        BY <1>2, <1>3, <1>4, <1>5, <1>7, <1>10, <3>1
      <3> QED
        BY <1>3, <1>4, <1>10, <3>1, <3>2
    <2> QED
      BY <2>1, <2>2
  <1>11. ASSUME NEW n \in Live(h), n # top
         PROVE  h[n].parent \in Live(h) /\ \E s \in Sides : h[h[n].parent][s] = n
    <2>1. CASE n = a
      BY <1>2, <1>3, <2>1
    <2>2. CASE n = b
      <3>1. a # r /\ p \in Live(g) \ {a, b}
        BY <1>2, <1>4, <1>5, <1>11, <2>2 DEF p
      <3>2. PICK s \in Sides : g[p][s] = a
        BY <1>2, <1>5, <3>1
      <3> QED
        BY <1>3, <2>2, <3>1, <3>2
    <2>3. CASE n = t /\ n \notin {a, b}
      BY <1>1, <1>2, <1>3, <2>3
    <2>4. CASE n \notin {a, b, t}
      <3>1. n # r
        BY <1>11, <2>4
      <3>2. PICK s \in Sides : g[n].parent \in Live(g) /\ g[g[n].parent][s] = n
        BY <1>3, <1>4, <3>1
      <3>3. h[n].parent = g[n].parent
        BY <1>3, <2>4
      <3>4. CASE g[n].parent = a
        BY <1>1, <1>3, <2>4, <3>2, <3>3, <3>4 DEF b, c
      <3>5. CASE g[n].parent = b
        BY <1>1, <1>3, <2>4, <3>2, <3>3, <3>5 DEF t, d
      <3>6. CASE g[n].parent \notin {a, b}
        BY <1>3, <2>4, <3>2, <3>3, <3>6
      <3> QED
        BY <3>4, <3>5, <3>6
    <2> QED
      BY <2>1, <2>2, <2>3, <2>4
  <1>12. Linked(h, top)
    BY <1>8, <1>9, <1>10, <1>11 DEF Linked
  <1> QED
    BY <1>12 DEF b, o

LEMMA TurnOrdered ==
    ASSUME NEW g, NEW r, NEW span, Tree(g, r, span), NEW a \in Live(g), NEW side \in Sides,
           g[a][Other(side)] # NULL, NEW h, Turned(g, h, a, side)
    PROVE  Ordered(h, [span EXCEPT ![g[a][Other(side)]] = span[a],
                                   ![a] = OnSide(span[a], g[g[a][Other(side)]].value, side)])
  <1> DEFINE o == Other(side)
             b == g[a][o]
             t == g[b][side]
             p == g[a].parent
             c == g[a][side]
             d == g[b][o]
             va == g[a].value
             vb == g[b].value
             now == [span EXCEPT ![b] = span[a], ![a] = OnSide(span[a], vb, side)]
  <1>1. o \in Sides /\ o # side /\ (\A s \in Sides : s = side \/ s = o) /\ Other(o) = side
    BY OtherSide
  <1>2. /\ b \in Live(g) /\ b # a
        /\ t # NULL => t \in Live(g) /\ t # a /\ t # b
        /\ c # NULL => c \in Live(g) \ {a, b}
        /\ d # NULL => d \in Live(g) \ {a, b, t}
    BY RotationNodes DEF Apart
  <1>3. /\ Live(h) = Live(g) /\ \A n \in Live(g) : h[n].value = g[n].value
        /\ h[a][o] = t /\ h[a][side] = c /\ h[b][side] = a /\ h[b][o] = d
        /\ \A n \in Live(g) \ {a, b} : \A s \in Sides :
             h[n][s] = IF n = p /\ g[n][s] = a THEN b ELSE g[n][s]
    BY DEF Turned
  <1>4. /\ span \in [Nodes -> SUBSET Keys]
        /\ \A n \in Live(g) :
             /\ g[n].value \in span[n]
             /\ \A s \in Sides : g[n][s] # NULL =>
                  span[g[n][s]] \subseteq OnSide(span[n], g[n].value, s)
    BY DEF Tree, Ordered
  <1>5. /\ \A n \in Live(g) : n \in Nodes /\ g[n].value \in Keys /\ span[n] \subseteq Keys
        /\ \A n \in Live(g) : n # NULL
    BY <1>4, LiveRecord DEF Tree
  <1>6. \A n \in Live(g) \ {a, b} : \A s \in Sides : g[n][s] # NULL =>
          /\ g[n][s] = a => n = p
          /\ g[n][s] # a => g[n][s] \in Live(g) \ {a, b, t}
    BY TurnElsewhere
  <1>7. /\ va \in span[a] /\ vb \in span[b] /\ va \in Keys /\ vb \in Keys
        /\ span[b] \subseteq OnSide(span[a], va, o)
        /\ t # NULL => span[t] \subseteq OnSide(span[b], vb, side)
        /\ c # NULL => span[c] \subseteq OnSide(span[a], va, side)
        /\ d # NULL => span[d] \subseteq OnSide(span[b], vb, o)
    BY <1>1, <1>2, <1>4, <1>5
  <1>8. /\ now \in [Nodes -> SUBSET Keys]
        /\ now[b] = span[a] /\ now[a] = OnSide(span[a], vb, side)
        /\ \A n \in Nodes \ {a, b} : now[n] = span[n]
    <2>1. OnSide(span[a], vb, side) \subseteq Keys /\ span[a] \subseteq Keys
      BY <1>5 DEF OnSide
    <2> QED
      BY <1>2, <1>4, <1>5, <2>1
  <1>9. va \in OnSide(span[a], vb, side)
    <2>1. Before(o, vb, va)
      BY <1>7 DEF OnSide
    <2>2. Before(side, va, vb)
      BY <1>7, <2>1, BeforeOrders
    <2> QED
      BY <1>7, <2>2 DEF OnSide
  <1>10. t # NULL => span[t] \subseteq OnSide(OnSide(span[a], vb, side), va, o)
    BY <1>7 DEF OnSide
  <1>11. c # NULL => span[c] \subseteq OnSide(OnSide(span[a], vb, side), va, side)
    <2>1. Before(side, va, vb)
      BY <1>9 DEF OnSide
    <2>2. ASSUME c # NULL, NEW k \in span[c]
          PROVE  k \in span[a] /\ Before(side, k, va) /\ Before(side, k, vb)
      <3>1. k \in span[a] /\ Before(side, k, va) /\ k \in Keys
        BY <1>5, <1>7, <2>2 DEF OnSide
      <3> QED
        BY <1>7, <2>1, <3>1, BeforeOrders
    <2> QED
      BY <2>2 DEF OnSide
  <1>12. d # NULL => span[d] \subseteq OnSide(span[a], vb, o)
    BY <1>7 DEF OnSide
  <1> HIDE DEF now, o, b, t, p, c, d, va, vb
  <1>13. ASSUME NEW n \in Live(h) PROVE h[n].value \in now[n]
    <2>1. CASE n = a
      BY <1>3, <1>8, <1>9, <2>1 DEF va
    <2>2. CASE n = b
      BY <1>2, <1>3, <1>7, <1>8, <2>2 DEF vb, OnSide
    <2>3. CASE n \notin {a, b}
      BY <1>3, <1>4, <1>5, <1>8, <2>3
    <2> QED
      BY <2>1, <2>2, <2>3
  <1>14. ASSUME NEW n \in Live(h), NEW s \in Sides, h[n][s] # NULL
         PROVE  now[h[n][s]] \subseteq OnSide(now[n], h[n].value, s)
    <2>1. CASE n = a /\ s = o
      <3>1. t \in Nodes \ {a, b} /\ t # NULL /\ h[n][s] = t /\ h[n].value = va
        BY <1>2, <1>3, <1>5, <1>14, <2>1 DEF va
      <3> QED
        BY <1>8, <1>10, <2>1, <3>1
    <2>2. CASE n = a /\ s = side
      <3>1. c \in Nodes \ {a, b} /\ c # NULL /\ h[n][s] = c /\ h[n].value = va
        BY <1>2, <1>3, <1>5, <1>14, <2>2 DEF va
      <3> QED
        BY <1>8, <1>11, <2>2, <3>1
    <2>3. CASE n = b /\ s = side
      <3>1. h[n][s] = a /\ h[n].value = vb
        BY <1>2, <1>3, <2>3 DEF vb
      <3> QED
        BY <1>8, <2>3, <3>1
    <2>4. CASE n = b /\ s = o
      <3>1. d \in Nodes \ {a, b} /\ d # NULL /\ h[n][s] = d /\ h[n].value = vb
        BY <1>2, <1>3, <1>5, <1>14, <2>4 DEF vb
      <3> QED
        BY <1>8, <1>12, <2>4, <3>1
    <2>5. CASE n \notin {a, b} /\ g[n][s] = a
      <3>1. h[n][s] = b /\ h[n].value = g[n].value /\ now[n] = span[n]
        BY <1>3, <1>5, <1>6, <1>8, <2>5
      <3>2. span[a] \subseteq OnSide(span[n], g[n].value, s)
        BY <1>3, <1>4, <1>5, <2>5
      <3> QED
        BY <1>8, <3>1, <3>2
    <2>6. CASE n \notin {a, b} /\ g[n][s] # a
      <3>1. h[n][s] = g[n][s] /\ h[n].value = g[n].value /\ now[n] = span[n]
        BY <1>3, <1>5, <1>8, <2>6
      <3>2. g[n][s] \in Live(g) \ {a, b}
        BY <1>3, <1>6, <1>14, <2>6, <3>1
      <3> QED
        BY <1>3, <1>4, <1>5, <1>8, <1>14, <3>1, <3>2
    <2> QED
      BY <1>1, <2>1, <2>2, <2>3, <2>4, <2>5, <2>6
  <1>15. Ordered(h, now)
    BY <1>8, <1>13, <1>14 DEF Ordered
  <1> QED
    BY <1>15 DEF now, b, o, vb

LEMMA TurnTree ==
    ASSUME NEW g, NEW r, NEW span, Tree(g, r, span), NEW a \in Live(g), NEW side \in Sides,
           g[a][Other(side)] # NULL, NEW h, Turned(g, h, a, side)
    PROVE  \E now : Tree(h, IF a = r THEN g[a][Other(side)] ELSE r, now)
  <1> DEFINE now == [span EXCEPT ![g[a][Other(side)]] = span[a],
                                 ![a] = OnSide(span[a], g[g[a][Other(side)]].value, side)]
             top == IF a = r THEN g[a][Other(side)] ELSE r
  <1>1. h \in Heap
    BY DEF Turned
  <1>2. Linked(h, top)
    BY TurnLinked
  <1>3. Ordered(h, now)
    BY TurnOrdered
  <1> HIDE DEF now, top
  <1>4. Tree(h, top, now)
    BY <1>1, <1>2, <1>3 DEF Tree
  <1> QED
    BY <1>4 DEF top

-----------------------------------------------------------------------------
(* Balance.                                                                *)

Good(h, n) ==
    /\ h[n].height = HeightOver(h, n)
    /\ \A side \in Sides : Lean(h, n, side) <= 1

Over(x, y) == 1 + (IF x > y THEN x ELSE y)
Close(x, y) == x - y <= 1 /\ y - x <= 1

\* n was good before the height on one side changed, by one.
Nearly(h, n) ==
    \E side \in Sides, old \in Nat :
       LET y == Height(h, h[n][Other(side)])
       IN /\ h[n].height = Over(old, y) /\ Close(old, y)
          /\ Close(Height(h, h[n][side]), old)

\* Two close heights under x + 1 are at most x, and each of them makes, with x, a
\* node of height x + 1 or less.
LEMMA CloseUnder ==
    ASSUME NEW x \in Nat, NEW y \in Nat, NEW z \in Nat, x + 1 = Over(y, z), Close(y, z)
    PROVE  /\ y <= x /\ z <= x
           /\ Over(x, y) = x + 1 /\ Close(x, y)
           /\ Over(z, x) = x + 1 /\ Close(z, x)
  <1>1. x + 1 = 1 + (IF y > z THEN y ELSE z) /\ y - z <= 1 /\ z - y <= 1
    BY DEF Over, Close
  <1>2. y <= x /\ z <= x /\ x - y <= 1 /\ x - z <= 1 /\ y - x <= 1 /\ z - x <= 1
    BY <1>1
  <1> QED
    BY <1>2 DEF Over, Close

\* A node is good by the heights on either of its sides.
LEMMA GoodSides ==
    ASSUME NEW h \in Heap, NEW r, Linked(h, r), NEW n \in Live(h), NEW side \in Sides
    PROVE  /\ Height(h, h[n][side]) \in Nat /\ Height(h, h[n][Other(side)]) \in Nat
           /\ HeightOver(h, n) = Over(Height(h, h[n][side]), Height(h, h[n][Other(side)]))
           /\ Good(h, n) <=>
                /\ h[n].height = Over(Height(h, h[n][side]), Height(h, h[n][Other(side)]))
                /\ Close(Height(h, h[n][side]), Height(h, h[n][Other(side)]))
  <1>1. /\ Other(side) \in Sides /\ Other(Other(side)) = side
        /\ \A s \in Sides : s = side \/ s = Other(side)
    BY OtherSide
  <1>2. \A s \in Sides : Height(h, h[n][s]) \in Nat /\ Height(h, h[n][s]) \in Int
    BY HeightsAreNumbers
  <1>3. HeightOver(h, n) = Over(Height(h, h[n][side]), Height(h, h[n][Other(side)]))
    BY <1>2, HeightOverSides DEF Over
  <1>4. (\A s \in Sides : Lean(h, n, s) <= 1) <=>
          Close(Height(h, h[n][side]), Height(h, h[n][Other(side)]))
    BY <1>1 DEF Lean, Close
  <1> QED
    BY <1>1, <1>2, <1>3, <1>4 DEF Good

\* What a rotation does to the heights below each node.
TurnedHeights(g, h, a, side) ==
    LET b == g[a][Other(side)]
        t == g[b][side]
    IN /\ h[a][side] = g[a][side] /\ Height(h, h[a][side]) = Height(g, g[a][side])
       /\ h[a][Other(side)] = t /\ Height(h, t) = Height(g, t)
       /\ h[b][Other(side)] = g[b][Other(side)]
       /\ Height(h, h[b][Other(side)]) = Height(g, g[b][Other(side)])
       /\ h[b][side] = a /\ Height(h, a) = h[a].height
       /\ \A n \in Live(g) \ {a, b}, s \in Sides : g[n][s] # a =>
            h[n][s] = g[n][s] /\ Height(h, h[n][s]) = Height(g, g[n][s])
       /\ \A n \in Live(g) \ {a, b} : h[n].height = g[n].height

LEMMA TurnHeights ==
    ASSUME NEW g, NEW r, NEW span, Tree(g, r, span), NEW a \in Live(g), NEW side \in Sides,
           g[a][Other(side)] # NULL, NEW h, Turned(g, h, a, side)
    PROVE  TurnedHeights(g, h, a, side)
  <1> DEFINE o == Other(side)
             b == g[a][o]
             t == g[b][side]
             p == g[a].parent
             c == g[a][side]
             d == g[b][o]
  <1>1. o \in Sides /\ o # side /\ (\A s \in Sides : s = side \/ s = o) /\ Other(o) = side
    BY OtherSide
  <1>2. /\ b \in Live(g) /\ b # a
        /\ t # NULL => t \in Live(g) /\ t # a /\ t # b
        /\ c # NULL => c \in Live(g) \ {a, b}
        /\ d # NULL => d \in Live(g) \ {a, b, t}
    BY RotationNodes DEF Apart
  <1>3. /\ Live(h) = Live(g)
        /\ h[a][o] = t /\ h[a][side] = c /\ h[b][side] = a /\ h[b][o] = d
        /\ \A n \in Live(g) \ {a, b} :
             /\ h[n].height = g[n].height
             /\ \A s \in Sides : h[n][s] = IF n = p /\ g[n][s] = a THEN b ELSE g[n][s]
    BY DEF Turned
  <1>4. \A n \in Live(g) \ {a, b} : \A s \in Sides : g[n][s] # NULL /\ g[n][s] # a =>
          g[n][s] \in Live(g) \ {a, b, t}
    BY TurnElsewhere
  <1>5. \A n \in Live(g) : n # NULL
    BY LiveRecord DEF Tree
  <1> HIDE DEF o, b, t, p, c, d
  <1>6. Height(h, c) = Height(g, c) /\ Height(h, t) = Height(g, t) /\ Height(h, d) = Height(g, d)
    BY <1>2, <1>3 DEF Height
  <1>7. Height(h, a) = h[a].height
    BY <1>5 DEF Height
  <1>8. ASSUME NEW n \in Live(g) \ {a, b}, NEW s \in Sides, g[n][s] # a
        PROVE  h[n][s] = g[n][s] /\ Height(h, h[n][s]) = Height(g, g[n][s])
    BY <1>3, <1>4, <1>8 DEF Height
  <1>9. /\ h[a][side] = c /\ Height(h, h[a][side]) = Height(g, c)
        /\ h[a][o] = t /\ Height(h, t) = Height(g, t)
        /\ h[b][o] = d /\ Height(h, h[b][o]) = Height(g, d)
        /\ h[b][side] = a /\ Height(h, a) = h[a].height
        /\ \A n \in Live(g) \ {a, b} : h[n].height = g[n].height
    BY <1>3, <1>6, <1>7
  <1> QED
    BY <1>8, <1>9, Zenon DEF TurnedHeights, o, b, t, c, d

\* The nodes that a rotation does not touch stay good.
LEMMA TurnGood ==
    ASSUME NEW g, NEW r, NEW span, Tree(g, r, span), NEW a \in Live(g), NEW side \in Sides,
           g[a][Other(side)] # NULL, NEW h, Turned(g, h, a, side),
           NEW m \in Live(g), m # a, m # g[a][Other(side)], m # g[a].parent, Good(g, m)
    PROVE  Good(h, m)
  <1>1. \A s \in Sides : g[m][s] # a
    <2> SUFFICES ASSUME NEW s \in Sides, g[m][s] = a PROVE FALSE
      OBVIOUS
    <2>1. a # NULL
      BY LiveRecord DEF Tree
    <2> QED
      BY <2>1 DEF Tree, Linked
  <1>2. /\ \A s \in Sides : h[m][s] = g[m][s] /\ Height(h, h[m][s]) = Height(g, g[m][s])
        /\ h[m].height = g[m].height
    BY <1>1, TurnHeights DEF TurnedHeights
  <1>3. h \in Heap /\ g \in Heap /\ m \in Live(h)
    BY DEF Turned, Tree
  <1>4. HeightOver(h, m) = HeightOver(g, m)
    BY <1>2, <1>3, HeightOverSame
  <1>5. \A s \in Sides : Lean(h, m, s) = Lean(g, m, s)
    BY <1>2, OtherSide DEF Lean
  <1> QED
    BY <1>2, <1>4, <1>5 DEF Good

\* The height of a node is set anew.
LEMMA SizedTree ==
    ASSUME NEW g, NEW r, NEW span, Tree(g, r, span), NEW n \in Live(g), NEW x,
           NEW h, Sized(g, n, x, h)
    PROVE  /\ Tree(h, r, span) /\ Live(h) = Live(g)
           /\ \A m \in Live(g) : /\ h[m].value = g[m].value /\ h[m].parent = g[m].parent
                                 /\ h[m].height = IF m = n THEN x ELSE g[m].height
                                 /\ \A s \in Sides : h[m][s] = g[m][s]
           /\ \A m \in Live(g), s \in Sides : g[m][s] # n => Height(h, h[m][s]) = Height(g, g[m][s])
  <1>1. /\ h \in Heap /\ g \in Heap /\ Live(h) = Live(g)
        /\ \A m \in Live(g) : /\ h[m].value = g[m].value /\ h[m]["parent"] = g[m]["parent"]
                              /\ h[m].height = IF m = n THEN x ELSE g[m].height
                              /\ \A s \in Sides : h[m][s] = g[m][s]
    BY SideFields DEF Sized, Tree
  <1>2. \A m \in Live(g) : h[m].parent = g[m].parent
    BY <1>1, LiveRecord
  <1>3. Linked(h, r)
    BY <1>1, <1>2 DEF Linked, Tree
  <1>4. Ordered(h, span)
    BY <1>1 DEF Ordered, Tree
  <1>5. ASSUME NEW m \in Live(g), NEW s \in Sides, g[m][s] # n
        PROVE  Height(h, h[m][s]) = Height(g, g[m][s])
    <2>1. g[m][s] # NULL => g[m][s] \in Live(g)
      BY DEF Tree, Linked
    <2> QED
      BY <1>1, <1>5, <2>1 DEF Height
  <1> QED
    BY <1>1, <1>2, <1>3, <1>4, <1>5 DEF Tree

\* The parent of a subtree whose height changes by one was good.
LEMMA ParentNearly ==
    ASSUME NEW g \in Heap, NEW r, Linked(g, r), NEW p \in Live(g), NEW s \in Sides,
           Good(g, p), NEW h, h[p].height = g[p].height,
           Height(h, h[p][Other(s)]) = Height(g, g[p][Other(s)]),
           Close(Height(h, h[p][s]), Height(g, g[p][s]))
    PROVE  Nearly(h, p)
  <1>1. /\ Height(g, g[p][s]) \in Nat
        /\ g[p].height = Over(Height(g, g[p][s]), Height(g, g[p][Other(s)]))
        /\ Close(Height(g, g[p][s]), Height(g, g[p][Other(s)]))
    BY GoodSides
  <1> QED
    BY <1>1 DEF Nearly

LEMMA TurnParent ==
    ASSUME NEW g, NEW r, NEW span, Tree(g, r, span), NEW a \in Live(g), NEW side \in Sides,
           g[a][Other(side)] # NULL, NEW h, Turned(g, h, a, side), g[a].parent # NULL
    PROVE  LET p == g[a].parent
           IN /\ p \in Live(g) /\ h[p].height = g[p].height
              /\ \E s \in Sides : /\ g[p][s] = a /\ h[p][s] = g[a][Other(side)]
                                  /\ h[p][Other(s)] = g[p][Other(s)]
                                  /\ Height(h, h[p][Other(s)]) = Height(g, g[p][Other(s)])
  <1> DEFINE p == g[a].parent
             b == g[a][Other(side)]
  <1>1. p \in Live(g) \ {a, b} /\ a # NULL
    BY RotationNodes, LiveRecord DEF Tree, Apart
  <1>2. PICK s \in Sides : g[p][s] = a
    BY RotationNodes DEF Apart
  <1>3. g[p][Other(s)] # a
    BY <1>1, <1>2, NeighboursDiffer
  <1>4. h[p].height = g[p].height /\ h[p][s] = b
    BY <1>1, <1>2 DEF Turned
  <1>5. /\ h[p][Other(s)] = g[p][Other(s)]
        /\ Height(h, h[p][Other(s)]) = Height(g, g[p][Other(s)])
    BY <1>1, <1>3, TurnHeights, OtherSide DEF TurnedHeights
  <1> QED
    BY <1>1, <1>2, <1>4, <1>5

\* In h, top stands where n stood in g, and below it all is good.  What is
\* higher than `bound` has not been touched.
Restored(g, h, n, top, r, bound) ==
    /\ \E span : Tree(h, IF n = r THEN top ELSE r, span)
    /\ Live(h) = Live(g) /\ \A m \in Live(g) : h[m].value = g[m].value
    /\ top \in Live(g)
    /\ \A m \in Live(g) : m # g[n].parent => Good(h, m)
    /\ g[n].parent # NULL =>
         /\ h[g[n].parent].height = g[g[n].parent].height
         /\ \E s \in Sides : /\ g[g[n].parent][s] = n /\ h[g[n].parent][s] = top
                             /\ Height(h, h[g[n].parent][Other(s)]) =
                                  Height(g, g[g[n].parent][Other(s)])
    /\ \A m \in Live(g) : g[m].height > bound /\ m # n =>
         h[m].height = g[m].height /\ h[m].parent = g[m].parent

LEMMA StraightRestores ==
    ASSUME NEW g, NEW r, NEW span, Tree(g, r, span), NEW n \in Live(g), NEW side \in Sides,
           NEW x \in Nat, Height(g, g[n][Other(side)]) = x, Height(g, g[n][side]) = x + 2,
           \A m \in Live(g) : m # n /\ m # g[n].parent => Good(g, m),
           Straight(g, g[n][side], side)
    PROVE  LET c == g[n][side]
               h == Rotate(g, n, Other(side))
           IN Restored(g, h, n, c, r, x + 2) /\ h[c].height \in {x + 2, x + 3}
  <1> DEFINE c == g[n][side]
             o == Other(side)
             t == g[c][o]
             p == g[n].parent
             h == Rotate(g, n, o)
             u == Height(g, g[c][side])
             w == Height(g, t)
  <1>1. o \in Sides /\ Other(o) = side /\ o # side /\ \A s \in Sides : s = side \/ s = o
    BY OtherSide
  <1>2. c # NULL
    BY DEF Height
  <1>3. Turned(g, h, n, o)
    BY <1>1, <1>2, RotateTurns
  <1> HIDE DEF h
  <1>4. /\ c \in Live(g) /\ c # n
        /\ t # NULL => t \in Live(g) /\ t # n /\ t # c
        /\ p # NULL => p \in Live(g) /\ p # n /\ p # c /\ p # t
    BY <1>1, <1>2, RotationNodes DEF Apart
  <1>5. \A m \in Live(g) : m # NULL
    BY LiveRecord DEF Tree
  <1>6. /\ Height(h, h[n][o]) = x /\ h[n][side] = t /\ Height(h, h[n][side]) = w
        /\ Height(h, h[c][side]) = u /\ h[c][o] = n /\ Height(h, h[c][o]) = h[n].height
    <2>1. /\ h[n][o] = g[n][o] /\ Height(h, h[n][o]) = Height(g, g[n][o])
          /\ h[n][side] = t /\ Height(h, t) = Height(g, t)
          /\ Height(h, h[c][side]) = Height(g, g[c][side])
          /\ h[c][o] = n /\ Height(h, n) = h[n].height
      BY <1>1, <1>2, <1>3, TurnHeights DEF TurnedHeights
    <2> QED
      BY <2>1
  <1>7. /\ h \in Heap /\ Live(h) = Live(g) /\ \A m \in Live(g) : h[m].value = g[m].value
        /\ h[n].height = HeightOver(h, n) /\ h[c].height = HeightOver(h, c)
    BY <1>1, <1>3 DEF Turned
  <1>8. PICK now : Tree(h, IF n = r THEN c ELSE r, now)
    BY <1>1, <1>2, <1>3, TurnTree
  <1> DEFINE top == IF n = r THEN c ELSE r
  <1>9. Linked(h, top) /\ Linked(g, r) /\ g \in Heap
    BY <1>8 DEF Tree
  <1> HIDE DEF top
  <1>10. Good(g, c)
    BY <1>4, <1>5
  <1>11. u \in Nat /\ w \in Nat /\ x + 2 = Over(u, w) /\ Close(u, w) /\ u - w >= 0
    <2>1. Height(g, c) = g[c].height
      BY <1>2 DEF Height
    <2>2. u \in Nat /\ w \in Nat /\ g[c].height = Over(u, w) /\ Close(u, w)
      BY <1>4, <1>9, <1>10, GoodSides
    <2>3. u - w >= 0
      BY DEF Straight, Lean
    <2> QED
      BY <2>1, <2>2, <2>3
  <1>12. u = x + 1 /\ w \in {x, x + 1}
    BY <1>11 DEF Over, Close
  <1>13. Good(h, n) /\ h[n].height = w + 1
    <2>1. /\ HeightOver(h, n) = Over(w, x)
          /\ Good(h, n) <=> h[n].height = Over(w, x) /\ Close(w, x)
      BY <1>6, <1>7, <1>9, GoodSides
    <2>2. Over(w, x) = w + 1 /\ Close(w, x)
      BY <1>12 DEF Over, Close
    <2> QED
      BY <1>7, <2>1, <2>2
  <1>14. Good(h, c) /\ h[c].height \in {x + 2, x + 3}
    <2>1. /\ HeightOver(h, c) = Over(u, w + 1)
          /\ Good(h, c) <=> h[c].height = Over(u, w + 1) /\ Close(u, w + 1)
      BY <1>4, <1>6, <1>7, <1>9, <1>13, GoodSides
    <2>2. Over(u, w + 1) \in {x + 2, x + 3} /\ Close(u, w + 1)
      BY <1>12 DEF Over, Close
    <2> QED
      BY <1>7, <2>1, <2>2
  <1>15. ASSUME NEW m \in Live(g), m # p PROVE Good(h, m)
    <2>1. CASE m \in {n, c}
      BY <1>13, <1>14, <2>1
    <2>2. CASE m \notin {n, c}
      BY <1>1, <1>2, <1>3, <1>15, <2>2, TurnGood
    <2> QED
      BY <2>1, <2>2
  <1>16. p # NULL => /\ h[p].height = g[p].height
                     /\ \E s \in Sides : /\ g[p][s] = n /\ h[p][s] = c
                                         /\ Height(h, h[p][Other(s)]) = Height(g, g[p][Other(s)])
    BY <1>1, <1>2, <1>3, TurnParent
  <1>17. ASSUME NEW m \in Live(g), g[m].height > x + 2, m # n
         PROVE  h[m].height = g[m].height /\ h[m].parent = g[m].parent
    <2>1. m # c
      BY <1>2, <1>17 DEF Height
    <2>2. m # t
      BY <1>5, <1>12, <1>17 DEF Height
    <2> QED
      BY <1>1, <1>3, <1>17, <2>1, <2>2 DEF Turned
  <1>18. Restored(g, h, n, c, r, x + 2)
    BY <1>4, <1>7, <1>8, <1>15, <1>16, <1>17 DEF Restored
  <1> QED
    BY <1>14, <1>18 DEF h

LEMMA BentRestores ==
    ASSUME NEW g, NEW r, NEW span, Tree(g, r, span), NEW n \in Live(g), NEW side \in Sides,
           NEW x \in Nat, Height(g, g[n][Other(side)]) = x, Height(g, g[n][side]) = x + 2,
           \A m \in Live(g) : m # n /\ m # g[n].parent => Good(g, m),
           ~Straight(g, g[n][side], side)
    PROVE  LET h1 == Rotate(g, g[n][side], side)
               h2 == Rotate(h1, n, Other(side))
           IN Restored(g, h2, n, h1[n][side], r, x + 2) /\ h2[h1[n][side]].height = x + 2
  <1> DEFINE c == g[n][side]
             o == Other(side)
             b == g[c][o]
             y == g[b][side]
             z == g[b][o]
             p == g[n].parent
             h1 == Rotate(g, c, side)
             h2 == Rotate(h1, n, o)
  <1>1. o \in Sides /\ Other(o) = side /\ o # side /\ \A s \in Sides : s = side \/ s = o
    BY OtherSide
  <1>2. g \in Heap /\ Linked(g, r) /\ \A m \in Live(g) : m # NULL
    BY LiveRecord DEF Tree
  <1>3. c \in Live(g) /\ c # NULL /\ g[c].parent = n /\ g[c].height = x + 2 /\ c # r
    BY <1>2 DEF Height, Linked
  <1>4. b # NULL => b \in Live(g)
    BY <1>1, <1>2, <1>3 DEF Linked
  <1>5. p # NULL => p \in Live(g) \ {n, c, b}
    BY <1>1, <1>3, RotationNodes DEF Apart
  <1>6. /\ Height(g, g[c][side]) = x /\ Height(g, b) = x + 1 /\ b # NULL
    <2>1. Good(g, c)
      BY <1>2, <1>3, <1>5, NeighboursDiffer
    <2>2. /\ Height(g, g[c][side]) \in Nat /\ Height(g, b) \in Nat
          /\ x + 2 = Over(Height(g, g[c][side]), Height(g, b))
          /\ Close(Height(g, g[c][side]), Height(g, b))
      BY <1>2, <1>3, <2>1, GoodSides
    <2>3. Height(g, g[c][side]) < Height(g, b)
      BY <2>2 DEF Straight, Lean
    <2>4. Height(g, g[c][side]) = x /\ Height(g, b) = x + 1
      BY <2>2, <2>3 DEF Over, Close
    <2> QED
      BY <2>4 DEF Height
  <1>7. /\ b \in Live(g) /\ b # c /\ g[b].parent = c
        /\ y # NULL => y \in Live(g) \ {c, b, n}
        /\ z # NULL => z \in Live(g) \ {c, b, y}
        /\ n \in Live(g) \ {c, b}
    <2>1. b \in Live(g) /\ g[b].parent = c
      BY <1>1, <1>2, <1>3, <1>6 DEF Linked
    <2>2. /\ b # c /\ n # c /\ n # b
          /\ y # NULL => y \in Live(g) /\ y # c /\ y # b /\ n # y
          /\ z # NULL => z \in Live(g) \ {c, b, y}
      <3>1. g[c].parent = n /\ c \in Live(g) /\ g[c][Other(side)] # NULL
        BY <1>3, <1>6
      <3>2. n # NULL
        BY <1>2
      <3> HIDE DEF c
      <3>3. Apart(g, r, c, side)
        BY <3>1, RotationNodes
      <3>4. b # c /\ n # c /\ n # b /\ n # y
        BY <3>1, <3>2, <3>3 DEF Apart
      <3>5. /\ y # NULL => y \in Live(g) /\ y # c /\ y # b
            /\ z # NULL => z \in Live(g) \ {c, b, y}
        BY <3>3 DEF Apart
      <3> HIDE DEF b, y, z
      <3> QED
        BY <3>4, <3>5
    <2> QED
      BY <2>1, <2>2
  <1>8. Turned(g, h1, c, side)
    BY <1>3, <1>6, RotateTurns
  <1>9. PICK now1 : Tree(h1, r, now1)
    BY <1>3, <1>6, <1>8, TurnTree
  <1> HIDE DEF h1
  <1>10. /\ h1 \in Heap /\ Live(h1) = Live(g) /\ \A m \in Live(g) : h1[m].value = g[m].value
         /\ h1[c].height = HeightOver(h1, c) /\ h1[c].parent = b
         /\ \A m \in Live(g) \ {c, b} :
              /\ h1[m].height = g[m].height
              /\ h1[m].parent = IF m = y THEN c ELSE g[m].parent
         /\ h1[n][side] = b
    BY <1>3, <1>7, <1>8 DEF Turned
  <1>11. /\ Height(h1, h1[c][side]) = Height(g, g[c][side]) /\ h1[c][o] = y
         /\ Height(h1, h1[c][o]) = Height(g, y)
         /\ h1[b][o] = z /\ Height(h1, z) = Height(g, z)
         /\ h1[b][side] = c /\ Height(h1, c) = h1[c].height
         /\ \A m \in Live(g) \ {c, b}, s \in Sides : g[m][s] # c =>
              h1[m][s] = g[m][s] /\ Height(h1, h1[m][s]) = Height(g, g[m][s])
    <2>1. /\ Height(h1, h1[c][side]) = Height(g, g[c][side]) /\ h1[c][o] = y
          /\ Height(h1, y) = Height(g, y)
          /\ h1[b][o] = z /\ Height(h1, h1[b][o]) = Height(g, z)
          /\ h1[b][side] = c /\ Height(h1, c) = h1[c].height
          /\ \A m \in Live(g) \ {c, b}, s \in Sides : g[m][s] # c =>
               h1[m][s] = g[m][s] /\ Height(h1, h1[m][s]) = Height(g, g[m][s])
      <3>1. c \in Live(g) /\ g[c][Other(side)] # NULL /\ Turned(g, h1, c, side)
        BY <1>3, <1>6, <1>8
      <3> HIDE DEF c
      <3>2. TurnedHeights(g, h1, c, side)
        BY <3>1, TurnHeights
      <3> QED
        BY <3>2 DEF TurnedHeights
    <2> HIDE DEF c, b, y, z
    <2> QED
      BY <2>1, Zenon
  <1>12. /\ Height(g, y) \in Nat /\ Height(g, z) \in Nat
         /\ x + 1 = Over(Height(g, y), Height(g, z)) /\ Close(Height(g, y), Height(g, z))
    <2>1. Good(g, b) /\ Height(g, b) = g[b].height
      BY <1>2, <1>5, <1>7 DEF Height
    <2> QED
      BY <1>2, <1>6, <1>7, <2>1, GoodSides
  <1>13. /\ Height(g, y) <= x /\ Height(g, z) <= x
         /\ Over(x, Height(g, y)) = x + 1 /\ Close(x, Height(g, y))
         /\ Over(Height(g, z), x) = x + 1 /\ Close(Height(g, z), x)
    <2> HIDE DEF y, z
    <2> QED
      BY <1>12, CloseUnder, ZenonT(30)
  <1>14. Good(h1, c) /\ h1[c].height = x + 1
    <2>1. /\ HeightOver(h1, c) = Over(x, Height(g, y))
          /\ Good(h1, c) <=> h1[c].height = Over(x, Height(g, y)) /\ Close(x, Height(g, y))
      <3>1. h1 \in Heap /\ Linked(h1, r) /\ c \in Live(h1)
        BY <1>3, <1>9, <1>10 DEF Tree
      <3>2. Height(h1, h1[c][side]) = x /\ Height(h1, h1[c][o]) = Height(g, y)
        BY <1>6, <1>11, Zenon
      <3> HIDE DEF c, y
      <3>3. /\ HeightOver(h1, c) = Over(Height(h1, h1[c][side]), Height(h1, h1[c][o]))
            /\ Good(h1, c) <=> /\ h1[c].height = Over(Height(h1, h1[c][side]), Height(h1, h1[c][o]))
                              /\ Close(Height(h1, h1[c][side]), Height(h1, h1[c][o]))
        BY <3>1, GoodSides, Zenon
      <3> QED
        BY <3>2, <3>3, Zenon
    <2>2. Over(x, Height(g, y)) = x + 1 /\ Close(x, Height(g, y))
      BY <1>13
    <2>3. h1[c].height = HeightOver(h1, c)
      BY <1>10
    <2> HIDE DEF c, y
    <2> QED
      BY <2>1, <2>2, <2>3, Zenon
  <1>15. n \in Live(h1) /\ h1[n][Other(o)] = b /\ h1[n].parent = p
    BY <1>1, <1>2, <1>7, <1>10
  <1>16. Turned(h1, h2, n, o)
    BY <1>1, <1>6, <1>9, <1>15, RotateTurns
  <1> HIDE DEF h2
  <1>17. PICK now2 : Tree(h2, IF n = r THEN b ELSE r, now2)
    BY <1>1, <1>6, <1>9, <1>15, <1>16, TurnTree
  <1>18. /\ h2 \in Heap /\ Live(h2) = Live(g) /\ \A m \in Live(g) : h2[m].value = g[m].value
         /\ h2[n].height = HeightOver(h2, n) /\ h2[b].height = HeightOver(h2, b)
         /\ \A m \in Live(g) \ {n, b} :
              /\ h2[m].height = h1[m].height
              /\ h2[m].parent = IF m = z THEN n ELSE h1[m].parent
    <2>1. h1[n][Other(o)] = b /\ h1[b][o] = z
      BY <1>11, <1>15
    <2>2. /\ h2 \in Heap /\ Live(h2) = Live(h1)
          /\ \A m \in Live(h1) : h2[m].value = h1[m].value
          /\ h2[n].height = HeightOver(h2, n) /\ h2[b].height = HeightOver(h2, b)
          /\ \A m \in Live(h1) \ {n, b} :
               /\ h2[m].height = h1[m].height
               /\ h2[m].parent = IF m = z THEN n ELSE h1[m].parent
      <3>1. \A m \in Live(h1) : h2[m].value = h1[m].value
        BY <1>16 DEF Turned
      <3>2. h2 \in Heap /\ Live(h2) = Live(h1)
        BY <1>16 DEF Turned
      <3>3. h2[n].height = HeightOver(h2, n) /\ h2[b].height = HeightOver(h2, b)
        <4> HIDE DEF b
        <4> QED
          BY <1>16, <2>1, Zenon DEF Turned
      <3>4. \A m \in Live(h1) \ {n, b} :
              /\ h2[m].height = h1[m].height
              /\ h2[m].parent = IF m = z THEN n ELSE h1[m].parent
        <4> HIDE DEF b, z
        <4> QED
          BY <1>16, <2>1, Zenon DEF Turned
      <3> QED
        BY <3>1, <3>2, <3>3, <3>4
    <2> QED
      BY <1>10, <2>2
  <1>19. /\ Height(h2, h2[n][o]) = x /\ Height(h2, h2[n][side]) = Height(g, z)
         /\ Height(h2, h2[b][side]) = x + 1 /\ Height(h2, h2[b][o]) = h2[n].height
    <2>1. /\ Height(h2, h2[n][o]) = Height(h1, h1[n][o])
          /\ h2[n][Other(o)] = h1[b][o] /\ Height(h2, h1[b][o]) = Height(h1, h1[b][o])
          /\ Height(h2, h2[b][Other(o)]) = Height(h1, h1[b][Other(o)])
          /\ h2[b][o] = n /\ Height(h2, n) = h2[n].height
      <3>1. n \in Live(h1) /\ h1[n][Other(o)] = b /\ b # NULL
        BY <1>6, <1>15
      <3>2. TurnedHeights(h1, h2, n, o)
        <4> HIDE DEF o, b
        <4> QED
          BY <1>1, <1>9, <1>16, <3>1, TurnHeights
      <3> HIDE DEF o, b
      <3> QED
        BY <3>1, <3>2 DEF TurnedHeights
    <2>2. g[n][o] # c
      BY <1>1, <1>3, NeighboursDiffer
    <2>3. Height(h1, h1[n][o]) = x
      BY <1>1, <1>7, <1>11, <2>2
    <2> QED
      BY <1>1, <1>11, <1>14, <2>1, <2>3
  <1>20. Good(h2, n) /\ h2[n].height = x + 1
    <2>1. /\ HeightOver(h2, n) = Over(Height(g, z), x)
          /\ Good(h2, n) <=> h2[n].height = Over(Height(g, z), x) /\ Close(Height(g, z), x)
      <3>1. PICK top : h2 \in Heap /\ Linked(h2, top) /\ n \in Live(h2)
        BY <1>17, <1>18 DEF Tree
      <3>2. Height(h2, h2[n][o]) = x /\ Height(h2, h2[n][side]) = Height(g, z)
        BY <1>19, Zenon
      <3> HIDE DEF z
      <3>3. /\ HeightOver(h2, n) = Over(Height(h2, h2[n][side]), Height(h2, h2[n][o]))
            /\ Good(h2, n) <=> /\ h2[n].height = Over(Height(h2, h2[n][side]), Height(h2, h2[n][o]))
                              /\ Close(Height(h2, h2[n][side]), Height(h2, h2[n][o]))
        BY <3>1, GoodSides, Zenon
      <3> QED
        BY <3>2, <3>3, Zenon
    <2>2. Over(Height(g, z), x) = x + 1 /\ Close(Height(g, z), x)
      BY <1>13
    <2>3. h2[n].height = HeightOver(h2, n)
      BY <1>18
    <2> HIDE DEF z
    <2> QED
      BY <2>1, <2>2, <2>3, Zenon
  <1>21. Good(h2, b) /\ h2[b].height = x + 2
    <2>1. /\ HeightOver(h2, b) = Over(x + 1, x + 1)
          /\ Good(h2, b) <=> h2[b].height = Over(x + 1, x + 1) /\ Close(x + 1, x + 1)
      <3>1. PICK top : h2 \in Heap /\ Linked(h2, top) /\ b \in Live(h2)
        BY <1>7, <1>17, <1>18 DEF Tree
      <3>2. Height(h2, h2[b][side]) = x + 1 /\ Height(h2, h2[b][o]) = x + 1
        BY <1>19, <1>20, Zenon
      <3> HIDE DEF b
      <3>3. /\ HeightOver(h2, b) = Over(Height(h2, h2[b][side]), Height(h2, h2[b][o]))
            /\ Good(h2, b) <=> /\ h2[b].height = Over(Height(h2, h2[b][side]), Height(h2, h2[b][o]))
                              /\ Close(Height(h2, h2[b][side]), Height(h2, h2[b][o]))
        BY <3>1, GoodSides, Zenon
      <3> QED
        BY <3>2, <3>3, Zenon
    <2>2. Over(x + 1, x + 1) = x + 2 /\ Close(x + 1, x + 1)
      BY DEF Over, Close
    <2>3. h2[b].height = HeightOver(h2, b)
      BY <1>18
    <2> HIDE DEF b
    <2> QED
      BY <2>1, <2>2, <2>3, Zenon
  <1>22. ASSUME NEW m \in Live(g), m # p PROVE Good(h2, m)
    <2>1. CASE m \in {n, b}
      BY <1>20, <1>21, <2>1
    <2>2. CASE m \notin {n, b}
      <3>1. Good(h1, m)
        <4>1. CASE m = c
          BY <1>14, <4>1
        <4>2. CASE m # c
          <5>1. Good(g, m)
            BY <1>22, <2>2
          <5> QED
            BY <1>3, <1>6, <1>8, <2>2, <4>2, <5>1, TurnGood
        <4> QED
          BY <4>1, <4>2
      <3> QED
        BY <1>1, <1>6, <1>9, <1>10, <1>15, <1>16, <1>22, <2>2, <3>1, TurnGood
    <2> QED
      BY <2>1, <2>2
  <1>23. ASSUME p # NULL
         PROVE  /\ h2[p].height = g[p].height
                /\ \E s \in Sides : /\ g[p][s] = n /\ h2[p][s] = b
                                    /\ Height(h2, h2[p][Other(s)]) = Height(g, g[p][Other(s)])
    <2>1. /\ h2[p].height = h1[p].height
          /\ \E s \in Sides : /\ h1[p][s] = n /\ h2[p][s] = b
                              /\ h2[p][Other(s)] = h1[p][Other(s)]
                              /\ Height(h2, h2[p][Other(s)]) = Height(h1, h1[p][Other(s)])
      BY <1>1, <1>6, <1>9, <1>15, <1>16, <1>23, TurnParent
    <2>2. \A s \in Sides : g[p][s] # c
      BY <1>2, <1>3, <1>5, <1>23 DEF Linked
    <2>3. \A s \in Sides : h1[p][s] = g[p][s] /\ Height(h1, h1[p][s]) = Height(g, g[p][s])
      BY <1>5, <1>11, <1>23, <2>2
    <2>4. h1[p].height = g[p].height
      BY <1>5, <1>10, <1>23
    <2> QED
      BY <2>1, <2>3, <2>4, OtherSide
  <1>24. ASSUME NEW m \in Live(g), g[m].height > x + 2, m # n
         PROVE  h2[m].height = g[m].height /\ h2[m].parent = g[m].parent
    <2>1. m # c /\ m # b
      BY <1>3, <1>6, <1>24 DEF Height
    <2>2. Height(g, y) <= x /\ Height(g, z) <= x
      BY <1>13
    <2>3. m # y /\ m # z
      <3>1. m # NULL /\ Height(g, m) = g[m].height /\ Height(g, m) > x + 2
        BY <1>2, <1>24 DEF Height
      <3>2. Height(g, y) \in Nat /\ Height(g, z) \in Nat
        BY <1>12
      <3> HIDE DEF y, z
      <3> QED
        BY <2>2, <3>1, <3>2
    <2> QED
      BY <1>10, <1>18, <1>24, <2>1, <2>3
  <1>25. Restored(g, h2, n, b, r, x + 2)
    BY <1>7, <1>17, <1>18, <1>22, <1>23, <1>24 DEF Restored
  <1> QED
    BY <1>10, <1>21, <1>25 DEF h1, h2

\* What node_rebalance makes of a node one side of which has changed.
Balanced1(g, n, r, t) ==
    /\ \E span : Tree(t.heap, IF n = r THEN t.top ELSE r, span)
    /\ Live(t.heap) = Live(g) /\ \A m \in Live(g) : t.heap[m].value = g[m].value
    /\ t.top \in Live(g)
    /\ \A m \in Live(g) : m # g[n].parent => Good(t.heap, m)
    /\ g[n].parent # NULL => Nearly(t.heap, g[n].parent)
    /\ \A m \in Live(g) : g[m].height > g[n].height =>
         t.heap[m].height = g[m].height /\ t.heap[m].parent = g[m].parent

LEMMA NearlyHeights ==
    ASSUME NEW x \in Nat, NEW y \in Nat, NEW old \in Nat, Close(old, y), Close(x, old)
    PROVE  /\ Close(Over(x, y), Over(old, y))
           /\ x - y > 1 => /\ x = y + 2 /\ Over(old, y) = y + 2
                           /\ \A k \in {y + 2, y + 3} : Close(k, Over(old, y))
           /\ y - x > 1 => /\ y = x + 2 /\ Over(old, y) = x + 3
                           /\ \A k \in {x + 2, x + 3} : Close(k, Over(old, y))
  BY DEF Close, Over

LEMMA BalanceStep ==
    ASSUME NEW g, NEW r, NEW span, Tree(g, r, span), NEW n \in Live(g),
           \A m \in Live(g) : m # n => Good(g, m), Nearly(g, n)
    PROVE  Balanced1(g, n, r, Rebalance(WithHeight(g, n), n))
  <1> DEFINE g1 == WithHeight(g, n)
             p == g[n].parent
             t == Rebalance(g1, n)
  <1>1. /\ g \in Heap /\ Linked(g, r) /\ HeightOver(g, n) \in Nat
        /\ \A m \in Live(g) : m # NULL /\ g[m].height \in Nat
    BY HeightsAreNumbers, LiveRecord DEF Tree
  <1>2. Sized(g, n, HeightOver(g, n), g1)
    BY <1>1, HeightSet DEF WithHeight
  <1> HIDE DEF g1
  <1>3. /\ Tree(g1, r, span) /\ Live(g1) = Live(g) /\ g1 \in Heap /\ Linked(g1, r)
        /\ \A m \in Live(g) : /\ g1[m].value = g[m].value /\ g1[m].parent = g[m].parent
                              /\ g1[m].height = IF m = n THEN HeightOver(g, n) ELSE g[m].height
                              /\ \A s \in Sides : g1[m][s] = g[m][s]
        /\ \A m \in Live(g), s \in Sides : g[m][s] # n => Height(g1, g1[m][s]) = Height(g, g[m][s])
    BY <1>2, SizedTree DEF Tree
  <1>4. \A s \in Sides : g[n][s] # n
    BY <1>1, NeighboursDiffer
  <1>5. p # NULL => p \in Live(g) /\ p # n
    BY <1>1, <1>4 DEF Linked
  <1>6. ASSUME NEW m \in Live(g), m # n, m # p PROVE Good(g1, m)
    <2>1. \A s \in Sides : g[m][s] # n
      BY <1>1, <1>6 DEF Linked
    <2>2. HeightOver(g1, m) = HeightOver(g, m)
      BY <1>1, <1>3, <2>1, HeightOverSame
    <2>3. \A s \in Sides : Lean(g1, m, s) = Lean(g, m, s)
      BY <1>3, <2>1, OtherSide DEF Lean
    <2> QED
      BY <1>3, <1>6, <2>2, <2>3 DEF Good
  <1>7. PICK side \in Sides, old \in Nat :
          /\ g[n].height = Over(old, Height(g, g[n][Other(side)]))
          /\ Close(old, Height(g, g[n][Other(side)])) /\ Close(Height(g, g[n][side]), old)
    BY DEF Nearly
  <1> DEFINE X == Height(g, g[n][side])
             Y == Height(g, g[n][Other(side)])
  <1>8. /\ X \in Nat /\ Y \in Nat /\ HeightOver(g, n) = Over(X, Y)
        /\ g[n].height = Over(old, Y) /\ Close(old, Y) /\ Close(X, old)
    BY <1>1, <1>7, GoodSides
  <1>9. /\ Height(g1, g1[n][side]) = X /\ Height(g1, g1[n][Other(side)]) = Y
        /\ Other(side) \in Sides /\ Other(Other(side)) = side
        /\ \A s \in Sides : s = side \/ s = Other(side)
    BY <1>3, <1>4, OtherSide
  <1> HIDE DEF X, Y
  <1>10. /\ Close(Over(X, Y), Over(old, Y))
         /\ X - Y > 1 => /\ X = Y + 2 /\ Over(old, Y) = Y + 2
                         /\ \A k \in {Y + 2, Y + 3} : Close(k, Over(old, Y))
         /\ Y - X > 1 => /\ Y = X + 2 /\ Over(old, Y) = X + 3
                         /\ \A k \in {X + 2, X + 3} : Close(k, Over(old, Y))
    BY <1>8, NearlyHeights
  <1>11. ASSUME NEW h, NEW top \in Live(g), h[p].height = g1[p].height,
                p # NULL, NEW s \in Sides, g1[p][s] = n, h[p][s] = top, Height(h, top) = h[top].height,
                Height(h, h[p][Other(s)]) = Height(g1, g1[p][Other(s)]),
                Close(h[top].height, g[n].height)
         PROVE  Nearly(h, p)
    <2>1. Good(g, p) /\ p \in Live(g) /\ g[p][s] = n /\ h[p].height = g[p].height
      BY <1>3, <1>5, <1>11
    <2>2. g[p][Other(s)] # n
      BY <1>1, <2>1, NeighboursDiffer
    <2>3. Height(h, h[p][Other(s)]) = Height(g, g[p][Other(s)])
      BY <1>3, <1>11, <2>1, <2>2, OtherSide
    <2>4. Height(g, g[p][s]) = g[n].height
      BY <1>1, <2>1 DEF Height
    <2> QED
      BY <1>1, <1>11, <2>1, <2>3, <2>4, ParentNearly
  <1>12. ASSUME \A s \in Sides : Lean(g1, n, s) <= 1
         PROVE  Balanced1(g, n, r, t)
    <2>1. t.heap = g1 /\ t.top = n
      BY <1>12 DEF Rebalance
    <2>2. Good(g1, n)
      <3>1. HeightOver(g1, n) = HeightOver(g, n)
        BY <1>1, <1>3, <1>4, HeightOverSame
      <3> QED
        BY <1>3, <1>12, <3>1 DEF Good
    <2>3. ASSUME p # NULL PROVE Nearly(g1, p)
      <3>1. PICK s \in Sides : g[p][s] = n
        BY <1>1, <2>3 DEF Linked
      <3>2. /\ g1[p][s] = n /\ Height(g1, n) = g1[n].height
            /\ Close(g1[n].height, g[n].height)
        BY <1>1, <1>3, <1>5, <1>8, <1>10, <2>3, <3>1 DEF Height
      <3> QED
        BY <1>11, <2>3, <3>2
    <2>4. \E now : Tree(g1, IF n = r THEN n ELSE r, now)
      BY <1>3
    <2>5. \A m \in Live(g) : g[m].height > g[n].height =>
            g1[m].height = g[m].height /\ g1[m].parent = g[m].parent
      BY <1>1, <1>3
    <2> QED
      BY <1>3, <1>6, <2>1, <2>2, <2>3, <2>4, <2>5 DEF Balanced1
  <1>13. ASSUME \E s \in Sides : Lean(g1, n, s) > 1
         PROVE  Balanced1(g, n, r, t)
    <2> DEFINE s == CHOOSE e \in Sides : Lean(g1, n, e) > 1
               c == g1[n][s]
               h1 == IF Straight(g1, c, s) THEN g1 ELSE Rotate(g1, c, s)
               h2 == Rotate(h1, n, Other(s))
               top == h1[n][s]
               x == Height(g1, g1[n][Other(s)])
    <2>1. s \in Sides /\ Lean(g1, n, s) > 1
      BY <1>13
    <2>2. t.heap = h2 /\ t.top = top
      <3>1. ~(\A e \in Sides : Lean(g1, n, e) <= 1)
        <4>1. \A e \in Sides : Lean(g1, n, e) \in Int
          BY <1>8, <1>9 DEF Lean
        <4> QED
          BY <1>13, <4>1
      <3> QED
        BY <3>1 DEF Rebalance
    <2> HIDE DEF s
    <2>3. /\ x \in Nat /\ Height(g1, g1[n][s]) = x + 2
          /\ g[n].height \in {x + 2, x + 3}
          /\ \A k \in {x + 2, x + 3} : Close(k, g[n].height)
      <3>1. CASE s = side
        <4>1. x = Y /\ X - Y > 1
          BY <1>9, <2>1, <3>1 DEF Lean
        <4> QED
          BY <1>8, <1>9, <1>10, <3>1, <4>1
      <3>2. CASE s = Other(side)
        <4>1. x = X /\ Y - X > 1
          BY <1>9, <2>1, <3>2 DEF Lean
        <4> QED
          BY <1>8, <1>9, <1>10, <3>2, <4>1
      <3> QED
        BY <1>9, <2>1, <3>1, <3>2
    <2>4. \A m \in Live(g1) : m # n /\ m # g1[n].parent => Good(g1, m)
      BY <1>3, <1>6
    <2>5. n \in Live(g1)
      BY <1>3
    <2>6. Restored(g1, h2, n, top, r, x + 2) /\ h2[top].height \in {x + 2, x + 3}
      <3> HIDE DEF x
      <3>1. CASE Straight(g1, c, s)
        <4>1. h1 = g1
          BY <3>1
        <4> HIDE DEF h1
        <4> QED
          BY <1>3, <2>1, <2>3, <2>4, <2>5, <3>1, <4>1, StraightRestores DEF x
      <3>2. CASE ~Straight(g1, c, s)
        <4>1. h1 = Rotate(g1, c, s)
          BY <3>2
        <4> HIDE DEF h1
        <4> QED
          BY <1>3, <2>1, <2>3, <2>4, <2>5, <3>2, <4>1, BentRestores DEF x
      <3> QED
        BY <3>1, <3>2
    <2> HIDE DEF h1, h2, top, x, t
    <2>7. /\ \E now : Tree(h2, IF n = r THEN top ELSE r, now)
          /\ Live(h2) = Live(g) /\ \A m \in Live(g) : h2[m].value = g[m].value
          /\ top \in Live(g)
          /\ \A m \in Live(g) : m # p => Good(h2, m)
      BY <1>3, <2>5, <2>6 DEF Restored
    <2>8. ASSUME p # NULL PROVE Nearly(h2, p)
      <3>1. /\ h2[p].height = g1[p].height
            /\ \E e \in Sides : /\ g1[p][e] = n /\ h2[p][e] = top
                                /\ Height(h2, h2[p][Other(e)]) = Height(g1, g1[p][Other(e)])
        BY <1>3, <2>5, <2>6, <2>8 DEF Restored
      <3>2. Height(h2, top) = h2[top].height
        BY <1>1, <2>7 DEF Height
      <3>3. Close(h2[top].height, g[n].height)
        BY <2>3, <2>6
      <3> QED
        BY <1>11, <2>7, <2>8, <3>1, <3>2, <3>3
    <2>9. ASSUME NEW m \in Live(g), g[m].height > g[n].height
          PROVE  h2[m].height = g[m].height /\ h2[m].parent = g[m].parent
      <3>1. m # n
        BY <1>1, <2>9
      <3>2. g1[m].height > x + 2
        BY <1>1, <1>3, <2>3, <2>9, <3>1
      <3>3. h2[m].height = g1[m].height /\ h2[m].parent = g1[m].parent
        BY <1>3, <2>6, <3>1, <3>2 DEF Restored
      <3> QED
        BY <1>3, <3>1, <3>3
    <2> QED
      BY <2>2, <2>7, <2>8, <2>9 DEF Balanced1
  <1>14. \A s \in Sides : Lean(g1, n, s) \in Int
    BY <1>8, <1>9 DEF Lean
  <1>15. Balanced1(g, n, r, t)
    <2> HIDE DEF t
    <2>1. (\A s \in Sides : Lean(g1, n, s) <= 1) \/ (\E s \in Sides : Lean(g1, n, s) > 1)
      BY <1>14
    <2> QED
      BY <1>12, <1>13, <2>1
  <1> QED
    BY <1>15 DEF g1

LEMMA RebalanceAllSteps ==
    ASSUME NEW h, NEW nodes, Len(nodes) \in Nat
    PROVE  \E f : /\ f[0].heap = h
                  /\ \A i \in 1..Len(nodes) :
                       f[i] = Rebalance(WithHeight(f[i - 1].heap, nodes[i]), nodes[i])
                  /\ RebalanceAll(h, nodes) = f[Len(nodes)]
  <1> DEFINE first == [heap |-> h, top |-> NULL]
             Step(g, i) == Rebalance(WithHeight(g[i - 1].heap, nodes[i]), nodes[i])
             Solves(g, m) == g = [i \in 0..m |-> IF i = 0 THEN first ELSE Step(g, i)]
             T == {m \in Nat : \E g : Solves(g, m)}
             upTo == CHOOSE g : g = [i \in 0..Len(nodes) |-> IF i = 0 THEN first ELSE Step(g, i)]
  <1>1. 0 \in T
    <2> DEFINE g == [i \in {0} |-> first]
    <2>1. 0..0 = {0}
      OBVIOUS
    <2>2. g = [i \in 0..0 |-> IF i = 0 THEN first ELSE Step(g, i)]
      <3> HIDE DEF Step, first
      <3> QED
        BY <2>1
    <2> QED
      BY <2>2
  <1>2. ASSUME NEW m \in Nat, m \in T PROVE m + 1 \in T
    <2>1. PICK g : Solves(g, m)
      BY <1>2
    <2> DEFINE e == [i \in 0..(m + 1) |-> IF i = 0 THEN first ELSE Step(g, i)]
    <2>2. \A i \in 0..m : e[i] = g[i]
      <3> HIDE DEF Step, first
      <3> QED
        BY <2>1
    <2>3. \A i \in 1..(m + 1) : Step(e, i) = Step(g, i)
      <3>1. \A i \in 1..(m + 1) : i - 1 \in 0..m
        OBVIOUS
      <3>2. \A i \in 1..(m + 1) : e[i - 1] = g[i - 1]
        BY <2>2, <3>1
      <3> HIDE DEF e
      <3> QED
        BY <3>2
    <2>4. e = [i \in 0..(m + 1) |-> IF i = 0 THEN first ELSE Step(e, i)]
      <3> HIDE DEF Step, first
      <3> QED
        BY <2>3
    <2>5. Solves(e, m + 1)
      BY <2>4
    <2> HIDE DEF e, Solves
    <2> QED
      BY <2>5
  <1>3. Len(nodes) \in T
    <2> HIDE DEF T
    <2> QED
      BY <1>1, <1>2, NumbersIn
  <1>4. upTo = [i \in 0..Len(nodes) |-> IF i = 0 THEN first ELSE Step(upTo, i)]
    <2>1. \E g : g = [i \in 0..Len(nodes) |-> IF i = 0 THEN first ELSE Step(g, i)]
      BY <1>3
    <2> HIDE DEF Step, first
    <2> QED
      BY <2>1
  <1>5. RebalanceAll(h, nodes) = upTo[Len(nodes)]
    BY DEF RebalanceAll
  <1> HIDE DEF upTo
  <1>6. upTo[0] = first
    <2> HIDE DEF Step, first
    <2> QED
      BY <1>4
  <1>7. \A i \in 1..Len(nodes) : upTo[i] = Step(upTo, i)
    <2> HIDE DEF Step, first
    <2> QED
      BY <1>4
  <1> QED
    BY <1>5, <1>6, <1>7

\* A chain of nodes from one up to the root.
Chain(h, nodes) ==
    /\ Len(nodes) \in Nat /\ Len(nodes) >= 1
    /\ \A i \in 1..Len(nodes) : nodes[i] \in Live(h)
    /\ \A i \in 1..(Len(nodes) - 1) :
         /\ h[nodes[i]].parent = nodes[i + 1]
         /\ h[nodes[i]].height < h[nodes[i + 1]].height
    /\ h[nodes[Len(nodes)]].parent = NULL

LEMMA ChainRises ==
    ASSUME NEW h \in Heap, NEW nodes, Chain(h, nodes), NEW i \in 1..Len(nodes)
    PROVE  \A j \in 1..Len(nodes) : i < j => h[nodes[i]].height < h[nodes[j]].height
  <1> DEFINE T == {m \in Nat : i + m + 1 <= Len(nodes) =>
                                 h[nodes[i]].height < h[nodes[i + m + 1]].height}
  <1>1. \A j \in 1..Len(nodes) : h[nodes[j]].height \in Nat
    BY LiveRecord DEF Chain
  <1>2. Len(nodes) \in Nat
    BY DEF Chain
  <1>3. 0 \in T
    BY <1>2 DEF Chain
  <1>4. ASSUME NEW m \in Nat, m \in T PROVE m + 1 \in T
    <2> SUFFICES ASSUME i + (m + 1) + 1 <= Len(nodes)
                 PROVE  h[nodes[i]].height < h[nodes[i + (m + 1) + 1]].height
      OBVIOUS
    <2>1. /\ i + m + 1 \in 1..(Len(nodes) - 1)
          /\ i + (m + 1) + 1 = (i + m + 1) + 1 /\ (i + m + 1) + 1 \in 1..Len(nodes)
      BY <1>2
    <2>2. h[nodes[i]].height < h[nodes[i + m + 1]].height
      BY <1>2, <1>4
    <2>3. h[nodes[i + m + 1]].height < h[nodes[(i + m + 1) + 1]].height
      BY <2>1 DEF Chain
    <2>4. i + m + 1 \in 1..Len(nodes)
      BY <1>2, <2>1
    <2> HIDE DEF T
    <2> QED
      BY <1>1, <2>1, <2>2, <2>3, <2>4
  <1>5. \A m \in Nat : m \in T
    <2> HIDE DEF T
    <2> QED
      BY <1>3, <1>4, NumbersIn
  <1>6. ASSUME NEW j \in 1..Len(nodes), i < j
        PROVE  h[nodes[i]].height < h[nodes[j]].height
    <2>1. j - i - 1 \in Nat /\ i + (j - i - 1) + 1 = j
      BY <1>2, <1>6
    <2>2. j - i - 1 \in T
      BY <1>5, <2>1
    <2> QED
      BY <1>2, <2>1, <2>2
  <1> QED
    BY <1>6

\* What rebalance_from has reached when it comes to the next node of the chain.
Reached(h, r, nodes, g, i) ==
    /\ \E span : Tree(g, r, span)
    /\ Live(g) = Live(h) /\ \A m \in Live(h) : g[m].value = h[m].value
    /\ \A m \in Live(h) : m # nodes[i + 1] => Good(g, m)
    /\ Nearly(g, nodes[i + 1])
    /\ \A j \in (i + 1)..Len(nodes) : /\ g[nodes[j]].height = h[nodes[j]].height
                                      /\ g[nodes[j]].parent = h[nodes[j]].parent

Sound(h, r) ==
    /\ \E span : Tree(h, r, span)
    /\ \A n \in Live(h) : Good(h, n)

LEMMA BalanceAll ==
    ASSUME NEW h, NEW r, NEW span, Tree(h, r, span), NEW nodes, Chain(h, nodes),
           \A m \in Live(h) : m # nodes[1] => Good(h, m), Nearly(h, nodes[1])
    PROVE  LET t == RebalanceAll(h, nodes)
           IN /\ Sound(t.heap, t.top)
              /\ Live(t.heap) = Live(h) /\ \A m \in Live(h) : t.heap[m].value = h[m].value
  <1> DEFINE L == Len(nodes)
             t == RebalanceAll(h, nodes)
  <1>1. L \in Nat /\ L >= 1
    BY DEF Chain
  <1>2. PICK f : /\ f[0].heap = h
                 /\ \A i \in 1..L : f[i] = Rebalance(WithHeight(f[i - 1].heap, nodes[i]), nodes[i])
                 /\ t = f[L]
    BY <1>1, RebalanceAllSteps
  <1> HIDE DEF t
  <1> DEFINE T == {i \in Nat : i < L => Reached(h, r, nodes, f[i].heap, i)}
  <1>3. h \in Heap /\ Linked(h, r)
    BY DEF Tree
  <1>4. 0 \in T
    BY <1>2 DEF Reached
  <1>5. nodes[L] = r
    BY <1>1, <1>3, LiveRecord DEF Chain, Linked
  <1>6. ASSUME NEW i \in Nat, i < L, Reached(h, r, nodes, f[i].heap, i)
        PROVE  /\ nodes[i + 1] \in Live(h) /\ i + 1 \in 1..L /\ Live(f[i].heap) = Live(h)
               /\ \A m \in Live(h) : f[i].heap[m].value = h[m].value
               /\ f[i].heap[nodes[i + 1]].parent = h[nodes[i + 1]].parent
               /\ Balanced1(f[i].heap, nodes[i + 1], r, f[i + 1])
    <2> DEFINE g == f[i].heap
               n == nodes[i + 1]
    <2>1. i + 1 \in 1..L /\ n \in Live(h)
      BY <1>1, <1>6 DEF Chain
    <2>2. PICK now : Tree(g, r, now)
      BY <1>6 DEF Reached
    <2>3. /\ Live(g) = Live(h) /\ (\A m \in Live(h) : m # n => Good(g, m)) /\ Nearly(g, n)
          /\ \A m \in Live(h) : g[m].value = h[m].value
      BY <1>6 DEF Reached
    <2>4. f[i + 1] = Rebalance(WithHeight(g, n), n)
      <3>1. (i + 1) - 1 = i
        OBVIOUS
      <3> QED
        BY <1>2, <2>1, <3>1
    <2>5. g[n].parent = h[n].parent
      BY <1>6, <2>1 DEF Reached
    <2> HIDE DEF g, n
    <2>6. Balanced1(g, n, r, Rebalance(WithHeight(g, n), n))
      BY <2>1, <2>2, <2>3, BalanceStep
    <2> QED
      BY <2>1, <2>3, <2>4, <2>5, <2>6 DEF g, n
  <1>7. ASSUME NEW i \in Nat, i \in T PROVE i + 1 \in T
    <2> SUFFICES ASSUME i + 1 < L PROVE Reached(h, r, nodes, f[i + 1].heap, i + 1)
      OBVIOUS
    <2> DEFINE g == f[i].heap
               n == nodes[i + 1]
               p == nodes[i + 2]
               k == f[i + 1]
    <2>1. i < L /\ Reached(h, r, nodes, g, i)
      BY <1>1, <1>7
    <2>2. /\ n \in Live(h) /\ i + 1 \in 1..L /\ Live(g) = Live(h)
          /\ \A m \in Live(h) : g[m].value = h[m].value
          /\ g[n].parent = h[n].parent /\ Balanced1(g, n, r, k)
      BY <1>6, <2>1
    <2>3. i + 1 \in 1..(L - 1) /\ (i + 1) + 1 = i + 2 /\ i + 2 \in 1..L
      BY <1>1
    <2>4. h[n].parent = p /\ p \in Live(h) /\ p # NULL /\ n # r
      <3>1. h[n].parent = p /\ p \in Live(h)
        BY <2>3 DEF Chain
      <3>2. p # NULL
        BY <1>3, <3>1, LiveRecord
      <3> QED
        BY <1>3, <2>2, <3>1, <3>2 DEF Linked
    <2>5. \A j \in (i + 1)..L : g[nodes[j]].height = h[nodes[j]].height /\ g[nodes[j]].parent = h[nodes[j]].parent
      BY <2>1 DEF Reached
    <2>6. ASSUME NEW j \in (i + 2)..L
          PROVE  k.heap[nodes[j]].height = h[nodes[j]].height /\ k.heap[nodes[j]].parent = h[nodes[j]].parent
      <3>1. j \in 1..L /\ j \in (i + 1)..L /\ i + 1 < j /\ i + 1 \in (i + 1)..L
        BY <1>1, <2>3, <2>6
      <3>2. h[n].height < h[nodes[j]].height /\ nodes[j] \in Live(h)
        <4>1. \A j2 \in 1..L : i + 1 < j2 => h[nodes[i + 1]].height < h[nodes[j2]].height
          BY <1>3, <2>2, ChainRises
        <4> QED
          BY <3>1, <4>1 DEF Chain
      <3>3. g[nodes[j]].height > g[n].height
        BY <1>3, <2>2, <2>5, <3>1, <3>2, LiveRecord
      <3>4. k.heap[nodes[j]].height = g[nodes[j]].height /\ k.heap[nodes[j]].parent = g[nodes[j]].parent
        BY <2>2, <3>2, <3>3 DEF Balanced1
      <3> QED
        BY <2>5, <3>1, <3>4
    <2> HIDE DEF g, n, p, k
    <2>7. /\ \E now : Tree(k.heap, r, now)
          /\ Live(k.heap) = Live(h) /\ \A m \in Live(h) : k.heap[m].value = h[m].value
          /\ \A m \in Live(h) : m # p => Good(k.heap, m)
          /\ Nearly(k.heap, p)
      BY <2>2, <2>4 DEF Balanced1
    <2>8. nodes[(i + 1) + 1] = p /\ (i + 1) + 1 = i + 2
      BY <2>3 DEF p
    <2> QED
      BY <2>6, <2>7, <2>8 DEF Reached, k
  <1>8. \A i \in Nat : i \in T
    <2> HIDE DEF T
    <2> QED
      BY <1>4, <1>7, NumbersIn
  <1>9. L - 1 \in Nat /\ L - 1 < L /\ (L - 1) + 1 = L
    BY <1>1
  <1>10. Reached(h, r, nodes, f[L - 1].heap, L - 1)
    BY <1>8, <1>9
  <1>11. /\ r \in Live(h) /\ Live(f[L - 1].heap) = Live(h)
         /\ \A m \in Live(h) : f[L - 1].heap[m].value = h[m].value
         /\ f[L - 1].heap[r].parent = NULL
         /\ Balanced1(f[L - 1].heap, r, r, f[L])
    BY <1>5, <1>6, <1>9, <1>10 DEF Chain
  <1>12. \A m \in Live(h) : m # NULL
    BY <1>3, LiveRecord
  <1>13. /\ \E now : Tree(f[L].heap, f[L].top, now)
         /\ Live(f[L].heap) = Live(h) /\ \A m \in Live(h) : f[L].heap[m].value = h[m].value
         /\ \A m \in Live(h) : Good(f[L].heap, m)
    BY <1>11, <1>12 DEF Balanced1
  <1> QED
    BY <1>2, <1>13 DEF Sound, t

-----------------------------------------------------------------------------
(* The operators that walk through the tree are well defined: heights fall  *)
(* on the way down and rise on the way up.                                  *)

Descends(h) ==
    \A n \in Live(h) :
       /\ h[n].height \in 1..Cardinality(Nodes)
       /\ \A side \in Sides : h[n][side] # NULL => h[h[n][side]].height < h[n].height

LEMMA SizeIsNat == Cardinality(Nodes) \in Nat
  BY FS_CardinalityType, AvlAssumption

\* A node of some height has nodes of every lower one below it: there are not
\* more of them than nodes.
LEMMA HeightBound ==
    ASSUME NEW h, NEW r, Sound(h, r)
    PROVE  Descends(h)
  <1>1. h \in Heap /\ Linked(h, r) /\ \A n \in Live(h) : Good(h, n)
    BY DEF Sound, Tree
  <1>2. \A n \in Live(h) : h[n].height \in Nat /\ n # NULL
    BY <1>1, LiveRecord
  <1>3. ASSUME NEW n \in Live(h)
        PROVE  /\ h[n].height >= 1
               /\ \A side \in Sides : h[n][side] # NULL => h[h[n][side]].height < h[n].height
               /\ h[n].height > 1 => \E side \in Sides : /\ h[n][side] \in Live(h)
                                                         /\ h[h[n][side]].height = h[n].height - 1
    <2>1. \A side \in Sides :
            /\ Height(h, h[n][side]) \in Nat /\ Height(h, h[n][Other(side)]) \in Nat
            /\ h[n].height = Over(Height(h, h[n][side]), Height(h, h[n][Other(side)]))
      BY <1>1, GoodSides
    <2>2. \A side \in Sides : h[n][side] # NULL => h[n][side] \in Live(h)
      BY <1>1 DEF Linked
    <2>3. "left" \in Sides /\ Other("left") \in Sides
      BY OtherSide DEF Sides
    <2>4. ASSUME h[n].height > 1
          PROVE  \E side \in Sides : /\ h[n][side] \in Live(h)
                                     /\ h[h[n][side]].height = h[n].height - 1
      <3>1. PICK side \in Sides : Height(h, h[n][side]) = h[n].height - 1
        BY <1>2, <2>1, <2>3 DEF Over
      <3> QED
        BY <1>2, <2>2, <2>4, <3>1 DEF Height
    <2> QED
      BY <2>1, <2>3, <2>4 DEF Height, Over
  <1>4. ASSUME NEW n \in Live(h), NEW i \in 1..h[n].height
        PROVE  \E m \in Live(h) : h[m].height = i
    <2> DEFINE S == {m \in Live(h) : h[m].height >= i}
               rank == [m \in S |-> h[m].height]
    <2>1. n \in S /\ \A m \in S : rank[m] \in Nat
      BY <1>2
    <2>2. PICK m \in S : \A q \in S : rank[m] <= rank[q]
      <3> HIDE DEF S, rank
      <3> QED
        BY <2>1, LeastRank
    <2>3. ASSUME h[m].height # i PROVE FALSE
      <3>1. h[m].height > 1 /\ h[m].height - 1 >= i
        BY <1>2, <2>2, <2>3
      <3>2. PICK side \in Sides : h[m][side] \in Live(h) /\ h[h[m][side]].height = h[m].height - 1
        BY <1>3, <3>1
      <3>3. h[m][side] \in S
        BY <3>1, <3>2
      <3>4. rank[m] = h[m].height /\ rank[h[m][side]] = h[h[m][side]].height
        BY <3>3
      <3>5. h[m].height \in Nat
        BY <1>2
      <3> HIDE DEF S, rank
      <3> QED
        BY <2>2, <3>2, <3>3, <3>4, <3>5
    <2> QED
      BY <2>3
  <1>5. ASSUME NEW n \in Live(h) PROVE h[n].height <= Cardinality(Nodes)
    <2> DEFINE T == {h[m].height : m \in Live(h)}
               f == [m \in Live(h) |-> h[m].height]
    <2>1. Live(h) \subseteq Nodes /\ IsFiniteSet(Live(h)) /\ Cardinality(Live(h)) <= Cardinality(Nodes)
      <3>1. Live(h) \subseteq Nodes
        BY <1>1 DEF Live, Heap
      <3> QED
        BY <3>1, FS_Subset, AvlAssumption
    <2>2. f \in Surjection(Live(h), T)
      BY DEF Surjection
    <2>3. IsFiniteSet(T) /\ Cardinality(T) <= Cardinality(Live(h))
      <3> HIDE DEF T, f
      <3> QED
        BY <2>1, <2>2, FS_Surjection
    <2>4. 1..h[n].height \subseteq T
      BY <1>4
    <2>5. Cardinality(1..h[n].height) = h[n].height
      <3>1. h[n].height \in Int /\ 1 \in Int /\ h[n].height >= 1
        BY <1>2, <1>3
      <3> QED
        BY <3>1, FS_Interval
    <2>6. Cardinality(1..h[n].height) <= Cardinality(T)
      <3> HIDE DEF T
      <3> QED
        BY <2>3, <2>4, FS_Subset
    <2>7. Cardinality(Live(h)) \in Nat /\ Cardinality(T) \in Nat
      <3> HIDE DEF T
      <3> QED
        BY <2>1, <2>3, FS_CardinalityType
    <2> HIDE DEF T
    <2> QED
      BY <1>2, <2>1, <2>3, <2>5, <2>6, <2>7, SizeIsNat
  <1> QED
    BY <1>2, <1>3, <1>5, SizeIsNat DEF Descends

\* The side of n on which a search for k goes on.
Toward(h, n, k) == IF k < h[n].value THEN "left" ELSE "right"

LEMMA PathSteps ==
    ASSUME NEW h \in Heap, NEW r, Linked(h, r), Descends(h), NEW k
    PROVE  /\ Path(h, NULL, k) = <<>>
           /\ \A n \in Live(h) :
                Path(h, n, k) = IF k = h[n].value THEN <<n>>
                                ELSE <<n>> \o Path(h, h[n][Toward(h, n, k)], k)
  <1> DEFINE D == Live(h) \cup {NULL}
             next == [n \in Live(h) |-> h[n][Toward(h, n, k)]]
             stop == {NULL} \cup {n \in Live(h) : k = h[n].value}
             value == [n \in D |-> IF n = NULL THEN <<>> ELSE <<n>>]
             item == [n \in D |-> n]
             rank == [n \in D |-> Height(h, n)]
             path == CHOOSE f : f = [n \in D |-> IF n = NULL THEN <<>> ELSE IF k = h[n].value THEN <<n>>
                                                 ELSE <<n>> \o f[h[n][Toward(h, n, k)]]]
  <1>1. \A n \in Live(h) : n # NULL /\ Toward(h, n, k) \in Sides
    BY LiveRecord DEF Toward, Sides
  <1>2. \A n \in D : rank[n] \in Nat /\ rank[n] < Cardinality(Nodes) + 1
    BY <1>1, SizeIsNat DEF Height, Descends
  <1>3. \A n \in D \ stop : next[n] \in D /\ rank[next[n]] < rank[n]
    <2> SUFFICES ASSUME NEW n \in Live(h) PROVE next[n] \in D /\ rank[next[n]] < rank[n]
      OBVIOUS
    <2>1. next[n] \in D
      BY <1>1 DEF Linked
    <2>2. next[n] # NULL => h[next[n]].height < h[n].height
      BY <1>1 DEF Descends
    <2>3. h[n].height \in 1..Cardinality(Nodes)
      BY DEF Descends
    <2> QED
      BY <1>1, <2>1, <2>2, <2>3, SizeIsNat DEF Height
  <1>4. \E f : Lists(f, D, stop, value, item, next)
    <2>1. Falls(D, stop, next, rank, Cardinality(Nodes) + 1)
      <3>1. Cardinality(Nodes) + 1 \in Nat
        BY SizeIsNat
      <3> HIDE DEF D, stop, value, item, next, rank
      <3> QED
        BY <1>2, <1>3, <3>1 DEF Falls
    <2> HIDE DEF D, stop, value, item, next, rank
    <2> QED
      BY <2>1, ListExists
  <1>5. PICK f : f = [n \in D |-> IF n \in stop THEN value[n] ELSE <<item[n]>> \o f[next[n]]]
    BY <1>4 DEF Lists
  <1>6. f = [n \in D |-> IF n = NULL THEN <<>> ELSE IF k = h[n].value THEN <<n>>
                         ELSE <<n>> \o f[h[n][Toward(h, n, k)]]]
    BY <1>1, <1>5
  <1>7. path = [n \in D |-> IF n = NULL THEN <<>> ELSE IF k = h[n].value THEN <<n>>
                            ELSE <<n>> \o path[h[n][Toward(h, n, k)]]]
    BY <1>6
  <1>8. \A n : Path(h, n, k) = path[n]
    BY DEF Path, Toward
  <1> HIDE DEF path
  <1> QED
    BY <1>1, <1>7, <1>8

LEMMA EndSteps ==
    ASSUME NEW h \in Heap, NEW r, Linked(h, r), Descends(h), NEW side \in Sides
    PROVE  \A n \in Live(h) :
             End(h, n, side) = IF h[n][side] = NULL THEN n ELSE End(h, h[n][side], side)
  <1> DEFINE D == Live(h)
             next == [n \in D |-> h[n][side]]
             stop == {n \in D : h[n][side] = NULL}
             value == [n \in D |-> n]
             rank == [n \in D |-> h[n].height]
             end == CHOOSE f : f = [n \in D |-> IF h[n][side] = NULL THEN n ELSE f[h[n][side]]]
  <1>1. \A n \in D : rank[n] \in Nat /\ rank[n] < Cardinality(Nodes) + 1
    BY SizeIsNat DEF Descends
  <1>2. \A n \in D \ stop : next[n] \in D /\ rank[next[n]] < rank[n]
    BY DEF Linked, Descends
  <1>3. \E f : Follows(f, D, stop, value, next)
    <2>1. Falls(D, stop, next, rank, Cardinality(Nodes) + 1)
      <3>1. Cardinality(Nodes) + 1 \in Nat
        BY SizeIsNat
      <3> HIDE DEF D, stop, value, next, rank
      <3> QED
        BY <1>1, <1>2, <3>1 DEF Falls
    <2> HIDE DEF D, stop, value, next, rank
    <2> QED
      BY <2>1, FollowExists
  <1>4. PICK f : f = [n \in D |-> IF n \in stop THEN value[n] ELSE f[next[n]]]
    BY <1>3 DEF Follows
  <1>5. f = [n \in D |-> IF h[n][side] = NULL THEN n ELSE f[h[n][side]]]
    BY <1>4
  <1>6. end = [n \in D |-> IF h[n][side] = NULL THEN n ELSE end[h[n][side]]]
    BY <1>5
  <1>7. \A n : End(h, n, side) = end[n]
    BY DEF End
  <1> HIDE DEF end
  <1> QED
    BY <1>6, <1>7

\* The rank of a node on the way up.
LEMMA ParentRises ==
    ASSUME NEW h \in Heap, NEW r, Linked(h, r), Descends(h), NEW n \in Live(h), h[n].parent # NULL
    PROVE  h[n].parent \in Live(h) /\ h[n].height < h[h[n].parent].height
  <1>1. n # NULL
    BY LiveRecord
  <1>2. PICK side \in Sides : h[n].parent \in Live(h) /\ h[h[n].parent][side] = n
    BY DEF Linked
  <1> QED
    BY <1>1, <1>2 DEF Descends

LEMMA AncestorsSteps ==
    ASSUME NEW h \in Heap, NEW r, Linked(h, r), Descends(h)
    PROVE  /\ Ancestors(h, NULL) = <<>>
           /\ \A n \in Live(h) : Ancestors(h, n) = <<n>> \o Ancestors(h, h[n].parent)
  <1> DEFINE D == Live(h) \cup {NULL}
             next == [n \in Live(h) |-> h[n].parent]
             stop == {NULL}
             value == [n \in D |-> <<>>]
             item == [n \in D |-> n]
             rank == [n \in D |-> IF n = NULL THEN 0 ELSE 1 + Cardinality(Nodes) - h[n].height]
             up == CHOOSE f : f = [n \in D |-> IF n = NULL THEN <<>> ELSE <<n>> \o f[h[n].parent]]
  <1>1. \A n \in Live(h) : n # NULL
    BY LiveRecord
  <1>2. \A n \in D : rank[n] \in Nat /\ rank[n] < Cardinality(Nodes) + 1
    BY <1>1, SizeIsNat DEF Descends
  <1>3. \A n \in D \ stop : next[n] \in D /\ rank[next[n]] < rank[n]
    <2> SUFFICES ASSUME NEW n \in Live(h) PROVE next[n] \in D /\ rank[next[n]] < rank[n]
      OBVIOUS
    <2>1. h[n].height \in 1..Cardinality(Nodes)
      BY DEF Descends
    <2>2. CASE h[n].parent = NULL
      BY <1>1, <2>1, <2>2, SizeIsNat
    <2>3. CASE h[n].parent # NULL
      <3>1. h[n].parent \in Live(h) /\ h[n].height < h[h[n].parent].height
        BY <2>3, ParentRises
      <3>2. h[h[n].parent].height \in 1..Cardinality(Nodes)
        BY <3>1 DEF Descends
      <3> QED
        BY <1>1, <2>1, <2>3, <3>1, <3>2, SizeIsNat
    <2> QED
      BY <2>2, <2>3
  <1>4. \E f : Lists(f, D, stop, value, item, next)
    <2>1. Falls(D, stop, next, rank, Cardinality(Nodes) + 1)
      <3>1. Cardinality(Nodes) + 1 \in Nat
        BY SizeIsNat
      <3> HIDE DEF D, stop, value, item, next, rank
      <3> QED
        BY <1>2, <1>3, <3>1 DEF Falls
    <2> HIDE DEF D, stop, value, item, next, rank
    <2> QED
      BY <2>1, ListExists
  <1>5. PICK f : f = [n \in D |-> IF n \in stop THEN value[n] ELSE <<item[n]>> \o f[next[n]]]
    BY <1>4 DEF Lists
  <1>6. f = [n \in D |-> IF n = NULL THEN <<>> ELSE <<n>> \o f[h[n].parent]]
    BY <1>5
  <1>7. up = [n \in D |-> IF n = NULL THEN <<>> ELSE <<n>> \o up[h[n].parent]]
    BY <1>6
  <1>8. \A n : Ancestors(h, n) = up[n]
    BY DEF Ancestors
  <1> HIDE DEF up
  <1>9. up[NULL] = <<>>
    BY <1>7
  <1>10. \A n \in Live(h) : up[n] = <<n>> \o up[h[n].parent]
    BY <1>1, <1>7
  <1> QED
    BY <1>8, <1>9, <1>10, Zenon

-----------------------------------------------------------------------------
(* The path of a search.                                                   *)

\* s leads from n, always to the side of k, to a node that holds k or has
\* nothing on that side.
Leads(h, n, k, s) ==
    /\ Len(s) \in Nat /\ Len(s) >= 1 /\ s[1] = n
    /\ s = [i \in 1..Len(s) |-> s[i]]
    /\ \A i \in 1..Len(s) : s[i] \in Live(h)
    /\ \A i \in 1..(Len(s) - 1) :
         h[s[i]].value # k /\ s[i + 1] = h[s[i]][Toward(h, s[i], k)]
    /\ LET z == s[Len(s)] IN h[z].value = k \/ h[z][Toward(h, z, k)] = NULL

LEMMA LeadsOn ==
    ASSUME NEW h, NEW n \in Live(h), NEW k, h[n].value # k, NEW c,
           c = h[n][Toward(h, n, k)], NEW s, Leads(h, c, k, s)
    PROVE  Leads(h, n, k, <<n>> \o s)
  <1> DEFINE t == <<n>> \o s
  <1>1. /\ Len(s) \in Nat /\ Len(s) >= 1 /\ s[1] = c
        /\ s = [i \in 1..Len(s) |-> s[i]]
    BY DEF Leads
  <1>2. s \in Seq({s[i] : i \in 1..Len(s)})
    BY <1>1
  <1>3. /\ Len(t) = Len(s) + 1 /\ t[1] = n
        /\ \A i \in 2..Len(t) : t[i] = s[i - 1]
        /\ t = [i \in 1..Len(t) |-> t[i]]
    BY <1>2
  <1>4. \A i \in 1..Len(s) : s[i] \in Live(h)
    BY DEF Leads
  <1>5. \A i \in 1..(Len(s) - 1) :
          h[s[i]].value # k /\ s[i + 1] = h[s[i]][Toward(h, s[i], k)]
    BY DEF Leads
  <1>6. LET z == s[Len(s)] IN h[z].value = k \/ h[z][Toward(h, z, k)] = NULL
    BY DEF Leads
  <1> HIDE DEF t
  <1>7. \A i \in 1..Len(t) : i = 1 \/ (i - 1 \in 1..Len(s) /\ i \in 2..Len(t))
    BY <1>1, <1>3
  <1>8. \A i \in 1..Len(t) : t[i] \in Live(h)
    BY <1>3, <1>4, <1>7
  <1>9. t[Len(t)] = s[Len(s)]
    BY <1>1, <1>3
  <1>10. ASSUME NEW i \in 1..(Len(t) - 1)
         PROVE  h[t[i]].value # k /\ t[i + 1] = h[t[i]][Toward(h, t[i], k)]
    <2>1. CASE i = 1
      <3>1. t[2] = s[1]
        BY <1>1, <1>3
      <3> QED
        BY <1>1, <1>3, <2>1, <3>1
    <2>2. CASE i # 1
      <3>1. i - 1 \in 1..(Len(s) - 1) /\ i \in 2..Len(t) /\ i + 1 \in 2..Len(t)
        BY <1>1, <1>3, <2>2
      <3>2. t[i] = s[i - 1] /\ t[i + 1] = s[(i - 1) + 1]
        <4>1. (i + 1) - 1 = (i - 1) + 1
          OBVIOUS
        <4>2. t[i + 1] = s[(i + 1) - 1]
          BY <1>3, <3>1
        <4> QED
          BY <1>3, <3>1, <4>1, <4>2
      <3> QED
        BY <1>5, <3>1, <3>2
    <2> QED
      BY <2>1, <2>2
  <1>11. Leads(h, n, k, t)
    BY <1>1, <1>3, <1>6, <1>8, <1>9, <1>10 DEF Leads
  <1> QED
    BY <1>11 DEF t

LEMMA LeadsOne ==
    ASSUME NEW h, NEW n \in Live(h), NEW k,
           h[n].value = k \/ h[n][Toward(h, n, k)] = NULL
    PROVE  Leads(h, n, k, <<n>>)
  BY DEF Leads

LEMMA PathLeads ==
    ASSUME NEW h \in Heap, NEW r, Linked(h, r), Descends(h), NEW k, NEW n \in Live(h)
    PROVE  Leads(h, n, k, Path(h, n, k))
  <1> DEFINE S == {m \in Live(h) : ~Leads(h, m, k, Path(h, m, k))}
             rank == [m \in S |-> h[m].height]
  <1> SUFFICES ASSUME S # {} PROVE FALSE
    OBVIOUS
  <1>1. PICK m \in S : \A q \in S : rank[m] <= rank[q]
    <2>1. \A m \in S : rank[m] \in Nat
      BY LiveRecord
    <2> HIDE DEF S, rank
    <2> QED
      BY <2>1, LeastRank
  <1>2. m \in Live(h) /\ ~Leads(h, m, k, Path(h, m, k)) /\ Toward(h, m, k) \in Sides
    BY DEF Toward, Sides
  <1>3. Path(h, NULL, k) = <<>>
        /\ Path(h, m, k) = IF k = h[m].value THEN <<m>>
                           ELSE <<m>> \o Path(h, h[m][Toward(h, m, k)], k)
    BY <1>2, PathSteps
  <1>4. CASE k = h[m].value
    <2>1. Path(h, m, k) = <<m>>
      BY <1>3, <1>4
    <2>2. Leads(h, m, k, <<m>>)
      BY <1>2, <1>4, LeadsOne
    <2> QED
      BY <1>2, <2>1, <2>2
  <1>5. CASE k # h[m].value /\ h[m][Toward(h, m, k)] = NULL
    <2>1. Path(h, m, k) = <<m>>
      BY <1>3, <1>5
    <2>2. Leads(h, m, k, <<m>>)
      BY <1>2, <1>5, LeadsOne
    <2> QED
      BY <1>2, <2>1, <2>2
  <1>6. CASE k # h[m].value /\ h[m][Toward(h, m, k)] # NULL
    <2> DEFINE c == h[m][Toward(h, m, k)]
    <2>1. c \in Live(h) /\ h[c].height < h[m].height
      BY <1>2, <1>6 DEF Linked, Descends
    <2>2. h[c].height \in Nat /\ h[m].height \in Nat
      BY <1>2, <2>1, LiveRecord
    <2>3. Leads(h, c, k, Path(h, c, k))
      <3>1. c \in S => rank[m] <= rank[c]
        BY <1>1
      <3>2. c \in S => rank[c] = h[c].height
        OBVIOUS
      <3>3. rank[m] = h[m].height
        OBVIOUS
      <3>4. c \notin S
        <4> HIDE DEF S, rank, c
        <4> QED
          BY <2>1, <2>2, <3>1, <3>2, <3>3
      <3> QED
        BY <2>1, <3>4
    <2>4. Leads(h, m, k, <<m>> \o Path(h, c, k))
      <3> HIDE DEF c
      <3>1. c = h[m][Toward(h, m, k)]
        BY DEF c
      <3> QED
        BY <1>2, <1>6, <2>3, <3>1, LeadsOn
    <2> QED
      BY <1>2, <1>3, <1>6, <2>4
  <1> QED
    BY <1>4, <1>5, <1>6

\* Of the nodes of a set one is the highest.
LEMMA HighestNode ==
    ASSUME NEW h \in Heap, Descends(h), NEW S \in SUBSET Live(h), S # {}
    PROVE  \E n \in S : \A m \in S : h[m].height <= h[n].height
  <1> DEFINE rank == [n \in S |-> Cardinality(Nodes) - h[n].height]
  <1>1. \A n \in S : h[n].height \in 1..Cardinality(Nodes) /\ rank[n] \in Nat
    BY SizeIsNat DEF Descends
  <1>2. PICK n \in S : \A m \in S : rank[n] <= rank[m]
    <2> HIDE DEF rank
    <2> QED
      BY <1>1, LeastRank
  <1>3. ASSUME NEW m \in S PROVE h[m].height <= h[n].height
    <2>1. Cardinality(Nodes) - h[n].height <= Cardinality(Nodes) - h[m].height
      BY <1>2
    <2> QED
      BY <1>1, <2>1, SizeIsNat
  <1> QED
    BY <1>3

LEMMA RootIsLive ==
    ASSUME NEW h \in Heap, NEW r, Linked(h, r), Descends(h), Live(h) # {}
    PROVE  r \in Live(h)
  <1>1. PICK n \in Live(h) : \A m \in Live(h) : h[m].height <= h[n].height
    BY HighestNode
  <1>2. CASE n = r
    BY <1>2
  <1>3. CASE n # r
    <2>1. h[n].parent \in Live(h) /\ h[n].parent # NULL
      BY <1>3, LiveRecord DEF Linked
    <2>2. h[n].height < h[h[n].parent].height
      BY <2>1, ParentRises
    <2> QED
      BY <1>1, <2>1, <2>2, LiveRecord
  <1> QED
    BY <1>2, <1>3

LEMMA TowardSide ==
    ASSUME NEW h \in Heap, NEW n \in Live(h), NEW k \in Keys, NEW side \in Sides,
           Before(side, k, h[n].value)
    PROVE  Toward(h, n, k) = side
  <1>1. k \in Int /\ h[n].value \in Int
    BY LiveRecord, AvlAssumption
  <1> QED
    BY <1>1 DEF Toward, Before, Sides

\* A search passes every node whose span holds the key.
LEMMA SearchPasses ==
    ASSUME NEW h, NEW r, NEW span, Tree(h, r, span), Descends(h), NEW k \in Keys,
           NEW s, Leads(h, r, k, s), NEW q \in Live(h), k \in span[q]
    PROVE  \E i \in 1..Len(s) : s[i] = q
  <1> DEFINE S == {m \in Live(h) : k \in span[m] /\ ~\E i \in 1..Len(s) : s[i] = m}
  <1> SUFFICES ASSUME S # {} PROVE FALSE
    OBVIOUS
  <1>1. h \in Heap /\ Linked(h, r)
    BY DEF Tree
  <1>2. PICK m \in S : \A n \in S : h[n].height <= h[m].height
    <2>1. S \subseteq Live(h)
      OBVIOUS
    <2> HIDE DEF S
    <2> QED
      BY <1>1, <2>1, HighestNode
  <1>3. Len(s) \in Nat /\ Len(s) >= 1 /\ s[1] = r
    BY DEF Leads
  <1>4. m # r /\ m \in Live(h) /\ k \in span[m]
    BY <1>3
  <1> DEFINE p == h[m].parent
  <1>5. PICK side \in Sides : p \in Live(h) /\ h[p][side] = m
    BY <1>1, <1>4 DEF Linked
  <1>6. p # NULL /\ m # NULL
    BY <1>1, <1>4, <1>5, LiveRecord
  <1>7. h[m].height < h[p].height
    BY <1>1, <1>4, <1>6, ParentRises
  <1>8. span[m] \subseteq OnSide(span[p], h[p].value, side)
    BY <1>5, <1>6 DEF Tree, Ordered
  <1>9. k \in span[p] /\ Before(side, k, h[p].value) /\ h[p].value \in Keys
    BY <1>1, <1>4, <1>5, <1>8, LiveRecord DEF OnSide
  <1>10. h[p].value # k /\ Toward(h, p, k) = side
    BY <1>1, <1>5, <1>9, BeforeOrders, TowardSide
  <1>11. p \notin S
    <2>1. h[m].height \in Nat /\ h[p].height \in Nat
      BY <1>1, <1>4, <1>5, LiveRecord
    <2> HIDE DEF S, p
    <2> QED
      BY <1>2, <1>7, <2>1
  <1>12. PICK i \in 1..Len(s) : s[i] = p
    BY <1>5, <1>9, <1>11
  <1>13. CASE i = Len(s)
    BY <1>5, <1>6, <1>10, <1>12, <1>13 DEF Leads
  <1>14. CASE i # Len(s)
    <2>1. i \in 1..(Len(s) - 1) /\ i + 1 \in 1..Len(s)
      BY <1>3, <1>14
    <2>2. s[i + 1] = m
      BY <1>5, <1>10, <1>12, <2>1 DEF Leads
    <2> QED
      BY <2>1, <2>2
  <1> QED
    BY <1>13, <1>14

\* A search finds the node that holds the key: there is no other.
LEMMA SearchFinds ==
    ASSUME NEW h, NEW r, NEW span, Tree(h, r, span), Descends(h), NEW k \in Keys
    PROVE  /\ \A q \in Live(h) : h[q].value = k => q = FindNode(h, r, k)
           /\ FindNode(h, r, k) # NULL => /\ FindNode(h, r, k) \in Live(h)
                                          /\ h[FindNode(h, r, k)].value = k
  <1> DEFINE s == Path(h, r, k)
  <1>1. h \in Heap /\ Linked(h, r)
    BY DEF Tree
  <1>2. CASE Live(h) = {}
    <2>1. r = NULL
      BY <1>1, <1>2 DEF Linked
    <2>2. s = <<>>
      BY <1>1, <2>1, PathSteps
    <2> QED
      BY <1>2, <2>2 DEF FindNode
  <1>3. CASE Live(h) # {}
    <2>1. r \in Live(h)
      BY <1>1, <1>3, RootIsLive
    <2>2. Leads(h, r, k, s)
      BY <1>1, <2>1, PathLeads
    <2> HIDE DEF s
    <2>3. Len(s) \in Nat /\ Len(s) >= 1 /\ s # <<>> /\ s[Len(s)] \in Live(h) /\ Last(s) = s[Len(s)]
      BY <2>2 DEF Leads, Last
    <2>4. FindNode(h, r, k) = IF h[Last(s)].value = k THEN Last(s) ELSE NULL
      BY <2>3 DEF FindNode, s
    <2>5. ASSUME NEW q \in Live(h), h[q].value = k PROVE q = Last(s)
      <3>1. k \in span[q]
        BY <2>5 DEF Tree, Ordered
      <3>2. PICK i \in 1..Len(s) : s[i] = q
        BY <2>2, <3>1, SearchPasses
      <3>3. i \notin 1..(Len(s) - 1)
        BY <2>2, <2>5, <3>2 DEF Leads
      <3>4. i = Len(s)
        BY <2>3, <3>3
      <3> QED
        BY <2>3, <3>2, <3>4
    <2> QED
      BY <2>3, <2>4, <2>5
  <1> QED
    BY <1>2, <1>3

\* No two nodes hold the same value.
LEMMA ValuesDiffer ==
    ASSUME NEW h, NEW r, NEW span, Tree(h, r, span), Descends(h),
           NEW m \in Live(h), NEW n \in Live(h), h[m].value = h[n].value
    PROVE  m = n
  <1>1. h[n].value \in Keys
    BY LiveRecord DEF Tree
  <1> QED
    BY <1>1, SearchFinds

-----------------------------------------------------------------------------
(* Insertion.                                                              *)

LeafOf(k, p) == [value |-> k, parent |-> p, left |-> NULL, right |-> NULL, height |-> 1]

LEMMA LeafFields ==
    ASSUME NEW k \in Keys, NEW p \in Nodes \cup {NULL}
    PROVE  /\ LeafOf(k, p) \in NodeType /\ LeafOf(k, p) # NULL
           /\ LeafOf(k, p).value = k /\ LeafOf(k, p).parent = p /\ LeafOf(k, p).height = 1
           /\ \A side \in Sides : LeafOf(k, p)[side] = NULL
  <1>1. LeafOf(k, p) \in NodeType
    BY DEF LeafOf, NodeType
  <1> QED
    BY <1>1, AvlAssumption DEF LeafOf, Sides

\* g is h with a new leaf that holds k, on one side of p.
Grown(h, g, leaf, p, side, k) ==
    /\ g \in Heap /\ leaf \in Nodes /\ leaf # NULL /\ leaf \notin Live(h) /\ Live(g) = Live(h) \cup {leaf}
    /\ g[leaf].value = k /\ g[leaf].parent = p /\ g[leaf].height = 1
    /\ \A s \in Sides : g[leaf][s] = NULL
    /\ \A m \in Live(h) :
         /\ g[m].value = h[m].value /\ g[m].height = h[m].height /\ g[m].parent = h[m].parent
         /\ \A s \in Sides : g[m][s] = IF m = p /\ s = side THEN leaf ELSE h[m][s]

LEMMA LinkSides ==
    ASSUME NEW h \in Heap, NEW n, NEW side \in Sides, NEW x, NEW g, Link(h, n, side, x, g)
    PROVE  /\ g \in Heap /\ Live(g) = Live(h)
           /\ \A m \in Live(h) :
                /\ g[m].value = h[m].value /\ g[m].height = h[m].height /\ g[m].parent = h[m].parent
                /\ \A s \in Sides : g[m][s] = IF m = n /\ s = side THEN x ELSE h[m][s]
  <1>1. \A s \in Sides : s # "parent" /\ s \in Fields
    BY DEF Sides, Fields
  <1>2. g \in Heap /\ Live(g) = Live(h)
    BY DEF Link
  <1>3. \A m \in Live(h) : /\ g[m].value = h[m].value /\ g[m].height = h[m].height
                           /\ \A f \in Fields : g[m][f] = IF m = n /\ f = side THEN x ELSE h[m][f]
    BY DEF Link
  <1>4. \A m \in Live(h) : g[m].parent = h[m].parent
    BY <1>1, <1>2, <1>3, LiveRecord, SideFields
  <1> QED
    BY <1>1, <1>2, <1>3, <1>4

Added(h, g, leaf, p, k) ==
    /\ g \in Heap /\ leaf # NULL /\ leaf \notin Live(h) /\ Live(g) = Live(h) \cup {leaf}
    /\ g[leaf].value = k /\ g[leaf].parent = p /\ g[leaf].height = 1
    /\ \A s \in Sides : g[leaf][s] = NULL
    /\ \A m \in Live(h) : g[m] = h[m] /\ m # NULL /\ m # leaf

LEMMA LeafAdded ==
    ASSUME NEW h \in Heap, NEW leaf \in Nodes, h[leaf] = NULL, NEW k \in Keys,
           NEW p \in Live(h) \cup {NULL}
    PROVE  Added(h, [h EXCEPT ![leaf] = LeafOf(k, p)], leaf, p, k)
  <1> DEFINE new == LeafOf(k, p)
             g == [h EXCEPT ![leaf] = new]
  <1>1. \A m \in Live(h) : m \in Nodes /\ m # NULL /\ m # leaf
    BY LiveRecord DEF Live
  <1>2. p \in Nodes \cup {NULL} /\ leaf # NULL /\ leaf \notin Live(h)
    BY <1>1, AvlAssumption
  <1>3. /\ new \in NodeType /\ new # NULL /\ new.value = k /\ new.parent = p /\ new.height = 1
        /\ \A s \in Sides : new[s] = NULL
    BY <1>2, LeafFields
  <1> HIDE DEF new
  <1>4. g \in Heap
    BY <1>3 DEF Heap
  <1>5. g[leaf] = new /\ \A m \in Nodes : m # leaf => g[m] = h[m]
    BY DEF Heap
  <1>6. DOMAIN g = Nodes /\ DOMAIN h = Nodes
    BY DEF Heap
  <1> HIDE DEF g
  <1>7. Live(g) = Live(h) \cup {leaf}
    BY <1>1, <1>3, <1>5, <1>6 DEF Live
  <1>8. Added(h, g, leaf, p, k)
    BY <1>1, <1>2, <1>3, <1>4, <1>5, <1>7 DEF Added
  <1> QED
    BY <1>8 DEF g, new

LEMMA LeafLinked ==
    ASSUME NEW h \in Heap, NEW h1 \in Heap, NEW leaf \in Nodes, NEW k, NEW p, NEW side \in Sides,
           Added(h, h1, leaf, p, k)
    PROVE  /\ p = NULL => Grown(h, h1, leaf, p, side, k)
           /\ p \in Live(h) => Grown(h, [h1 EXCEPT ![p][side] = leaf], leaf, p, side, k)
  <1>1. ASSUME p = NULL PROVE Grown(h, h1, leaf, p, side, k)
    BY <1>1 DEF Grown, Added
  <1>2. ASSUME p \in Live(h), NEW g, Link(h1, p, side, leaf, g)
        PROVE  Grown(h, g, leaf, p, side, k)
    <2>1. /\ g \in Heap /\ Live(g) = Live(h1)
          /\ \A m \in Live(h1) :
               /\ g[m].value = h1[m].value /\ g[m].height = h1[m].height /\ g[m].parent = h1[m].parent
               /\ \A s \in Sides : g[m][s] = IF m = p /\ s = side THEN leaf ELSE h1[m][s]
      BY <1>2, LinkSides DEF Added
    <2>2. p # leaf
      BY <1>2 DEF Added
    <2> QED
      BY <2>1, <2>2 DEF Grown, Added
  <1>3. ASSUME p \in Live(h) PROVE Link(h1, p, side, leaf, [h1 EXCEPT ![p][side] = leaf])
    <2>1. p \in Live(h1)
      BY <1>3 DEF Added
    <2> QED
      BY <2>1, LinkSet, SideFields
  <1> QED
    BY <1>1, <1>2, <1>3

\* The first node of a tree.
LEMMA FirstNode ==
    ASSUME NEW h, Live(h) = {}, NEW g, NEW leaf, NEW k \in Keys, NEW side,
           Grown(h, g, leaf, NULL, side, k)
    PROVE  Sound(g, leaf)
  <1> DEFINE span == [n \in Nodes |-> Keys]
  <1>1. /\ g \in Heap /\ leaf \in Nodes /\ leaf # NULL /\ Live(g) = {leaf}
        /\ g[leaf].value = k /\ g[leaf].parent = NULL /\ g[leaf].height = 1
        /\ \A s \in Sides : g[leaf][s] = NULL
    BY DEF Grown
  <1>2. Linked(g, leaf)
    BY <1>1 DEF Linked
  <1>3. Ordered(g, span)
    BY <1>1 DEF Ordered
  <1>4. Good(g, leaf)
    <2>1. "left" \in Sides
      BY DEF Sides
    <2>2. Height(g, g[leaf]["left"]) = 0 /\ Height(g, g[leaf][Other("left")]) = 0
      BY <1>1, <2>1, OtherSide DEF Height
    <2>3. Good(g, leaf) <=> g[leaf].height = Over(0, 0) /\ Close(0, 0)
      BY <1>1, <1>2, <2>1, <2>2, GoodSides
    <2> QED
      BY <1>1, <2>3 DEF Over, Close
  <1> HIDE DEF span
  <1> QED
    BY <1>1, <1>2, <1>3, <1>4 DEF Sound, Tree

LEMMA ChildOnPath ==
    ASSUME NEW h, NEW r, NEW span, Tree(h, r, span), NEW k \in Keys, NEW s, Leads(h, r, k, s),
           NEW m \in Live(h), NEW side \in Sides, h[m][side] # NULL,
           NEW i \in 1..Len(s), s[i] = h[m][side]
    PROVE  /\ \E j \in 1..Len(s) : s[j] = m
           /\ h[m].value # k /\ Toward(h, m, k) = side
  <1>1. h \in Heap /\ Linked(h, r)
    BY DEF Tree
  <1>2. h[s[i]].parent = m /\ m # NULL /\ s[i] \in Live(h)
    BY <1>1, LiveRecord DEF Linked
  <1>3. Len(s) \in Nat /\ Len(s) >= 1 /\ s[1] = r
    BY DEF Leads
  <1>4. i # 1
    BY <1>1, <1>2, <1>3 DEF Linked
  <1>5. i - 1 \in 1..(Len(s) - 1) /\ i - 1 \in 1..Len(s) /\ (i - 1) + 1 = i
    BY <1>3, <1>4
  <1> DEFINE q == s[i - 1]
             t == Toward(h, q, k)
  <1>6. q \in Live(h) /\ h[q].value # k /\ s[i] = h[q][t]
    BY <1>5 DEF Leads
  <1>7. t \in Sides /\ h[q][t] # NULL
    BY <1>6 DEF Toward, Sides
  <1>8. q = m
    BY <1>1, <1>2, <1>6, <1>7 DEF Linked
  <1>9. t = side
    <2>1. t = side \/ t = Other(side)
      BY <1>7, OtherSide
    <2>2. h[m][side] # h[m][Other(side)]
      BY NeighboursDiffer
    <2> HIDE DEF t, q
    <2> QED
      BY <1>6, <1>8, <2>1, <2>2
  <1> QED
    BY <1>5, <1>6, <1>8, <1>9

LEMMA GrownTree ==
    ASSUME NEW h, NEW r, NEW span, Tree(h, r, span), NEW k \in Keys, NEW s, Leads(h, r, k, s),
           NEW p, p = s[Len(s)], NEW side, side = Toward(h, p, k),
           h[p].value # k, NEW g, NEW leaf, Grown(h, g, leaf, p, side, k)
    PROVE  \E now : Tree(g, r, now)
  <1> DEFINE Passed == {s[i] : i \in 1..Len(s)}
             now == [n \in Nodes |-> IF n = leaf THEN {k}
                                     ELSE IF n \in Passed THEN span[n] \cup {k} ELSE span[n]]
  <1>1. h \in Heap /\ Linked(h, r) /\ Ordered(h, span)
    BY DEF Tree
  <1>2. Len(s) \in Nat /\ Len(s) >= 1 /\ p \in Live(h) /\ p \in Passed /\ side \in Sides /\ h[p][side] = NULL
    BY DEF Leads, Toward, Sides
  <1>3. /\ g \in Heap /\ leaf \in Nodes /\ leaf # NULL /\ leaf \notin Live(h) /\ Live(g) = Live(h) \cup {leaf}
        /\ g[leaf].value = k /\ g[leaf].parent = p
        /\ \A e \in Sides : g[leaf][e] = NULL
        /\ \A m \in Live(h) :
             /\ g[m].value = h[m].value /\ g[m].parent = h[m].parent
             /\ \A e \in Sides : g[m][e] = IF m = p /\ e = side THEN leaf ELSE h[m][e]
    BY DEF Grown
  <1>4. \A m \in Live(h) : m \in Nodes /\ m # NULL /\ m # leaf /\ h[m].value \in Keys
    BY <1>1, <1>3, LiveRecord
  <1>5. r \in Live(h) /\ r # leaf
    <2>1. r \in Live(h)
      BY <1>2 DEF Leads
    <2> QED
      BY <1>3, <2>1
  <1>6. Linked(g, r)
    <2>1. ASSUME NEW n \in Live(g), NEW e \in Sides, g[n][e] # NULL
          PROVE  g[n][e] \in Live(g) /\ g[g[n][e]].parent = n
      <3>1. n \in Live(h)
        BY <1>3, <2>1
      <3>2. CASE n = p /\ e = side
        BY <1>3, <3>1, <3>2
      <3>3. CASE ~(n = p /\ e = side)
        <4>1. g[n][e] = h[n][e] /\ h[n][e] \in Live(h) /\ h[h[n][e]].parent = n
          BY <1>1, <1>3, <2>1, <3>1, <3>3 DEF Linked
        <4> QED
          BY <1>3, <4>1
      <3> QED
        BY <3>2, <3>3
    <2>2. ASSUME NEW n \in Live(g), n = r PROVE g[n].parent = NULL
      BY <1>1, <1>3, <1>5, <2>2 DEF Linked
    <2>3. ASSUME NEW n \in Live(g), n # r
          PROVE  g[n].parent \in Live(g) /\ \E e \in Sides : g[g[n].parent][e] = n
      <3>1. CASE n = leaf
        BY <1>2, <1>3, <3>1
      <3>2. CASE n # leaf
        <4>1. n \in Live(h) /\ g[n].parent = h[n].parent
          BY <1>3, <3>2
        <4>2. PICK e \in Sides : h[n].parent \in Live(h) /\ h[h[n].parent][e] = n
          BY <1>1, <2>3, <4>1 DEF Linked
        <4>3. g[h[n].parent][e] = n
          BY <1>2, <1>3, <1>4, <4>1, <4>2
        <4> QED
          BY <1>3, <4>1, <4>2, <4>3
      <3> QED
        BY <3>1, <3>2
    <2>4. r \in Live(g) \cup {NULL}
      BY <1>3, <1>5
    <2> QED
      BY <2>1, <2>2, <2>3, <2>4 DEF Linked
  <1>7. /\ span \in [Nodes -> SUBSET Keys]
        /\ \A n \in Live(h) :
             /\ h[n].value \in span[n]
             /\ \A e \in Sides : h[n][e] # NULL =>
                  span[h[n][e]] \subseteq OnSide(span[n], h[n].value, e)
    BY <1>1 DEF Ordered
  <1>8. now \in [Nodes -> SUBSET Keys]
    BY <1>7
  <1>9. \A n \in Live(h) : now[n] = IF n \in Passed THEN span[n] \cup {k} ELSE span[n]
    BY <1>4
  <1>10. now[leaf] = {k}
    BY <1>3
  <1> HIDE DEF now, Passed
  <1>11. ASSUME NEW n \in Live(g) PROVE g[n].value \in now[n]
    BY <1>3, <1>7, <1>9, <1>10
  <1>12. \A n \in Live(h) : h[n].value # k => Before(Toward(h, n, k), k, h[n].value)
    <2> SUFFICES ASSUME NEW n \in Live(h), h[n].value # k PROVE Before(Toward(h, n, k), k, h[n].value)
      OBVIOUS
    <2>1. h[n].value \in Int /\ k \in Int
      BY <1>4, AvlAssumption
    <2> QED
      BY <2>1 DEF Before, Toward
  <1>13. ASSUME NEW n \in Live(g), NEW e \in Sides, g[n][e] # NULL
         PROVE  now[g[n][e]] \subseteq OnSide(now[n], g[n].value, e)
    <2>1. n \in Live(h) /\ g[n].value = h[n].value
      BY <1>3, <1>13
    <2>2. CASE n = p /\ e = side
      <3>1. g[n][e] = leaf /\ k \in now[n]
        BY <1>2, <1>3, <1>9, <2>1, <2>2
      <3>2. Before(e, k, h[n].value)
        BY <1>12, <2>1, <2>2
      <3> QED
        BY <1>10, <2>1, <3>1, <3>2 DEF OnSide
    <2>3. CASE ~(n = p /\ e = side)
      <3> DEFINE x == h[n][e]
      <3>1. g[n][e] = x /\ x # NULL /\ x \in Live(h)
        BY <1>1, <1>3, <1>13, <2>1, <2>3 DEF Linked
      <3>2. span[x] \subseteq OnSide(span[n], h[n].value, e) /\ span[n] \subseteq now[n]
        BY <1>7, <1>9, <2>1, <3>1
      <3>3. CASE x \notin Passed
        <4>1. now[x] = span[x]
          BY <1>9, <3>1, <3>3
        <4> QED
          BY <2>1, <3>1, <3>2, <4>1 DEF OnSide
      <3>4. CASE x \in Passed
        <4>1. PICK i \in 1..Len(s) : s[i] = x
          BY <3>4 DEF Passed
        <4>2. (\E j \in 1..Len(s) : s[j] = n) /\ h[n].value # k /\ Toward(h, n, k) = e
          BY <2>1, <3>1, <4>1, ChildOnPath
        <4>3. n \in Passed /\ Before(e, k, h[n].value)
          BY <1>12, <2>1, <4>2 DEF Passed
        <4>4. now[x] = span[x] \cup {k} /\ k \in now[n]
          BY <1>9, <2>1, <3>1, <3>4, <4>3
        <4> QED
          BY <2>1, <3>1, <3>2, <4>3, <4>4 DEF OnSide
      <3> QED
        BY <3>3, <3>4
    <2> QED
      BY <2>2, <2>3
  <1>14. Ordered(g, now)
    BY <1>8, <1>11, <1>13 DEF Ordered
  <1> QED
    BY <1>3, <1>6, <1>14 DEF Tree

\* Only the parent of the leaf may have to be balanced.
LEMMA GrownGood ==
    ASSUME NEW h \in Heap, NEW r, Linked(h, r), \A m \in Live(h) : Good(h, m),
           NEW k, NEW p \in Live(h), NEW side \in Sides, h[p][side] = NULL,
           NEW g, NEW leaf, Grown(h, g, leaf, p, side, k), Linked(g, r)
    PROVE  (\A m \in Live(g) : m # p => Good(g, m)) /\ Nearly(g, p)
  <1>1. /\ g \in Heap /\ leaf # NULL /\ leaf \notin Live(h) /\ Live(g) = Live(h) \cup {leaf}
        /\ g[leaf].height = 1 /\ \A e \in Sides : g[leaf][e] = NULL
        /\ \A m \in Live(h) :
             /\ g[m].height = h[m].height
             /\ \A e \in Sides : g[m][e] = IF m = p /\ e = side THEN leaf ELSE h[m][e]
    BY DEF Grown
  <1>2. \A m \in Live(h), e \in Sides : Height(g, h[m][e]) = Height(h, h[m][e])
    BY <1>1 DEF Height, Linked
  <1>3. Good(g, leaf)
    <2>1. Height(g, g[leaf][side]) = 0 /\ Height(g, g[leaf][Other(side)]) = 0
      BY <1>1, OtherSide DEF Height
    <2>2. leaf \in Live(g)
      BY <1>1
    <2>3. Good(g, leaf) <=> g[leaf].height = Over(0, 0) /\ Close(0, 0)
      BY <1>1, <2>1, <2>2, GoodSides
    <2> QED
      BY <1>1, <2>3 DEF Over, Close
  <1>4. ASSUME NEW m \in Live(h), m # p PROVE Good(g, m)
    <2>1. /\ \A e \in Sides : g[m][e] = h[m][e] /\ Height(g, g[m][e]) = Height(h, h[m][e])
          /\ m \in Live(g) /\ g[m].height = h[m].height
      BY <1>1, <1>2, <1>4
    <2>2. HeightOver(g, m) = HeightOver(h, m)
      BY <1>1, <2>1, HeightOverSame
    <2>3. \A e \in Sides : Lean(g, m, e) = Lean(h, m, e)
      BY <2>1, OtherSide DEF Lean
    <2> QED
      BY <1>4, <2>1, <2>2, <2>3 DEF Good
  <1>5. Nearly(g, p)
    <2> DEFINE y == Height(h, h[p][Other(side)])
    <2>1. /\ y \in Nat /\ h[p].height = Over(0, y) /\ Close(0, y)
      <3>1. Height(h, h[p][side]) = 0
        BY DEF Height
      <3> QED
        BY <3>1, GoodSides
    <2>2. Height(g, g[p][Other(side)]) = y /\ g[p].height = h[p].height
      BY <1>1, <1>2, OtherSide
    <2>3. Height(g, g[p][side]) = 1 /\ Close(1, 0)
      BY <1>1 DEF Height, Close
    <2> HIDE DEF y
    <2> QED
      BY <2>1, <2>2, <2>3 DEF Nearly
  <1> QED
    BY <1>1, <1>3, <1>4, <1>5

\* The path of a search, upwards.
LEMMA PathChain ==
    ASSUME NEW h \in Heap, NEW r, Linked(h, r), Descends(h), NEW k, NEW s, Leads(h, r, k, s),
           NEW g, Live(h) \subseteq Live(g),
           \A m \in Live(h) : g[m].height = h[m].height /\ g[m].parent = h[m].parent
    PROVE  Chain(g, Reverse(s)) /\ Reverse(s)[1] = s[Len(s)]
  <1> DEFINE t == Reverse(s)
             L == Len(s)
  <1>1. /\ L \in Nat /\ L >= 1 /\ s[1] = r
        /\ \A i \in 1..L : s[i] \in Live(h)
        /\ \A i \in 1..(L - 1) : s[i + 1] = h[s[i]][Toward(h, s[i], k)]
    BY DEF Leads
  <1>2. t = [i \in 1..L |-> s[(L - i) + 1]] /\ Len(t) = L
    BY <1>1 DEF Reverse
  <1> HIDE DEF t
  <1>3. ASSUME NEW i \in 1..(L - 1)
        PROVE  h[s[i + 1]].parent = s[i] /\ h[s[i + 1]].height < h[s[i]].height
    <2>1. i \in 1..L /\ i + 1 \in 1..L /\ Toward(h, s[i], k) \in Sides
      BY <1>1 DEF Toward, Sides
    <2>2. s[i + 1] # NULL /\ s[i + 1] = h[s[i]][Toward(h, s[i], k)] /\ s[i] \in Live(h)
      BY <1>1, <2>1, LiveRecord
    <2> QED
      BY <2>1, <2>2 DEF Linked, Descends
  <1>4. \A i \in 1..L : t[i] \in Live(g) /\ t[i] \in Live(h)
    BY <1>1, <1>2
  <1>5. ASSUME NEW i \in 1..(L - 1)
        PROVE  g[t[i]].parent = t[i + 1] /\ g[t[i]].height < g[t[i + 1]].height
    <2>1. L - i \in 1..(L - 1) /\ i \in 1..L /\ i + 1 \in 1..L /\ (L - (i + 1)) + 1 = L - i
      BY <1>1
    <2>2. t[i] = s[(L - i) + 1] /\ t[i + 1] = s[L - i]
      BY <1>2, <2>1
    <2>3. h[t[i]].parent = t[i + 1] /\ h[t[i]].height < h[t[i + 1]].height
      BY <1>3, <2>1, <2>2
    <2> QED
      BY <1>4, <2>1, <2>3
  <1>6. g[t[L]].parent = NULL
    <2>1. t[L] = r /\ r \in Live(h)
      BY <1>1, <1>2
    <2> QED
      BY <2>1 DEF Linked
  <1>7. t[1] = s[L]
    BY <1>1, <1>2
  <1>8. Chain(g, t)
    BY <1>1, <1>2, <1>4, <1>5, <1>6 DEF Chain
  <1> QED
    BY <1>7, <1>8 DEF t

\* There is an address for a key that is not in the tree.
LEMMA SomeNodeIsFree ==
    ASSUME NEW h, NEW r, NEW span, Tree(h, r, span), Descends(h), NEW k \in Keys,
           \A m \in Live(h) : h[m].value # k
    PROVE  \E n \in Nodes : h[n] = NULL
  <1> SUFFICES ASSUME \A n \in Nodes : h[n] # NULL PROVE FALSE
    OBVIOUS
  <1> DEFINE f == [n \in Nodes |-> h[n].value]
  <1>1. h \in Heap /\ Live(h) = Nodes
    BY DEF Tree, Live, Heap
  <1>2. f \in [Nodes -> Keys \ {k}]
    BY <1>1, LiveRecord
  <1>3. f \in Injection(Nodes, Keys \ {k})
    <2>1. \A m, n \in Nodes : f[m] = f[n] => m = n
      BY <1>1, ValuesDiffer
    <2> HIDE DEF f
    <2> QED
      BY <1>2, <2>1 DEF Injection, IsInjective
  <1>4. IsFiniteSet(Keys \ {k}) /\ Cardinality(Keys \ {k}) = Cardinality(Keys) - 1
    BY FS_RemoveElement, AvlAssumption
  <1>5. Cardinality(Nodes) <= Cardinality(Keys \ {k})
    <2> HIDE DEF f
    <2> QED
      BY <1>3, <1>4, FS_Injection
  <1>6. Cardinality(Keys) \in Nat
    BY FS_CardinalityType, AvlAssumption
  <1> QED
    BY <1>4, <1>5, <1>6, SizeIsNat, AvlAssumption

\* What an insertion does.
LEMMA InsertSound ==
    ASSUME Sound(heap, root), NEW k \in Keys, Insert(k)
    PROVE  /\ Sound(heap', root')
           /\ \A m \in Live(heap) : heap[m].value # k
           /\ \E leaf \in Nodes : /\ leaf \notin Live(heap) /\ Live(heap') = Live(heap) \cup {leaf}
                                  /\ heap'[leaf].value = k
                                  /\ \A m \in Live(heap) : heap'[m].value = heap[m].value
           /\ n_elements' = n_elements + 1
  <1> DEFINE path == Path(heap, root, k)
             leaf == CHOOSE n \in Nodes : heap[n] = NULL
             p == IF path = <<>> THEN NULL ELSE Last(path)
             side == IF k < heap[p].value THEN "left" ELSE "right"
             h == [heap EXCEPT ![leaf] = LeafOf(k, p)]
             g == [h EXCEPT ![p][side] = leaf]
             t == RebalanceAll(g, Reverse(path))
  <1>1. /\ FindNode(heap, root, k) = NULL /\ n_elements' = n_elements + 1
        /\ p = NULL => heap' = h /\ root' = leaf
        /\ p # NULL => heap' = t.heap /\ root' = t.top
    BY DEF Insert, LeafOf
  <1>2. PICK span : Tree(heap, root, span)
    BY DEF Sound
  <1>3. heap \in Heap /\ Linked(heap, root) /\ Descends(heap) /\ \A m \in Live(heap) : Good(heap, m)
    BY <1>2, HeightBound DEF Sound, Tree
  <1>4. \A m \in Live(heap) : heap[m].value # k /\ m # NULL
    BY <1>1, <1>2, <1>3, SearchFinds, LiveRecord
  <1>5. leaf \in Nodes /\ heap[leaf] = NULL
    <2>1. \E n \in Nodes : heap[n] = NULL
      BY <1>2, <1>3, <1>4, SomeNodeIsFree
    <2> QED
      BY <2>1
  <1> HIDE DEF leaf
  <1>6. side \in Sides
    BY DEF Sides
  <1>7. CASE Live(heap) = {}
    <2>1. path = <<>>
      <3>1. root = NULL
        BY <1>3, <1>7 DEF Linked
      <3> QED
        BY <1>3, <3>1, PathSteps
    <2>2. p = NULL
      BY <2>1
    <2> HIDE DEF p, side
    <2>3. Added(heap, h, leaf, p, k) /\ h \in Heap
      <3>1. p \in Live(heap) \cup {NULL}
        BY <2>2
      <3>2. Added(heap, h, leaf, p, k)
        BY <1>3, <1>5, <3>1, LeafAdded
      <3> QED
        BY <3>2 DEF Added
    <2>4. heap' = h /\ root' = leaf
      BY <1>1, <2>2
    <2> HIDE DEF h
    <2>5. Grown(heap, h, leaf, NULL, side, k)
      BY <1>3, <1>5, <1>6, <2>2, <2>3, LeafLinked
    <2>6. Sound(h, leaf)
      BY <1>7, <2>5, FirstNode
    <2> QED
      BY <1>1, <1>4, <1>5, <1>7, <2>3, <2>4, <2>6 DEF Added
  <1>8. CASE Live(heap) # {}
    <2>1. root \in Live(heap)
      BY <1>3, <1>8, RootIsLive
    <2>2. Leads(heap, root, k, path)
      BY <1>3, <2>1, PathLeads
    <2>3. p = path[Len(path)] /\ p \in Live(heap) /\ Len(path) >= 1
      <3>1. Len(path) >= 1 /\ path[Len(path)] \in Live(heap) /\ Len(path) \in Nat
        BY <2>2 DEF Leads
      <3> HIDE DEF path
      <3>2. path # <<>>
        BY <3>1
      <3> QED
        BY <3>1, <3>2 DEF Last
    <2>4. side = Toward(heap, p, k) /\ heap[p][side] = NULL /\ heap[p].value # k /\ p # NULL
      <3>1. heap[p].value # k /\ p # NULL
        BY <1>4, <2>3
      <3>2. side = Toward(heap, p, k)
        BY DEF Toward
      <3> QED
        BY <2>2, <2>3, <3>1, <3>2 DEF Leads
    <2> HIDE DEF p, side, path
    <2>5. Added(heap, h, leaf, p, k) /\ h \in Heap
      <3>1. p \in Live(heap) \cup {NULL}
        BY <2>3
      <3>2. Added(heap, h, leaf, p, k)
        BY <1>3, <1>5, <3>1, LeafAdded
      <3> QED
        BY <3>2 DEF Added
    <2> HIDE DEF h
    <2>6. Grown(heap, g, leaf, p, side, k)
      BY <1>3, <1>5, <1>6, <2>3, <2>5, LeafLinked
    <2>7. heap' = t.heap /\ root' = t.top
      BY <1>1, <2>4
    <2> HIDE DEF g
    <2>8. PICK now : Tree(g, root, now)
      BY <1>2, <2>2, <2>3, <2>4, <2>6, GrownTree
    <2>9. (\A m \in Live(g) : m # p => Good(g, m)) /\ Nearly(g, p)
      <3>1. Linked(g, root)
        BY <2>8 DEF Tree
      <3> QED
        BY <1>3, <1>6, <2>3, <2>4, <2>6, <3>1, GrownGood
    <2>10. /\ Live(g) = Live(heap) \cup {leaf} /\ g[leaf].value = k /\ leaf \notin Live(heap)
           /\ \A m \in Live(heap) : /\ g[m].value = heap[m].value
                                    /\ g[m].height = heap[m].height /\ g[m].parent = heap[m].parent
      BY <2>6 DEF Grown
    <2>11. Chain(g, Reverse(path)) /\ Reverse(path)[1] = p
      <3>1. Live(heap) \subseteq Live(g)
        BY <2>10
      <3> QED
        BY <1>3, <2>2, <2>3, <2>10, <3>1, PathChain
    <2>12. /\ Sound(t.heap, t.top) /\ Live(t.heap) = Live(g)
           /\ \A m \in Live(g) : t.heap[m].value = g[m].value
      BY <2>8, <2>9, <2>11, BalanceAll
    <2> HIDE DEF t
    <2> QED
      BY <1>1, <1>4, <1>5, <2>7, <2>10, <2>12
  <1> QED
    BY <1>7, <1>8

-----------------------------------------------------------------------------
(* Deletion.                                                               *)

\* The last node of one side is below the first one and beyond it.
Furthest(h, span, j, e, side) ==
    /\ e \in Live(h) /\ h[e][side] = NULL /\ h[e].value \in span[j]
    /\ j = e \/ Before(side, h[e].value, h[j].value)

LEMMA EndIsFurthest ==
    ASSUME NEW h, NEW r, NEW span, Tree(h, r, span), Descends(h), NEW side \in Sides,
           NEW j \in Live(h)
    PROVE  Furthest(h, span, j, End(h, j, side), side)
  <1> DEFINE S == {i \in Live(h) : ~Furthest(h, span, i, End(h, i, side), side)}
             rank == [i \in S |-> h[i].height]
  <1> SUFFICES ASSUME S # {} PROVE FALSE
    OBVIOUS
  <1>1. h \in Heap /\ Linked(h, r) /\ Ordered(h, span)
    BY DEF Tree
  <1>2. PICK i \in S : \A q \in S : rank[i] <= rank[q]
    <2>1. \A m \in S : rank[m] \in Nat
      BY <1>1, LiveRecord
    <2> HIDE DEF S, rank
    <2> QED
      BY <2>1, LeastRank
  <1>3. i \in Live(h) /\ ~Furthest(h, span, i, End(h, i, side), side)
    OBVIOUS
  <1>4. End(h, i, side) = IF h[i][side] = NULL THEN i ELSE End(h, h[i][side], side)
    BY <1>1, <1>3, EndSteps
  <1>5. CASE h[i][side] = NULL
    BY <1>1, <1>3, <1>4, <1>5 DEF Furthest, Ordered
  <1>6. CASE h[i][side] # NULL
    <2> DEFINE c == h[i][side]
               e == End(h, c, side)
    <2>1. c \in Live(h) /\ h[c].height < h[i].height
      BY <1>1, <1>3, <1>6 DEF Linked, Descends
    <2>2. h[c].height \in Nat /\ h[i].height \in Nat
      BY <1>1, <1>3, <2>1, LiveRecord
    <2>3. Furthest(h, span, c, e, side)
      <3>1. c \in S => rank[i] <= rank[c]
        BY <1>2
      <3>2. (c \in S => rank[c] = h[c].height) /\ rank[i] = h[i].height
        OBVIOUS
      <3>3. c \notin S
        <4> HIDE DEF S, rank, c
        <4> QED
          BY <2>1, <2>2, <3>1, <3>2
      <3> QED
        BY <2>1, <3>3
    <2>4. span[c] \subseteq OnSide(span[i], h[i].value, side)
      BY <1>1, <1>3, <1>6 DEF Ordered
    <2> HIDE DEF c, e
    <2>5. Furthest(h, span, i, e, side)
      BY <2>3, <2>4 DEF Furthest, OnSide
    <2> QED
      BY <1>3, <1>4, <1>6, <2>5 DEF c, e
  <1> QED
    BY <1>5, <1>6

\* g is h with another value in n.
Valued(h, n, x, g) ==
    /\ g \in Heap /\ Live(g) = Live(h)
    /\ \A m \in Live(h) : /\ g[m].value = (IF m = n THEN x ELSE h[m].value)
                          /\ g[m].height = h[m].height /\ g[m].parent = h[m].parent
                          /\ \A s \in Sides : g[m][s] = h[m][s]

LEMMA ValueUpdate ==
    ASSUME NEW r \in NodeType, NEW x \in Keys
    PROVE  LET s == [r EXCEPT !.value = x]
           IN /\ s \in NodeType /\ s.value = x /\ s.height = r.height /\ s.parent = r.parent
              /\ \A e \in Sides : s[e] = r[e]
  BY DEF NodeType, Sides

LEMMA ValueSet ==
    ASSUME NEW h \in Heap, NEW n \in Live(h), NEW x \in Keys
    PROVE  Valued(h, n, x, [h EXCEPT ![n].value = x])
  <1> DEFINE s == [h[n] EXCEPT !.value = x]
             g == [h EXCEPT ![n] = s]
  <1>1. n \in Nodes /\ h[n] \in NodeType
    BY LiveRecord
  <1>2. /\ s \in NodeType /\ s.value = x /\ s.height = h[n].height /\ s.parent = h[n].parent
        /\ \A e \in Sides : s[e] = h[n][e]
    BY <1>1, ValueUpdate
  <1>3. [h EXCEPT ![n].value = x] = g
    OBVIOUS
  <1> HIDE DEF s
  <1>4. g \in Heap /\ g[n] = s /\ \A m \in Nodes : m # n => g[m] = h[m]
    BY <1>1, <1>2 DEF Heap
  <1>5. Live(g) = Live(h)
    BY <1>1, <1>2, <1>4, AvlAssumption DEF Live, Heap
  <1> HIDE DEF g
  <1>6. \A m \in Live(h) : m \in Nodes
    BY DEF Live, Heap
  <1>7. Valued(h, n, x, g)
    BY <1>2, <1>4, <1>5, <1>6 DEF Valued
  <1> QED
    BY <1>3, <1>7

\* The links and the heights of a heap do not depend on its values.
LEMMA SameShape ==
    ASSUME NEW h \in Heap, NEW r, Linked(h, r), NEW g \in Heap, Live(g) = Live(h),
           \A m \in Live(h) : /\ g[m].height = h[m].height /\ g[m].parent = h[m].parent
                              /\ \A s \in Sides : g[m][s] = h[m][s]
    PROVE  Linked(g, r) /\ \A m \in Live(h) : Good(h, m) => Good(g, m)
  <1>1. Linked(g, r)
    BY DEF Linked
  <1>2. ASSUME NEW m \in Live(h), Good(h, m) PROVE Good(g, m)
    <2>1. \A s \in Sides : Height(g, g[m][s]) = Height(h, h[m][s])
      BY DEF Linked, Height
    <2>2. HeightOver(g, m) = HeightOver(h, m)
      BY <2>1, HeightOverSame
    <2>3. \A s \in Sides : Lean(g, m, s) = Lean(h, m, s)
      BY <2>1, OtherSide DEF Lean
    <2> QED
      BY <1>2, <2>2, <2>3 DEF Good
  <1> QED
    BY <1>1, <1>2

\* The way up from a node.
Extends(h, n, s, t) ==
    /\ Chain(h, s) /\ s[1] = h[n].parent /\ h[n].height < h[s[1]].height
    /\ t = <<n>> \o s

LEMMA ChainOn ==
    ASSUME NEW h, NEW n \in Live(h), NEW s, NEW t, Extends(h, n, s, t)
    PROVE  Chain(h, t) /\ t[1] = n
  <1> DEFINE L == Len(s)
  <1>0. Chain(h, s) /\ s[1] = h[n].parent /\ h[n].height < h[s[1]].height /\ t = <<n>> \o s
    BY DEF Extends
  <1>1. L \in Nat /\ L >= 1 /\ \A i \in 1..L : s[i] \in Live(h)
    BY <1>0 DEF Chain
  <1>2. Len(t) = L + 1 /\ t[1] = n /\ \A i \in 1..L : t[i + 1] = s[i]
    BY <1>0, <1>1
  <1>3. \A i \in 2..(L + 1) : i - 1 \in 1..L /\ t[i] = s[i - 1]
    <2> SUFFICES ASSUME NEW i \in 2..(L + 1) PROVE i - 1 \in 1..L /\ t[i] = s[i - 1]
      OBVIOUS
    <2>1. i - 1 \in 1..L /\ (i - 1) + 1 = i
      BY <1>1
    <2> QED
      BY <1>2, <2>1
  <1>4. \A i \in 1..(L + 1) : i = 1 \/ i \in 2..(L + 1)
    BY <1>1
  <1>5. \A i \in 1..Len(t) : t[i] \in Live(h)
    BY <1>1, <1>2, <1>3, <1>4
  <1>6. ASSUME NEW i \in 1..(Len(t) - 1)
        PROVE  h[t[i]].parent = t[i + 1] /\ h[t[i]].height < h[t[i + 1]].height
    <2>1. CASE i = 1
      <3>1. t[i] = n /\ t[i + 1] = s[1]
        BY <1>1, <1>2, <2>1
      <3> QED
        BY <1>0, <3>1
    <2>2. CASE i # 1
      <3>1. i \in 2..(L + 1) /\ i + 1 \in 2..(L + 1) /\ i - 1 \in 1..(L - 1) /\ (i + 1) - 1 = (i - 1) + 1
        BY <1>1, <1>2, <1>6, <2>2
      <3>2. t[i] = s[i - 1] /\ t[i + 1] = s[(i - 1) + 1]
        BY <1>3, <3>1
      <3> QED
        BY <1>0, <3>1, <3>2 DEF Chain
    <2> QED
      BY <2>1, <2>2
  <1>7. h[t[Len(t)]].parent = NULL
    <2>1. t[Len(t)] = s[L]
      BY <1>1, <1>2
    <2> QED
      BY <1>0, <2>1 DEF Chain
  <1> QED
    BY <1>1, <1>2, <1>5, <1>6, <1>7 DEF Chain

LEMMA ChainOne ==
    ASSUME NEW h, NEW n \in Live(h), h[n].parent = NULL, NEW t, t = <<n>>
    PROVE  Chain(h, t) /\ t[1] = n
  BY DEF Chain

LEMMA AncestorsChain ==
    ASSUME NEW h \in Heap, NEW r, Linked(h, r), Descends(h), NEW n \in Live(h)
    PROVE  Chain(h, Ancestors(h, n)) /\ Ancestors(h, n)[1] = n
  <1> DEFINE Up(m) == Chain(h, Ancestors(h, m)) /\ Ancestors(h, m)[1] = m
             S == {m \in Live(h) : ~Up(m)}
  <1> SUFFICES ASSUME S # {} PROVE FALSE
    OBVIOUS
  <1>1. PICK m \in S : \A q \in S : h[q].height <= h[m].height
    <2>1. S \subseteq Live(h)
      OBVIOUS
    <2> HIDE DEF S
    <2> QED
      BY <2>1, HighestNode
  <1>2. m \in Live(h) /\ ~Up(m)
    OBVIOUS
  <1>3. Ancestors(h, NULL) = <<>> /\ Ancestors(h, m) = <<m>> \o Ancestors(h, h[m].parent)
    BY <1>2, AncestorsSteps
  <1>4. CASE h[m].parent = NULL
    <2>1. Ancestors(h, m) = <<m>>
      BY <1>3, <1>4
    <2> QED
      BY <1>2, <1>4, <2>1, ChainOne
  <1>5. CASE h[m].parent # NULL
    <2>1. h[m].parent \in Live(h) /\ h[m].height < h[h[m].parent].height
      BY <1>2, <1>5, ParentRises
    <2>2. h[m].height \in Nat /\ h[h[m].parent].height \in Nat
      BY <1>2, <2>1, LiveRecord
    <2>3. h[m].parent \notin S
      <3> HIDE DEF S
      <3> QED
        BY <1>1, <2>1, <2>2
    <2>4. Up(h[m].parent)
      BY <2>1, <2>3
    <2> DEFINE p == h[m].parent
               s == Ancestors(h, p)
               t == Ancestors(h, m)
    <2>5. Extends(h, m, s, t)
      BY <1>3, <2>1, <2>4 DEF Extends
    <2> HIDE DEF p, s, t, S
    <2>6. Chain(h, t) /\ t[1] = m
      BY <1>2, <2>5, ChainOn, Zenon
    <2> QED
      BY <1>2, <2>6 DEF t
  <1> QED
    BY <1>4, <1>5

\* The two children of a node are different nodes.
Forked(h) == \A n \in Live(h), s \in Sides : h[n][s] # NULL => h[n][s] # h[n][Other(s)]

\* g is h without the node gone, and with the value x in m.
Shrunk(h, g, gone, m, x) ==
    /\ g \in Heap /\ gone \in Live(h) /\ Live(g) = Live(h) \ {gone}
    /\ \A j \in Live(g) : /\ g[j].value = (IF j = m THEN x ELSE h[j].value)
                          /\ g[j].height = h[j].height /\ g[j].parent = h[j].parent
                          /\ \A s \in Sides : g[j][s] = IF h[j][s] = gone THEN NULL ELSE h[j][s]

LEMMA ShrunkLinked ==
    ASSUME NEW h \in Heap, NEW r, Linked(h, r), NEW g, NEW gone, NEW m, NEW x,
           \A s \in Sides : h[gone][s] = NULL, Shrunk(h, g, gone, m, x)
    PROVE  Linked(g, IF gone = r THEN NULL ELSE r)
  <1> DEFINE top == IF gone = r THEN NULL ELSE r
  <1>1. /\ gone \in Live(h) /\ Live(g) = Live(h) \ {gone}
        /\ \A j \in Live(g) :
             /\ g[j].parent = h[j].parent
             /\ \A s \in Sides : g[j][s] = IF h[j][s] = gone THEN NULL ELSE h[j][s]
    BY DEF Shrunk
  <1>2. \A n \in Live(h) : n # NULL
    BY LiveRecord
  <1>3. top \in Live(g) \cup {NULL}
    BY <1>1 DEF Linked
  <1>4. ASSUME NEW n \in Live(g), NEW s \in Sides, g[n][s] # NULL
        PROVE  g[n][s] \in Live(g) /\ g[g[n][s]].parent = n
    BY <1>1, <1>4 DEF Linked
  <1>5. ASSUME NEW n \in Live(g), n = top PROVE g[n].parent = NULL
    BY <1>1, <1>2, <1>5 DEF Linked
  <1>6. ASSUME NEW n \in Live(g), n # top
        PROVE  g[n].parent \in Live(g) /\ \E s \in Sides : g[g[n].parent][s] = n
    <2>1. n \in Live(h) /\ n # r /\ n # gone
      BY <1>1, <1>6
    <2>2. PICK s \in Sides : h[n].parent \in Live(h) /\ h[h[n].parent][s] = n
      BY <2>1 DEF Linked
    <2>3. h[n].parent # gone
      BY <1>2, <2>1, <2>2
    <2> QED
      BY <1>1, <2>1, <2>2, <2>3
  <1> QED
    BY <1>3, <1>4, <1>5, <1>6 DEF Linked

LEMMA ShrunkGood ==
    ASSUME NEW h \in Heap, NEW r, Linked(h, r), Forked(h), \A n \in Live(h) : Good(h, n),
           NEW g, NEW gone, NEW m, NEW x, \A s \in Sides : h[gone][s] = NULL,
           Shrunk(h, g, gone, m, x), NEW top, Linked(g, top)
    PROVE  /\ \A j \in Live(g) : j # h[gone].parent => Good(g, j)
           /\ h[gone].parent # NULL => h[gone].parent \in Live(g) /\ Nearly(g, h[gone].parent)
  <1>1. /\ g \in Heap /\ gone \in Live(h) /\ Live(g) = Live(h) \ {gone}
        /\ \A j \in Live(g) :
             /\ g[j].height = h[j].height /\ g[j].parent = h[j].parent
             /\ \A s \in Sides : g[j][s] = IF h[j][s] = gone THEN NULL ELSE h[j][s]
    BY DEF Shrunk
  <1>2. \A n \in Live(h) : n # NULL
    BY LiveRecord
  <1>3. h[gone].height = 1
    <2>1. "left" \in Sides
      BY DEF Sides
    <2>2. Height(h, h[gone]["left"]) = 0 /\ Height(h, h[gone][Other("left")]) = 0
      BY <2>1, OtherSide DEF Height
    <2>3. Good(h, gone) => h[gone].height = Over(0, 0)
      BY <1>1, <2>1, <2>2, GoodSides
    <2> QED
      BY <1>1, <2>3 DEF Over
  <1>4. ASSUME NEW j \in Live(g), NEW s \in Sides, h[j][s] # gone
        PROVE  g[j][s] = h[j][s] /\ Height(g, g[j][s]) = Height(h, h[j][s])
    <2>1. g[j][s] = h[j][s] /\ j \in Live(h)
      BY <1>1, <1>4
    <2>2. h[j][s] # NULL => h[j][s] \in Live(g)
      BY <1>1, <1>4, <2>1 DEF Linked
    <2> QED
      BY <1>1, <2>1, <2>2 DEF Height
  <1>5. ASSUME NEW j \in Live(g), j # h[gone].parent PROVE Good(g, j)
    <2>1. j \in Live(h) /\ g[j].height = h[j].height /\ Good(h, j)
      BY <1>1
    <2>2. \A s \in Sides : h[j][s] # gone
      BY <1>1, <1>2, <1>5, <2>1 DEF Linked
    <2>3. \A s \in Sides : g[j][s] = h[j][s] /\ Height(g, g[j][s]) = Height(h, h[j][s])
      BY <1>4, <2>2
    <2>4. HeightOver(g, j) = HeightOver(h, j)
      BY <1>1, <2>1, <2>3, HeightOverSame
    <2>5. \A s \in Sides : Lean(g, j, s) = Lean(h, j, s)
      BY <2>3, OtherSide DEF Lean
    <2> QED
      BY <2>1, <2>4, <2>5 DEF Good
  <1>6. ASSUME h[gone].parent # NULL
        PROVE  h[gone].parent \in Live(g) /\ Nearly(g, h[gone].parent)
    <2> DEFINE p == h[gone].parent
    <2>1. PICK s \in Sides : p \in Live(h) /\ h[p][s] = gone
      BY <1>1, <1>6 DEF Linked
    <2>2. p \in Live(g)
      <3>1. p # gone
        BY <1>1, <1>2, <2>1
      <3> QED
        BY <1>1, <2>1, <3>1
    <2>3. h[p][Other(s)] # gone /\ Other(s) \in Sides
      BY <1>1, <1>2, <2>1, OtherSide DEF Forked
    <2>4. Height(g, g[p][Other(s)]) = Height(h, h[p][Other(s)])
      BY <1>4, <2>2, <2>3
    <2>5. Height(g, g[p][s]) = 0 /\ Height(h, h[p][s]) = 1
      BY <1>1, <1>2, <1>3, <2>1, <2>2 DEF Height
    <2>6. Close(Height(g, g[p][s]), Height(h, h[p][s]))
      BY <2>5 DEF Close
    <2>7. g[p].height = h[p].height /\ Good(h, p)
      BY <1>1, <2>1, <2>2
    <2> HIDE DEF p
    <2>8. Nearly(g, p)
      BY <2>1, <2>4, <2>6, <2>7, ParentNearly
    <2> QED
      BY <2>2, <2>8 DEF p
  <1> QED
    BY <1>5, <1>6

LEMMA ShrunkDescends ==
    ASSUME NEW h, NEW r, Linked(h, r), Descends(h), NEW g, NEW gone, NEW m, NEW x,
           Shrunk(h, g, gone, m, x)
    PROVE  Descends(g)
  <1>1. /\ Live(g) = Live(h) \ {gone}
        /\ \A j \in Live(g) :
             /\ g[j].height = h[j].height
             /\ \A s \in Sides : g[j][s] = IF h[j][s] = gone THEN NULL ELSE h[j][s]
    BY DEF Shrunk
  <1>2. ASSUME NEW j \in Live(g) PROVE g[j].height \in 1..Cardinality(Nodes)
    BY <1>1 DEF Descends
  <1>3. ASSUME NEW j \in Live(g), NEW s \in Sides, g[j][s] # NULL
        PROVE  g[g[j][s]].height < g[j].height
    <2>1. g[j][s] = h[j][s] /\ h[j][s] # gone /\ h[h[j][s]].height < h[j].height /\ j \in Live(h)
      BY <1>1, <1>3 DEF Descends
    <2>2. h[j][s] \in Live(g)
      BY <1>1, <1>3, <2>1 DEF Linked
    <2> QED
      BY <1>1, <2>1, <2>2
  <1> QED
    BY <1>2, <1>3 DEF Descends

LEMMA NodeFreed ==
    ASSUME NEW h \in Heap, NEW n \in Nodes
    PROVE  /\ Freed(h, n) \in Heap /\ Live(Freed(h, n)) = Live(h) \ {n}
           /\ \A m \in Live(h) \ {n} : Freed(h, n)[m] = h[m]
  <1>1. Freed(h, n) \in Heap /\ Freed(h, n)[n] = NULL /\ \A m \in Nodes : m # n => Freed(h, n)[m] = h[m]
    BY DEF Freed, Heap
  <1>2. DOMAIN Freed(h, n) = Nodes /\ DOMAIN h = Nodes
    BY <1>1 DEF Heap
  <1> QED
    BY <1>1, <1>2 DEF Live

\* The node itself is freed.
LEMMA LeafGone ==
    ASSUME NEW h \in Heap, NEW r, Linked(h, r), Forked(h), NEW m \in Live(h), NEW x
    PROVE  Shrunk(h, Freed(Unlinked(h, m), m), m, m, x)
  <1> DEFINE p == h[m].parent
             slot == IF h[p].left = m THEN "left" ELSE "right"
             u == Unlinked(h, m)
             g == Freed(u, m)
  <1>1. \A n \in Live(h) : n # NULL /\ n \in Nodes
    BY LiveRecord
  <1>2. slot \in Sides
    BY DEF Sides
  <1>3. u \in Heap /\ Live(u) = Live(h)
        /\ \A j \in Live(h) :
             /\ u[j].value = h[j].value /\ u[j].height = h[j].height /\ u[j].parent = h[j].parent
             /\ \A s \in Sides : u[j][s] = IF h[j][s] = m THEN NULL ELSE h[j][s]
    <2>1. ASSUME NEW j \in Live(h), NEW s \in Sides, h[j][s] = m PROVE j = p
      BY <1>1, <2>1 DEF Linked
    <2>2. CASE p = NULL
      <3>1. u = h
        BY <2>2 DEF Unlinked, Relinked
      <3> QED
        BY <1>1, <2>1, <2>2, <3>1
    <2>3. CASE p # NULL
      <3>1. PICK e \in Sides : p \in Live(h) /\ h[p][e] = m
        BY <2>3 DEF Linked
      <3>2. h[p][Other(e)] # m /\ \A s \in Sides : s = e \/ s = Other(e)
        BY <1>1, <3>1, OtherSide DEF Forked
      <3>3. h[p].left = h[p]["left"] /\ h[p].right = h[p]["right"]
        BY <3>1, LiveRecord
      <3>4. slot = e
        <4>1. CASE e = "left"
          BY <3>1, <3>3, <4>1
        <4>2. CASE e = "right"
          BY <3>1, <3>2, <3>3, <4>2 DEF Other
        <4> QED
          BY <4>1, <4>2 DEF Sides
      <3>5. u = [h EXCEPT ![p][slot] = NULL]
        BY <2>3 DEF Unlinked, Relinked
      <3> HIDE DEF u, p, slot
      <3>6. Link(h, p, slot, NULL, u)
        BY <1>2, <3>1, <3>5, LinkSet, SideFields
      <3>7. /\ u \in Heap /\ Live(u) = Live(h)
            /\ \A j \in Live(h) :
                /\ u[j].value = h[j].value /\ u[j].height = h[j].height /\ u[j].parent = h[j].parent
                /\ \A s \in Sides : u[j][s] = IF j = p /\ s = slot THEN NULL ELSE h[j][s]
        BY <1>2, <3>6, LinkSides
      <3> QED
        BY <2>1, <3>1, <3>2, <3>4, <3>7
    <2> QED
      BY <2>2, <2>3
  <1> HIDE DEF u
  <1>4. /\ g \in Heap /\ Live(g) = Live(u) \ {m} /\ \A j \in Live(u) \ {m} : g[j] = u[j]
    BY <1>1, <1>3, NodeFreed
  <1> HIDE DEF g
  <1>5. Shrunk(h, g, m, m, x)
    BY <1>3, <1>4 DEF Shrunk
  <1> QED
    BY <1>5 DEF g, u

\* Its child gives it its value and is freed.
LEMMA ChildGone ==
    ASSUME NEW h \in Heap, NEW r, Linked(h, r), Forked(h), NEW m \in Live(h), NEW side \in Sides,
           NEW c, c = h[m][side], c # NULL, NEW x, x = h[c].value
    PROVE  Shrunk(h, Freed([h EXCEPT ![m].value = x, ![m][side] = NULL], c), c, m, x)
  <1> DEFINE h1 == [h EXCEPT ![m].value = x]
             u == [h1 EXCEPT ![m][side] = NULL]
             g == Freed(u, c)
  <1>1. \A n \in Live(h) : n # NULL /\ n \in Nodes
    BY LiveRecord
  <1>2. c \in Live(h) /\ h[c].parent = m
    BY DEF Linked
  <1>3. x \in Keys
    BY <1>2, LiveRecord
  <1>4. \A j \in Live(h), s \in Sides : h[j][s] = c <=> j = m /\ s = side
    <2>1. ASSUME NEW j \in Live(h), NEW s \in Sides, h[j][s] = c PROVE j = m /\ s = side
      <3>1. j = m
        BY <1>2, <2>1 DEF Linked
      <3>2. s = side \/ s = Other(side)
        BY OtherSide
      <3> QED
        BY <2>1, <3>1, <3>2 DEF Forked
    <2> QED
      BY <2>1
  <1>5. Valued(h, m, x, h1)
    BY <1>3, ValueSet
  <1> HIDE DEF h1
  <1>6. h1 \in Heap /\ m \in Live(h1)
    BY <1>5 DEF Valued
  <1>7. Link(h1, m, side, NULL, u)
    BY <1>6, LinkSet, SideFields
  <1> HIDE DEF u
  <1>8. /\ u \in Heap /\ Live(u) = Live(h1)
        /\ \A j \in Live(h1) :
            /\ u[j].value = h1[j].value /\ u[j].height = h1[j].height /\ u[j].parent = h1[j].parent
            /\ \A s \in Sides : u[j][s] = IF j = m /\ s = side THEN NULL ELSE h1[j][s]
    BY <1>6, <1>7, LinkSides
  <1>9. /\ u \in Heap /\ Live(u) = Live(h)
        /\ \A j \in Live(h) :
             /\ u[j].value = (IF j = m THEN x ELSE h[j].value)
             /\ u[j].height = h[j].height /\ u[j].parent = h[j].parent
             /\ \A s \in Sides : u[j][s] = IF h[j][s] = c THEN NULL ELSE h[j][s]
    BY <1>4, <1>5, <1>8 DEF Valued
  <1>10. /\ g \in Heap /\ Live(g) = Live(u) \ {c} /\ \A j \in Live(u) \ {c} : g[j] = u[j]
    BY <1>1, <1>2, <1>9, NodeFreed
  <1> HIDE DEF g
  <1>11. Shrunk(h, g, c, m, x)
    BY <1>2, <1>9, <1>10 DEF Shrunk
  <1>12. [h EXCEPT ![m].value = x, ![m][side] = NULL] = u
    BY Zenon DEF u, h1
  <1> QED
    BY <1>11, <1>12 DEF g

\* span holds in h for every node but m, whose value may be anything.
OrderedBut(h, span, m) ==
    /\ span \in [Nodes -> SUBSET Keys]
    /\ \A n \in Live(h) \ {m} : h[n].value \in span[n]
    /\ \A n \in Live(h), side \in Sides : h[n][side] # NULL =>
         span[h[n][side]] \subseteq IF n = m THEN span[n] ELSE OnSide(span[n], h[n].value, side)

\* What is left when the value of m is gone.
Emptied(h, r, g, changed, m, span) ==
    /\ Tree(g, IF changed = NULL THEN NULL ELSE r, span)
    /\ Descends(g)
    /\ \A j \in Live(g) : j # changed => Good(g, j)
    /\ changed # NULL => changed \in Live(g) /\ Nearly(g, changed)
    /\ \E gone \in Live(h) : Live(g) = Live(h) \ {gone}
    /\ {g[j].value : j \in Live(g)} = {h[j].value : j \in Live(h) \ {m}}

LEMMA VacatedTree ==
    ASSUME NEW h \in Heap, NEW r, Linked(h, r), Forked(h), Descends(h),
           \A n \in Live(h) : Good(h, n), NEW m \in Live(h), NEW span, OrderedBut(h, span, m),
           NEW side \in Sides, h[m][Other(side)] = NULL
    PROVE  LET w == Vacated(h, m, side) IN Emptied(h, r, w.heap, w.changed, m, span)
  <1> DEFINE c == h[m][side]
             w == Vacated(h, m, side)
  <1>1. \A n \in Live(h) : n # NULL /\ n \in Nodes
    BY LiveRecord
  <1>2. \A s \in Sides : s = side \/ s = Other(side)
    BY OtherSide
  <1>3. ASSUME NEW g, NEW gone \in Live(h), NEW x, \A s \in Sides : h[gone][s] = NULL,
               Shrunk(h, g, gone, m, x),
               gone = m \/ (gone = c /\ x = h[c].value /\ c # NULL)
        PROVE  Emptied(h, r, g, h[gone].parent, m, span)
    <2> DEFINE changed == h[gone].parent
               top == IF changed = NULL THEN NULL ELSE r
    <2>1. /\ g \in Heap /\ Live(g) = Live(h) \ {gone}
          /\ \A j \in Live(g) :
               /\ g[j].value = (IF j = m THEN x ELSE h[j].value)
               /\ \A s \in Sides : g[j][s] = IF h[j][s] = gone THEN NULL ELSE h[j][s]
      BY <1>3 DEF Shrunk
    <2>2. changed = NULL <=> gone = r
      BY <1>1 DEF Linked
    <2>3. Linked(g, top)
      BY <1>3, <2>2, ShrunkLinked
    <2>4. /\ \A j \in Live(g) : j # changed => Good(g, j)
          /\ changed # NULL => changed \in Live(g) /\ Nearly(g, changed)
      <3> HIDE DEF top
      <3> QED
        BY <1>3, <2>3, ShrunkGood
    <2>5. Descends(g)
      BY <1>3, ShrunkDescends
    <2>6. Ordered(g, span)
      <3>1. span \in [Nodes -> SUBSET Keys]
        BY DEF OrderedBut
      <3>2. ASSUME NEW j \in Live(g) PROVE g[j].value \in span[j]
        <4>1. CASE j # m
          BY <2>1, <4>1 DEF OrderedBut
        <4>2. CASE j = m
          <5>1. gone = c /\ x = h[c].value /\ c # NULL
            BY <1>3, <2>1, <4>2
          <5>2. c \in Live(h) \ {m}
            BY <1>3, <2>1, <4>2, <5>1
          <5>3. h[c].value \in span[c] /\ span[c] \subseteq span[m]
            BY <5>1, <5>2 DEF OrderedBut
          <5> QED
            BY <2>1, <4>2, <5>1, <5>3
        <4> QED
          BY <4>1, <4>2
      <3>3. ASSUME NEW j \in Live(g), NEW s \in Sides, g[j][s] # NULL
            PROVE  span[g[j][s]] \subseteq OnSide(span[j], g[j].value, s)
        <4>1. g[j][s] = h[j][s] /\ h[j][s] # gone /\ h[j][s] # NULL /\ j \in Live(h)
          BY <2>1, <3>3
        <4>2. j # m
          <5> SUFFICES ASSUME j = m PROVE FALSE
            OBVIOUS
          <5>1. gone = c
            BY <1>3, <2>1
          <5> QED
            BY <1>2, <4>1, <5>1
        <4> QED
          BY <2>1, <4>1, <4>2 DEF OrderedBut
      <3> QED
        BY <3>1, <3>2, <3>3 DEF Ordered
    <2>7. {g[j].value : j \in Live(g)} = {h[j].value : j \in Live(h) \ {m}}
      <3>1. CASE gone = m
        BY <2>1, <3>1
      <3>2. CASE gone # m
        <4>1. gone = c /\ x = h[gone].value
          BY <1>3, <3>2
        <4>2. ASSUME NEW j \in Live(g) PROVE \E i \in Live(h) \ {m} : g[j].value = h[i].value
          <5>1. CASE j = m
            BY <2>1, <3>2, <4>1, <5>1
          <5>2. CASE j # m
            BY <2>1, <5>2
          <5> QED
            BY <5>1, <5>2
        <4>3. ASSUME NEW i \in Live(h) \ {m} PROVE \E j \in Live(g) : g[j].value = h[i].value
          <5>1. CASE i = gone
            BY <2>1, <3>2, <4>1, <5>1
          <5>2. CASE i # gone
            BY <2>1, <5>2
          <5> QED
            BY <5>1, <5>2
        <4> QED
          BY <4>2, <4>3
      <3> QED
        BY <3>1, <3>2
    <2> QED
      BY <2>1, <2>3, <2>4, <2>5, <2>6, <2>7 DEF Emptied, Tree
  <1>4. CASE c = NULL
    <2>1. \A s \in Sides : h[m][s] = NULL
      BY <1>2, <1>4
    <2>2. w.heap = Freed(Unlinked(h, m), m) /\ w.changed = h[m].parent
      BY <1>4 DEF Vacated
    <2> HIDE DEF w
    <2>3. Shrunk(h, w.heap, m, m, h[m].value)
      BY <2>2, LeafGone
    <2>4. Emptied(h, r, w.heap, h[m].parent, m, span)
      BY <1>3, <2>1, <2>3
    <2>5. Emptied(h, r, w.heap, w.changed, m, span)
      BY <2>2, <2>4
    <2> QED
      BY <2>5 DEF w
  <1>5. CASE c # NULL
    <2>1. w.heap = Freed([h EXCEPT ![m].value = h[c].value, ![m][side] = NULL], c) /\ w.changed = m
      BY <1>5 DEF Vacated
    <2>2. c \in Live(h) /\ h[c].parent = m
      BY <1>5 DEF Linked
    <2>3. Height(h, h[m][Other(side)]) = 0
      BY DEF Height
    <2>4. \A n \in Live(h), s \in Sides : /\ Height(h, h[n][s]) \in Nat /\ Height(h, h[n][Other(s)]) \in Nat
                                          /\ h[n].height = Over(Height(h, h[n][s]), Height(h, h[n][Other(s)]))
                                          /\ Close(Height(h, h[n][s]), Height(h, h[n][Other(s)]))
      BY GoodSides
    <2>5. \A n \in Live(h) : h[n].height >= 1 /\ h[n].height \in Nat
      BY <2>4, LiveRecord DEF Over
    <2>6. h[c].height = 1
      <3>1. Height(h, c) - 0 <= 1 /\ Height(h, c) = h[c].height
        <4>1. Close(Height(h, c), 0)
          BY <2>3, <2>4
        <4> QED
          BY <1>5, <4>1 DEF Close, Height
      <3> HIDE DEF c
      <3> QED
        BY <2>2, <2>5, <3>1
    <2>7. \A s \in Sides : h[c][s] = NULL
      <3> SUFFICES ASSUME NEW s \in Sides, h[c][s] # NULL PROVE FALSE
        OBVIOUS
      <3>1. h[c][s] \in Live(h) /\ Height(h, h[c][s]) >= 1
        BY <2>2, <2>5 DEF Linked, Height
      <3>2. h[h[c][s]].height < h[c].height
        BY <2>2 DEF Descends
      <3>3. h[h[c][s]].height >= 1 /\ h[h[c][s]].height \in Nat
        BY <2>5, <3>1
      <3> QED
        BY <2>6, <3>2, <3>3
    <2> HIDE DEF w
    <2>8. Shrunk(h, w.heap, c, m, h[c].value)
      <3> DEFINE x == h[c].value
      <3>1. c = h[m][side] /\ c # NULL
        BY <1>5
      <3>2. w.heap = Freed([h EXCEPT ![m].value = x, ![m][side] = NULL], c)
        BY <2>1
      <3> HIDE DEF c, x
      <3>3. Shrunk(h, Freed([h EXCEPT ![m].value = x, ![m][side] = NULL], c), c, m, x)
        <4>1. x = h[c].value
          BY DEF x
        <4> QED
          BY <3>1, <4>1, ChildGone, Zenon
      <3>4. Shrunk(h, w.heap, c, m, x)
        BY <3>2, <3>3, Zenon
      <3> QED
        BY <3>4 DEF x
    <2>9. Emptied(h, r, w.heap, h[c].parent, m, span)
      BY <1>3, <1>5, <2>2, <2>7, <2>8
    <2>10. Emptied(h, r, w.heap, w.changed, m, span)
      BY <2>1, <2>2, <2>9
    <2> QED
      BY <2>10 DEF w
  <1> QED
    BY <1>4, <1>5

\* The largest value on the left of n can take its place: what is not less
\* leaves the spans on the way to it.
LEMMA HoistOrdered ==
    ASSUME NEW h, NEW r, NEW span, Tree(h, r, span), Descends(h), NEW n \in Live(h),
           NEW l, l = h[n]["left"], l # NULL, NEW m, m = End(h, l, "right"),
           NEW g, Valued(h, n, h[m].value, g)
    PROVE  /\ m \in Live(h) /\ m # n /\ h[m]["right"] = NULL
           /\ \E now : OrderedBut(g, now, m)
  <1> DEFINE v == h[m].value
             way == {j \in Live(h) : End(h, j, "right") = m}
             now == [j \in Nodes |-> IF j \in way THEN {k \in span[j] : k < v} ELSE span[j]]
  <1>1. h \in Heap /\ Linked(h, r) /\ Ordered(h, span)
    BY DEF Tree
  <1>2. "left" \in Sides /\ "right" \in Sides
    BY DEF Sides
  <1>3. l \in Live(h)
    BY <1>1, <1>2 DEF Linked
  <1>4. /\ m \in Live(h) /\ h[m]["right"] = NULL
        /\ \A j \in way : v \in span[j] /\ (j = m \/ h[j].value < v)
    <2>1. \A j \in Live(h) : Furthest(h, span, j, End(h, j, "right"), "right")
      BY <1>2, EndIsFurthest
    <2> QED
      BY <1>3, <2>1 DEF Furthest, Before
  <1>5. \A j \in Live(h) : j \in Nodes /\ j # NULL /\ h[j].value \in Keys /\ h[j].value \in Int
    BY <1>1, LiveRecord, AvlAssumption
  <1>6. /\ span \in [Nodes -> SUBSET Keys]
        /\ \A j \in Live(h) : /\ h[j].value \in span[j]
                              /\ h[j]["left"] # NULL =>
                                   span[h[j]["left"]] \subseteq {k \in span[j] : k < h[j].value}
                              /\ h[j]["right"] # NULL =>
                                   span[h[j]["right"]] \subseteq {k \in span[j] : k > h[j].value}
    BY <1>1, <1>2 DEF Ordered, OnSide, Before
  <1>7. \A j \in Nodes : \A k \in span[j] : k \in Int
    BY <1>6, AvlAssumption
  <1>8. /\ l \in way /\ v \in span[l] /\ v \in Keys /\ v \in Int
        /\ v \in span[n] /\ v < h[n].value
    <2>1. l \in way
      BY <1>3
    <2> HIDE DEF way
    <2> QED
      BY <1>4, <1>5, <1>6, <2>1
  <1>9. n \notin way /\ m # n
    <2>1. n \in way => (n = m \/ h[n].value < v)
      BY <1>4
    <2>2. n # m
      BY <1>5, <1>8
    <2> HIDE DEF way
    <2> QED
      BY <1>5, <1>8, <2>1, <2>2
  <1>10. \A j \in way : j # m => h[j]["right"] # NULL /\ h[j]["right"] \in way
    <2> SUFFICES ASSUME NEW j \in way, j # m PROVE h[j]["right"] # NULL /\ h[j]["right"] \in way
      OBVIOUS
    <2>1. End(h, j, "right") = IF h[j]["right"] = NULL THEN j ELSE End(h, h[j]["right"], "right")
      BY <1>1, <1>2, EndSteps
    <2>2. h[j]["right"] # NULL => h[j]["right"] \in Live(h)
      BY <1>1, <1>2 DEF Linked
    <2> QED
      BY <2>1, <2>2
  <1>11. /\ now \in [Nodes -> SUBSET Keys]
         /\ \A j \in Live(h) : now[j] = IF j \in way THEN {k \in span[j] : k < v} ELSE span[j]
    BY <1>5, <1>6
  <1>12. way \subseteq Live(h)
    OBVIOUS
  <1> HIDE DEF way, now
  <1>13. /\ Live(g) = Live(h)
         /\ \A j \in Live(h) : /\ g[j].value = (IF j = n THEN v ELSE h[j].value)
                               /\ \A s \in Sides : g[j][s] = h[j][s]
    BY DEF Valued
  <1> HIDE DEF v
  <1>14. ASSUME NEW j \in Live(g) \ {m} PROVE g[j].value \in now[j]
    <2>1. CASE j = n
      BY <1>8, <1>9, <1>11, <1>13, <2>1
    <2>2. CASE j # n /\ j \in way
      BY <1>4, <1>6, <1>11, <1>13, <2>2
    <2>3. CASE j # n /\ j \notin way
      BY <1>6, <1>11, <1>13, <2>3
    <2> QED
      BY <2>1, <2>2, <2>3
  <1>15. \A j \in Live(h) : now[j] \subseteq span[j]
    BY <1>11
  <1>16. ASSUME NEW j \in Live(h), NEW c \in Live(h), NEW k \in now[c], c = h[j]["left"], c # NULL
         PROVE  k \in now[j] /\ k < h[j].value /\ (j = n => k < v)
    <2>1. k \in span[j] /\ k < h[j].value /\ k \in Int
      BY <1>5, <1>6, <1>7, <1>15, <1>16
    <2>2. CASE j = n
      <3>1. c = l
        BY <1>16, <2>2
      <3> QED
        BY <1>8, <1>9, <1>11, <1>16, <2>1, <2>2, <3>1
    <2>3. CASE j # n /\ j \in way
      <3>1. h[j].value < v \/ h[j].value = v
        BY <1>4, <2>3 DEF v
      <3>2. k < v
        BY <1>5, <1>8, <2>1, <3>1
      <3> QED
        BY <1>11, <2>1, <2>3, <3>2
    <2>4. CASE j # n /\ j \notin way
      BY <1>11, <2>1, <2>4
    <2> QED
      BY <2>2, <2>3, <2>4
  <1>17. ASSUME NEW j \in Live(h), NEW c \in Live(h), NEW k \in now[c], c = h[j]["right"], c # NULL
         PROVE  k \in now[j] /\ k > h[j].value /\ (j = n => k > v)
    <2>1. k \in span[j] /\ k > h[j].value /\ k \in Int
      BY <1>5, <1>6, <1>7, <1>15, <1>17
    <2>2. CASE j = n
      <3>1. h[j].value \in Int /\ v \in Int /\ v < h[j].value
        BY <1>5, <1>8, <2>2
      <3>2. k > v
        BY <2>1, <3>1
      <3>3. now[j] = span[j]
        BY <1>9, <1>11, <2>2
      <3> QED
        BY <2>1, <3>2, <3>3
    <2>3. CASE j # n /\ j \in way
      <3>1. c \in way
        BY <1>4, <1>10, <1>17, <2>3
      <3>2. k < v
        BY <1>11, <1>17, <3>1
      <3> QED
        BY <1>11, <2>1, <2>3, <3>2
    <2>4. CASE j # n /\ j \notin way
      BY <1>11, <2>1, <2>4
    <2> QED
      BY <2>2, <2>3, <2>4
  <1>18. ASSUME NEW j \in Live(g), NEW s \in Sides, g[j][s] # NULL
         PROVE  now[g[j][s]] \subseteq IF j = m THEN now[j] ELSE OnSide(now[j], g[j].value, s)
    <2> DEFINE c == h[j][s]
    <2>1. j \in Live(h) /\ g[j][s] = c /\ c # NULL /\ c \in Live(h)
      BY <1>1, <1>13, <1>18 DEF Linked
    <2> SUFFICES ASSUME NEW k \in now[c]
                 PROVE  k \in now[j] /\ (j # m => Before(s, k, g[j].value))
      BY <2>1 DEF OnSide
    <2>2. g[j].value = (IF j = n THEN v ELSE h[j].value)
      BY <1>13, <2>1
    <2>3. CASE s = "left"
      BY <1>16, <2>1, <2>2, <2>3 DEF Before
    <2>4. CASE s = "right"
      <3>1. k \in now[j] /\ k > h[j].value /\ (j = n => k > v)
        BY <1>17, <2>1, <2>4
      <3>2. k \in Int
        BY <1>5, <1>7, <1>15, <2>1
      <3> QED
        BY <1>5, <1>8, <2>1, <2>2, <2>4, <3>1, <3>2 DEF Before
    <2> QED
      BY <2>3, <2>4 DEF Sides
  <1>19. OrderedBut(g, now, m)
    BY <1>11, <1>13, <1>14, <1>18 DEF OrderedBut
  <1> QED
    BY <1>4, <1>9, <1>19

LEMMA WithoutTree ==
    ASSUME NEW h, NEW r, Sound(h, r), NEW n \in Live(h)
    PROVE  LET w == Without(h, n) IN \E span : Emptied(h, r, w.heap, w.changed, n, span)
  <1> DEFINE w == Without(h, n)
  <1>1. PICK span : Tree(h, r, span)
    BY DEF Sound
  <1>2. h \in Heap /\ Linked(h, r) /\ Ordered(h, span) /\ Descends(h) /\ \A m \in Live(h) : Good(h, m)
    BY <1>1, HeightBound DEF Sound, Tree
  <1>3. Forked(h)
    BY <1>1, NeighboursDiffer DEF Forked
  <1>4. "left" \in Sides /\ "right" \in Sides /\ Other("left") = "right" /\ Other("right") = "left"
    BY DEF Sides, Other
  <1>5. h[n].left = h[n]["left"]
    BY <1>2, LiveRecord
  <1>6. CASE h[n]["left"] = NULL
    <2>1. OrderedBut(h, span, n)
      BY <1>2 DEF Ordered, OrderedBut, OnSide
    <2>2. w = Vacated(h, n, "right")
      BY <1>5, <1>6 DEF Without
    <2> HIDE DEF w
    <2>3. Emptied(h, r, w.heap, w.changed, n, span)
      BY <1>2, <1>3, <1>4, <1>6, <2>1, <2>2, VacatedTree
    <2> QED
      BY <2>3 DEF w
  <1>7. CASE h[n]["left"] # NULL
    <2> DEFINE l == h[n]["left"]
               m == End(h, l, "right")
               g == [h EXCEPT ![n].value = h[m].value]
    <2>1. w = Vacated(g, m, "left")
      BY <1>5, <1>7 DEF Without
    <2>2. l \in Live(h)
      BY <1>2, <1>4, <1>7 DEF Linked
    <2> HIDE DEF w, l
    <2>3. m \in Live(h)
      BY <1>1, <1>2, <1>4, <2>2, EndIsFurthest DEF Furthest
    <2>4. Valued(h, n, h[m].value, g)
      <3>1. h[m].value \in Keys
        BY <1>2, <2>3, LiveRecord
      <3> HIDE DEF m
      <3> QED
        BY <1>2, <3>1, ValueSet
    <2> HIDE DEF m, g
    <2>5. m # n /\ h[m]["right"] = NULL /\ \E now : OrderedBut(g, now, m)
      BY <1>1, <1>2, <1>7, <2>4, HoistOrdered DEF l, m
    <2>6. PICK now : OrderedBut(g, now, m)
      BY <2>5
    <2>7. /\ g \in Heap /\ Live(g) = Live(h)
          /\ \A j \in Live(h) :
               /\ g[j].value = (IF j = n THEN h[m].value ELSE h[j].value)
               /\ g[j].height = h[j].height /\ g[j].parent = h[j].parent
               /\ \A s \in Sides : g[j][s] = h[j][s]
      BY <2>4 DEF Valued
    <2>8. Linked(g, r) /\ \A j \in Live(g) : Good(g, j)
      BY <1>2, <2>7, SameShape
    <2>9. Forked(g)
      BY <1>3, <2>7, OtherSide DEF Forked
    <2>10. Descends(g)
      BY <1>2, <2>7 DEF Descends, Linked
    <2>11. g[m][Other("left")] = NULL
      BY <1>4, <2>3, <2>5, <2>7
    <2>12. Emptied(g, r, w.heap, w.changed, m, now)
      BY <1>4, <2>1, <2>3, <2>6, <2>7, <2>8, <2>9, <2>10, <2>11, VacatedTree
    <2>13. {g[j].value : j \in Live(g) \ {m}} = {h[j].value : j \in Live(h) \ {n}}
      <3>1. ASSUME NEW j \in Live(h) \ {m} PROVE \E i \in Live(h) \ {n} : g[j].value = h[i].value
        <4>1. CASE j = n
          BY <2>3, <2>5, <2>7, <4>1
        <4>2. CASE j # n
          BY <2>7, <4>2
        <4> QED
          BY <4>1, <4>2
      <3>2. ASSUME NEW i \in Live(h) \ {n} PROVE \E j \in Live(h) \ {m} : g[j].value = h[i].value
        <4>1. CASE i = m
          BY <2>5, <2>7, <4>1
        <4>2. CASE i # m
          BY <2>7, <4>2
        <4> QED
          BY <4>1, <4>2
      <3> DEFINE A == {g[j].value : j \in Live(h) \ {m}}
                 B == {h[j].value : j \in Live(h) \ {n}}
      <3>3. ASSUME NEW x \in A PROVE x \in B
        <4>1. PICK j \in Live(h) \ {m} : x = g[j].value
          OBVIOUS
        <4>2. PICK i \in Live(h) \ {n} : g[j].value = h[i].value
          BY <3>1
        <4> QED
          BY <4>1, <4>2
      <3>4. ASSUME NEW x \in B PROVE x \in A
        <4>1. PICK i \in Live(h) \ {n} : x = h[i].value
          OBVIOUS
        <4>2. PICK j \in Live(h) \ {m} : g[j].value = h[i].value
          BY <3>2
        <4> QED
          BY <4>1, <4>2
      <3>5. A = B
        <4> HIDE DEF A, B
        <4> QED
          BY <3>3, <3>4
      <3> QED
        BY <2>7, <3>5
    <2>14. Emptied(h, r, w.heap, w.changed, n, now)
      BY <2>7, <2>12, <2>13 DEF Emptied
    <2> QED
      BY <2>14 DEF w
  <1> QED
    BY <1>6, <1>7

\* What a removal does.
LEMMA DeleteSound ==
    ASSUME Sound(heap, root), NEW k \in Keys, Delete(k)
    PROVE  /\ Sound(heap', root')
           /\ \E n \in Live(heap) :
                /\ heap[n].value = k
                /\ {heap'[j].value : j \in Live(heap')} = {heap[j].value : j \in Live(heap) \ {n}}
           /\ \E gone \in Live(heap) : Live(heap') = Live(heap) \ {gone}
           /\ n_elements' = n_elements - 1
  <1> DEFINE n == FindNode(heap, root, k)
             w == Without(heap, n)
             t == RebalanceAll(w.heap, Ancestors(w.heap, w.changed))
  <1>1. /\ n # NULL /\ n_elements' = n_elements - 1
        /\ w.changed = NULL => heap' = w.heap /\ root' = NULL
        /\ w.changed # NULL => heap' = t.heap /\ root' = t.top
    BY DEF Delete
  <1>2. PICK before : Tree(heap, root, before)
    BY DEF Sound
  <1>3. Descends(heap)
    BY HeightBound
  <1>4. n \in Live(heap) /\ heap[n].value = k
    BY <1>1, <1>2, <1>3, SearchFinds
  <1> HIDE DEF n
  <1>5. PICK span : Emptied(heap, root, w.heap, w.changed, n, span)
    BY <1>4, WithoutTree
  <1> HIDE DEF w
  <1>6. /\ Tree(w.heap, IF w.changed = NULL THEN NULL ELSE root, span)
        /\ Descends(w.heap)
        /\ \A j \in Live(w.heap) : j # w.changed => Good(w.heap, j)
        /\ w.changed # NULL => w.changed \in Live(w.heap) /\ Nearly(w.heap, w.changed)
        /\ \E gone \in Live(heap) : Live(w.heap) = Live(heap) \ {gone}
        /\ {w.heap[j].value : j \in Live(w.heap)} = {heap[j].value : j \in Live(heap) \ {n}}
    BY <1>5 DEF Emptied
  <1>7. w.heap \in Heap
    BY <1>6 DEF Tree
  <1>8. CASE w.changed = NULL
    <2>1. \A j \in Live(w.heap) : j # NULL
      BY <1>7, LiveRecord
    <2>2. Sound(w.heap, NULL)
      BY <1>6, <1>8, <2>1 DEF Sound
    <2> QED
      <3>1. heap' = w.heap /\ root' = NULL
        BY <1>1, <1>8
      <3>2. Sound(heap', root')
        BY <2>2, <3>1, Zenon
      <3>3. \E gone \in Live(heap) : Live(heap') = Live(heap) \ {gone}
        BY <1>6, <3>1
      <3>4. {heap'[j].value : j \in Live(heap')} = {heap[j].value : j \in Live(heap) \ {n}}
        BY <1>6, <3>1
      <3> QED
        BY <1>1, <1>4, <3>2, <3>3, <3>4
  <1>9. CASE w.changed # NULL
    <2> DEFINE a == Ancestors(w.heap, w.changed)
    <2>1. Tree(w.heap, root, span) /\ Linked(w.heap, root)
      BY <1>6, <1>9 DEF Tree
    <2>2. Chain(w.heap, a) /\ a[1] = w.changed
      BY <1>6, <1>7, <1>9, <2>1, AncestorsChain
    <2> HIDE DEF a
    <2>3. /\ Sound(t.heap, t.top) /\ Live(t.heap) = Live(w.heap)
          /\ \A j \in Live(w.heap) : t.heap[j].value = w.heap[j].value
      BY <1>6, <1>9, <2>1, <2>2, BalanceAll DEF a
    <2> HIDE DEF t
    <2>4. {t.heap[j].value : j \in Live(t.heap)} = {w.heap[j].value : j \in Live(w.heap)}
      BY <2>3
    <2>5. heap' = t.heap /\ root' = t.top
      BY <1>1, <1>9
    <2>6. {heap'[j].value : j \in Live(heap')} = {heap[j].value : j \in Live(heap) \ {n}}
      BY <1>6, <2>4, <2>5
    <2>7. \E gone \in Live(heap) : Live(heap') = Live(heap) \ {gone}
      BY <1>6, <2>3, <2>5
    <2>8. Sound(heap', root')
      BY <2>3, <2>5
    <2> QED
      BY <1>1, <1>4, <2>6, <2>7, <2>8
  <1> QED
    BY <1>8, <1>9

-----------------------------------------------------------------------------
(* The invariant of the specification, and what follows from it.           *)

\* The heap is a balanced search tree from its root, and n_elements counts
\* its nodes.
TreeInv == Sound(heap, root) /\ n_elements = Cardinality(Live(heap))

LEMMA EmptyTree == Init => TreeInv
  <1> SUFFICES ASSUME Init PROVE TreeInv
    OBVIOUS
  <1> DEFINE span == [n \in Nodes |-> Keys]
  <1>1. heap \in Heap /\ Live(heap) = {} /\ root = NULL /\ n_elements = 0
    BY DEF Init, Heap, Live
  <1>2. Linked(heap, root) /\ Ordered(heap, span)
    BY <1>1 DEF Linked, Ordered
  <1> HIDE DEF span
  <1>3. Sound(heap, root)
    BY <1>1, <1>2 DEF Sound, Tree
  <1>4. Cardinality(Live(heap)) = 0
    BY <1>1, FS_EmptySet
  <1> QED
    BY <1>1, <1>3, <1>4 DEF TreeInv

LEMMA LiveIsFinite ==
    ASSUME NEW h \in Heap
    PROVE  IsFiniteSet(Live(h)) /\ Cardinality(Live(h)) \in Nat
  <1>1. Live(h) \subseteq Nodes
    BY DEF Live, Heap
  <1> QED
    BY <1>1, FS_Subset, FS_CardinalityType, AvlAssumption

LEMMA TreeKept == TreeInv /\ [Next]_vars => TreeInv'
  <1> SUFFICES ASSUME TreeInv, [Next]_vars PROVE TreeInv'
    OBVIOUS
  <1>1. Sound(heap, root) /\ n_elements = Cardinality(Live(heap))
    BY DEF TreeInv
  <1>2. IsFiniteSet(Live(heap)) /\ Cardinality(Live(heap)) \in Nat
    BY <1>1, LiveIsFinite DEF Sound, Tree
  <1>3. ASSUME NEW k \in Keys, Insert(k) PROVE TreeInv'
    <2>1. /\ Sound(heap', root') /\ n_elements' = n_elements + 1
          /\ \E leaf \in Nodes : leaf \notin Live(heap) /\ Live(heap') = Live(heap) \cup {leaf}
      BY <1>1, <1>3, InsertSound
    <2>2. Cardinality(Live(heap')) = Cardinality(Live(heap)) + 1
      BY <1>2, <2>1, FS_AddElement
    <2>3. n_elements' = Cardinality(Live(heap'))
      BY <1>1, <2>1, <2>2
    <2> QED
      BY <2>1, <2>3 DEF TreeInv
  <1>4. ASSUME NEW k \in Keys, Delete(k) PROVE TreeInv'
    <2>1. /\ Sound(heap', root') /\ n_elements' = n_elements - 1
          /\ \E gone \in Live(heap) : Live(heap') = Live(heap) \ {gone}
      BY <1>1, <1>4, DeleteSound
    <2>2. Cardinality(Live(heap')) = Cardinality(Live(heap)) - 1
      BY <1>2, <2>1, FS_RemoveElement
    <2>3. n_elements' = Cardinality(Live(heap'))
      BY <1>1, <2>1, <2>2
    <2> QED
      BY <2>1, <2>3 DEF TreeInv
  <1>5. CASE UNCHANGED vars
    BY <1>1, <1>5 DEF TreeInv, vars
  <1> QED
    BY <1>3, <1>4, <1>5 DEF Next

\* avl_tree_insert and avl_tree_remove keep the search tree: the links, the
\* order of the values, the heights and the balance at once, because each of
\* them is needed to keep the others.
THEOREM TreeIsKept == Spec => []TreeInv
  <1> QED
    BY EmptyTree, TreeKept, PTL DEF Spec

\* Every link of a node is NULL or leads to a node that is allocated, its
\* height is between 1 and the number of nodes, and n_elements is the number
\* of nodes, as avl_tree_insert and avl_tree_remove count it.
THEOREM TreeTyped == Spec => []TypeOK
  <1>1. TreeInv => TypeOK
    <2> SUFFICES ASSUME TreeInv PROVE TypeOK
      OBVIOUS
    <2>1. heap \in Heap /\ Linked(heap, root) /\ Descends(heap)
      BY HeightBound DEF TreeInv, Sound, Tree
    <2>2. ASSUME NEW n \in Live(heap)
          PROVE  heap[n] \in [value : Keys, height : 1..Cardinality(Nodes),
                              parent : Live(heap) \cup {NULL},
                              left : Live(heap) \cup {NULL}, right : Live(heap) \cup {NULL}]
      <3>1. heap[n] \in NodeType
        BY <2>1, LiveRecord
      <3>2. heap[n].height \in 1..Cardinality(Nodes)
        BY <2>1 DEF Descends
      <3>3. \A side \in Sides : heap[n][side] \in Live(heap) \cup {NULL}
        BY <2>1 DEF Linked
      <3>4. heap[n].parent \in Live(heap) \cup {NULL}
        BY <2>1 DEF Linked
      <3>5. heap[n].left \in Live(heap) \cup {NULL} /\ heap[n].right \in Live(heap) \cup {NULL}
        BY <2>1, <3>3, LiveRecord DEF Sides
      <3> QED
        BY <3>1, <3>2, <3>4, <3>5 DEF NodeType
    <2>3. DOMAIN heap = Nodes
      BY <2>1 DEF Heap
    <2>4. root \in Live(heap) \cup {NULL} /\ n_elements = Cardinality(Live(heap))
      BY <2>1 DEF Linked, TreeInv
    <2> QED
      BY <2>2, <2>3, <2>4 DEF TypeOK, Allocated
  <1> QED
    BY <1>1, TreeIsKept, PTL

\* Parents and children always point to each other, and only the root has no
\* parent: what the rotations and the removal relink is relinked on both sides.
THEOREM LinksKept == Spec => []LinksAgree
  <1>1. TreeInv => LinksAgree
    <2> SUFFICES ASSUME TreeInv PROVE LinksAgree
      OBVIOUS
    <2>1. heap \in Heap /\ Linked(heap, root)
      BY DEF TreeInv, Sound, Tree
    <2>2. \A n \in Live(heap) : n # NULL
      BY <2>1, LiveRecord
    <2> QED
      BY <2>1, <2>2 DEF LinksAgree, Linked, Allocated
  <1> QED
    BY <1>1, TreeIsKept, PTL

\* Heights are always exact and every node is balanced: rebalance_from and
\* the balancing of an insertion reach every node whose height changed, and
\* what avl_tree_remove relies on (avltree.c:349) is so.
THEOREM BalanceKept == Spec => []Balanced
  <1>1. TreeInv => Balanced
    BY DEF TreeInv, Sound, Good, Balanced, Allocated
  <1> QED
    BY <1>1, TreeIsKept, PTL

\* An insertion adds its key and a removal takes its key; no other element
\* comes or goes, although a removal moves a value between two nodes.
THEOREM KeysAreExact == Spec => OnlyTheKeyChanges
  <1>1. ASSUME TreeInv, NEW k \in Keys, Insert(k)
        PROVE  Contents' = Contents \cup {k} /\ k \notin Contents
    <2>1. Sound(heap, root)
      BY <1>1 DEF TreeInv
    <2>2. \A m \in Live(heap) : heap[m].value # k
      BY <1>1, <2>1, InsertSound
    <2>3. PICK leaf \in Nodes : /\ Live(heap') = Live(heap) \cup {leaf}
                                /\ heap'[leaf].value = k
                                /\ \A m \in Live(heap) : heap'[m].value = heap[m].value
      BY <1>1, <2>1, InsertSound
    <2>4. {heap'[m].value : m \in Live(heap')} = {heap[m].value : m \in Live(heap)} \cup {k}
      <3>1. ASSUME NEW m \in Live(heap')
            PROVE  heap'[m].value \in {heap[j].value : j \in Live(heap)} \cup {k}
        BY <2>3
      <3>2. ASSUME NEW m \in Live(heap)
            PROVE  heap[m].value \in {heap'[j].value : j \in Live(heap')}
        BY <2>3
      <3>3. k \in {heap'[j].value : j \in Live(heap')}
        BY <2>3
      <3> QED
        BY <3>1, <3>2, <3>3
    <2> QED
      BY <2>2, <2>4 DEF Contents, Allocated
  <1>2. ASSUME TreeInv, NEW k \in Keys, Delete(k)
        PROVE  Contents' = Contents \ {k} /\ k \in Contents
    <2>1. Sound(heap, root)
      BY <1>2 DEF TreeInv
    <2>2. PICK n \in Live(heap) :
            /\ heap[n].value = k
            /\ {heap'[j].value : j \in Live(heap')} = {heap[j].value : j \in Live(heap) \ {n}}
      BY <1>2, <2>1, DeleteSound
    <2>3. \A j \in Live(heap) : heap[j].value = k => j = n
      BY <2>1, <2>2, HeightBound, ValuesDiffer DEF Sound
    <2>4. {heap[j].value : j \in Live(heap) \ {n}} = {heap[j].value : j \in Live(heap)} \ {k}
      BY <2>2, <2>3
    <2> QED
      BY <2>2, <2>4 DEF Contents, Allocated
  <1>3. TreeInv /\ [Next]_vars =>
          [\A k \in Keys : \/ Contents' = Contents \cup {k} /\ k \notin Contents
                           \/ Contents' = Contents \ {k} /\ k \in Contents
                           \/ ~Insert(k) /\ ~Delete(k)]_vars
    BY <1>1, <1>2
  <1> QED
    BY <1>3, TreeIsKept, PTL DEF Spec, OnlyTheKeyChanges

-----------------------------------------------------------------------------
(* The nodes below a node.                                                 *)

\* n is j or above it.
Under(h, j, n) == \E i \in 1..Len(Ancestors(h, j)) : Ancestors(h, j)[i] = n

LEMMA Upwards ==
    ASSUME NEW s, Len(s) \in Nat, NEW j, NEW n, NEW t, t = <<j>> \o s
    PROVE  (\E i \in 1..Len(t) : t[i] = n) <=> j = n \/ \E i \in 1..Len(s) : s[i] = n
  <1>1. Len(t) = Len(s) + 1 /\ t[1] = j /\ \A i \in 1..Len(s) : t[i + 1] = s[i] /\ i + 1 \in 1..Len(t)
    OBVIOUS
  <1>2. \A i \in 1..Len(t) : i = 1 \/ (i - 1 \in 1..Len(s) /\ (i - 1) + 1 = i)
    BY <1>1
  <1>3. ASSUME NEW i \in 1..Len(t), t[i] = n PROVE j = n \/ \E e \in 1..Len(s) : s[e] = n
    BY <1>1, <1>2, <1>3
  <1>4. ASSUME j = n PROVE \E i \in 1..Len(t) : t[i] = n
    <2>1. 1 \in 1..Len(t)
      BY <1>1
    <2> QED
      BY <1>1, <1>4, <2>1
  <1>5. ASSUME NEW i \in 1..Len(s), s[i] = n PROVE \E e \in 1..Len(t) : t[e] = n
    BY <1>1, <1>5
  <1> QED
    BY <1>3, <1>4, <1>5

LEMMA UnderSteps ==
    ASSUME NEW h \in Heap, NEW r, Linked(h, r), Descends(h), NEW n
    PROVE  /\ ~Under(h, NULL, n)
           /\ \A j \in Live(h) : Under(h, j, n) <=> j = n \/ Under(h, h[j].parent, n)
  <1>1. Ancestors(h, NULL) = <<>>
    BY AncestorsSteps
  <1>2. ~Under(h, NULL, n)
    <2>1. Len(Ancestors(h, NULL)) = 0
      BY <1>1
    <2> QED
      BY <2>1 DEF Under
  <1>3. ASSUME NEW j \in Live(h) PROVE Under(h, j, n) <=> j = n \/ Under(h, h[j].parent, n)
    <2> DEFINE s == Ancestors(h, h[j].parent)
    <2>1. Ancestors(h, j) = <<j>> \o s
      BY AncestorsSteps
    <2>2. Len(s) \in Nat
      <3>1. CASE h[j].parent = NULL
        BY <1>1, <3>1
      <3>2. CASE h[j].parent # NULL
        <4>1. h[j].parent \in Live(h)
          BY <3>2, ParentRises
        <4> QED
          BY <4>1, AncestorsChain DEF Chain
      <3> QED
        BY <3>1, <3>2
    <2> HIDE DEF s
    <2>3. (\E i \in 1..Len(Ancestors(h, j)) : Ancestors(h, j)[i] = n)
            <=> j = n \/ \E i \in 1..Len(s) : s[i] = n
      BY <2>1, <2>2, Upwards
    <2> QED
      BY <2>3 DEF Under, s
  <1> QED
    BY <1>2, <1>3

\* What holds at every node whose parent it holds at holds at every node.
LEMMA Downwards ==
    ASSUME NEW h \in Heap, NEW r, Linked(h, r), Descends(h), NEW T,
           \A j \in Live(h) : h[j].parent = NULL \/ h[j].parent \in T => j \in T
    PROVE  Live(h) \subseteq T
  <1> DEFINE S == {j \in Live(h) : j \notin T}
  <1> SUFFICES ASSUME S # {} PROVE FALSE
    OBVIOUS
  <1>1. PICK m \in S : \A q \in S : h[q].height <= h[m].height
    <2>1. S \subseteq Live(h)
      OBVIOUS
    <2> HIDE DEF S
    <2> QED
      BY <2>1, HighestNode
  <1>2. m \in Live(h) /\ h[m].parent # NULL /\ h[m].parent \notin T
    OBVIOUS
  <1>3. h[m].parent \in Live(h) /\ h[m].height < h[h[m].parent].height
    BY <1>2, ParentRises
  <1>4. h[m].parent \in S /\ h[m].height \in Nat /\ h[h[m].parent].height \in Nat
    BY <1>2, <1>3, LiveRecord
  <1> HIDE DEF S
  <1> QED
    BY <1>1, <1>3, <1>4

\* What holds at every node whose children it holds at holds at every node.
LEMMA FromBelow ==
    ASSUME NEW h \in Heap, NEW r, Linked(h, r), Descends(h), NEW T,
           \A j \in Live(h) : (\A side \in Sides : h[j][side] # NULL => h[j][side] \in T) => j \in T
    PROVE  Live(h) \subseteq T
  <1> DEFINE S == {j \in Live(h) : j \notin T}
             rank == [j \in S |-> h[j].height]
  <1> SUFFICES ASSUME S # {} PROVE FALSE
    OBVIOUS
  <1>1. PICK m \in S : \A q \in S : rank[m] <= rank[q]
    <2>1. \A j \in S : rank[j] \in Nat
      BY LiveRecord
    <2> HIDE DEF S, rank
    <2> QED
      BY <2>1, LeastRank
  <1>2. m \in Live(h) /\ m \notin T
    OBVIOUS
  <1>3. PICK side \in Sides : h[m][side] # NULL /\ h[m][side] \notin T
    BY <1>2
  <1>4. h[m][side] \in Live(h) /\ h[h[m][side]].height < h[m].height
    BY <1>2, <1>3 DEF Linked, Descends
  <1>5. h[m][side] \in S /\ h[m].height \in Nat /\ h[h[m][side]].height \in Nat
    BY <1>2, <1>3, <1>4, LiveRecord
  <1>6. rank[m] = h[m].height /\ rank[h[m][side]] = h[h[m][side]].height
    BY <1>5
  <1> HIDE DEF S, rank
  <1> QED
    BY <1>1, <1>4, <1>5, <1>6

LEMMA UnderFacts ==
    ASSUME NEW h, NEW r, NEW span, Tree(h, r, span), Descends(h)
    PROVE  /\ \A j \in Live(h) : Under(h, j, j) /\ Under(h, j, r)
           /\ \A j, n \in Live(h) : Under(h, j, n) => h[j].value \in span[n]
           /\ \A j, n \in Live(h) : Under(h, j, n) /\ j # n =>
                \E side \in Sides : h[n][side] # NULL /\ Under(h, j, h[n][side])
           /\ \A j, n \in Live(h), side \in Sides : h[n][side] # NULL /\ Under(h, j, h[n][side]) =>
                Under(h, j, n)
  <1>1. h \in Heap /\ Linked(h, r) /\ Ordered(h, span)
    BY DEF Tree
  <1>2. \A n : ~Under(h, NULL, n) /\ \A j \in Live(h) : Under(h, j, n) <=> j = n \/ Under(h, h[j].parent, n)
    BY <1>1, UnderSteps
  <1>3. \A j \in Live(h) : h[j].parent = NULL => j = r
    <2>1. \A n \in Live(h) : n # NULL
      BY <1>1, LiveRecord
    <2> QED
      BY <1>1, <2>1 DEF Linked
  <1>4. \A j \in Live(h) : h[j].parent # NULL =>
          /\ h[j].parent \in Live(h)
          /\ \E side \in Sides : h[h[j].parent][side] = j
    BY <1>1 DEF Linked
  <1>5. \A j \in Live(h) : Under(h, j, r)
    <2> DEFINE T == {j \in Live(h) : Under(h, j, r)}
    <2>1. \A j \in Live(h) : h[j].parent = NULL \/ h[j].parent \in T => j \in T
      BY <1>2, <1>3
    <2>2. Live(h) \subseteq T
      <3> HIDE DEF T
      <3> QED
        BY <1>1, <2>1, Downwards
    <2> QED
      BY <2>2
  <1>6. ASSUME NEW n \in Live(h) PROVE \A j \in Live(h) : Under(h, j, n) => span[j] \subseteq span[n]
    <2> DEFINE T == {j \in Live(h) : Under(h, j, n) => span[j] \subseteq span[n]}
    <2>1. ASSUME NEW j \in Live(h), h[j].parent = NULL \/ h[j].parent \in T, Under(h, j, n)
          PROVE  span[j] \subseteq span[n]
      <3>1. CASE j = n
        BY <3>1
      <3>2. CASE j # n
        <4> DEFINE q == h[j].parent
        <4>1. Under(h, q, n) /\ q # NULL /\ q \in T
          BY <1>2, <2>1, <3>2
        <4>2. PICK side \in Sides : q \in Live(h) /\ h[q][side] = j
          BY <1>4, <4>1
        <4>3. j # NULL
          BY <1>1, LiveRecord
        <4>4. span[j] \subseteq OnSide(span[q], h[q].value, side)
          BY <1>1, <4>2, <4>3 DEF Ordered
        <4>5. span[q] \subseteq span[n]
          BY <4>1
        <4> HIDE DEF q
        <4> QED
          BY <4>4, <4>5 DEF OnSide
      <3> QED
        BY <3>1, <3>2
    <2>2. Live(h) \subseteq T
      <3>1. \A j \in Live(h) : h[j].parent = NULL \/ h[j].parent \in T => j \in T
        BY <2>1
      <3> HIDE DEF T
      <3> QED
        BY <1>1, <3>1, Downwards
    <2> QED
      BY <2>2
  <1>7. \A j, n \in Live(h) : Under(h, j, n) => h[j].value \in span[n]
    BY <1>1, <1>6 DEF Ordered
  <1>8. ASSUME NEW n \in Live(h)
        PROVE  \A j \in Live(h) : Under(h, j, n) /\ j # n =>
                 \E side \in Sides : h[n][side] # NULL /\ Under(h, j, h[n][side])
    <2> DEFINE T == {j \in Live(h) : Under(h, j, n) /\ j # n =>
                       \E side \in Sides : h[n][side] # NULL /\ Under(h, j, h[n][side])}
    <2>1. ASSUME NEW j \in Live(h), h[j].parent = NULL \/ h[j].parent \in T, Under(h, j, n), j # n
          PROVE  \E side \in Sides : h[n][side] # NULL /\ Under(h, j, h[n][side])
      <3> DEFINE q == h[j].parent
      <3>1. Under(h, q, n) /\ q # NULL /\ q \in T
        BY <1>2, <2>1
      <3>2. CASE q = n
        <4>1. PICK side \in Sides : h[n][side] = j
          BY <1>4, <3>1, <3>2
        <4>2. j # NULL /\ Under(h, j, j)
          BY <1>1, <1>2, LiveRecord
        <4> QED
          BY <4>1, <4>2
      <3>3. CASE q # n
        <4>1. PICK side \in Sides : h[n][side] # NULL /\ Under(h, q, h[n][side])
          BY <3>1, <3>3
        <4>2. Under(h, j, h[n][side])
          BY <1>2, <4>1
        <4> QED
          BY <4>1, <4>2
      <3> QED
        BY <3>2, <3>3
    <2>2. Live(h) \subseteq T
      <3>1. \A j \in Live(h) : h[j].parent = NULL \/ h[j].parent \in T => j \in T
        BY <2>1
      <3> HIDE DEF T
      <3> QED
        BY <1>1, <3>1, Downwards
    <2> QED
      BY <2>2
  <1>9. ASSUME NEW n \in Live(h), NEW side \in Sides, h[n][side] # NULL
        PROVE  \A j \in Live(h) : Under(h, j, h[n][side]) => Under(h, j, n)
    <2> DEFINE c == h[n][side]
               T == {j \in Live(h) : Under(h, j, c) => Under(h, j, n)}
    <2>1. c \in Live(h) /\ h[c].parent = n
      BY <1>1, <1>9 DEF Linked
    <2> HIDE DEF c
    <2>2. ASSUME NEW j \in Live(h), h[j].parent = NULL \/ h[j].parent \in T, Under(h, j, c)
          PROVE  Under(h, j, n)
      <3>1. CASE j = c
        <4>1. Under(h, n, n)
          BY <1>2
        <4> QED
          BY <1>2, <2>1, <3>1, <4>1
      <3>2. CASE j # c
        BY <1>2, <2>2, <3>2
      <3> QED
        BY <3>1, <3>2
    <2>3. Live(h) \subseteq T
      <3>1. \A j \in Live(h) : h[j].parent = NULL \/ h[j].parent \in T => j \in T
        BY <2>2
      <3> HIDE DEF T
      <3> QED
        BY <1>1, <3>1, Downwards
    <2> QED
      BY <2>3 DEF c
  <1>10. \A j \in Live(h) : Under(h, j, j)
    BY <1>2
  <1> QED
    BY <1>5, <1>7, <1>8, <1>9, <1>10

\* The values below a child are on its side of the node.
LEMMA UnderSide ==
    ASSUME NEW h, NEW r, NEW span, Tree(h, r, span), Descends(h), NEW n \in Live(h),
           NEW side \in Sides, h[n][side] # NULL
    PROVE  \A j \in Live(h) : Under(h, j, h[n][side]) => Before(side, h[j].value, h[n].value)
  <1>1. h[n][side] \in Live(h) /\ span[h[n][side]] \subseteq OnSide(span[n], h[n].value, side)
    BY DEF Tree, Linked, Ordered
  <1>2. \A j \in Live(h) : Under(h, j, h[n][side]) => h[j].value \in span[h[n][side]]
    BY <1>1, UnderFacts
  <1> QED
    BY <1>1, <1>2 DEF OnSide

\* A value between two values below a node is below it too.
LEMMA UnderBetween ==
    ASSUME NEW h, NEW r, NEW span, Tree(h, r, span), Descends(h), NEW n \in Live(h),
           NEW a \in Live(h), NEW b \in Live(h), NEW j \in Live(h), NEW side \in Sides,
           Under(h, a, n), Under(h, b, n),
           Before(side, h[j].value, h[a].value), Before(side, h[b].value, h[j].value)
    PROVE  Under(h, j, n)
  <1> DEFINE T == {m \in Live(h) : Under(h, a, m) /\ Under(h, b, m) => Under(h, j, m)}
             va == h[a].value
             vb == h[b].value
             vj == h[j].value
  <1>1. h \in Heap /\ Linked(h, r)
    BY DEF Tree
  <1>2. \A m \in Live(h) : m # NULL /\ h[m].value \in Keys /\ h[m].value \in Int
    BY <1>1, LiveRecord, AvlAssumption
  <1>3. ASSUME NEW m \in Live(h), h[m].parent = NULL \/ h[m].parent \in T,
               Under(h, a, m), Under(h, b, m)
        PROVE  Under(h, j, m)
    <2> DEFINE q == h[m].parent
    <2>1. CASE q = NULL
      <3>1. m = r
        BY <1>1, <1>2, <2>1 DEF Linked
      <3> QED
        BY <3>1, UnderFacts
    <2>2. CASE q # NULL
      <3>1. PICK s \in Sides : q \in Live(h) /\ h[q][s] = m
        BY <1>1, <2>2 DEF Linked
      <3>2. Under(h, a, q) /\ Under(h, b, q)
        BY <1>2, <1>3, <3>1, UnderFacts
      <3>3. Under(h, j, q)
        BY <1>3, <2>2, <3>2
      <3> DEFINE vq == h[q].value
      <3>4. Before(s, va, vq) /\ Before(s, vb, vq) /\ vq \in Int /\ va \in Int /\ vb \in Int /\ vj \in Int
        <4>1. \A i \in Live(h) : Under(h, i, h[q][s]) => Before(s, h[i].value, h[q].value)
          BY <1>2, <3>1, UnderSide
        <4> QED
          BY <1>2, <1>3, <3>1, <4>1
      <3> HIDE DEF q, vq, va, vb, vj
      <3>5. Before(s, vj, vq)
        BY <3>4 DEF Before, Sides, va, vb, vj
      <3>6. PICK e \in Sides : h[q][e] # NULL /\ Under(h, j, h[q][e])
        <4>1. ~Before(s, vq, vq)
          BY <3>4 DEF Before
        <4>2. j # q
          BY <3>5, <4>1 DEF vj, vq
        <4> QED
          BY <3>1, <3>3, <4>2, UnderFacts
      <3>7. Before(e, vj, vq)
        BY <3>1, <3>6, UnderSide DEF vj, vq
      <3>8. e = s
        BY <3>4, <3>5, <3>7 DEF Before, Sides
      <3> QED
        BY <3>1, <3>6, <3>8
    <2> QED
      BY <2>1, <2>2
  <1>4. \A m \in Live(h) : h[m].parent = NULL \/ h[m].parent \in T => m \in T
    BY <1>3
  <1>5. Live(h) \subseteq T
    <2> HIDE DEF T
    <2> QED
      BY <1>1, <1>4, Downwards
  <1> QED
    BY <1>5

\* The last node of one side is the furthest of the nodes below.
LEMMA EndUnder ==
    ASSUME NEW h, NEW r, NEW span, Tree(h, r, span), Descends(h), NEW side \in Sides,
           NEW n \in Live(h)
    PROVE  LET e == End(h, n, side)
           IN /\ e \in Live(h) /\ Under(h, e, n)
              /\ \A a \in Live(h) : Under(h, a, n) => a = e \/ Before(side, h[e].value, h[a].value)
  <1> DEFINE o == Other(side)
             Last1(m, e) == /\ e \in Live(h) /\ Under(h, e, m)
                            /\ \A a \in Live(h) : Under(h, a, m) =>
                                 a = e \/ Before(side, h[e].value, h[a].value)
             T == {m \in Live(h) : Last1(m, End(h, m, side))}
  <1>1. h \in Heap /\ Linked(h, r)
    BY DEF Tree
  <1>2. o \in Sides /\ \A s \in Sides : s = side \/ s = o
    BY OtherSide
  <1>3. \A m \in Live(h) : m # NULL /\ h[m].value \in Keys
    BY <1>1, LiveRecord
  <1>4. /\ \A x, y \in Keys : Before(o, x, y) <=> Before(side, y, x)
        /\ \A x, y, z \in Keys : Before(side, x, y) /\ Before(side, y, z) => Before(side, x, z)
    BY BeforeOrders
  <1>5. ASSUME NEW m \in Live(h), \A s \in Sides : h[m][s] # NULL => h[m][s] \in T
        PROVE  Last1(m, End(h, m, side))
    <2>1. End(h, m, side) = IF h[m][side] = NULL THEN m ELSE End(h, h[m][side], side)
      BY <1>1, EndSteps
    <2>2. Under(h, m, m)
      BY UnderFacts
    <2>3. ASSUME NEW a \in Live(h), Under(h, a, m)
          PROVE  \/ a = m
                 \/ h[m][side] # NULL /\ Under(h, a, h[m][side])
                 \/ Before(o, h[a].value, h[m].value)
      <3>1. CASE a # m
        <4>1. PICK s \in Sides : h[m][s] # NULL /\ Under(h, a, h[m][s])
          BY <2>3, <3>1, UnderFacts
        <4>2. Before(s, h[a].value, h[m].value)
          BY <4>1, UnderSide
        <4> QED
          BY <1>2, <4>1, <4>2
      <3> QED
        BY <3>1
    <2>4. CASE h[m][side] = NULL
      BY <1>3, <1>4, <2>1, <2>2, <2>3, <2>4
    <2>5. CASE h[m][side] # NULL
      <3> DEFINE c == h[m][side]
                 e == End(h, c, side)
      <3>1. c \in Live(h) /\ c \in T
        BY <1>1, <1>5, <2>5 DEF Linked
      <3>2. Last1(c, e)
        BY <3>1
      <3>3. e \in Live(h) /\ Under(h, e, c)
        BY <3>2
      <3>4. Under(h, e, m) /\ Before(side, h[e].value, h[m].value)
        <4> HIDE DEF e
        <4> QED
          BY <2>5, <3>3, UnderFacts, UnderSide
      <3> HIDE DEF e
      <3>5. ASSUME NEW a \in Live(h), Under(h, a, m)
            PROVE  a = e \/ Before(side, h[e].value, h[a].value)
        <4>1. CASE Before(o, h[a].value, h[m].value)
          <5>1. Before(side, h[m].value, h[a].value)
            BY <1>3, <1>4, <4>1
          <5> QED
            BY <1>3, <1>4, <3>3, <3>4, <5>1
        <4>2. CASE a = m
          BY <3>4, <4>2
        <4>3. CASE Under(h, a, c)
          BY <3>2, <4>3
        <4> QED
          BY <2>3, <3>5, <4>1, <4>2, <4>3
      <3>6. End(h, m, side) = e
        BY <2>1, <2>5 DEF e
      <3> QED
        BY <3>3, <3>4, <3>5, <3>6
    <2> QED
      BY <2>4, <2>5
  <1>6. \A m \in Live(h) : (\A s \in Sides : h[m][s] # NULL => h[m][s] \in T) => m \in T
    BY <1>5
  <1>7. Live(h) \subseteq T
    <2> HIDE DEF T
    <2> QED
      BY <1>1, <1>6, FromBelow
  <1>8. Last1(n, End(h, n, side))
    BY <1>7
  <1> QED
    BY <1>8

-----------------------------------------------------------------------------
(* The next node.                                                          *)

LEMMA NeighbourSteps ==
    ASSUME NEW h \in Heap, NEW r, Linked(h, r), Descends(h), NEW side \in Sides
    PROVE  \E f : \A n \in Live(h) :
             /\ f[n] = (IF h[n].parent # NULL /\ h[h[n].parent][side] = n
                        THEN f[h[n].parent] ELSE h[n].parent)
             /\ Neighbour(h, n, side) = IF h[n][side] # NULL
                                        THEN End(h, h[n][side], Other(side)) ELSE f[n]
  <1> DEFINE D == Live(h)
             next == [n \in D |-> h[n].parent]
             stop == {n \in D : ~(h[n].parent # NULL /\ h[h[n].parent][side] = n)}
             value == next
             rank == [n \in D |-> 1 + Cardinality(Nodes) - h[n].height]
             climb == CHOOSE f : f = [m \in D |-> LET p == h[m].parent
                                                  IN IF p # NULL /\ h[p][side] = m THEN f[p] ELSE p]
  <1>1. \A n \in D : h[n].height \in 1..Cardinality(Nodes) /\ rank[n] \in Nat
                     /\ rank[n] < Cardinality(Nodes) + 1
    BY SizeIsNat DEF Descends
  <1>2. \A n \in D \ stop : next[n] \in D /\ rank[next[n]] < rank[n]
    <2> SUFFICES ASSUME NEW n \in D, h[n].parent # NULL PROVE next[n] \in D /\ rank[next[n]] < rank[n]
      OBVIOUS
    <2>1. h[n].parent \in D /\ h[n].height < h[h[n].parent].height
      BY ParentRises
    <2> QED
      BY <1>1, <2>1, SizeIsNat
  <1>3. \E f : Follows(f, D, stop, value, next)
    <2>1. Falls(D, stop, next, rank, Cardinality(Nodes) + 1)
      <3>1. Cardinality(Nodes) + 1 \in Nat
        BY SizeIsNat
      <3> HIDE DEF D, stop, value, next, rank
      <3> QED
        BY <1>1, <1>2, <3>1 DEF Falls
    <2> HIDE DEF D, stop, value, next, rank
    <2> QED
      BY <2>1, FollowExists
  <1>4. PICK f : f = [n \in D |-> IF n \in stop THEN value[n] ELSE f[next[n]]]
    BY <1>3 DEF Follows
  <1>5. f = [m \in D |-> LET p == h[m].parent
                         IN IF p # NULL /\ h[p][side] = m THEN f[p] ELSE p]
    BY <1>4
  <1>6. climb = [m \in D |-> LET p == h[m].parent
                             IN IF p # NULL /\ h[p][side] = m THEN climb[p] ELSE p]
    BY <1>5
  <1>7. \A n : Neighbour(h, n, side) = IF h[n][side] # NULL
                                       THEN End(h, h[n][side], Other(side)) ELSE climb[n]
    BY DEF Neighbour
  <1> HIDE DEF climb
  <1> QED
    BY <1>6, <1>7

\* m is the first node that is not below n and beyond a node that is.
Leaves(h, n, side, m) ==
    /\ m # NULL => /\ m \in Live(h)
                   /\ \A a \in Live(h) : Under(h, a, n) => Before(side, h[m].value, h[a].value)
    /\ \A a, j \in Live(h) : Under(h, a, n) /\ ~Under(h, j, n) /\ Before(side, h[j].value, h[a].value) =>
         m # NULL /\ (j = m \/ Before(side, h[j].value, h[m].value))

LEMMA ClimbLeaves ==
    ASSUME NEW h, NEW r, NEW span, Tree(h, r, span), Descends(h), NEW side \in Sides,
           NEW f, \A n \in Live(h) : f[n] = IF h[n].parent # NULL /\ h[h[n].parent][side] = n
                                            THEN f[h[n].parent] ELSE h[n].parent
    PROVE  \A n \in Live(h) : Leaves(h, n, side, f[n])
  <1> DEFINE o == Other(side)
             T == {m \in Live(h) : Leaves(h, m, side, f[m])}
  <1>1. h \in Heap /\ Linked(h, r)
    BY DEF Tree
  <1>2. o \in Sides /\ \A s \in Sides : s = side \/ s = o
    BY OtherSide
  <1>3. \A m \in Live(h) : m # NULL /\ h[m].value \in Keys
    BY <1>1, LiveRecord
  <1>4. /\ \A x, y \in Keys : Before(o, x, y) <=> Before(side, y, x)
        /\ \A x, y, z \in Keys : Before(side, x, y) /\ Before(side, y, z) => Before(side, x, z)
        /\ \A x \in Keys : ~Before(side, x, x)
        /\ \A x, y \in Keys : x # y => Before(side, x, y) \/ Before(side, y, x)
    BY BeforeOrders
  <1>5. \A m, n \in Live(h) : h[m].value = h[n].value => m = n
    BY ValuesDiffer
  <1>6. ASSUME NEW m \in Live(h), h[m].parent = NULL \/ h[m].parent \in T
        PROVE  Leaves(h, m, side, f[m])
    <2> DEFINE p == h[m].parent
    <2>1. CASE p = NULL
      <3>1. m = r
        BY <1>1, <1>3, <2>1 DEF Linked
      <3>2. \A j \in Live(h) : Under(h, j, m)
        BY <3>1, UnderFacts
      <3>3. f[m] = NULL
        BY <2>1
      <3> QED
        BY <3>2, <3>3 DEF Leaves
    <2>2. CASE p # NULL /\ h[p][side] = m
      <3>1. p \in Live(h) /\ Leaves(h, p, side, f[p]) /\ f[m] = f[p]
        BY <1>6, <2>2
      <3> HIDE DEF p
      <3>2. \A a \in Live(h) : Under(h, a, m) => Under(h, a, p) /\ Before(side, h[a].value, h[p].value)
        BY <1>3, <2>2, <3>1, UnderFacts, UnderSide
      <3>3. ASSUME NEW a \in Live(h), NEW j \in Live(h), Under(h, a, m), ~Under(h, j, m),
                   Before(side, h[j].value, h[a].value)
            PROVE  ~Under(h, j, p)
        <4> SUFFICES ASSUME Under(h, j, p) PROVE FALSE
          OBVIOUS
        <4>1. Before(side, h[j].value, h[p].value)
          BY <1>3, <1>4, <3>1, <3>2, <3>3
        <4>2. j # p
          BY <1>3, <1>4, <4>1
        <4>3. PICK s \in Sides : h[p][s] # NULL /\ Under(h, j, h[p][s])
          BY <3>1, <4>2, UnderFacts
        <4>4. s = o
          BY <1>2, <2>2, <3>3, <4>3
        <4>5. Before(o, h[j].value, h[p].value)
          BY <3>1, <4>3, <4>4, UnderSide
        <4> QED
          BY <1>3, <1>4, <3>1, <4>1, <4>5
      <3>4. f[p] # NULL =>
              f[p] \in Live(h) /\ \A a \in Live(h) : Under(h, a, m) => Before(side, h[f[p]].value, h[a].value)
        BY <3>1, <3>2 DEF Leaves
      <3>5. \A a, j \in Live(h) : Under(h, a, m) /\ ~Under(h, j, m) /\ Before(side, h[j].value, h[a].value) =>
              f[p] # NULL /\ (j = f[p] \/ Before(side, h[j].value, h[f[p]].value))
        BY <3>1, <3>2, <3>3 DEF Leaves
      <3> QED
        BY <3>1, <3>4, <3>5 DEF Leaves
    <2>3. CASE p # NULL /\ h[p][side] # m
      <3>1. PICK s \in Sides : p \in Live(h) /\ h[p][s] = m
        BY <1>1, <2>3 DEF Linked
      <3>2. h[p][o] = m /\ f[m] = p
        BY <1>2, <2>3, <3>1
      <3> HIDE DEF p
      <3>3. \A a \in Live(h) : Under(h, a, m) => Under(h, a, p) /\ Before(side, h[p].value, h[a].value)
        <4>1. \A a \in Live(h) : Under(h, a, m) => Under(h, a, p) /\ Before(o, h[a].value, h[p].value)
          BY <1>2, <1>3, <3>1, <3>2, UnderFacts, UnderSide
        <4> QED
          BY <1>3, <1>4, <3>1, <4>1
      <3>4. ASSUME NEW a \in Live(h), NEW j \in Live(h), Under(h, a, m), ~Under(h, j, m),
                   Before(side, h[j].value, h[a].value)
            PROVE  j = p \/ Before(side, h[j].value, h[p].value)
        <4> SUFFICES ASSUME j # p, Before(side, h[p].value, h[j].value) PROVE FALSE
          BY <1>3, <1>4, <1>5, <3>1
        <4>1. Under(h, a, p) /\ Under(h, p, p)
          BY <3>1, <3>3, <3>4, UnderFacts
        <4>2. Under(h, j, p)
          <5>1. Before(o, h[j].value, h[p].value) /\ Before(o, h[a].value, h[j].value)
            BY <1>3, <1>4, <3>1, <3>4
          <5> QED
            BY <1>2, <3>1, <4>1, <5>1, UnderBetween
        <4>3. PICK e \in Sides : h[p][e] # NULL /\ Under(h, j, h[p][e])
          BY <3>1, <4>2, UnderFacts
        <4>4. e = side
          BY <1>2, <3>2, <3>4, <4>3
        <4>5. Before(side, h[j].value, h[p].value)
          BY <3>1, <4>3, <4>4, UnderSide
        <4> QED
          BY <1>3, <1>4, <3>1, <4>5
      <3> QED
        BY <2>3, <3>1, <3>2, <3>3, <3>4 DEF Leaves
    <2> QED
      BY <2>1, <2>2, <2>3
  <1>7. \A m \in Live(h) : h[m].parent = NULL \/ h[m].parent \in T => m \in T
    BY <1>6
  <1>8. Live(h) \subseteq T
    <2> HIDE DEF T
    <2> QED
      BY <1>1, <1>7, Downwards
  <1> QED
    BY <1>8

\* m is the next node on one side of n: nothing is between them.
IsNext(h, n, side, m) ==
    /\ m # NULL => m \in Live(h) /\ Before(side, h[m].value, h[n].value)
    /\ \A j \in Live(h) : Before(side, h[j].value, h[n].value) =>
         m # NULL /\ (j = m \/ Before(side, h[j].value, h[m].value))

LEMMA NeighbourIsNext ==
    ASSUME NEW h, NEW r, NEW span, Tree(h, r, span), Descends(h), NEW side \in Sides,
           NEW n \in Live(h)
    PROVE  IsNext(h, n, side, Neighbour(h, n, side))
  <1> DEFINE o == Other(side)
  <1>1. h \in Heap /\ Linked(h, r)
    BY DEF Tree
  <1>2. o \in Sides /\ \A s \in Sides : s = side \/ s = o
    BY OtherSide
  <1>3. \A m \in Live(h) : m # NULL /\ h[m].value \in Keys
    BY <1>1, LiveRecord
  <1>4. /\ \A x, y \in Keys : Before(o, x, y) <=> Before(side, y, x)
        /\ \A x, y, z \in Keys : Before(side, x, y) /\ Before(side, y, z) => Before(side, x, z)
        /\ \A x \in Keys : ~Before(side, x, x)
        /\ \A x, y \in Keys : x # y => Before(side, x, y) \/ Before(side, y, x)
    BY BeforeOrders
  <1>5. \A m, j \in Live(h) : h[m].value = h[j].value => m = j
    BY ValuesDiffer
  <1>6. PICK f : \A m \in Live(h) :
             /\ f[m] = (IF h[m].parent # NULL /\ h[h[m].parent][side] = m
                        THEN f[h[m].parent] ELSE h[m].parent)
             /\ Neighbour(h, m, side) = IF h[m][side] # NULL
                                        THEN End(h, h[m][side], Other(side)) ELSE f[m]
    BY <1>1, NeighbourSteps
  <1>7. Under(h, n, n)
    BY UnderFacts
  <1>8. ASSUME NEW j \in Live(h), Under(h, j, n), Before(side, h[j].value, h[n].value)
        PROVE  h[n][side] # NULL /\ Under(h, j, h[n][side])
    <2>1. j # n
      BY <1>3, <1>4, <1>8
    <2>2. PICK s \in Sides : h[n][s] # NULL /\ Under(h, j, h[n][s])
      BY <1>8, <2>1, UnderFacts
    <2>3. Before(s, h[j].value, h[n].value)
      BY <2>2, UnderSide
    <2>4. s # o
      BY <1>3, <1>4, <1>8, <2>3
    <2> QED
      BY <1>2, <2>2, <2>4
  <1>9. CASE h[n][side] = NULL
    <2>1. Neighbour(h, n, side) = f[n]
      BY <1>6, <1>9
    <2>2. Leaves(h, n, side, f[n])
      BY <1>6, ClimbLeaves
    <2> QED
      BY <1>7, <1>8, <1>9, <2>1, <2>2 DEF Leaves, IsNext
  <1>10. CASE h[n][side] # NULL
    <2> DEFINE c == h[n][side]
               m == End(h, c, o)
    <2>1. Neighbour(h, n, side) = m
      BY <1>6, <1>10
    <2>2. c \in Live(h)
      BY <1>1, <1>10 DEF Linked
    <2>3. /\ m \in Live(h) /\ Under(h, m, c)
          /\ \A a \in Live(h) : Under(h, a, c) => a = m \/ Before(o, h[m].value, h[a].value)
      <3> HIDE DEF c
      <3> QED
        BY <1>2, <2>2, EndUnder
    <2> HIDE DEF m
    <2>4. Before(side, h[m].value, h[n].value) /\ Under(h, m, n)
      BY <1>10, <2>3, UnderSide, UnderFacts
    <2>5. ASSUME NEW j \in Live(h), Before(side, h[j].value, h[n].value)
          PROVE  j = m \/ Before(side, h[j].value, h[m].value)
      <3> SUFFICES ASSUME j # m, Before(side, h[m].value, h[j].value) PROVE FALSE
        BY <1>3, <1>4, <1>5, <2>3
      <3>1. Under(h, j, n)
        BY <1>7, <2>3, <2>4, <2>5, UnderBetween DEF Before
      <3>2. Under(h, j, c)
        BY <1>8, <2>5, <3>1
      <3>3. Before(o, h[m].value, h[j].value)
        BY <2>3, <3>2
      <3> QED
        BY <1>3, <1>4, <2>3, <3>3
    <2>6. m # NULL
      BY <1>3, <2>3
    <2> QED
      BY <2>1, <2>3, <2>4, <2>5, <2>6 DEF IsNext
  <1> QED
    BY <1>9, <1>10

-----------------------------------------------------------------------------
(* The walks.                                                              *)

Beyond(h, n, side) == {j \in Live(h) : Before(side, h[j].value, h[n].value)}

LEMMA ElementsSteps ==
    ASSUME NEW h, NEW r, NEW span, Tree(h, r, span), Descends(h), NEW side \in Sides
    PROVE  \E f : /\ Elements(h, r, side) = f[Extreme(h, r, Other(side))]
                  /\ f[NULL] = <<>>
                  /\ \A n \in Live(h) : f[n] = <<h[n].value>> \o f[Neighbour(h, n, side)]
  <1> DEFINE D == Live(h) \cup {NULL}
             next == [n \in Live(h) |-> Neighbour(h, n, side)]
             stop == {NULL}
             value == [n \in D |-> <<>>]
             item == [n \in D |-> h[n].value]
             rank == [n \in D |-> IF n = NULL THEN 0 ELSE 1 + Cardinality(Beyond(h, n, side))]
             from == CHOOSE f : f = [n \in D |-> IF n = NULL THEN <<>>
                                                 ELSE <<h[n].value>> \o f[Neighbour(h, n, side)]]
  <1>1. h \in Heap /\ \A n \in Live(h) : n # NULL /\ h[n].value \in Keys
    BY LiveRecord DEF Tree
  <1>2. IsFiniteSet(Live(h)) /\ Cardinality(Live(h)) \in Nat
    BY <1>1, LiveIsFinite
  <1>3. \A n : /\ IsFiniteSet(Beyond(h, n, side)) /\ Cardinality(Beyond(h, n, side)) \in Nat
               /\ Cardinality(Beyond(h, n, side)) <= Cardinality(Live(h))
    <2>1. \A n : Beyond(h, n, side) \subseteq Live(h)
      BY DEF Beyond
    <2> QED
      BY <1>2, <2>1, FS_Subset, FS_CardinalityType
  <1>4. \A n \in D : rank[n] \in Nat /\ rank[n] < Cardinality(Live(h)) + 2
    BY <1>1, <1>2, <1>3
  <1>5. ASSUME NEW n \in Live(h)
        PROVE  next[n] \in D /\ rank[next[n]] < rank[n]
    <2> DEFINE m == Neighbour(h, n, side)
    <2>1. IsNext(h, n, side, m)
      BY NeighbourIsNext
    <2>2. next[n] = m /\ n # NULL
      BY <1>1
    <2> HIDE DEF m
    <2>3. CASE m = NULL
      BY <1>3, <2>2, <2>3
    <2>4. CASE m # NULL
      <3>1. m \in Live(h) /\ Before(side, h[m].value, h[n].value)
        BY <2>1, <2>4 DEF IsNext
      <3>2. Beyond(h, m, side) \subseteq Beyond(h, n, side)
        BY <1>1, <3>1, BeforeOrders DEF Beyond
      <3>3. m \in Beyond(h, n, side) /\ m \notin Beyond(h, m, side)
        BY <1>1, <3>1, BeforeOrders DEF Beyond
      <3>4. Cardinality(Beyond(h, m, side)) < Cardinality(Beyond(h, n, side))
        <4>1. /\ Cardinality(Beyond(h, m, side)) <= Cardinality(Beyond(h, n, side))
              /\ Cardinality(Beyond(h, m, side)) = Cardinality(Beyond(h, n, side)) =>
                   Beyond(h, m, side) = Beyond(h, n, side)
          BY <1>3, <3>2, FS_Subset
        <4> QED
          BY <1>3, <3>3, <4>1
      <3> QED
        BY <1>3, <2>2, <2>4, <3>1, <3>4
    <2> QED
      BY <2>3, <2>4
  <1>6. \E f : Lists(f, D, stop, value, item, next)
    <2>1. Falls(D, stop, next, rank, Cardinality(Live(h)) + 2)
      <3>1. Cardinality(Live(h)) + 2 \in Nat
        BY <1>2
      <3>2. \A n \in D \ stop : n \in Live(h)
        OBVIOUS
      <3> HIDE DEF D, stop, value, item, next, rank
      <3> QED
        BY <1>4, <1>5, <3>1, <3>2 DEF Falls
    <2> HIDE DEF D, stop, value, item, next, rank
    <2> QED
      BY <2>1, ListExists
  <1>7. PICK f : f = [n \in D |-> IF n \in stop THEN value[n] ELSE <<item[n]>> \o f[next[n]]]
    BY <1>6 DEF Lists
  <1>8. f = [n \in D |-> IF n = NULL THEN <<>> ELSE <<h[n].value>> \o f[Neighbour(h, n, side)]]
    BY <1>7
  <1>9. from = [n \in D |-> IF n = NULL THEN <<>>
                            ELSE <<h[n].value>> \o from[Neighbour(h, n, side)]]
    BY <1>8
  <1>10. Elements(h, r, side) = from[Extreme(h, r, Other(side))]
    BY DEF Elements
  <1> HIDE DEF from
  <1> QED
    BY <1>1, <1>9, <1>10

\* s holds what V holds, each once, ordered towards one side.
Walks(s, V, side) ==
    /\ s \in Seq(Keys)
    /\ \A i \in 1..Len(s) : s[i] \in V
    /\ \A v \in V : \E i \in 1..Len(s) : s[i] = v
    /\ \A i, j \in 1..Len(s) : i < j => Before(side, s[j], s[i])

LEMMA WalkOn ==
    ASSUME NEW s, NEW V, NEW side, Walks(s, V, side), NEW x \in Keys,
           \A v \in V : Before(side, v, x)
    PROVE  Walks(<<x>> \o s, {x} \cup V, side)
  <1> DEFINE t == <<x>> \o s
  <1>1. s \in Seq(Keys) /\ Len(s) \in Nat
    BY DEF Walks
  <1>2. t \in Seq(Keys) /\ Len(t) = Len(s) + 1 /\ t[1] = x /\ \A i \in 1..Len(s) : t[i + 1] = s[i]
    BY <1>1
  <1> HIDE DEF t
  <1>3. \A i \in 1..Len(t) : i = 1 \/ (i - 1 \in 1..Len(s) /\ t[i] = s[i - 1])
    <2> SUFFICES ASSUME NEW i \in 1..Len(t), i # 1 PROVE i - 1 \in 1..Len(s) /\ t[i] = s[i - 1]
      OBVIOUS
    <2>1. i - 1 \in 1..Len(s) /\ (i - 1) + 1 = i
      BY <1>1, <1>2
    <2> QED
      BY <1>2, <2>1
  <1>4. \A i \in 1..Len(t) : t[i] \in {x} \cup V
    BY <1>2, <1>3 DEF Walks
  <1>5. ASSUME NEW v \in {x} \cup V PROVE \E i \in 1..Len(t) : t[i] = v
    <2>1. CASE v = x
      BY <1>1, <1>2, <2>1
    <2>2. CASE v \in V
      <3>1. PICK i \in 1..Len(s) : s[i] = v
        BY <2>2 DEF Walks
      <3>2. i + 1 \in 1..Len(t) /\ t[i + 1] = v
        BY <1>1, <1>2, <3>1
      <3> QED
        BY <3>2
    <2> QED
      BY <2>1, <2>2
  <1>6. ASSUME NEW i \in 1..Len(t), NEW j \in 1..Len(t), i < j PROVE Before(side, t[j], t[i])
    <2>1. j - 1 \in 1..Len(s) /\ t[j] = s[j - 1]
      BY <1>1, <1>2, <1>3, <1>6
    <2>2. CASE i = 1
      BY <1>2, <2>1, <2>2 DEF Walks
    <2>3. CASE i # 1
      <3>1. i - 1 \in 1..Len(s) /\ t[i] = s[i - 1] /\ i - 1 < j - 1
        BY <1>1, <1>2, <1>3, <1>6, <2>3
      <3> QED
        BY <2>1, <3>1 DEF Walks
    <2> QED
      BY <2>2, <2>3
  <1> QED
    BY <1>2, <1>4, <1>5, <1>6 DEF Walks, t

\* A set has one such sequence.
LEMMA OneWalk ==
    ASSUME NEW s, NEW t, NEW V, NEW side \in Sides, Walks(s, V, side), Walks(t, V, side)
    PROVE  s = t
  <1>1. /\ s \in Seq(Keys) /\ t \in Seq(Keys) /\ Len(s) \in Nat /\ Len(t) \in Nat
        /\ \A i \in 1..Len(s) : s[i] \in Keys
        /\ \A i \in 1..Len(t) : t[i] \in Keys
    BY DEF Walks
  <1>2. /\ \A i \in 1..Len(s) : \E j \in 1..Len(t) : t[j] = s[i]
        /\ \A i \in 1..Len(t) : \E j \in 1..Len(s) : s[j] = t[i]
        /\ \A i, j \in 1..Len(s) : i < j => Before(side, s[j], s[i])
        /\ \A i, j \in 1..Len(t) : i < j => Before(side, t[j], t[i])
    BY DEF Walks
  <1>3. /\ \A x, y, z \in Keys : Before(side, x, y) /\ Before(side, y, z) => Before(side, x, z)
        /\ \A x \in Keys : ~Before(side, x, x)
        /\ \A x, y \in Keys : x # y => Before(side, x, y) \/ Before(side, y, x)
    BY BeforeOrders
  <1>4. ASSUME NEW a, NEW b, NEW i \in Nat,
               /\ a \in Seq(Keys) /\ b \in Seq(Keys) /\ Len(a) \in Nat /\ Len(b) \in Nat
               /\ \A e \in 1..Len(a) : a[e] \in Keys
               /\ \A e \in 1..Len(b) : b[e] \in Keys,
               \A e \in 1..Len(a) : \E j \in 1..Len(b) : b[j] = a[e],
               \A e, j \in 1..Len(a) : e < j => Before(side, a[j], a[e]),
               \A e, j \in 1..Len(b) : e < j => Before(side, b[j], b[e]),
               i \in 1..Len(a), \A e \in 1..Len(a) : e < i => e \in 1..Len(b) /\ a[e] = b[e]
        PROVE  i \in 1..Len(b) /\ (a[i] = b[i] \/ Before(side, a[i], b[i]))
    <2>1. PICK j \in 1..Len(b) : b[j] = a[i]
      BY <1>4
    <2>2. ~(j < i)
      <3> SUFFICES ASSUME j < i PROVE FALSE
        OBVIOUS
      <3>1. j \in 1..Len(a) /\ a[j] = b[j]
        BY <1>4, <2>1
      <3>2. Before(side, a[i], a[j])
        BY <1>4, <3>1
      <3> QED
        BY <1>3, <1>4, <2>1, <3>1, <3>2
    <2>3. i \in 1..Len(b)
      BY <1>4, <2>1, <2>2
    <2>4. j = i \/ i < j
      BY <1>4, <2>1, <2>2
    <2> QED
      BY <1>4, <2>1, <2>3, <2>4
  <1> DEFINE T == {m \in Nat : \A i \in 1..Len(s) : i < m => i \in 1..Len(t) /\ s[i] = t[i]}
  <1>5. ASSUME NEW m \in Nat, m \in T PROVE m + 1 \in T
    <2> SUFFICES ASSUME m \in 1..Len(s) PROVE m \in 1..Len(t) /\ s[m] = t[m]
      <3>1. \A i \in 1..Len(s) : i < m + 1 => i < m \/ i = m
        BY <1>1
      <3> QED
        BY <1>5, <3>1
    <2>1. \A e \in 1..Len(s) : e < m => e \in 1..Len(t) /\ s[e] = t[e]
      BY <1>5
    <2>2. m \in 1..Len(t) /\ (s[m] = t[m] \/ Before(side, s[m], t[m]))
      <3> HIDE DEF T
      <3> QED
        BY <1>1, <1>2, <1>4, <2>1
    <2>3. \A e \in 1..Len(t) : e < m => e \in 1..Len(s) /\ t[e] = s[e]
      <3>1. \A e \in 1..Len(t) : e < m => e \in 1..Len(s)
        BY <1>1
      <3> QED
        BY <2>1, <3>1
    <2>4. t[m] = s[m] \/ Before(side, t[m], s[m])
      <3> HIDE DEF T
      <3> QED
        BY <1>1, <1>2, <1>4, <2>2, <2>3
    <2> QED
      BY <1>1, <1>3, <2>2, <2>4
  <1>6. 0 \in T
    BY <1>1
  <1>7. \A m \in Nat : m \in T
    <2> HIDE DEF T
    <2> QED
      BY <1>5, <1>6, NumbersIn
  <1>8. \A i \in 1..Len(s) : i \in 1..Len(t) /\ s[i] = t[i]
    <2>1. Len(s) + 1 \in T
      BY <1>1, <1>7
    <2> QED
      BY <1>1, <2>1
  <1>9. Len(s) = Len(t)
    <2> SUFFICES ASSUME Len(s) # Len(t) PROVE FALSE
      OBVIOUS
    <2>1. Len(s) < Len(t)
      <3>1. Len(s) = 0 \/ Len(s) \in 1..Len(s)
        BY <1>1
      <3> QED
        BY <1>1, <1>8, <3>1
    <2>2. Len(t) \in 1..Len(t)
      BY <1>1, <2>1
    <2>3. PICK j \in 1..Len(s) : s[j] = t[Len(t)]
      BY <1>2, <2>2
    <2>4. j \in 1..Len(t) /\ j < Len(t) /\ t[j] = t[Len(t)]
      BY <1>1, <1>8, <2>1, <2>3
    <2>5. Before(side, t[Len(t)], t[j])
      BY <1>2, <2>2, <2>4
    <2> QED
      BY <1>1, <1>3, <2>2, <2>4, <2>5
  <1> QED
    BY <1>1, <1>8, <1>9

\* Backwards it is ordered towards the other side.
LEMMA WalkBack ==
    ASSUME NEW s, NEW V, NEW side \in Sides, Walks(s, V, side)
    PROVE  Walks(Reverse(s), V, Other(side))
  <1> DEFINE t == Reverse(s)
             L == Len(s)
  <1>1. s \in Seq(Keys) /\ L \in Nat /\ \A i \in 1..L : s[i] \in Keys
    BY DEF Walks
  <1>2. t = [i \in 1..L |-> s[(L - i) + 1]]
    BY DEF Reverse
  <1>3. \A i \in 1..L : (L - i) + 1 \in 1..L /\ (L - ((L - i) + 1)) + 1 = i
    BY <1>1
  <1>4. t \in Seq(Keys) /\ Len(t) = L
    BY <1>1, <1>2, <1>3
  <1>5. \A i \in 1..L : t[i] = s[(L - i) + 1]
    BY <1>2
  <1> HIDE DEF t
  <1>6. \A i \in 1..L : t[i] \in V
    BY <1>3, <1>5 DEF Walks
  <1>7. ASSUME NEW v \in V PROVE \E i \in 1..L : t[i] = v
    <2>1. PICK i \in 1..L : s[i] = v
      BY DEF Walks
    <2>2. t[(L - i) + 1] = s[i]
      BY <1>3, <1>5
    <2> QED
      BY <1>3, <2>1, <2>2
  <1>8. ASSUME NEW i \in 1..L, NEW j \in 1..L, i < j PROVE Before(Other(side), t[j], t[i])
    <2>1. (L - j) + 1 < (L - i) + 1
      BY <1>1, <1>8
    <2>2. Before(side, t[i], t[j])
      BY <1>3, <1>5, <2>1 DEF Walks
    <2>3. t[i] \in Keys /\ t[j] \in Keys
      BY <1>1, <1>3, <1>5
    <2> QED
      BY <2>2, <2>3, BeforeOrders
  <1> QED
    BY <1>4, <1>6, <1>7, <1>8 DEF Walks, t

LEMMA ElementsWalk ==
    ASSUME NEW h, NEW r, NEW span, Tree(h, r, span), Descends(h), NEW side \in Sides
    PROVE  Walks(Elements(h, r, side), {h[n].value : n \in Live(h)}, side)
  <1>1. h \in Heap /\ Linked(h, r) /\ \A n \in Live(h) : n # NULL /\ h[n].value \in Keys
    BY LiveRecord DEF Tree
  <1>2. PICK f : /\ Elements(h, r, side) = f[Extreme(h, r, Other(side))]
                 /\ f[NULL] = <<>>
                 /\ \A n \in Live(h) : f[n] = <<h[n].value>> \o f[Neighbour(h, n, side)]
    BY ElementsSteps
  <1>3. /\ \A x, y, z \in Keys : Before(side, x, y) /\ Before(side, y, z) => Before(side, x, z)
        /\ \A x \in Keys : ~Before(side, x, x)
        /\ \A x, y \in Keys : Before(Other(side), x, y) <=> Before(side, y, x)
    BY BeforeOrders
  <1> DEFINE Values(n) == {h[j].value : j \in Beyond(h, n, side)}
  <1>4. Walks(<<>>, {}, side)
    BY DEF Walks
  <1>5. \A n \in Live(h) : Walks(f[n], {h[n].value} \cup Values(n), side)
    <2> DEFINE S == {n \in Live(h) : ~Walks(f[n], {h[n].value} \cup Values(n), side)}
               rank == [n \in S |-> Cardinality(Beyond(h, n, side))]
    <2> SUFFICES ASSUME S # {} PROVE FALSE
      OBVIOUS
    <2>1. \A n \in Live(h) : IsFiniteSet(Beyond(h, n, side)) /\ Cardinality(Beyond(h, n, side)) \in Nat
      <3>1. \A n : Beyond(h, n, side) \subseteq Live(h)
        BY DEF Beyond
      <3> QED
        BY <1>1, <3>1, LiveIsFinite, FS_Subset, FS_CardinalityType
    <2>2. PICK n \in S : \A q \in S : rank[n] <= rank[q]
      <3>1. \A n \in S : rank[n] \in Nat
        BY <2>1
      <3> HIDE DEF S, rank
      <3> QED
        BY <3>1, LeastRank
    <2>3. n \in Live(h) /\ ~Walks(f[n], {h[n].value} \cup Values(n), side)
      OBVIOUS
    <2> DEFINE m == Neighbour(h, n, side)
    <2>4. IsNext(h, n, side, m) /\ f[n] = <<h[n].value>> \o f[m]
      BY <1>2, <2>3, NeighbourIsNext
    <2> HIDE DEF m
    <2>5. Walks(f[m], Values(n), side)
      <3>1. CASE m = NULL
        <4>1. Values(n) = {}
          BY <2>4, <3>1 DEF IsNext, Beyond
        <4> QED
          BY <1>2, <1>4, <3>1, <4>1
      <3>2. CASE m # NULL
        <4>1. /\ m \in Live(h) /\ Before(side, h[m].value, h[n].value)
              /\ \A j \in Live(h) : Before(side, h[j].value, h[n].value) =>
                   j = m \/ Before(side, h[j].value, h[m].value)
          BY <2>4, <3>2 DEF IsNext
        <4>2. Beyond(h, n, side) = {m} \cup Beyond(h, m, side) /\ m \notin Beyond(h, m, side)
          BY <1>1, <1>3, <2>3, <4>1 DEF Beyond
        <4>3. Values(n) = {h[m].value} \cup Values(m)
          BY <4>2
        <4>4. Cardinality(Beyond(h, m, side)) < Cardinality(Beyond(h, n, side))
          <5>1. IsFiniteSet(Beyond(h, m, side)) /\ Cardinality(Beyond(h, m, side)) \in Nat
            BY <2>1, <4>1
          <5>2. Cardinality(Beyond(h, m, side) \cup {m}) = Cardinality(Beyond(h, m, side)) + 1
            BY <4>2, <5>1, FS_AddElement
          <5>3. Beyond(h, n, side) = Beyond(h, m, side) \cup {m}
            BY <4>2
          <5> QED
            BY <5>1, <5>2, <5>3
        <4>5. m \notin S
          <5>1. m \in S => rank[n] <= rank[m] /\ rank[m] = Cardinality(Beyond(h, m, side))
            BY <2>2
          <5>2. rank[n] = Cardinality(Beyond(h, n, side))
            OBVIOUS
          <5>3. Cardinality(Beyond(h, m, side)) \in Nat /\ Cardinality(Beyond(h, n, side)) \in Nat
            BY <2>1, <2>3, <4>1
          <5> HIDE DEF S, rank
          <5> QED
            BY <4>4, <5>1, <5>2, <5>3
        <4>6. Walks(f[m], {h[m].value} \cup Values(m), side)
          BY <4>1, <4>5
        <4> HIDE DEF Values
        <4> QED
          BY <4>3, <4>6
      <3> QED
        BY <3>1, <3>2
    <2>6. \A v \in Values(n) : Before(side, v, h[n].value)
      BY DEF Beyond
    <2>7. h[n].value \in Keys
      BY <1>1, <2>3
    <2> HIDE DEF Values, S
    <2>8. Walks(<<h[n].value>> \o f[m], {h[n].value} \cup Values(n), side)
      BY <2>5, <2>6, <2>7, WalkOn
    <2> QED
      BY <2>3, <2>4, <2>8
  <1>6. CASE Live(h) = {}
    <2>1. r = NULL
      BY <1>1, <1>6 DEF Linked
    <2>2. Elements(h, r, side) = <<>>
      BY <1>2, <2>1 DEF Extreme
    <2> QED
      BY <1>4, <1>6, <2>2
  <1>7. CASE Live(h) # {}
    <2> DEFINE e == End(h, r, Other(side))
    <2>1. r \in Live(h) /\ r # NULL
      BY <1>1, <1>7, RootIsLive
    <2>2. Elements(h, r, side) = f[e]
      BY <1>2, <2>1 DEF Extreme
    <2>3. /\ e \in Live(h)
          /\ \A a \in Live(h) : a = e \/ Before(Other(side), h[e].value, h[a].value)
      <3>1. Other(side) \in Sides /\ \A a \in Live(h) : Under(h, a, r)
        BY OtherSide, UnderFacts
      <3> QED
        BY <2>1, <3>1, EndUnder
    <2> HIDE DEF e
    <2>4. Live(h) = {e} \cup Beyond(h, e, side)
      BY <1>1, <1>3, <2>3 DEF Beyond
    <2>5. {h[n].value : n \in Live(h)} = {h[e].value} \cup Values(e)
      BY <2>4
    <2> HIDE DEF Values
    <2> QED
      BY <1>5, <2>2, <2>3, <2>5
  <1> QED
    BY <1>6, <1>7

\* A search finds every element, and a walk in either direction meets every
\* element once, in order, in every tree that insertions and removals make:
\* avl_tree_node_next and avl_tree_node_previous miss none and never turn.
THEOREM WalksAreExact == Spec => []ElementsAreFound
  <1>1. TreeInv => ElementsAreFound
    <2> SUFFICES ASSUME TreeInv PROVE ElementsAreFound
      OBVIOUS
    <2> DEFINE s == Elements(heap, root, "right")
               t == Elements(heap, root, "left")
    <2>1. PICK span : Tree(heap, root, span) /\ Descends(heap)
      BY HeightBound DEF TreeInv, Sound
    <2>2. "left" \in Sides /\ "right" \in Sides /\ Other("right") = "left"
      BY DEF Sides, Other
    <2>3. Contents = {heap[n].value : n \in Live(heap)}
      BY DEF Contents, Allocated
    <2>4. Walks(s, Contents, "right") /\ Walks(t, Contents, "left")
      BY <2>1, <2>2, <2>3, ElementsWalk
    <2> HIDE DEF s, t
    <2>5. t = Reverse(s)
      <3>1. Walks(Reverse(s), Contents, "left")
        BY <2>2, <2>4, WalkBack
      <3> QED
        BY <2>2, <2>4, <3>1, OneWalk
    <2>6. s \in Seq(Keys) /\ DOMAIN s = 1..Len(s)
      BY <2>4 DEF Walks
    <2>7. Range(s) = Contents
      BY <2>4, <2>6 DEF Walks, Range
    <2>8. \A i, j \in DOMAIN s : i < j => s[i] < s[j]
      BY <2>4, <2>6 DEF Walks, Before
    <2>9. ASSUME NEW k \in Contents PROVE FindNode(heap, root, k) # NULL
      <3>1. PICK n \in Live(heap) : k = heap[n].value
        BY <2>3
      <3>2. n # NULL /\ k \in Keys
        BY <2>1, <3>1, LiveRecord DEF Tree
      <3> QED
        BY <2>1, <3>1, <3>2, SearchFinds
    <2> QED
      BY <2>5, <2>7, <2>8, <2>9 DEF ElementsAreFound, s, t
  <1> QED
    BY <1>1, TreeIsKept, PTL
=============================================================================
