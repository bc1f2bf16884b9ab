----------------------------- MODULE JsonProofs -----------------------------
(***************************************************************************)
(* Proofs about Values and JsonText, for any nodes, fields, scalars and    *)
(* texts: references are counted.  A node is owned from outside the heap,  *)
(* by the program and by the reader, and from the places in other nodes;   *)
(* its count is the sum.  Every function moves owners from one side to the *)
(* other, or adds or drops one, and Unref frees what is left without.      *)
(***************************************************************************)
EXTENDS JsonText, FiniteSetTheorems, SequenceTheorems, TLAPS

-----------------------------------------------------------------------------
(* Induction.                                                              *)

\* Every nonempty set of natural numbers has a least one.
LEMMA LeastNumber ==
    ASSUME NEW T, T \subseteq Nat, T # {}
    PROVE  \E n \in T : \A m \in T : n <= m
  <1> DEFINE F == {1..n : n \in T}
  <1>1. IsWellFoundedOn(StrictSubsetOrdering(Nat), FiniteSubsetsOf(Nat))
    BY FS_StrictSubsetOrderingWellFounded
  <1>2. \A n \in Nat : 1..n \in SUBSET Nat /\ IsFiniteSet(1..n)
    BY FS_Interval
  <1>3. F \subseteq FiniteSubsetsOf(Nat) /\ F # {}
    BY <1>2 DEF FiniteSubsetsOf
  <1> HIDE DEF F
  <1>4. PICK x \in F : \A y \in F : ~(<<y, x>> \in StrictSubsetOrdering(Nat))
    BY <1>1, <1>3, WFMin
  <1>5. PICK n \in T : x = 1..n
    BY DEF F
  <1>6. ASSUME NEW m \in T, ~(n <= m) PROVE FALSE
    <2>1. m \in Nat /\ n \in Nat /\ m < n
      BY <1>6
    <2>2. 1..m \in F
      BY DEF F
    <2>3. 1..m \subseteq 1..n /\ 1..m # 1..n
      <3>1. n \in 1..n /\ n \notin 1..m
        BY <2>1
      <3>2. \A i \in 1..m : i \in 1..n
        BY <2>1
      <3> QED
        BY <3>1, <3>2
    <2>4. <<1..m, x>> \in StrictSubsetOrdering(Nat)
      <3>1. 1..m \in SUBSET Nat /\ 1..n \in SUBSET Nat
        BY <1>2, <2>1
      <3>2. IsFiniteSet(1..m) /\ IsFiniteSet(1..n)
        BY <1>2, <2>1
      <3> QED
        BY <1>5, <2>3, <3>1, <3>2 DEF StrictSubsetOrdering, FiniteSubsetsOf
    <2> QED
      BY <1>4, <2>2, <2>4
  <1> QED
    BY <1>6

\* A set that holds 0 and with every number the next one holds them all.
LEMMA NumbersIn ==
    ASSUME NEW T, 0 \in T, \A n \in Nat : n \in T => n + 1 \in T
    PROVE  \A n \in Nat : n \in T
  <1> DEFINE U == Nat \ T
  <1> SUFFICES ASSUME U # {} PROVE FALSE
    OBVIOUS
  <1>1. PICK n \in U : \A m \in U : n <= m
    BY LeastNumber
  <1>2. n # 0 /\ n \in Nat
    OBVIOUS
  <1>3. n - 1 \in Nat /\ n - 1 \in T
    BY <1>1, <1>2
  <1> QED
    BY <1>2, <1>3

-----------------------------------------------------------------------------
(* What the heap is.                                                       *)

IsNode(r) ==
    /\ r = [type |-> r.type, refcount |-> r.refcount, items |-> r.items, kind |-> r.kind]
    /\ r.type \in Containers /\ r.refcount \in Nat
    /\ r.items = [i \in DOMAIN r.items |-> r.items[i]] /\ IsFiniteSet(DOMAIN r.items)
    /\ r.type = "array" => \E S : r.items \in Seq(S)

IsHeap(h) ==
    /\ h = [n \in DOMAIN h |-> h[n]] /\ DOMAIN h \subseteq Nodes
    /\ \A n \in DOMAIN h : IsNode(h[n])

\* own[n]: the owners of n outside the heap.
Counted(h, own) ==
    /\ IsHeap(h)
    /\ own \in [Nodes -> Nat]
    /\ \A n \in DOMAIN h : /\ h[n].refcount = own[n] + Cardinality(Places(h, n))
                           /\ h[n].refcount > 0
                           /\ Members(h[n]) \subseteq DOMAIN h
    /\ \A n \in Nodes \ DOMAIN h : own[n] = 0

\* What is where it may be; wait: the places without a value yet.
ProperItem(node, kind) ==
    /\ node.type = "array" => kind \in {"null", "undefined", node.kind}
    /\ node.type = "object" => kind # "null"

Proper(h, wait) ==
    \A n \in DOMAIN h : \A i \in DOMAIN h[n].items :
       /\ ProperItem(h[n], h[n].items[i].kind)
       /\ h[n].items[i].kind = "undefined" => <<n, i>> \in wait

-----------------------------------------------------------------------------
(* The inductive invariant.                                                *)

Count(s, n) == Cardinality({i \in DOMAIN s : s[i] = n})

Outside(held, r) ==
    [n \in Nodes |-> held[n] + Count(Opened(r.stack), n)
                       + (IF r.at = "tail" /\ r.result = n THEN 1 ELSE 0)]

\* A frame waits for a value: every one but the innermost, and that one when
\* its value comes next, or was an error.
Waits(r, j) == j < Len(r.stack) \/ r.at = "value" \/ r.stuck
Waiting(r) == {<<r.stack[j].node, r.stack[j].slot>> : j \in {i \in DOMAIN r.stack : Waits(r, i)}}

Reading == {"open", "next", "item", "colon", "value"}

IsReader(r) ==
    /\ r = [at |-> r.at, stack |-> r.stack, source |-> r.source, given |-> r.given,
            written |-> r.written, stuck |-> r.stuck, result |-> r.result, why |-> r.why]
    /\ r.at \in Reading \cup {"idle", "start", "tail", "done"}
    /\ r.stuck \in BOOLEAN
    /\ \E T : r.stack \in Seq([node : Nodes, slot : T])

\* What the reader has open is its own alone.
Opening(h, r) ==
    /\ IsReader(r)
    /\ r.at \in Reading <=> r.stack # <<>>
    /\ r.stuck => r.at \in {"next", "done"}
    /\ \A j \in DOMAIN r.stack : r.stack[j].node \in DOMAIN h /\ h[r.stack[j].node].refcount = 1
    /\ r.at = "tail" => r.result \in DOMAIN h
    /\ r.at = "colon" => h[Last(r.stack).node].type = "object"
    /\ \A p \in Waiting(r) : p[2] \in DOMAIN h[p[1]].items /\ h[p[1]].items[p[2]].kind = "undefined"

Holds(h, held, r) ==
    /\ held \in [Nodes -> Nat]
    /\ Opening(h, r)
    /\ Counted(h, Outside(held, r))
    /\ Proper(h, Waiting(r))

IInv == Holds(heap, handles, reader)

-----------------------------------------------------------------------------
(* Counting.                                                               *)

\* As many in a set as in another that a function maps it to, one to one.
LEMMA SameNumber ==
    ASSUME NEW S, IsFiniteSet(S), NEW T, NEW f \in [S -> T],
           \A x, y \in S : f[x] = f[y] => x = y, \A t \in T : \E x \in S : f[x] = t
    PROVE  IsFiniteSet(T) /\ Cardinality(T) = Cardinality(S)
  <1>1. f \in Bijection(S, T)
    BY DEF Bijection, Injection, Surjection, IsInjective
  <1>2. ExistsBijection(S, T)
    BY <1>1 DEF ExistsBijection
  <1> QED
    BY <1>2, FS_Bijection

LEMMA CountType ==
    ASSUME NEW T, NEW s \in Seq(T), NEW n
    PROVE  IsFiniteSet({i \in DOMAIN s : s[i] = n}) /\ Count(s, n) \in Nat
  <1>1. DOMAIN s = 1..Len(s) /\ Len(s) \in Nat
    OBVIOUS
  <1>2. IsFiniteSet(DOMAIN s)
    BY <1>1, FS_Interval
  <1>3. {i \in DOMAIN s : s[i] = n} \subseteq DOMAIN s
    OBVIOUS
  <1> QED
    BY <1>2, <1>3, FS_Subset, FS_CardinalityType DEF Count

LEMMA CountNone ==
    ASSUME NEW T, NEW s \in Seq(T), NEW n
    PROVE  Count(s, n) = 0 <=> (\A i \in DOMAIN s : s[i] # n)
  <1> DEFINE A == {i \in DOMAIN s : s[i] = n}
  <1>1. Count(s, n) = 0 <=> A = {}
    BY CountType, FS_EmptySet DEF Count
  <1> QED
    BY <1>1

LEMMA CountTail ==
    ASSUME NEW T, NEW s \in Seq(T), s # <<>>, NEW n
    PROVE  Count(s, n) = Count(Tail(s), n) + (IF Head(s) = n THEN 1 ELSE 0)
  <1> DEFINE A == {i \in DOMAIN s : s[i] = n}
             B == {i \in DOMAIN Tail(s) : Tail(s)[i] = n}
             f == [i \in B |-> i + 1]
  <1>1. /\ DOMAIN s = 1..Len(s) /\ Len(s) \in Nat \ {0} /\ Tail(s) \in Seq(T)
        /\ DOMAIN Tail(s) = 1..(Len(s) - 1) /\ \A i \in 1..(Len(s) - 1) : Tail(s)[i] = s[i + 1]
        /\ Head(s) = s[1]
    BY HeadTailProperties
  <1>2. IsFiniteSet(A) /\ IsFiniteSet(B)
    BY <1>1, CountType
  <1>3. f \in [B -> A \ {1}]
    BY <1>1
  <1>4. \A x, y \in B : f[x] = f[y] => x = y
    BY <1>1
  <1>5. ASSUME NEW t \in A \ {1} PROVE \E x \in B : f[x] = t
    <2>1. t \in 1..Len(s) /\ t # 1 /\ s[t] = n
      BY <1>1
    <2>2. t - 1 \in 1..(Len(s) - 1) /\ (t - 1) + 1 = t
      BY <1>1, <2>1
    <2>3. t - 1 \in B
      BY <1>1, <2>1, <2>2
    <2> QED
      BY <2>2, <2>3
  <1>6. Cardinality(A \ {1}) = Cardinality(B)
    <2> HIDE DEF A, B, f
    <2> QED
      BY <1>2, <1>3, <1>4, <1>5, SameNumber
  <1>7. 1 \in A <=> Head(s) = n
    BY <1>1
  <1>8. Cardinality(A) \in Nat /\ Cardinality(B) \in Nat
    BY <1>2, FS_CardinalityType
  <1>9. Cardinality(A \ {1}) = IF 1 \in A THEN Cardinality(A) - 1 ELSE Cardinality(A)
    BY <1>2, FS_RemoveElement
  <1>10. Cardinality(A) = Cardinality(B) + (IF Head(s) = n THEN 1 ELSE 0)
    <2> HIDE DEF A, B
    <2> QED
      BY <1>6, <1>7, <1>8, <1>9
  <1> QED
    BY <1>10 DEF Count

LEMMA CountConcat ==
    ASSUME NEW T, NEW s \in Seq(T), NEW t \in Seq(T), NEW n
    PROVE  Count(s \o t, n) = Count(s, n) + Count(t, n)
  <1> DEFINE A == {i \in DOMAIN s : s[i] = n}
             B == {i \in DOMAIN t : t[i] = n}
             C == {i \in DOMAIN (s \o t) : (s \o t)[i] = n}
             f == [i \in B |-> i + Len(s)]
  <1>1. /\ DOMAIN s = 1..Len(s) /\ Len(s) \in Nat /\ DOMAIN t = 1..Len(t) /\ Len(t) \in Nat
        /\ s \o t \in Seq(T) /\ DOMAIN (s \o t) = 1..(Len(s) + Len(t))
        /\ \A i \in 1..(Len(s) + Len(t)) :
              (s \o t)[i] = IF i <= Len(s) THEN s[i] ELSE t[i - Len(s)]
    BY ConcatProperties
  <1>2. IsFiniteSet(A) /\ IsFiniteSet(B) /\ IsFiniteSet(C)
    BY <1>1, CountType
  <1>3. f \in [B -> C \ A]
    BY <1>1
  <1>4. \A x, y \in B : f[x] = f[y] => x = y
    BY <1>1
  <1>5. ASSUME NEW x \in C \ A PROVE \E y \in B : f[y] = x
    <2>1. x \in 1..(Len(s) + Len(t)) /\ (s \o t)[x] = n
      BY <1>1
    <2>2. ~(x <= Len(s))
      BY <1>1, <2>1
    <2>3. x - Len(s) \in 1..Len(t) /\ (x - Len(s)) + Len(s) = x
      BY <1>1, <2>1, <2>2
    <2>4. x - Len(s) \in B
      BY <1>1, <2>1, <2>2, <2>3
    <2> QED
      BY <2>3, <2>4
  <1>6. Cardinality(C \ A) = Cardinality(B)
    <2> HIDE DEF A, B, C, f
    <2> QED
      BY <1>2, <1>3, <1>4, <1>5, SameNumber
  <1>7. C \cap A = A
    BY <1>1
  <1>8. Cardinality(C \ A) = Cardinality(C) - Cardinality(C \cap A)
    BY <1>2, FS_Difference
  <1>9. Cardinality(A) \in Nat /\ Cardinality(B) \in Nat /\ Cardinality(C) \in Nat
    BY <1>2, FS_CardinalityType
  <1>10. Cardinality(C) = Cardinality(A) + Cardinality(B)
    <2>1. Cardinality(C \cap A) = Cardinality(A)
      BY <1>7
    <2> HIDE DEF A, B, C
    <2> QED
      BY <1>6, <1>8, <1>9, <2>1
  <1> QED
    BY <1>10 DEF Count

LEMMA CountOne ==
    ASSUME NEW m, NEW n
    PROVE  Count(<<m>>, n) = IF m = n THEN 1 ELSE 0
  <1> DEFINE s == <<m>>
  <1>1. s \in Seq({m}) /\ s # <<>> /\ Head(s) = m /\ Tail(s) = <<>>
    OBVIOUS
  <1>2. Count(<<>>, n) = 0
    <2>1. <<>> \in Seq({m}) /\ DOMAIN <<>> = {}
      OBVIOUS
    <2> QED
      BY <2>1, CountNone
  <1> HIDE DEF s
  <1>3. Count(s, n) = Count(Tail(s), n) + (IF Head(s) = n THEN 1 ELSE 0)
    BY <1>1, CountTail
  <1>4. Count(Tail(s), n) = 0
    BY <1>1, <1>2, Zenon
  <1>5. Count(s, n) = 0 + (IF m = n THEN 1 ELSE 0)
    BY <1>1, <1>3, <1>4, Zenon
  <1> QED
    BY <1>5 DEF s

LEMMA CountAppend ==
    ASSUME NEW T, NEW s \in Seq(T), NEW m \in T, NEW n
    PROVE  Count(Append(s, m), n) = Count(s, n) + (IF m = n THEN 1 ELSE 0)
  <1>1. Append(s, m) = s \o <<m>> /\ <<m>> \in Seq(T)
    BY AppendIsConcat
  <1>2. Count(s \o <<m>>, n) = Count(s, n) + Count(<<m>>, n)
    BY <1>1, CountConcat
  <1>3. Count(Append(s, m), n) = Count(s, n) + Count(<<m>>, n)
    BY <1>1, <1>2, Zenon
  <1> QED
    BY <1>3, CountOne, Zenon

\* The elements of a finite set, one after the other.
LEMMA ListOfSet ==
    ASSUME NEW S, IsFiniteSet(S)
    PROVE  LET s == SetToSeq(S)
           IN /\ s \in [1..Cardinality(S) -> S] /\ Cardinality(S) \in Nat
              /\ \A i, j \in 1..Cardinality(S) : s[i] = s[j] => i = j
              /\ \A x \in S : \E i \in 1..Cardinality(S) : s[i] = x
  <1> DEFINE n == Cardinality(S)
             s == SetToSeq(S)
  <1>1. n \in Nat /\ ExistsBijection(1..n, S)
    BY FS_CardinalityType
  <1>2. PICK f : f \in Bijection(1..n, S)
    BY <1>1 DEF ExistsBijection
  <1>3. f \in [1..n -> S] /\ IsInjective(f)
    BY <1>2 DEF Bijection, Injection
  <1>4. s \in [1..n -> S] /\ IsInjective(s)
    BY <1>3 DEF SetToSeq
  <1>5. IsFiniteSet(1..n) /\ Cardinality(1..n) = n
    BY <1>1, FS_Interval
  <1>6. s \in Injection(1..n, S)
    BY <1>4 DEF Injection
  <1>7. s \in Surjection(1..n, S)
    BY <1>5, <1>6, FS_Injection
  <1> HIDE DEF n, s
  <1>8. \A x \in S : \E i \in 1..n : s[i] = x
    BY <1>7 DEF Surjection
  <1>9. \A i, j \in 1..n : s[i] = s[j] => i = j
    BY <1>4 DEF IsInjective
  <1> QED
    BY <1>1, <1>4, <1>8, <1>9 DEF n, s

LEMMA ChildrenList ==
    ASSUME NEW node, IsFiniteSet(Owning(node))
    PROVE  /\ Children(node) \in Seq(Members(node))
           /\ Len(Children(node)) = Cardinality(Owning(node))
           /\ \A n : Count(Children(node), n) = Cardinality({i \in Owning(node) : node.items[i].of = n})
  <1> DEFINE S == Owning(node)
             k == Cardinality(S)
             s == SetToSeq(S)
             t == [j \in DOMAIN s |-> node.items[s[j]].of]
  <1>1. /\ s \in [1..k -> S] /\ k \in Nat
        /\ \A i, j \in 1..k : s[i] = s[j] => i = j
        /\ \A x \in S : \E i \in 1..k : s[i] = x
    BY ListOfSet
  <1>2. Children(node) = t
    BY DEF Children
  <1>3. DOMAIN s = 1..k
    BY <1>1
  <1>4. t = [j \in 1..k |-> node.items[s[j]].of]
    BY <1>3
  <1>5. \A j \in 1..k : t[j] \in Members(node)
    <2> HIDE DEF s, k
    <2> QED
      BY <1>1, <1>4 DEF Members
  <1>6. t \in Seq(Members(node)) /\ Len(t) = k /\ DOMAIN t = 1..k
    <2> HIDE DEF s, k
    <2>1. t = [j \in 1..k |-> t[j]]
      BY <1>4
    <2> HIDE DEF t
    <2>2. t \in [1..k -> Members(node)]
      BY <2>1, <1>5
    <2> QED
      BY <2>2, <1>1
  <1>7. ASSUME NEW n PROVE Count(t, n) = Cardinality({i \in S : node.items[i].of = n})
    <2> DEFINE A == {j \in DOMAIN t : t[j] = n}
               B == {i \in S : node.items[i].of = n}
               f == [j \in A |-> s[j]]
    <2>1. IsFiniteSet(A)
      BY <1>6, CountType
    <2> HIDE DEF k, S
    <2> HIDE DEF s
    <2>2. \A j \in A : j \in 1..k /\ s[j] \in B
      BY <1>1, <1>4
    <2>3. f \in [A -> B]
      BY <2>2
    <2>4. \A x, y \in A : f[x] = f[y] => x = y
      BY <1>1, <2>2
    <2>5. ASSUME NEW i \in B PROVE \E j \in A : f[j] = i
      <3>1. PICK j \in 1..k : s[j] = i
        BY <1>1
      <3>2. j \in A
        BY <1>4, <3>1
      <3> QED
        BY <3>1, <3>2
    <2>6. Cardinality(B) = Cardinality(A)
      <3> HIDE DEF A, B, f
      <3> QED
        BY <2>1, <2>3, <2>4, <2>5, SameNumber
    <2> QED
      BY <2>6 DEF Count
  <1> HIDE DEF t, k
  <1> QED
    BY <1>2, <1>6, <1>7 DEF k

-----------------------------------------------------------------------------
(* Places.                                                                 *)

LEMMA InReferences ==
    ASSUME NEW h
    PROVE  \A p : p \in References(h) <=> \E m \in DOMAIN h : \E i \in Owning(h[m]) : p = <<m, i>>
  BY DEF References

LEMMA PairInReferences ==
    ASSUME NEW h
    PROVE  \A m, i : <<m, i>> \in References(h) <=> m \in DOMAIN h /\ i \in Owning(h[m])
  BY InReferences

LEMMA InPlaces ==
    ASSUME NEW h, NEW n
    PROVE  \A m, i : <<m, i>> \in Places(h, n)
                     <=> m \in DOMAIN h /\ i \in Owning(h[m]) /\ h[m].items[i].of = n
  BY PairInReferences DEF Places

LEMMA FiniteOwning ==
    ASSUME NEW r, IsNode(r)
    PROVE  IsFiniteSet(Owning(r))
  <1>1. Owning(r) \subseteq DOMAIN r.items
    BY DEF Owning
  <1> QED
    BY <1>1, FS_Subset DEF IsNode

LEMMA FiniteReferences ==
    ASSUME NEW h, IsHeap(h)
    PROVE  IsFiniteSet(References(h)) /\ Cardinality(References(h)) \in Nat
  <1> DEFINE f == [m \in DOMAIN h |-> {m} \X Owning(h[m])]
             U == {f[m] : m \in DOMAIN h}
  <1>1. IsFiniteSet(DOMAIN h)
    BY FS_Subset, ValuesAssumption DEF IsHeap
  <1>2. IsFiniteSet(U)
    <2> HIDE DEF f
    <2>1. f = [m \in DOMAIN h |-> f[m]]
      BY DEF f
    <2>2. f \in Surjection(DOMAIN h, U)
      BY <2>1 DEF Surjection
    <2> QED
      BY <1>1, <2>2, FS_Surjection
  <1>3. \A m \in DOMAIN h : IsFiniteSet(f[m])
    <2> TAKE m \in DOMAIN h
    <2>1. IsFiniteSet({m}) /\ IsFiniteSet(Owning(h[m]))
      BY FiniteOwning, FS_Singleton DEF IsHeap
    <2> QED
      BY <2>1, FS_Product
  <1>4. References(h) = UNION U
    BY DEF References
  <1>5. IsFiniteSet(UNION U)
    <2> HIDE DEF f
    <2> QED
      BY <1>2, <1>3, FS_UNION
  <1> QED
    BY <1>4, <1>5, FS_CardinalityType

LEMMA FinitePlaces ==
    ASSUME NEW h, IsHeap(h), NEW n
    PROVE  IsFiniteSet(Places(h, n)) /\ Cardinality(Places(h, n)) \in Nat
  <1>1. Places(h, n) \subseteq References(h)
    BY DEF Places
  <1> QED
    BY <1>1, FiniteReferences, FS_Subset, FS_CardinalityType

\* A node that no place refers to is in no node.
LEMMA NoPlaces ==
    ASSUME NEW h, IsHeap(h), NEW n, Cardinality(Places(h, n)) = 0
    PROVE  Places(h, n) = {} /\ \A m \in DOMAIN h : n \notin Members(h[m])
  <1>1. Places(h, n) = {}
    BY FinitePlaces, FS_EmptySet
  <1> QED
    BY <1>1, InPlaces DEF Members

-----------------------------------------------------------------------------
(* What a change of the heap does to the places.                           *)

\* The same items that refer to nodes, in the same nodes.
SameOwning(r, r2) ==
    Owning(r2) = Owning(r) /\ \A i \in Owning(r) : r2.items[i].of = r.items[i].of
SamePlaces(h, h2) ==
    DOMAIN h2 = DOMAIN h /\ \A n \in DOMAIN h : SameOwning(h[n], h2[n])

SameCounts(h, h2) == \A n \in DOMAIN h : h2[n].refcount = h[n].refcount

\* One item more that refers to a node: k, of x.
OneMore(h, h2, x, k) ==
    /\ DOMAIN h2 = DOMAIN h
    /\ \A n \in DOMAIN h \ {x} : SameOwning(h[n], h2[n])
    /\ k \notin Owning(h[x]) /\ Owning(h2[x]) = Owning(h[x]) \cup {k}
    /\ \A i \in Owning(h[x]) : h2[x].items[i].of = h[x].items[i].of

LEMMA SameOwningMembers ==
    ASSUME NEW r, NEW r2, SameOwning(r, r2)
    PROVE  Members(r2) = Members(r)
  <1>1. Owning(r2) = Owning(r) /\ \A i \in Owning(r) : r2.items[i].of = r.items[i].of
    BY DEF SameOwning
  <1>2. \A n : n \in Members(r2) <=> \E i \in Owning(r) : r2.items[i].of = n
    BY <1>1 DEF Members
  <1>3. \A n : n \in Members(r) <=> \E i \in Owning(r) : r.items[i].of = n
    BY DEF Members
  <1> QED
    BY <1>1, <1>2, <1>3

LEMMA SamePlacesCount ==
    ASSUME NEW h, NEW h2, SamePlaces(h, h2)
    PROVE  /\ References(h2) = References(h)
           /\ \A n : Places(h2, n) = Places(h, n)
           /\ \A n \in DOMAIN h : Members(h2[n]) = Members(h[n])
  <1>0. DOMAIN h2 = DOMAIN h /\ \A n \in DOMAIN h : SameOwning(h[n], h2[n])
    BY DEF SamePlaces
  <1>1. References(h2) = References(h)
    <2>1. \A p : p \in References(h2) <=> \E m \in DOMAIN h : \E i \in Owning(h[m]) : p = <<m, i>>
      BY <1>0, InReferences DEF SameOwning
    <2>2. \A p : p \in References(h) <=> \E m \in DOMAIN h : \E i \in Owning(h[m]) : p = <<m, i>>
      BY InReferences
    <2>3. \A p : p \in References(h2) <=> p \in References(h)
      BY <2>1, <2>2
    <2> QED
      BY <2>3
  <1>2. ASSUME NEW n PROVE Places(h2, n) = Places(h, n)
    <2>1. ASSUME NEW p \in References(h) PROVE h2[p[1]].items[p[2]].of = h[p[1]].items[p[2]].of
      <3>1. PICK m \in DOMAIN h : \E i \in Owning(h[m]) : p = <<m, i>>
        BY InReferences
      <3> QED
        BY <1>0, <3>1 DEF SameOwning
    <2> QED
      BY <1>1, <2>1 DEF Places
  <1> QED
    BY <1>0, <1>1, <1>2, SameOwningMembers

LEMMA OneMoreCount ==
    ASSUME NEW h, NEW h2, IsHeap(h), NEW x \in DOMAIN h, NEW k, OneMore(h, h2, x, k)
    PROVE  LET v == h2[x].items[k].of
           IN /\ \A n : Cardinality(Places(h2, n))
                          = Cardinality(Places(h, n)) + (IF v = n THEN 1 ELSE 0)
              /\ \A n \in DOMAIN h \ {x} : Members(h2[n]) = Members(h[n])
              /\ Members(h2[x]) = Members(h[x]) \cup {v}
              /\ References(h2) = References(h) \cup {<<x, k>>}
  <1> DEFINE v == h2[x].items[k].of
  <1>0. /\ DOMAIN h2 = DOMAIN h
        /\ \A n \in DOMAIN h \ {x} : SameOwning(h[n], h2[n])
        /\ k \notin Owning(h[x]) /\ Owning(h2[x]) = Owning(h[x]) \cup {k}
        /\ \A i \in Owning(h[x]) : h2[x].items[i].of = h[x].items[i].of
    BY DEF OneMore
  <1>1. \A m \in DOMAIN h : \A i \in Owning(h[m]) :
           i \in Owning(h2[m]) /\ h2[m].items[i].of = h[m].items[i].of
    BY <1>0 DEF SameOwning
  <1>2. \A m \in DOMAIN h : \A i \in Owning(h2[m]) : i \in Owning(h[m]) \/ <<m, i>> = <<x, k>>
    BY <1>0 DEF SameOwning
  <1>3. References(h2) = References(h) \cup {<<x, k>>}
    <2>1. \A p \in References(h2) : p \in References(h) \cup {<<x, k>>}
      BY <1>0, <1>2, InReferences
    <2>2. \A p \in References(h) : p \in References(h2)
      BY <1>0, <1>1, InReferences
    <2>3. <<x, k>> \in References(h2)
      BY <1>0, PairInReferences
    <2> QED
      BY <2>1, <2>2, <2>3
  <1>4. <<x, k>> \notin References(h)
    BY <1>0, PairInReferences
  <1>5. \A p \in References(h) : h2[p[1]].items[p[2]].of = h[p[1]].items[p[2]].of
    <2> TAKE p \in References(h)
    <2>1. PICK m \in DOMAIN h : \E i \in Owning(h[m]) : p = <<m, i>>
      BY InReferences
    <2> QED
      BY <1>1, <2>1
  <1>6. ASSUME NEW n
        PROVE  Cardinality(Places(h2, n)) = Cardinality(Places(h, n)) + (IF v = n THEN 1 ELSE 0)
    <2>1. Places(h2, n) = Places(h, n) \cup (IF v = n THEN {<<x, k>>} ELSE {})
      BY <1>3, <1>5 DEF Places
    <2>2. <<x, k>> \notin Places(h, n)
      BY <1>4 DEF Places
    <2>3. IsFiniteSet(Places(h, n)) /\ Cardinality(Places(h, n)) \in Nat
      BY FinitePlaces
    <2>4. CASE v = n
      <3>1. Places(h2, n) = Places(h, n) \cup {<<x, k>>}
        BY <2>1, <2>4
      <3>2. Cardinality(Places(h, n) \cup {<<x, k>>}) = Cardinality(Places(h, n)) + 1
        BY <2>2, <2>3, FS_AddElement
      <3> QED
        BY <2>4, <3>1, <3>2
    <2>5. CASE v # n
      <3>1. Places(h2, n) = Places(h, n)
        BY <2>1, <2>5
      <3> HIDE DEF v
      <3> QED
        BY <2>3, <2>5, <3>1
    <2> QED
      BY <2>4, <2>5
  <1>7. Members(h2[x]) = Members(h[x]) \cup {v}
    <2>1. \A n : n \in Members(h2[x]) <=> \E i \in Owning(h2[x]) : h2[x].items[i].of = n
      BY DEF Members
    <2>2. \A n : n \in Members(h[x]) <=> \E i \in Owning(h[x]) : h[x].items[i].of = n
      BY DEF Members
    <2>3. \A n : n \in Members(h2[x]) <=> n \in Members(h[x]) \/ n = v
      BY <1>0, <2>1, <2>2
    <2> HIDE DEF v
    <2> QED
      BY <2>3
  <1> QED
    BY <1>0, <1>3, <1>6, <1>7, SameOwningMembers

-----------------------------------------------------------------------------
(* What it does to the counts.                                             *)

LEMMA CountedSame ==
    ASSUME NEW h, NEW h2, NEW own, Counted(h, own), IsHeap(h2),
           SamePlaces(h, h2), SameCounts(h, h2)
    PROVE  Counted(h2, own)
  <1>1. DOMAIN h2 = DOMAIN h
    BY DEF SamePlaces
  <1>2. \A n \in DOMAIN h : h2[n].refcount = h[n].refcount
    BY DEF SameCounts
  <1>3. ASSUME NEW n \in DOMAIN h2
        PROVE  /\ h2[n].refcount = own[n] + Cardinality(Places(h2, n))
               /\ h2[n].refcount > 0 /\ Members(h2[n]) \subseteq DOMAIN h2
    BY <1>1, <1>2, SamePlacesCount DEF Counted
  <1> QED
    BY <1>1, <1>3 DEF Counted

\* An owner outside hands its reference to an item.
LEMMA CountedPut ==
    ASSUME NEW h, NEW h2, NEW own, Counted(h, own), IsHeap(h2), SameCounts(h, h2),
           NEW x \in DOMAIN h, NEW k, OneMore(h, h2, x, k),
           h2[x].items[k].of \in DOMAIN h, own[h2[x].items[k].of] > 0
    PROVE  Counted(h2, [own EXCEPT ![h2[x].items[k].of] = @ - 1])
  <1> DEFINE v == h2[x].items[k].of
             own2 == [own EXCEPT ![v] = @ - 1]
  <1>1. DOMAIN h2 = DOMAIN h
    BY DEF OneMore
  <1>2. \A n \in DOMAIN h : h2[n].refcount = h[n].refcount
    BY DEF SameCounts
  <1>3. IsHeap(h) /\ DOMAIN h \subseteq Nodes /\ own \in [Nodes -> Nat] /\ v \in Nodes
    BY DEF Counted, IsHeap
  <1>4. /\ \A n : Cardinality(Places(h2, n)) = Cardinality(Places(h, n)) + (IF v = n THEN 1 ELSE 0)
        /\ \A n \in DOMAIN h \ {x} : Members(h2[n]) = Members(h[n])
        /\ Members(h2[x]) = Members(h[x]) \cup {v}
    BY <1>3, OneMoreCount
  <1>5. \A n : Cardinality(Places(h, n)) \in Nat
    BY <1>3, FinitePlaces
  <1> SUFFICES Counted(h2, own2)
    OBVIOUS
  <1>6. own[v] > 0 /\ v \in DOMAIN h
    OBVIOUS
  <1> HIDE DEF v
  <1>7. own2 \in [Nodes -> Nat] /\ \A n \in Nodes : own2[n] = IF n = v THEN own[n] - 1 ELSE own[n]
    BY <1>3, <1>6
  <1> HIDE DEF own2
  <1>8. ASSUME NEW n \in DOMAIN h2
        PROVE  /\ h2[n].refcount = own2[n] + Cardinality(Places(h2, n))
               /\ h2[n].refcount > 0 /\ Members(h2[n]) \subseteq DOMAIN h2
    <2>1. n \in DOMAIN h /\ n \in Nodes
      BY <1>1, <1>3
    <2>2. /\ h[n].refcount = own[n] + Cardinality(Places(h, n))
          /\ h[n].refcount > 0 /\ Members(h[n]) \subseteq DOMAIN h
      BY <2>1 DEF Counted
    <2>3. own[n] \in Nat /\ Cardinality(Places(h, n)) \in Nat
      BY <1>3, <1>5, <2>1
    <2>4. Cardinality(Places(h2, n)) = Cardinality(Places(h, n)) + (IF v = n THEN 1 ELSE 0)
      BY <1>4
    <2>5. own2[n] = IF n = v THEN own[n] - 1 ELSE own[n]
      BY <1>7, <2>1
    <2>6. h2[n].refcount = own2[n] + Cardinality(Places(h2, n))
      BY <1>2, <2>1, <2>2, <2>3, <2>4, <2>5
    <2>7. Members(h2[n]) \subseteq DOMAIN h2
      BY <1>1, <1>4, <1>6, <2>1, <2>2
    <2> QED
      BY <1>2, <2>1, <2>2, <2>6, <2>7
  <1>9. \A n \in Nodes \ DOMAIN h2 : own2[n] = 0
    BY <1>1, <1>6, <1>7 DEF Counted
  <1> QED
    BY <1>7, <1>8, <1>9 DEF Counted

\* An item gives its reference to an owner outside.
LEMMA CountedLift ==
    ASSUME NEW h, NEW h2, NEW own, Counted(h, own), IsHeap(h2), SameCounts(h2, h),
           NEW x \in DOMAIN h, NEW k, OneMore(h2, h, x, k)
    PROVE  /\ h[x].items[k].of \in DOMAIN h
           /\ Counted(h2, [own EXCEPT ![h[x].items[k].of] = @ + 1])
  <1> DEFINE v == h[x].items[k].of
             own2 == [own EXCEPT ![v] = @ + 1]
  <1>1. DOMAIN h2 = DOMAIN h
    BY DEF OneMore
  <1>2. \A n \in DOMAIN h : h2[n].refcount = h[n].refcount
    BY <1>1 DEF SameCounts
  <1>3. DOMAIN h \subseteq Nodes /\ own \in [Nodes -> Nat]
    BY DEF Counted, IsHeap
  <1>4. /\ \A n : Cardinality(Places(h, n)) = Cardinality(Places(h2, n)) + (IF v = n THEN 1 ELSE 0)
        /\ \A n \in DOMAIN h \ {x} : Members(h[n]) = Members(h2[n])
        /\ Members(h[x]) = Members(h2[x]) \cup {v}
    BY <1>1, OneMoreCount
  <1>5. \A n : Cardinality(Places(h2, n)) \in Nat
    BY FinitePlaces
  <1>6. v \in DOMAIN h /\ v \in Nodes
    BY <1>3, <1>4 DEF Counted
  <1> SUFFICES Counted(h2, own2)
    BY <1>6
  <1> HIDE DEF v
  <1>7. own2 \in [Nodes -> Nat] /\ \A n \in Nodes : own2[n] = IF n = v THEN own[n] + 1 ELSE own[n]
    BY <1>3, <1>6
  <1> HIDE DEF own2
  <1>8. ASSUME NEW n \in DOMAIN h2
        PROVE  /\ h2[n].refcount = own2[n] + Cardinality(Places(h2, n))
               /\ h2[n].refcount > 0 /\ Members(h2[n]) \subseteq DOMAIN h2
    <2>1. n \in DOMAIN h /\ n \in Nodes
      BY <1>1, <1>3
    <2>2. /\ h[n].refcount = own[n] + Cardinality(Places(h, n))
          /\ h[n].refcount > 0 /\ Members(h[n]) \subseteq DOMAIN h
      BY <2>1 DEF Counted
    <2>3. own[n] \in Nat /\ Cardinality(Places(h2, n)) \in Nat
      BY <1>3, <1>5, <2>1
    <2>4. Cardinality(Places(h, n)) = Cardinality(Places(h2, n)) + (IF v = n THEN 1 ELSE 0)
      BY <1>4
    <2>5. own2[n] = IF n = v THEN own[n] + 1 ELSE own[n]
      BY <1>7, <2>1
    <2>6. h2[n].refcount = own2[n] + Cardinality(Places(h2, n))
      BY <1>2, <2>1, <2>2, <2>3, <2>4, <2>5
    <2>7. Members(h2[n]) \subseteq DOMAIN h2
      BY <1>1, <1>4, <2>1, <2>2
    <2> QED
      BY <1>2, <2>1, <2>2, <2>6, <2>7
  <1>9. \A n \in Nodes \ DOMAIN h2 : own2[n] = 0
    BY <1>1, <1>6, <1>7 DEF Counted
  <1> QED
    BY <1>7, <1>8, <1>9 DEF Counted

\* Only a count is changed.
LEMMA Recount ==
    ASSUME NEW h, IsHeap(h), NEW n \in DOMAIN h, NEW c \in Nat
    PROVE  LET h2 == [h EXCEPT ![n].refcount = c]
           IN /\ IsHeap(h2) /\ SamePlaces(h, h2)
              /\ \A m \in DOMAIN h : /\ h2[m].items = h[m].items /\ h2[m].type = h[m].type
                                     /\ h2[m].kind = h[m].kind
                                     /\ h2[m].refcount = IF m = n THEN c ELSE h[m].refcount
  <1> DEFINE h2 == [h EXCEPT ![n].refcount = c]
             r == h[n]
             r2 == [r EXCEPT !.refcount = c]
  <1>1. /\ r = [type |-> r.type, refcount |-> r.refcount, items |-> r.items, kind |-> r.kind]
        /\ h = [m \in DOMAIN h |-> h[m]]
    BY DEF IsHeap, IsNode
  <1>2. r2 = [type |-> r.type, refcount |-> c, items |-> r.items, kind |-> r.kind]
    <2> HIDE DEF r
    <2> QED
      BY <1>1
  <1>3. /\ h2 = [m \in DOMAIN h |-> h2[m]] /\ DOMAIN h2 = DOMAIN h
        /\ h2[n] = r2 /\ \A m \in DOMAIN h \ {n} : h2[m] = h[m]
    BY <1>1
  <1>4. /\ r2.items = r.items /\ r2.type = r.type /\ r2.kind = r.kind /\ r2.refcount = c
        /\ r2 = [type |-> r2.type, refcount |-> r2.refcount, items |-> r2.items, kind |-> r2.kind]
    <2> HIDE DEF r, r2
    <2> QED
      BY <1>2
  <1> HIDE DEF r2, h2
  <1>5. IsNode(r2)
    BY <1>4 DEF IsNode, IsHeap
  <1>6. IsHeap(h2)
    BY <1>3, <1>5 DEF IsHeap
  <1>7. \A m \in DOMAIN h : /\ h2[m].items = h[m].items /\ h2[m].type = h[m].type
                            /\ h2[m].kind = h[m].kind
                            /\ h2[m].refcount = IF m = n THEN c ELSE h[m].refcount
    BY <1>3, <1>4
  <1>8. SamePlaces(h, h2)
    BY <1>3, <1>7 DEF SamePlaces, SameOwning, Owning
  <1> QED
    BY <1>6, <1>7, <1>8 DEF h2

\* A new owner outside, or one that leaves while there are others.
LEMMA CountedStep ==
    ASSUME NEW h, NEW own, Counted(h, own), NEW n \in DOMAIN h, NEW d \in Int,
           own[n] + d >= 0, h[n].refcount + d > 0
    PROVE  Counted([h EXCEPT ![n].refcount = @ + d], [own EXCEPT ![n] = @ + d])
  <1> DEFINE c == h[n].refcount + d
             h2 == [h EXCEPT ![n].refcount = c]
             own2 == [own EXCEPT ![n] = @ + d]
  <1>1. IsHeap(h) /\ DOMAIN h \subseteq Nodes /\ own \in [Nodes -> Nat] /\ n \in Nodes
    BY DEF Counted, IsHeap
  <1>2. c \in Nat /\ c > 0
    <2>1. h[n].refcount \in Nat
      BY <1>1 DEF IsHeap, IsNode
    <2> QED
      BY <2>1
  <1> HIDE DEF c
  <1>3. /\ IsHeap(h2) /\ SamePlaces(h, h2)
        /\ \A m \in DOMAIN h : h2[m].refcount = IF m = n THEN c ELSE h[m].refcount
    BY <1>1, <1>2, Recount
  <1>4. [h EXCEPT ![n].refcount = @ + d] = h2
    BY DEF c
  <1> SUFFICES Counted(h2, own2)
    BY <1>4
  <1> HIDE DEF h2
  <1>5. own2 \in [Nodes -> Nat] /\ \A m \in Nodes : own2[m] = IF m = n THEN own[n] + d ELSE own[m]
    BY <1>1
  <1> HIDE DEF own2
  <1>6. DOMAIN h2 = DOMAIN h
    BY <1>3 DEF SamePlaces
  <1>7. ASSUME NEW m \in DOMAIN h2
        PROVE  /\ h2[m].refcount = own2[m] + Cardinality(Places(h2, m))
               /\ h2[m].refcount > 0 /\ Members(h2[m]) \subseteq DOMAIN h2
    <2>1. m \in DOMAIN h /\ m \in Nodes
      BY <1>1, <1>6
    <2>2. /\ h[m].refcount = own[m] + Cardinality(Places(h, m))
          /\ h[m].refcount > 0 /\ Members(h[m]) \subseteq DOMAIN h
      BY <2>1 DEF Counted
    <2>3. Places(h2, m) = Places(h, m) /\ Members(h2[m]) = Members(h[m])
      BY <1>3, <2>1, SamePlacesCount
    <2>4. own[m] \in Nat /\ Cardinality(Places(h, m)) \in Nat
      BY <1>1, <2>1, FinitePlaces
    <2>5. h2[m].refcount = own2[m] + Cardinality(Places(h, m)) /\ h2[m].refcount > 0
      <3>1. CASE m = n
        BY <1>2, <1>3, <1>5, <2>1, <2>2, <2>4, <3>1 DEF c
      <3>2. CASE m # n
        BY <1>3, <1>5, <2>1, <2>2, <3>2
      <3> QED
        BY <3>1, <3>2
    <2> QED
      BY <1>6, <2>2, <2>3, <2>5
  <1>8. \A m \in Nodes \ DOMAIN h2 : own2[m] = 0
    BY <1>5, <1>6 DEF Counted
  <1> QED
    BY <1>3, <1>5, <1>7, <1>8 DEF Counted

LEMMA CountedRefOf ==
    ASSUME NEW h, NEW own, Counted(h, own), NEW n \in DOMAIN h
    PROVE  /\ Counted(RefOf(h, n), [own EXCEPT ![n] = @ + 1])
           /\ DOMAIN RefOf(h, n) = DOMAIN h
           /\ \A m \in DOMAIN h : /\ RefOf(h, n)[m].items = h[m].items
                                  /\ RefOf(h, n)[m].type = h[m].type
                                  /\ RefOf(h, n)[m].kind = h[m].kind
                                  /\ m # n => RefOf(h, n)[m] = h[m]
  <1>1. IsHeap(h) /\ own[n] \in Nat /\ h[n].refcount \in Nat
    BY DEF Counted, IsHeap, IsNode
  <1>2. Counted([h EXCEPT ![n].refcount = @ + 1], [own EXCEPT ![n] = @ + 1])
    <2>1. own[n] + 1 >= 0 /\ h[n].refcount + 1 > 0 /\ 1 \in Int
      BY <1>1
    <2> QED
      BY <2>1, CountedStep, Zenon
  <1>3. RefOf(h, n) = [h EXCEPT ![n].refcount = h[n].refcount + 1]
    BY DEF RefOf
  <1>4. \A m \in DOMAIN h : m # n => RefOf(h, n)[m] = h[m]
    BY DEF RefOf
  <1> QED
    BY <1>1, <1>2, <1>3, <1>4, Recount DEF RefOf, SamePlaces

\* A new node, which refers to no other.
LEMMA CountedWith ==
    ASSUME NEW h, NEW own, Counted(h, own), NEW a \in Nodes \ DOMAIN h,
           NEW node, IsNode(node), Owning(node) = {}, node.refcount = 1
    PROVE  /\ Counted(With(h, a, node), [own EXCEPT ![a] = 1])
           /\ DOMAIN With(h, a, node) = DOMAIN h \cup {a}
           /\ With(h, a, node)[a] = node /\ \A m \in DOMAIN h : With(h, a, node)[m] = h[m]
           /\ own[a] = 0
  <1> DEFINE h2 == With(h, a, node)
             own2 == [own EXCEPT ![a] = 1]
  <1>1. IsHeap(h) /\ DOMAIN h \subseteq Nodes /\ own \in [Nodes -> Nat] /\ own[a] = 0
    BY DEF Counted, IsHeap
  <1>2. /\ h2 = [m \in DOMAIN h2 |-> h2[m]] /\ DOMAIN h2 = DOMAIN h \cup {a}
        /\ h2[a] = node /\ \A m \in DOMAIN h : h2[m] = h[m]
    BY DEF With
  <1> HIDE DEF h2
  <1>3. IsHeap(h2)
    BY <1>1, <1>2 DEF IsHeap
  <1>4. \A m : Places(h2, m) = Places(h, m)
    <2>1. References(h2) = References(h)
      <3>1. \A p : p \in References(h2) <=> \E m \in DOMAIN h : \E i \in Owning(h[m]) : p = <<m, i>>
        BY <1>2, InReferences
      <3>2. \A p : p \in References(h) <=> \E m \in DOMAIN h : \E i \in Owning(h[m]) : p = <<m, i>>
        BY InReferences
      <3>3. \A p : p \in References(h2) <=> p \in References(h)
        BY <3>1, <3>2
      <3> QED
        BY <3>3
    <2>2. \A p \in References(h) : h2[p[1]] = h[p[1]]
      <3> TAKE p \in References(h)
      <3>1. PICK m \in DOMAIN h : \E i \in Owning(h[m]) : p = <<m, i>>
        BY InReferences
      <3> QED
        BY <1>2, <3>1
    <2> QED
      BY <2>1, <2>2 DEF Places
  <1>5. Members(node) = {}
    BY DEF Members
  <1>6. Cardinality(Places(h, a)) = 0
    <2>1. ASSUME NEW p \in Places(h, a) PROVE FALSE
      <3>1. p \in References(h) /\ h[p[1]].items[p[2]].of = a
        BY DEF Places
      <3>2. PICK m \in DOMAIN h : \E i \in Owning(h[m]) : p = <<m, i>>
        BY <3>1, InReferences
      <3>3. PICK i \in Owning(h[m]) : p = <<m, i>>
        BY <3>2
      <3>4. a \in Members(h[m])
        BY <3>1, <3>3 DEF Members
      <3> QED
        BY <3>4 DEF Counted
    <2> QED
      BY <2>1, FS_EmptySet
  <1>7. own2 \in [Nodes -> Nat] /\ \A m \in Nodes : own2[m] = IF m = a THEN 1 ELSE own[m]
    BY <1>1
  <1> HIDE DEF own2
  <1>8. ASSUME NEW m \in DOMAIN h2
        PROVE  /\ h2[m].refcount = own2[m] + Cardinality(Places(h2, m))
               /\ h2[m].refcount > 0 /\ Members(h2[m]) \subseteq DOMAIN h2
    <2>1. CASE m = a
      BY <1>2, <1>4, <1>5, <1>6, <1>7, <2>1
    <2>2. CASE m # a
      <3>1. m \in DOMAIN h /\ m \in Nodes
        BY <1>1, <1>2, <2>2
      <3>2. own2[m] = own[m] /\ Places(h2, m) = Places(h, m) /\ h2[m] = h[m]
        BY <1>2, <1>4, <1>7, <2>2, <3>1
      <3> QED
        BY <1>2, <3>1, <3>2 DEF Counted
    <2> QED
      BY <2>1, <2>2
  <1>9. \A m \in Nodes \ DOMAIN h2 : own2[m] = 0
    BY <1>2, <1>7 DEF Counted
  <1>10. Counted(h2, own2)
    BY <1>3, <1>7, <1>8, <1>9 DEF Counted
  <1> QED
    BY <1>1, <1>2, <1>10 DEF h2, own2

\* A node without another owner is freed: what it refers to is left to be
\* given back.
Within(r, m) == Cardinality({i \in Owning(r) : r.items[i].of = m})

LEMMA CountedFree ==
    ASSUME NEW h, NEW own, Counted(h, own), NEW n \in DOMAIN h, own[n] > 0, h[n].refcount <= 1
    PROVE  LET h2 == [m \in DOMAIN h \ {n} |-> h[m]]
               own2 == [m \in Nodes |-> (IF m = n THEN 0 ELSE own[m]) + Within(h[n], m)]
           IN /\ Counted(h2, own2) /\ own[n] = 1 /\ Within(h[n], n) = 0
              /\ Cardinality(References(h)) = Cardinality(References(h2)) + Cardinality(Owning(h[n]))
  <1> DEFINE h2 == [m \in DOMAIN h \ {n} |-> h[m]]
             own2 == [m \in Nodes |-> (IF m = n THEN 0 ELSE own[m]) + Within(h[n], m)]
             I(m) == {i \in Owning(h[n]) : h[n].items[i].of = m}
  <1>1. IsHeap(h) /\ DOMAIN h \subseteq Nodes /\ own \in [Nodes -> Nat]
    BY DEF Counted, IsHeap
  <1>2. /\ h2 = [m \in DOMAIN h2 |-> h2[m]] /\ DOMAIN h2 = DOMAIN h \ {n}
        /\ \A m \in DOMAIN h \ {n} : h2[m] = h[m]
    OBVIOUS
  <1> HIDE DEF h2
  <1>3. IsHeap(h2)
    BY <1>1, <1>2 DEF IsHeap
  <1>4. IsFiniteSet(Owning(h[n])) /\ \A m : IsFiniteSet(I(m)) /\ Cardinality(I(m)) \in Nat
    <2>1. IsFiniteSet(Owning(h[n]))
      BY <1>1, FiniteOwning DEF IsHeap
    <2>2. \A m : I(m) \subseteq Owning(h[n])
      OBVIOUS
    <2> HIDE DEF I
    <2> QED
      BY <2>1, <2>2, FS_Subset, FS_CardinalityType
  <1>5. /\ References(h) = References(h2) \cup ({n} \X Owning(h[n]))
        /\ References(h2) \cap ({n} \X Owning(h[n])) = {}
    <2>1. \A p : p \in References(h) <=> \E m \in DOMAIN h : \E i \in Owning(h[m]) : p = <<m, i>>
      BY InReferences
    <2>2. \A p : p \in References(h2) <=> \E m \in DOMAIN h2 : \E i \in Owning(h2[m]) : p = <<m, i>>
      BY InReferences
    <2>3. \A p : p \in {n} \X Owning(h[n]) <=> \E i \in Owning(h[n]) : p = <<n, i>>
      OBVIOUS
    <2>4. \A p : p \in References(h) <=> p \in References(h2) \/ p \in {n} \X Owning(h[n])
      BY <1>2, <2>1, <2>2, <2>3
    <2>5. \A p : ~(p \in References(h2) /\ p \in {n} \X Owning(h[n]))
      BY <1>2, <2>2, <2>3
    <2> QED
      BY <2>4, <2>5
  <1>6. ASSUME NEW S, IsFiniteSet(S) PROVE IsFiniteSet({n} \X S) /\ Cardinality({n} \X S) = Cardinality(S)
    <2>1. IsFiniteSet({n}) /\ Cardinality({n}) = 1
      BY FS_Singleton
    <2>2. Cardinality(S) \in Nat
      BY <1>6, FS_CardinalityType
    <2>3. IsFiniteSet({n} \X S) /\ Cardinality({n} \X S) = Cardinality({n}) * Cardinality(S)
      BY <1>6, <2>1, FS_Product
    <2> QED
      BY <2>1, <2>2, <2>3
  <1>7. ASSUME NEW S, NEW T, IsFiniteSet(S), IsFiniteSet(T), S \cap T = {}
        PROVE  Cardinality(S \cup T) = Cardinality(S) + Cardinality(T)
    <2>1. Cardinality(S \cap T) = 0
      BY <1>7, FS_EmptySet
    <2>2. Cardinality(S \cup T) = Cardinality(S) + Cardinality(T) - Cardinality(S \cap T)
      BY <1>7, FS_Union
    <2>3. Cardinality(S) \in Nat /\ Cardinality(T) \in Nat
      BY <1>7, FS_CardinalityType
    <2> QED
      BY <2>1, <2>2, <2>3
  <1>8. Cardinality(References(h)) = Cardinality(References(h2)) + Cardinality(Owning(h[n]))
    <2> DEFINE A == References(h2)
               B == {n} \X Owning(h[n])
    <2>1. IsFiniteSet(A) /\ IsFiniteSet(B) /\ Cardinality(B) = Cardinality(Owning(h[n]))
      BY <1>3, <1>4, <1>6, FiniteReferences
    <2>2. References(h) = A \cup B /\ A \cap B = {}
      BY <1>5
    <2> HIDE DEF A, B
    <2>3. Cardinality(A \cup B) = Cardinality(A) + Cardinality(B)
      BY <1>7, <2>1, <2>2
    <2>4. Cardinality(References(h)) = Cardinality(A) + Cardinality(Owning(h[n]))
      BY <2>1, <2>2, <2>3
    <2> QED
      BY <2>4 DEF A
  <1>9. ASSUME NEW m
        PROVE  Cardinality(Places(h, m)) = Cardinality(Places(h2, m)) + Within(h[n], m)
    <2>1. \A p \in References(h2) : h2[p[1]].items[p[2]].of = h[p[1]].items[p[2]].of
      <3> TAKE p \in References(h2)
      <3>1. PICK l \in DOMAIN h2 : \E i \in Owning(h2[l]) : p = <<l, i>>
        BY InReferences
      <3> QED
        BY <1>2, <3>1
    <2>2. \A p : p \in {n} \X Owning(h[n]) <=> \E i \in Owning(h[n]) : p = <<n, i>>
      OBVIOUS
    <2>3. \A p : p \in {n} \X I(m) <=> p \in {n} \X Owning(h[n]) /\ h[p[1]].items[p[2]].of = m
      OBVIOUS
    <2>4. \A p : p \in Places(h, m) <=> p \in References(h) /\ h[p[1]].items[p[2]].of = m
      BY DEF Places
    <2>5. \A p : p \in Places(h2, m) <=> p \in References(h2) /\ h2[p[1]].items[p[2]].of = m
      BY DEF Places
    <2> HIDE DEF I
    <2>6. Places(h, m) = Places(h2, m) \cup ({n} \X I(m))
      <3>1. \A p : p \in Places(h, m) <=> p \in Places(h2, m) \/ p \in {n} \X I(m)
        BY <1>5, <2>1, <2>3, <2>4, <2>5
      <3> QED
        BY <3>1
    <2>7. Places(h2, m) \cap ({n} \X I(m)) = {}
      BY <1>5, <2>3, <2>5
    <2>8. IsFiniteSet(Places(h2, m)) /\ IsFiniteSet({n} \X I(m)) /\ Cardinality({n} \X I(m)) = Cardinality(I(m))
      BY <1>3, <1>4, <1>6, FinitePlaces
    <2> QED
      BY <1>7, <2>6, <2>7, <2>8 DEF Within, I
  <1>10. \A m : Cardinality(Places(h2, m)) \in Nat /\ Within(h[n], m) \in Nat
    BY <1>3, <1>4, FinitePlaces DEF Within
  <1>11. own[n] = 1 /\ Cardinality(Places(h, n)) = 0
    <2>1. h[n].refcount = own[n] + Cardinality(Places(h, n)) /\ own[n] \in Nat
      BY <1>1 DEF Counted
    <2>2. Cardinality(Places(h, n)) \in Nat
      BY <1>1, FinitePlaces
    <2> QED
      BY <2>1, <2>2
  <1>12. Within(h[n], n) = 0
    BY <1>9, <1>10, <1>11
  <1>13. /\ own2 \in [Nodes -> Nat]
         /\ \A m \in Nodes : own2[m] = (IF m = n THEN 0 ELSE own[m]) + Within(h[n], m)
    BY <1>1, <1>10
  <1> HIDE DEF own2
  <1>14. ASSUME NEW m \in DOMAIN h2
         PROVE  /\ h2[m].refcount = own2[m] + Cardinality(Places(h2, m))
                /\ h2[m].refcount > 0 /\ Members(h2[m]) \subseteq DOMAIN h2
    <2>1. m \in DOMAIN h /\ m # n /\ m \in Nodes /\ h2[m] = h[m]
      BY <1>1, <1>2
    <2>2. /\ h[m].refcount = own[m] + Cardinality(Places(h, m))
          /\ h[m].refcount > 0 /\ Members(h[m]) \subseteq DOMAIN h /\ own[m] \in Nat
      BY <1>1, <2>1 DEF Counted
    <2>3. own2[m] = own[m] + Within(h[n], m)
      BY <1>13, <2>1
    <2>4. n \notin Members(h[m])
      BY <1>1, <1>11, <2>1, NoPlaces
    <2>5. h2[m].refcount = own2[m] + Cardinality(Places(h2, m))
      BY <1>9, <1>10, <2>1, <2>2, <2>3
    <2> QED
      BY <1>2, <2>1, <2>2, <2>4, <2>5
  <1>15. ASSUME NEW m \in Nodes \ DOMAIN h2 PROVE own2[m] = 0
    <2>1. CASE m = n
      BY <1>12, <1>13, <2>1
    <2>2. CASE m # n
      <3>1. m \notin DOMAIN h /\ own[m] = 0
        BY <1>2, <2>2 DEF Counted
      <3>2. m \notin Members(h[n])
        BY <3>1 DEF Counted
      <3>3. I(m) = {}
        BY <3>2 DEF Members
      <3>4. Within(h[n], m) = 0
        BY <3>3, FS_EmptySet DEF Within
      <3> QED
        BY <1>13, <2>2, <3>1, <3>4
    <2> QED
      BY <2>1, <2>2
  <1>16. Counted(h2, own2)
    BY <1>3, <1>13, <1>14, <1>15 DEF Counted
  <1> QED
    BY <1>8, <1>11, <1>12, <1>16 DEF h2, own2

-----------------------------------------------------------------------------
(* varlink_object_unref and varlink_array_unref.                           *)

\* The owners outside, with the references that are left to be given back.
Owing(own, left) == [n \in Nodes |-> own[n] + Count(left, n)]

\* Some nodes are gone, the others have what they had.
Keeps(h, h2) ==
    /\ DOMAIN h2 \subseteq DOMAIN h
    /\ \A n \in DOMAIN h2 :
         h2[n].items = h[n].items /\ h2[n].type = h[n].type /\ h2[n].kind = h[n].kind

Underway(h, own, s) ==
    /\ s = [heap |-> s.heap, left |-> s.left]
    /\ s.left \in Seq(Nodes)
    /\ Counted(s.heap, Owing(own, s.left))
    /\ Keeps(h, s.heap)

Left(s) == Len(s.left) + Cardinality(References(s.heap))

\* One call gives back one reference.
LEMMA UnrefOne ==
    ASSUME NEW h, NEW own \in [Nodes -> Nat], NEW s, Underway(h, own, s), s.left # <<>>
    PROVE  Underway(h, own, UnrefHead(s)) /\ Left(UnrefHead(s)) = Left(s) - 1
  <1> DEFINE n == Head(s.left)
             o == Owing(own, s.left)
             rest == Tail(s.left)
  <1>1. s.left \in Seq(Nodes) /\ Counted(s.heap, o) /\ Keeps(h, s.heap)
    BY DEF Underway
  <1>2. /\ n \in Nodes /\ rest \in Seq(Nodes) /\ Len(rest) = Len(s.left) - 1
        /\ Len(s.left) \in Nat
    BY <1>1, HeadTailProperties
  <1>3. \A m : Count(s.left, m) = Count(rest, m) + (IF n = m THEN 1 ELSE 0)
    BY <1>1, CountTail
  <1>4. \A m : Count(rest, m) \in Nat
    BY <1>2, CountType
  <1>5. \A m \in Nodes : o[m] = own[m] + Count(s.left, m) /\ own[m] \in Nat
    BY DEF Owing
  <1>6. IsHeap(s.heap) /\ Cardinality(References(s.heap)) \in Nat
    BY <1>1, FiniteReferences DEF Counted
  <1> HIDE DEF n, rest, o
  <1>7. o[n] > 0
    BY <1>2, <1>3, <1>4, <1>5
  <1>8. n \in DOMAIN s.heap
    BY <1>1, <1>2, <1>7 DEF Counted
  <1>9. CASE s.heap[n].refcount > 1
    <2> DEFINE h2 == [s.heap EXCEPT ![n].refcount = @ + (-1)]
               o2 == [o EXCEPT ![n] = @ + (-1)]
    <2>1. s.heap[n].refcount \in Nat /\ o[n] \in Nat /\ o \in [Nodes -> Nat]
      BY <1>2, <1>6, <1>8, <1>1 DEF IsHeap, IsNode, Counted
    <2>2. Counted(h2, o2)
      <3>1. o[n] + (-1) >= 0 /\ s.heap[n].refcount + (-1) > 0 /\ -1 \in Int
        BY <1>7, <1>9, <2>1
      <3> QED
        BY <1>1, <1>8, <3>1, CountedStep, Zenon
    <2>3. /\ SamePlaces(s.heap, h2)
          /\ \A m \in DOMAIN s.heap : /\ h2[m].items = s.heap[m].items
                                      /\ h2[m].type = s.heap[m].type /\ h2[m].kind = s.heap[m].kind
      <3>1. s.heap[n].refcount + (-1) \in Nat
        BY <1>9, <2>1
      <3>2. h2 = [s.heap EXCEPT ![n].refcount = s.heap[n].refcount + (-1)]
        OBVIOUS
      <3> HIDE DEF h2
      <3> QED
        BY <1>6, <1>8, <3>1, <3>2, Recount
    <2>4. UnrefHead(s) = [heap |-> h2, left |-> rest]
      <3>1. s.heap[n].refcount + (-1) = s.heap[n].refcount - 1
        BY <2>1
      <3>2. h2 = [s.heap EXCEPT ![n].refcount = @ - 1]
        BY <3>1
      <3> HIDE DEF h2
      <3> QED
        BY <1>9, <3>2 DEF UnrefHead, n, rest
    <2>5. o2 = Owing(own, rest)
      <3>1. \A m \in Nodes : o2[m] = IF m = n THEN o[n] + (-1) ELSE o[m]
        BY <2>1
      <3>2. \A m \in Nodes : o2[m] = own[m] + Count(rest, m)
        BY <1>2, <1>3, <1>4, <1>5, <3>1
      <3>3. o2 = [m \in Nodes |-> o2[m]]
        BY <2>1
      <3> HIDE DEF o2
      <3> QED
        BY <3>2, <3>3 DEF Owing
    <2>6. Keeps(h, h2)
      BY <1>1, <2>3 DEF Keeps, SamePlaces
    <2>7. References(h2) = References(s.heap)
      BY <2>3, SamePlacesCount
    <2> HIDE DEF h2, o2
    <2>8. Underway(h, own, UnrefHead(s))
      BY <1>2, <2>2, <2>4, <2>5, <2>6 DEF Underway
    <2>9. Left(UnrefHead(s)) = Left(s) - 1
      BY <1>2, <1>6, <2>4, <2>7 DEF Left
    <2> QED
      BY <2>8, <2>9
  <1>10. CASE ~(s.heap[n].refcount > 1)
    <2> DEFINE h2 == [m \in DOMAIN s.heap \ {n} |-> s.heap[m]]
               o2 == [m \in Nodes |-> (IF m = n THEN 0 ELSE o[m]) + Within(s.heap[n], m)]
               inside == Children(s.heap[n])
    <2>1. s.heap[n].refcount \in Nat
      BY <1>6, <1>8 DEF IsHeap, IsNode
    <2>2. /\ Counted(h2, o2) /\ o[n] = 1 /\ Within(s.heap[n], n) = 0
          /\ Cardinality(References(s.heap)) = Cardinality(References(h2)) + Cardinality(Owning(s.heap[n]))
      <3>1. s.heap[n].refcount <= 1
        BY <1>10, <2>1
      <3> QED
        BY <1>1, <1>7, <1>8, <3>1, CountedFree
    <2>3. /\ inside \in Seq(Members(s.heap[n])) /\ Len(inside) = Cardinality(Owning(s.heap[n]))
          /\ \A m : Count(inside, m) = Within(s.heap[n], m)
      <3>1. IsFiniteSet(Owning(s.heap[n]))
        BY <1>6, <1>8, FiniteOwning DEF IsHeap
      <3> QED
        BY <3>1, ChildrenList DEF Within
    <2>4. inside \in Seq(Nodes)
      <3>1. Members(s.heap[n]) \subseteq Nodes
        BY <1>1, <1>6, <1>8 DEF Counted, IsHeap
      <3> QED
        BY <2>3, <3>1, SeqMonotonic
    <2>5. UnrefHead(s) = [heap |-> h2, left |-> inside \o rest]
      BY <1>10 DEF UnrefHead, n, rest
    <2>6. o2 = Owing(own, inside \o rest)
      <3>1. \A m : Count(inside \o rest, m) = Count(inside, m) + Count(rest, m)
        BY <1>2, <2>4, CountConcat
      <3>2. \A m \in Nodes : Within(s.heap[n], m) \in Nat
        BY <2>3, <2>4, CountType
      <3>3. \A m \in Nodes : o2[m] = own[m] + Count(inside \o rest, m)
        <4> TAKE m \in Nodes
        <4>1. o2[m] = (IF m = n THEN 0 ELSE o[m]) + Within(s.heap[n], m)
          OBVIOUS
        <4>2. Count(inside \o rest, m) = Within(s.heap[n], m) + Count(rest, m)
          BY <2>3, <3>1
        <4> HIDE DEF o2, inside
        <4>3. CASE m = n
          <5>1. o2[m] = 0 /\ o[m] = 1 /\ Within(s.heap[n], m) = 0
            BY <2>2, <4>1, <4>3
          <5>2. o[m] = own[m] + Count(s.left, m)
            BY <1>5
          <5>3. Count(s.left, m) = Count(rest, m) + 1
            BY <1>3, <4>3
          <5>4. own[m] \in Nat /\ Count(rest, m) \in Nat
            BY <1>4, <1>5
          <5> QED
            BY <4>2, <5>1, <5>2, <5>3, <5>4
        <4>4. CASE m # n
          <5>1. o2[m] = o[m] + Within(s.heap[n], m)
            BY <4>1, <4>4
          <5>2. o[m] = own[m] + Count(s.left, m)
            BY <1>5
          <5>3. Count(s.left, m) = Count(rest, m) + 0
            BY <1>3, <4>4
          <5>4. own[m] \in Nat /\ Count(rest, m) \in Nat /\ Within(s.heap[n], m) \in Nat
            BY <1>4, <1>5, <3>2
          <5> QED
            BY <4>2, <5>1, <5>2, <5>3, <5>4
        <4> QED
          BY <4>3, <4>4
      <3>4. o2 = [m \in Nodes |-> o2[m]]
        OBVIOUS
      <3> HIDE DEF o2, inside
      <3> QED
        BY <3>3, <3>4 DEF Owing
    <2>7. Keeps(h, h2)
      BY <1>1 DEF Keeps
    <2>8. inside \o rest \in Seq(Nodes) /\ Len(inside \o rest) = Len(inside) + Len(rest)
      BY <1>2, <2>4, ConcatProperties
    <2>9. Cardinality(References(h2)) \in Nat /\ Len(inside) \in Nat
      BY <2>2, <2>4, FiniteReferences DEF Counted
    <2> HIDE DEF h2, o2, inside
    <2>10. Underway(h, own, UnrefHead(s))
      BY <2>2, <2>5, <2>6, <2>7, <2>8 DEF Underway
    <2>11. Left(UnrefHead(s)) = Left(s) - 1
      <3>1. Left(UnrefHead(s)) = Len(inside) + Len(rest) + Cardinality(References(h2))
        BY <2>5, <2>8 DEF Left
      <3>2. Left(s) = Len(s.left) + Cardinality(References(h2)) + Len(inside)
        BY <1>2, <2>2, <2>3, <2>9 DEF Left
      <3> QED
        BY <1>2, <2>9, <3>1, <3>2
    <2> QED
      BY <2>10, <2>11
  <1> QED
    BY <1>9, <1>10

LEMMA CallsExist ==
    ASSUME NEW x, NEW calls \in Nat
    PROVE  \E g : g = [i \in 0..calls |-> IF i = 0 THEN x ELSE UnrefHead(g[i - 1])]
  <1> DEFINE Solves(g, m) == g = [i \in 0..m |-> IF i = 0 THEN x ELSE UnrefHead(g[i - 1])]
             T == {m \in Nat : \E g : Solves(g, m)}
  <1>1. 0 \in T
    <2>1. Solves([i \in 0..0 |-> x], 0)
      OBVIOUS
    <2> QED
      BY <2>1
  <1>2. ASSUME NEW m \in Nat, m \in T PROVE m + 1 \in T
    <2>1. PICK g : Solves(g, m)
      BY <1>2
    <2> DEFINE e == [i \in 0..(m + 1) |-> IF i = 0 THEN x ELSE UnrefHead(g[i - 1])]
    <2>2. \A i \in 0..m : e[i] = g[i]
      BY <2>1
    <2>3. \A i \in 0..(m + 1) : i # 0 => i - 1 \in 0..m
      OBVIOUS
    <2>4. e = [i \in 0..(m + 1) |-> IF i = 0 THEN x ELSE UnrefHead(e[i - 1])]
      BY <2>2, <2>3
    <2>5. Solves(e, m + 1)
      BY <2>4
    <2> HIDE DEF e, Solves
    <2> QED
      BY <2>5
  <1>3. calls \in T
    <2> HIDE DEF T
    <2> QED
      BY <1>1, <1>2, NumbersIn
  <1> QED
    BY <1>3

\* What is given back is not counted any more, and nothing else has changed.
LEMMA CountedUnref ==
    ASSUME NEW h, NEW own \in [Nodes -> Nat], NEW ns \in Seq(Nodes), Counted(h, Owing(own, ns))
    PROVE  Counted(Unref(h, ns), own) /\ Keeps(h, Unref(h, ns))
  <1> DEFINE calls == Len(ns) + Cardinality(References(h))
             start == [heap |-> h, left |-> ns]
             g == CHOOSE g : g = [i \in 0..calls |-> IF i = 0 THEN start ELSE UnrefHead(g[i - 1])]
  <1>1. calls \in Nat
    BY FiniteReferences, LenProperties DEF Counted
  <1>2. Unref(h, ns) = g[calls].heap
    BY DEF Unref
  <1> HIDE DEF calls
  <1>3. g = [i \in 0..calls |-> IF i = 0 THEN start ELSE UnrefHead(g[i - 1])]
    <2> HIDE DEF start
    <2> QED
      BY <1>1, CallsExist
  <1> HIDE DEF g
  <1> DEFINE Goes(s, m) == Underway(h, own, s) /\ (s.left = <<>> \/ Left(s) = calls - m)
             T == {m \in Nat : m \in 0..calls => Goes(g[m], m)}
  <1>4. 0 \in T
    <2>1. g[0] = start
      BY <1>1, <1>3
    <2>2. Keeps(h, h)
      BY DEF Keeps
    <2>3. Underway(h, own, start) /\ Left(start) = calls
      BY <2>2 DEF Underway, Left, calls
    <2> HIDE DEF start
    <2> QED
      BY <1>1, <2>1, <2>3
  <1>5. ASSUME NEW m \in Nat, m \in T PROVE m + 1 \in T
    <2> SUFFICES ASSUME m + 1 \in 0..calls PROVE Goes(g[m + 1], m + 1)
      OBVIOUS
    <2>1. m \in 0..calls /\ m < calls
      BY <1>1
    <2>2. Goes(g[m], m)
      BY <1>5, <2>1
    <2>3. g[m + 1] = UnrefHead(g[m])
      BY <1>1, <1>3, <2>1
    <2>4. CASE g[m].left = <<>>
      <3>1. g[m + 1] = g[m]
        BY <2>3, <2>4 DEF UnrefHead
      <3> QED
        BY <2>2, <2>4, <3>1
    <2>5. CASE g[m].left # <<>>
      <3>1. Left(UnrefHead(g[m])) = Left(g[m]) - 1 /\ Underway(h, own, UnrefHead(g[m]))
        BY <2>2, <2>5, UnrefOne
      <3> QED
        BY <1>1, <2>2, <2>3, <2>5, <3>1
    <2> QED
      BY <2>4, <2>5
  <1>6. calls \in T
    <2> HIDE DEF T
    <2> QED
      BY <1>1, <1>4, <1>5, NumbersIn
  <1> DEFINE s == g[calls]
  <1>7. Goes(s, calls)
    BY <1>1, <1>6
  <1> HIDE DEF s
  <1>8. s.left \in Seq(Nodes) /\ Counted(s.heap, Owing(own, s.left)) /\ Keeps(h, s.heap)
    BY <1>7 DEF Underway
  <1>9. s.left = <<>>
    <2> SUFFICES ASSUME Left(s) = 0 PROVE s.left = <<>>
      BY <1>1, <1>7
    <2>1. Cardinality(References(s.heap)) \in Nat /\ Len(s.left) \in Nat
      BY <1>8, FiniteReferences, LenProperties DEF Counted
    <2>2. Len(s.left) = 0
      BY <2>1 DEF Left
    <2> QED
      BY <1>8, <2>2, EmptySeq
  <1>10. Owing(own, s.left) = own
    <2>1. \A n : Count(s.left, n) = 0
      <3>1. DOMAIN s.left = {}
        BY <1>9
      <3> QED
        BY <1>8, <3>1, CountNone
    <2>2. \A n \in Nodes : Owing(own, s.left)[n] = own[n]
      BY <2>1 DEF Owing
    <2>3. Owing(own, s.left) = [n \in Nodes |-> Owing(own, s.left)[n]]
      BY DEF Owing
    <2> QED
      BY <2>2, <2>3
  <1> QED
    BY <1>2, <1>8, <1>10 DEF s

-----------------------------------------------------------------------------
(* Fields and elements.                                                    *)

\* A node has new items, and its kind may be new; nothing else is.
Renewed(h, h2, o, items, kind) ==
    /\ IsHeap(h2) /\ DOMAIN h2 = DOMAIN h
    /\ \A m \in DOMAIN h \ {o} : h2[m] = h[m]
    /\ h2[o].items = items /\ h2[o].kind = kind
    /\ h2[o].type = h[o].type /\ h2[o].refcount = h[o].refcount

AreItems(items, type) ==
    /\ items = [i \in DOMAIN items |-> items[i]] /\ IsFiniteSet(DOMAIN items)
    /\ type = "array" => \E S : items \in Seq(S)

LEMMA NewItems ==
    ASSUME NEW h, IsHeap(h), NEW o \in DOMAIN h, NEW items, AreItems(items, h[o].type), NEW kind
    PROVE  /\ Renewed(h, [h EXCEPT ![o].items = items], o, items, h[o].kind)
           /\ Renewed(h, [h EXCEPT ![o].items = items, ![o].kind = kind], o, items, kind)
  <1> DEFINE r == h[o]
             r2 == [r EXCEPT !.items = items]
             r3 == [r2 EXCEPT !.kind = kind]
             h2 == [h EXCEPT ![o].items = items]
             h3 == [h EXCEPT ![o].items = items, ![o].kind = kind]
  <1>1. /\ r = [type |-> r.type, refcount |-> r.refcount, items |-> r.items, kind |-> r.kind]
        /\ h = [m \in DOMAIN h |-> h[m]]
    BY DEF IsHeap, IsNode
  <1>2. r2 = [type |-> r.type, refcount |-> r.refcount, items |-> items, kind |-> r.kind]
    <2> HIDE DEF r
    <2> QED
      BY <1>1
  <1>3. r3 = [type |-> r.type, refcount |-> r.refcount, items |-> items, kind |-> kind]
    <2> HIDE DEF r, r2
    <2> QED
      BY <1>2
  <1>4. /\ h2 = [m \in DOMAIN h |-> h2[m]] /\ DOMAIN h2 = DOMAIN h
        /\ h2[o] = r2 /\ \A m \in DOMAIN h \ {o} : h2[m] = h[m]
    BY <1>1
  <1>5. h3 = [h2 EXCEPT ![o].kind = kind]
    BY <1>1
  <1>6. /\ h3 = [m \in DOMAIN h |-> h3[m]] /\ DOMAIN h3 = DOMAIN h
        /\ h3[o] = r3 /\ \A m \in DOMAIN h \ {o} : h3[m] = h[m]
    <2> HIDE DEF h2, h3, r2
    <2> QED
      BY <1>4, <1>5
  <1>7. r.type \in Containers /\ r.refcount \in Nat
    BY DEF IsHeap, IsNode
  <1> HIDE DEF r2, r3, h2, h3
  <1>8. /\ r2.items = items /\ r2.kind = r.kind /\ r2.type = r.type /\ r2.refcount = r.refcount
        /\ r2 = [type |-> r2.type, refcount |-> r2.refcount, items |-> r2.items, kind |-> r2.kind]
    <2> HIDE DEF r
    <2> QED
      BY <1>2
  <1>9. /\ r3.items = items /\ r3.kind = kind /\ r3.type = r.type /\ r3.refcount = r.refcount
        /\ r3 = [type |-> r3.type, refcount |-> r3.refcount, items |-> r3.items, kind |-> r3.kind]
    <2> HIDE DEF r
    <2> QED
      BY <1>3
  <1>10. IsNode(r2) /\ IsNode(r3)
    BY <1>7, <1>8, <1>9 DEF IsNode, AreItems
  <1>11. IsHeap(h2) /\ IsHeap(h3)
    BY <1>4, <1>6, <1>10 DEF IsHeap
  <1>12. Renewed(h, h2, o, items, h[o].kind)
    BY <1>4, <1>8, <1>11 DEF Renewed
  <1>13. Renewed(h, h3, o, items, kind)
    BY <1>6, <1>9, <1>11 DEF Renewed
  <1> QED
    BY <1>12, <1>13 DEF h2, h3

\* What putting a value into an item, or taking it out, does to the owners.
More(own, value) == IF value.kind \in Containers THEN [own EXCEPT ![value.of] = @ + 1] ELSE own
Less(own, value) == IF value.kind \in Containers THEN [own EXCEPT ![value.of] = @ - 1] ELSE own

LEMMA OneAndBack ==
    ASSUME NEW own \in [Nodes -> Nat], NEW v \in Nodes
    PROVE  [[own EXCEPT ![v] = @ + 1] EXCEPT ![v] = @ - 1] = own
  <1> DEFINE more == [own EXCEPT ![v] = @ + 1]
             less == [more EXCEPT ![v] = @ - 1]
  <1>1. /\ more \in [Nodes -> Nat] /\ more[v] = own[v] + 1
        /\ \A n \in Nodes \ {v} : more[n] = own[n]
    OBVIOUS
  <1> HIDE DEF more
  <1>2. /\ less = [n \in Nodes |-> less[n]] /\ less[v] = more[v] - 1
        /\ \A n \in Nodes \ {v} : less[n] = more[n]
    BY <1>1
  <1> HIDE DEF less
  <1>3. less[v] = own[v]
    BY <1>1, <1>2
  <1>4. \A n \in Nodes : less[n] = own[n]
    BY <1>1, <1>2, <1>3
  <1>5. less = own
    BY <1>2, <1>4
  <1> QED
    BY <1>5 DEF less, more

LEMMA MoreLess ==
    ASSUME NEW own \in [Nodes -> Nat], NEW value, value.kind \in Containers => value.of \in Nodes
    PROVE  Less(More(own, value), value) = own
  BY DEF More, Less

LEMMA CountedItem ==
    ASSUME NEW h, NEW own, Counted(h, own), NEW o \in DOMAIN h, NEW h2, NEW items, NEW kind,
           Renewed(h, h2, o, items, kind), NEW k,
           DOMAIN items = DOMAIN h[o].items \cup {k}, k \notin Owning(h[o]),
           \A i \in DOMAIN h[o].items \ {k} : items[i] = h[o].items[i],
           items[k].kind \in Containers => items[k].of \in DOMAIN h /\ own[items[k].of] > 0
    PROVE  Counted(h2, Less(own, items[k]))
  <1>1. /\ IsHeap(h2) /\ DOMAIN h2 = DOMAIN h /\ h2[o].items = items
        /\ \A m \in DOMAIN h \ {o} : h2[m] = h[m]
        /\ h2[o].refcount = h[o].refcount
    BY DEF Renewed
  <1>2. SameCounts(h, h2)
    BY <1>1 DEF SameCounts
  <1>3. \A m \in DOMAIN h \ {o} : SameOwning(h[m], h2[m])
    BY <1>1 DEF SameOwning
  <1>4. \A i \in Owning(h[o]) : i \in DOMAIN h[o].items \ {k} /\ items[i] = h[o].items[i]
    BY DEF Owning
  <1>5. \A i \in Owning(h2[o]) : i # k => i \in Owning(h[o])
    BY <1>1 DEF Owning
  <1>6. \A i \in Owning(h[o]) : i \in Owning(h2[o])
    BY <1>1, <1>4 DEF Owning
  <1>7. k \in Owning(h2[o]) <=> items[k].kind \in Containers
    BY <1>1 DEF Owning
  <1>8. CASE items[k].kind \in Containers
    <2>1. OneMore(h, h2, o, k)
      <3>1. Owning(h2[o]) = Owning(h[o]) \cup {k}
        BY <1>5, <1>6, <1>7, <1>8
      <3>2. \A i \in Owning(h[o]) : h2[o].items[i].of = h[o].items[i].of
        BY <1>1, <1>4
      <3> QED
        BY <1>1, <1>3, <3>1, <3>2 DEF OneMore
    <2>2. h2[o].items[k].of \in DOMAIN h /\ own[h2[o].items[k].of] > 0
      BY <1>1, <1>8
    <2>3. Counted(h2, [own EXCEPT ![h2[o].items[k].of] = @ - 1])
      BY <1>1, <1>2, <2>1, <2>2, CountedPut
    <2> QED
      BY <1>1, <1>8, <2>3 DEF Less
  <1>9. CASE items[k].kind \notin Containers
    <2>1. Owning(h2[o]) = Owning(h[o])
      BY <1>5, <1>6, <1>7, <1>9
    <2>2. SameOwning(h[o], h2[o])
      BY <1>1, <1>4, <2>1 DEF SameOwning
    <2>3. SamePlaces(h, h2)
      BY <1>1, <1>3, <2>2 DEF SamePlaces
    <2> QED
      BY <1>1, <1>2, <1>9, <2>3, CountedSame DEF Less
  <1> QED
    BY <1>8, <1>9

LEMMA CountedTaken ==
    ASSUME NEW h, NEW own, Counted(h, own), NEW value,
           value.kind \in Containers => value.of \in DOMAIN h
    PROVE  /\ Counted(Taken(h, value), More(own, value))
           /\ DOMAIN Taken(h, value) = DOMAIN h
           /\ \A m \in DOMAIN h : /\ Taken(h, value)[m].items = h[m].items
                                  /\ Taken(h, value)[m].type = h[m].type
                                  /\ Taken(h, value)[m].kind = h[m].kind
  BY CountedRefOf DEF Taken, More

LEMMA OwingOne ==
    ASSUME NEW own \in [Nodes -> Nat], NEW v \in Nodes
    PROVE  [own EXCEPT ![v] = @ + 1] = Owing(own, <<v>>)
  <1> DEFINE one == <<v>>
             own2 == [own EXCEPT ![v] = @ + 1]
  <1>1. \A n : Count(one, n) = IF v = n THEN 1 ELSE 0
    BY CountOne
  <1> HIDE DEF one
  <1>2. own2 = [n \in Nodes |-> own2[n]] /\ \A n \in Nodes : own2[n] = IF n = v THEN own[n] + 1 ELSE own[n]
    OBVIOUS
  <1> HIDE DEF own2
  <1>3. \A n \in Nodes : own2[n] = own[n] + Count(one, n)
    <2> TAKE n \in Nodes
    <2>1. CASE n = v
      BY <1>1, <1>2, <2>1
    <2>2. CASE n # v
      <3>1. Count(one, n) = 0 /\ own[n] \in Nat /\ own2[n] = own[n]
        BY <1>1, <1>2, <2>2
      <3> QED
        BY <3>1
    <2> QED
      BY <2>1, <2>2
  <1>4. own2 = Owing(own, one)
    BY <1>2, <1>3 DEF Owing
  <1> QED
    BY <1>4 DEF one, own2

\* The fields without one of them.
Without(items, k) == [f \in DOMAIN items \ {k} |-> items[f]]

LEMMA WithoutItems ==
    ASSUME NEW r, IsNode(r), r.type = "object", NEW k
    PROVE  AreItems(Without(r.items, k), r.type) /\ DOMAIN Without(r.items, k) = DOMAIN r.items \ {k}
  <1>1. IsFiniteSet(DOMAIN r.items \ {k})
    BY FS_RemoveElement DEF IsNode
  <1> QED
    BY <1>1 DEF AreItems, Without

\* What object_remove_field leaves of h.
Removed(h, h2, o, k) ==
    /\ DOMAIN h2 \subseteq DOMAIN h
    /\ \A n \in DOMAIN h2 : /\ h2[n].type = h[n].type /\ h2[n].kind = h[n].kind
                            /\ h2[n].items = IF n = o THEN Without(h[o].items, k) ELSE h[n].items

LEMMA CountedRemove ==
    ASSUME NEW h, NEW own, Counted(h, own), NEW o \in DOMAIN h, h[o].type = "object",
           NEW k \in DOMAIN h[o].items
    PROVE  /\ Counted(RemoveField(h, o, k), own)
           /\ Removed(h, RemoveField(h, o, k), o, k)
           /\ h[o].items[k].kind \notin Containers
                => /\ DOMAIN RemoveField(h, o, k) = DOMAIN h
                   /\ \A m \in DOMAIN h : RemoveField(h, o, k)[m].refcount = h[m].refcount
  <1> DEFINE value == h[o].items[k]
             items == Without(h[o].items, k)
             left == [h EXCEPT ![o].items = [f \in DOMAIN @ \ {k} |-> @[f]]]
  <1>1. IsHeap(h) /\ IsNode(h[o]) /\ own \in [Nodes -> Nat]
    BY DEF Counted, IsHeap
  <1>2. AreItems(items, h[o].type) /\ DOMAIN items = DOMAIN h[o].items \ {k}
    BY <1>1, WithoutItems
  <1>3. left = [h EXCEPT ![o].items = items]
    BY DEF Without
  <1>4. Renewed(h, left, o, items, h[o].kind)
    <2> HIDE DEF items, left
    <2> QED
      BY <1>1, <1>2, <1>3, NewItems
  <1>5. RemoveField(h, o, k) = IF value.kind \in Containers THEN Unref(left, <<value.of>>) ELSE left
    BY DEF RemoveField
  <1>6. \A i \in DOMAIN items : items[i] = h[o].items[i]
    BY <1>2 DEF Without
  <1> HIDE DEF items, left
  <1>7. /\ IsHeap(left) /\ DOMAIN left = DOMAIN h
        /\ \A m \in DOMAIN h \ {o} : left[m] = h[m]
        /\ left[o].items = items /\ left[o].type = h[o].type /\ left[o].kind = h[o].kind
        /\ left[o].refcount = h[o].refcount
    BY <1>4 DEF Renewed
  <1>8. \A m \in DOMAIN h : /\ left[m].type = h[m].type /\ left[m].kind = h[m].kind
                            /\ left[m].items = IF m = o THEN items ELSE h[m].items
    BY <1>7
  <1>9. SameCounts(h, left) /\ SameCounts(left, h)
    BY <1>7 DEF SameCounts
  <1>10. \A m \in DOMAIN h \ {o} : SameOwning(h[m], left[m]) /\ SameOwning(left[m], h[m])
    BY <1>7 DEF SameOwning
  <1>11. /\ \A i \in Owning(left[o]) : i \in Owning(h[o]) /\ i # k
         /\ \A i \in Owning(h[o]) : i # k => i \in Owning(left[o])
         /\ \A i \in Owning(left[o]) : left[o].items[i].of = h[o].items[i].of
         /\ k \in Owning(h[o]) <=> value.kind \in Containers
    BY <1>2, <1>6, <1>7 DEF Owning
  <1>12. CASE value.kind \in Containers
    <2>1. OneMore(left, h, o, k)
      <3>1. k \notin Owning(left[o]) /\ Owning(h[o]) = Owning(left[o]) \cup {k}
        BY <1>11, <1>12
      <3> QED
        BY <1>7, <1>10, <1>11, <3>1 DEF OneMore
    <2>2. value.of \in DOMAIN h /\ Counted(left, [own EXCEPT ![value.of] = @ + 1])
      BY <1>7, <1>9, <2>1, CountedLift
    <2>3. value.of \in Nodes
      BY <1>1, <2>2 DEF IsHeap
    <2>4. [own EXCEPT ![value.of] = @ + 1] = Owing(own, <<value.of>>)
      <3> HIDE DEF value
      <3> QED
        BY <1>1, <2>3, OwingOne
    <2>5. /\ Counted(Unref(left, <<value.of>>), own) /\ Keeps(left, Unref(left, <<value.of>>))
      <3>1. <<value.of>> \in Seq(Nodes)
        BY <2>3
      <3>2. Counted(left, Owing(own, <<value.of>>))
        BY <2>2, <2>4
      <3> HIDE DEF value
      <3> QED
        BY <1>1, <3>1, <3>2, CountedUnref
    <2>6. RemoveField(h, o, k) = Unref(left, <<value.of>>)
      BY <1>5, <1>12
    <2> HIDE DEF value
    <2>7. Removed(h, RemoveField(h, o, k), o, k)
      BY <1>7, <1>8, <2>5, <2>6 DEF Keeps, Removed, items
    <2> QED
      BY <1>12, <2>5, <2>6, <2>7 DEF value
  <1>13. CASE value.kind \notin Containers
    <2>1. Owning(left[o]) = Owning(h[o])
      BY <1>11, <1>13
    <2>2. SameOwning(h[o], left[o])
      BY <1>11, <2>1 DEF SameOwning
    <2>3. SamePlaces(h, left)
      BY <1>7, <1>10, <2>2 DEF SamePlaces
    <2>4. Counted(left, own)
      BY <1>7, <1>9, <2>3, CountedSame
    <2>5. RemoveField(h, o, k) = left
      BY <1>5, <1>13
    <2>6. Removed(h, left, o, k)
      BY <1>7, <1>8 DEF Removed, items
    <2> QED
      BY <1>7, <1>9, <2>4, <2>5, <2>6 DEF SameCounts
  <1> QED
    BY <1>12, <1>13

-----------------------------------------------------------------------------
(* The program: no reader is at work.                                      *)

Used ==
    /\ handles \in [Nodes -> Nat]
    /\ Counted(heap, handles)
    /\ Proper(heap, {})

LEMMA ProperKeeps ==
    ASSUME NEW h, NEW h2, NEW wait, Proper(h, wait), Keeps(h, h2)
    PROVE  Proper(h2, wait)
  <1>1. \A n \in DOMAIN h2 : /\ n \in DOMAIN h /\ h2[n].type = h[n].type /\ h2[n].kind = h[n].kind
                             /\ h2[n].items = h[n].items
    BY DEF Keeps
  <1> SUFFICES ASSUME NEW n \in DOMAIN h2, NEW i \in DOMAIN h2[n].items
               PROVE  /\ ProperItem(h2[n], h2[n].items[i].kind)
                      /\ h2[n].items[i].kind = "undefined" => <<n, i>> \in wait
    BY DEF Proper
  <1>2. /\ ProperItem(h[n], h[n].items[i].kind)
        /\ h[n].items[i].kind = "undefined" => <<n, i>> \in wait
    BY <1>1 DEF Proper
  <1> QED
    BY <1>1, <1>2 DEF ProperItem

LEMMA EmptyNode ==
    ASSUME NEW type \in Containers
    PROVE  /\ IsNode(Node(type)) /\ Owning(Node(type)) = {} /\ Node(type).refcount = 1
           /\ Node(type).items = <<>> /\ Node(type).type = type
           /\ Node(type).kind = "undefined"
  <1>1. DOMAIN <<>> = {} /\ <<>> = [i \in DOMAIN <<>> |-> <<>>[i]] /\ <<>> \in Seq({})
    OBVIOUS
  <1>2. IsFiniteSet({})
    BY FS_EmptySet
  <1>3. IsNode(Node(type))
    BY <1>1, <1>2 DEF IsNode, Node
  <1> QED
    BY <1>1, <1>3 DEF Node, Owning

LEMMA CountedNew ==
    ASSUME NEW h, NEW own, Counted(h, own), NEW a \in Nodes \ DOMAIN h, NEW type \in Containers
    PROVE  LET h2 == With(h, a, Node(type))
           IN /\ Counted(h2, [own EXCEPT ![a] = 1]) /\ own[a] = 0
              /\ DOMAIN h2 = DOMAIN h \cup {a}
              /\ h2[a] = Node(type) /\ \A m \in DOMAIN h : h2[m] = h[m]
  <1> DEFINE node == Node(type)
  <1>1. IsNode(node) /\ Owning(node) = {} /\ node.refcount = 1
    BY EmptyNode
  <1> HIDE DEF node
  <1>2. /\ Counted(With(h, a, node), [own EXCEPT ![a] = 1]) /\ own[a] = 0
        /\ DOMAIN With(h, a, node) = DOMAIN h \cup {a}
        /\ With(h, a, node)[a] = node /\ \A m \in DOMAIN h : With(h, a, node)[m] = h[m]
    BY <1>1, CountedWith
  <1> QED
    BY <1>2 DEF node

LEMMA FreeAddress ==
    ASSUME Free # {}
    PROVE  Address \in Nodes \ DOMAIN heap
  BY DEF Free, Address

LEMMA ReachableInHeap == Reachable \subseteq DOMAIN heap
  BY DEF Reachable, Below

LEMMA NewUsed ==
    ASSUME Used, NEW type \in Containers, New(type)
    PROVE  Used'
  <1> DEFINE h == With(heap, Address, Node(type))
  <1>1. Address \in Nodes \ DOMAIN heap /\ heap' = h /\ handles' = [handles EXCEPT ![Address] = @ + 1]
    BY FreeAddress DEF New, Hold
  <1>2. /\ Counted(h, [handles EXCEPT ![Address] = 1]) /\ handles[Address] = 0
        /\ DOMAIN h = DOMAIN heap \cup {Address}
        /\ h[Address] = Node(type) /\ \A m \in DOMAIN heap : h[m] = heap[m]
    <2> HIDE DEF h
    <2> QED
      BY <1>1, CountedNew DEF Used, h
  <1> HIDE DEF h
  <1>3. handles' = [handles EXCEPT ![Address] = 1] /\ handles' \in [Nodes -> Nat]
    BY <1>1, <1>2 DEF Used
  <1>4. Proper(h, {})
    <2>1. DOMAIN h[Address].items = {}
      BY <1>2, EmptyNode
    <2>2. \A m \in DOMAIN h : m # Address => m \in DOMAIN heap /\ h[m] = heap[m]
      BY <1>2
    <2> QED
      BY <2>1, <2>2 DEF Proper, Used
  <1> QED
    BY <1>1, <1>2, <1>3, <1>4 DEF Used

LEMMA RefUsed ==
    ASSUME Used, NEW n \in DOMAIN heap, heap' = RefOf(heap, n), Hold(n)
    PROVE  Used'
  <1>1. /\ Counted(heap', handles')
        /\ DOMAIN heap' = DOMAIN heap
        /\ \A m \in DOMAIN heap : /\ heap'[m].items = heap[m].items
                                  /\ heap'[m].type = heap[m].type
                                  /\ heap'[m].kind = heap[m].kind
    BY CountedRefOf DEF Used, Hold
  <1>2. Proper(heap', {})
    BY <1>1, ProperKeeps DEF Keeps, Used
  <1> QED
    BY <1>1, <1>2 DEF Used, Counted

LEMMA HeldInHeap ==
    ASSUME Used, NEW n \in Nodes, handles[n] > 0
    PROVE  n \in DOMAIN heap
  BY DEF Used, Counted

LEMMA ReleaseUsed ==
    ASSUME Used, NEW n \in Nodes, Release(n)
    PROVE  Used'
  <1>1. /\ handles[n] > 0 /\ handles[n] \in Nat /\ handles \in [Nodes -> Nat]
        /\ handles' = [handles EXCEPT ![n] = @ - 1]
        /\ heap' = Unref(heap, <<n>>)
    BY DEF Release, Used
  <1>2. handles' \in [Nodes -> Nat]
    BY <1>1
  <1>3. Owing(handles', <<n>>) = handles
    <2> DEFINE own == [handles' EXCEPT ![n] = @ + 1]
    <2>0. own = [m \in Nodes |-> own[m]] /\ handles = [m \in Nodes |-> handles[m]]
      BY <1>1, <1>2
    <2>a. \A m \in Nodes : own[m] = handles[m]
      <3> TAKE m \in Nodes
      <3>1. CASE m = n
        BY <1>1, <1>2, <3>1
      <3>2. CASE m # n
        BY <1>1, <1>2, <3>2
      <3> QED
        BY <3>1, <3>2
    <2>1. own = handles
      <3> HIDE DEF own
      <3> QED
        BY <2>0, <2>a
    <2> QED
      BY <1>2, <2>1, OwingOne
  <1>4. <<n>> \in Seq(Nodes)
    OBVIOUS
  <1>5. Counted(heap, Owing(handles', <<n>>))
    BY <1>3 DEF Used
  <1>6. Counted(Unref(heap, <<n>>), handles') /\ Keeps(heap, Unref(heap, <<n>>))
    BY <1>2, <1>4, <1>5, CountedUnref
  <1> QED
    BY <1>1, <1>2, <1>6, ProperKeeps DEF Used

\* A field without its value.
LEMMA ProperRemoved ==
    ASSUME NEW h, NEW h2, NEW o \in DOMAIN h, NEW k, Removed(h, h2, o, k), NEW wait, Proper(h, wait)
    PROVE  Proper(h2, wait)
  <1>1. \A n \in DOMAIN h2 : /\ n \in DOMAIN h /\ h2[n].type = h[n].type /\ h2[n].kind = h[n].kind
                             /\ \A i \in DOMAIN h2[n].items : /\ i \in DOMAIN h[n].items
                                                              /\ h2[n].items[i] = h[n].items[i]
    <2> SUFFICES ASSUME NEW n \in DOMAIN h2
                 PROVE  /\ n \in DOMAIN h /\ h2[n].type = h[n].type /\ h2[n].kind = h[n].kind
                        /\ \A i \in DOMAIN h2[n].items : /\ i \in DOMAIN h[n].items
                                                         /\ h2[n].items[i] = h[n].items[i]
      OBVIOUS
    <2>1. /\ n \in DOMAIN h /\ h2[n].type = h[n].type /\ h2[n].kind = h[n].kind
          /\ h2[n].items = IF n = o THEN Without(h[o].items, k) ELSE h[n].items
      BY DEF Removed
    <2>2. ASSUME NEW items, NEW i \in DOMAIN Without(items, k)
          PROVE  i \in DOMAIN items /\ Without(items, k)[i] = items[i]
      BY <2>2 DEF Without
    <2>3. CASE n = o
      <3>1. h2[n].items = Without(h[n].items, k)
        BY <2>1, <2>3
      <3>2. \A i \in DOMAIN h2[n].items : i \in DOMAIN h[n].items /\ h2[n].items[i] = h[n].items[i]
        BY <2>2, <3>1, Zenon
      <3> QED
        BY <2>1, <3>2
    <2>4. CASE n # o
      <3>1. h2[n].items = h[n].items
        BY <2>1, <2>4
      <3> QED
        BY <2>1, <3>1
    <2> QED
      BY <2>3, <2>4
  <1> SUFFICES ASSUME NEW n \in DOMAIN h2, NEW i \in DOMAIN h2[n].items
               PROVE  /\ ProperItem(h2[n], h2[n].items[i].kind)
                      /\ h2[n].items[i].kind = "undefined" => <<n, i>> \in wait
    BY DEF Proper
  <1>2. /\ ProperItem(h[n], h[n].items[i].kind)
        /\ h[n].items[i].kind = "undefined" => <<n, i>> \in wait
    BY <1>1 DEF Proper
  <1> QED
    BY <1>1, <1>2 DEF ProperItem

LEMMA InObjects ==
    ASSUME NEW o \in Objects
    PROVE  o \in DOMAIN heap /\ heap[o].type = "object" /\ o \in Reachable
  BY ReachableInHeap DEF Objects

LEMMA SetNullUsed ==
    ASSUME Used, NEW o \in Objects, NEW k, SetNull(o, k)
    PROVE  Used'
  <1>1. o \in DOMAIN heap /\ heap[o].type = "object"
    BY InObjects
  <1>2. k \in DOMAIN heap[o].items /\ heap' = RemoveField(heap, o, k) /\ handles' = handles
    BY DEF SetNull
  <1>3. Counted(heap', handles) /\ Removed(heap, heap', o, k)
    BY <1>1, <1>2, CountedRemove DEF Used
  <1>4. Proper(heap', {})
    BY <1>1, <1>3, ProperRemoved DEF Used
  <1> QED
    BY <1>2, <1>3, <1>4 DEF Used

\* What the program can reach is not freed with a field of its own.
LEMMA KeptByOthers ==
    ASSUME Used, NEW o \in Objects, NEW k, NEW h2, Counted(h2, handles), Removed(heap, h2, o, k)
    PROVE  o \in DOMAIN h2
  <1> SUFFICES ASSUME o \notin DOMAIN h2 PROVE FALSE
    OBVIOUS
  <1> DEFINE S == DOMAIN h2
  <1>1. S \in SUBSET DOMAIN heap
    BY DEF Removed
  <1>2. Owned \subseteq S
    <2> SUFFICES ASSUME NEW n \in DOMAIN heap, handles[n] > 0, n \notin S PROVE FALSE
      BY DEF Owned
    <2>1. n \in Nodes
      BY DEF Used, Counted, IsHeap
    <2> QED
      BY <2>1 DEF Counted
  <1>3. \A m \in S : Members(heap[m]) \subseteq S
    <2> TAKE m \in S
    <2>1. h2[m].items = heap[m].items
      BY DEF Removed
    <2>2. Members(h2[m]) = Members(heap[m])
      BY <2>1 DEF Members, Owning
    <2> QED
      BY <2>2 DEF Counted
  <1>4. o \in S
    <2>1. o \in Below(heap, Owned)
      BY InObjects DEF Reachable
    <2> HIDE DEF S
    <2> QED
      BY <1>1, <1>2, <1>3, <2>1 DEF Below
  <1> QED
    BY <1>4

\* What the program may put into a field or an array is a value.
LEMMA InValues ==
    ASSUME Used, NEW x, NEW value \in Values(x)
    PROVE  /\ value.kind \in Containers => value.of \in Reachable /\ value.kind = heap[value.of].type
           /\ value.kind \notin {"null", "undefined"}
  <1>1. CASE value \in Scalars
    BY <1>1, ValuesAssumption DEF Containers
  <1>2. CASE value \notin Scalars
    <2>1. PICK n \in Reachable : value = [kind |-> heap[n].type, of |-> n]
      BY <1>2 DEF Values
    <2>2. value.kind = heap[n].type /\ value.of = n
      BY <2>1
    <2>3. heap[n].type \in Containers
      BY ReachableInHeap DEF Used, Counted, IsHeap, IsNode
    <2> QED
      BY <2>2, <2>3 DEF Containers
  <1> QED
    BY <1>1, <1>2

\* One more field: k, with its value.
AddedField(items, k, value) == [f \in DOMAIN items \cup {k} |-> IF f = k THEN value ELSE items[f]]

LEMMA CountedAdd ==
    ASSUME NEW h, NEW own, Counted(h, own), NEW o \in DOMAIN h, h[o].type = "object",
           NEW k, k \notin DOMAIN h[o].items, NEW value,
           value.kind \in Containers => value.of \in DOMAIN h /\ own[value.of] > 0
    PROVE  LET items == AddedField(h[o].items, k, value)
           IN /\ Counted(AddField(h, o, k, value), Less(own, value))
              /\ Renewed(h, AddField(h, o, k, value), o, items, h[o].kind)
              /\ DOMAIN items = DOMAIN h[o].items \cup {k} /\ items[k] = value
              /\ \A i \in DOMAIN h[o].items : items[i] = h[o].items[i]
  <1> DEFINE items == AddedField(h[o].items, k, value)
             h2 == AddField(h, o, k, value)
  <1>1. IsHeap(h) /\ IsNode(h[o])
    BY DEF Counted, IsHeap
  <1>2. /\ DOMAIN items = DOMAIN h[o].items \cup {k} /\ items[k] = value
        /\ \A i \in DOMAIN h[o].items : items[i] = h[o].items[i]
        /\ items = [i \in DOMAIN items |-> items[i]]
    BY DEF AddedField
  <1>3. IsFiniteSet(DOMAIN items)
    BY <1>1, <1>2, FS_AddElement DEF IsNode
  <1>4. h2 = [h EXCEPT ![o].items = items]
    BY DEF AddField, AddedField
  <1> HIDE DEF items, h2
  <1>5. AreItems(items, h[o].type)
    BY <1>2, <1>3 DEF AreItems
  <1>6. Renewed(h, h2, o, items, h[o].kind)
    BY <1>1, <1>4, <1>5, NewItems
  <1>7. k \notin Owning(h[o])
    BY DEF Owning
  <1>8. Counted(h2, Less(own, items[k]))
    BY <1>2, <1>6, <1>7, CountedItem
  <1> QED
    BY <1>2, <1>6, <1>8 DEF items, h2

LEMMA ProperAdded ==
    ASSUME NEW h, NEW h2, NEW o \in DOMAIN h, NEW items, NEW kind, NEW k, NEW wait, NEW wait2,
           Proper(h, wait), Renewed(h, h2, o, items, kind), kind = h[o].kind \/ h[o].kind = "undefined",
           DOMAIN items = DOMAIN h[o].items \cup {k},
           \A i \in DOMAIN h[o].items \ {k} : items[i] = h[o].items[i],
           ProperItem(h2[o], items[k].kind),
           items[k].kind = "undefined" => <<o, k>> \in wait2,
           \A n, i : <<n, i>> \in wait /\ <<n, i>> # <<o, k>> => <<n, i>> \in wait2
    PROVE  Proper(h2, wait2)
  <1> SUFFICES ASSUME NEW n \in DOMAIN h2, NEW i \in DOMAIN h2[n].items
               PROVE  /\ ProperItem(h2[n], h2[n].items[i].kind)
                      /\ h2[n].items[i].kind = "undefined" => <<n, i>> \in wait2
    BY DEF Proper
  <1>1. /\ DOMAIN h2 = DOMAIN h /\ \A m \in DOMAIN h \ {o} : h2[m] = h[m]
        /\ h2[o].items = items /\ h2[o].kind = kind /\ h2[o].type = h[o].type
    BY DEF Renewed
  <1>2. CASE n = o /\ i = k
    BY <1>1, <1>2
  <1>3. CASE n = o /\ i # k
    <2>1. i \in DOMAIN h[o].items \ {k} /\ items[i] = h[o].items[i]
      BY <1>1, <1>3
    <2>2. /\ ProperItem(h[o], h[o].items[i].kind)
          /\ h[o].items[i].kind = "undefined" => <<o, i>> \in wait
      BY <2>1 DEF Proper
    <2>3. <<o, i>> # <<o, k>>
      BY <1>3
    <2>4. h2[n].items[i] = h[o].items[i]
      BY <1>1, <1>3, <2>1
    <2> QED
      BY <1>1, <1>3, <2>2, <2>3, <2>4 DEF ProperItem
  <1>4. CASE n # o
    <2>1. n \in DOMAIN h /\ h2[n] = h[n] /\ i \in DOMAIN h[n].items
      BY <1>1, <1>4
    <2>2. /\ ProperItem(h[n], h[n].items[i].kind)
          /\ h[n].items[i].kind = "undefined" => <<n, i>> \in wait
      BY <2>1 DEF Proper
    <2>3. <<n, i>> # <<o, k>>
      BY <1>4
    <2> QED
      BY <2>1, <2>2, <2>3
  <1> QED
    BY <1>2, <1>3, <1>4

LEMMA SetUsed ==
    ASSUME Used, NEW o \in Objects, NEW k, NEW value, Set(o, k, value)
    PROVE  Used'
  <1> DEFINE left == RemoveField(heap, o, k)
             taken == Taken(left, value)
             more == More(handles, value)
             items == AddedField(taken[o].items, k, value)
  <1>1. /\ value \in Values(o) /\ handles' = handles
        /\ value.kind \in Containers => Survives(o, k, value.of)
        /\ heap' = AddField(taken, o, k, value)
    BY DEF Set, SetField
  <1>2. o \in DOMAIN heap /\ heap[o].type = "object" /\ IsNode(heap[o]) /\ handles \in [Nodes -> Nat]
    BY InObjects DEF Used, Counted, IsHeap
  <1>3. /\ value.kind \in Containers => value.of \in Reachable /\ value.kind = heap[value.of].type
        /\ value.kind \notin {"null", "undefined"}
    BY <1>1, InValues
  <1>4. Counted(left, handles) /\ Removed(heap, left, o, k)
    <2>1. CASE k \in DOMAIN heap[o].items
      BY <1>2, <2>1, CountedRemove DEF Used
    <2>2. CASE k \notin DOMAIN heap[o].items
      <3>1. left = heap
        BY <2>2 DEF RemoveField
      <3>2. Without(heap[o].items, k) = heap[o].items
        <4>1. DOMAIN heap[o].items \ {k} = DOMAIN heap[o].items
          BY <2>2
        <4>2. heap[o].items = [i \in DOMAIN heap[o].items |-> heap[o].items[i]]
          BY <1>2 DEF IsNode
        <4> QED
          BY <4>1, <4>2 DEF Without
      <3>3. Removed(heap, heap, o, k)
        BY <3>2 DEF Removed
      <3> QED
        BY <3>1, <3>3 DEF Used
    <2> QED
      BY <2>1, <2>2
  <1>5. o \in DOMAIN left
    BY <1>4, KeptByOthers
  <1>6. value.kind \in Containers => value.of \in DOMAIN left
    BY <1>1 DEF Survives
  <1>7. left[o].type = "object" /\ k \notin DOMAIN left[o].items
    BY <1>2, <1>4, <1>5 DEF Removed, Without
  <1>8. Proper(left, {})
    BY <1>2, <1>4, ProperRemoved DEF Used
  <1> HIDE DEF left
  <1>9. /\ Counted(taken, more) /\ DOMAIN taken = DOMAIN left
        /\ \A m \in DOMAIN left : /\ taken[m].items = left[m].items /\ taken[m].type = left[m].type
                                  /\ taken[m].kind = left[m].kind
    BY <1>4, <1>6, CountedTaken
  <1>10. Proper(taken, {})
    BY <1>8, <1>9, ProperKeeps DEF Keeps
  <1>11. value.kind \in Containers => value.of \in Nodes
    BY <1>4, <1>6 DEF Counted, IsHeap
  <1>12. value.kind \in Containers => value.of \in DOMAIN taken /\ more[value.of] > 0
    BY <1>2, <1>6, <1>9, <1>11 DEF More
  <1> HIDE DEF taken, more
  <1>13. /\ Counted(heap', Less(more, value)) /\ Renewed(taken, heap', o, items, taken[o].kind)
         /\ DOMAIN items = DOMAIN taken[o].items \cup {k} /\ items[k] = value
         /\ \A i \in DOMAIN taken[o].items : items[i] = taken[o].items[i]
    <2>1. /\ o \in DOMAIN taken /\ taken[o].type = "object" /\ k \notin DOMAIN taken[o].items
          /\ Counted(taken, more)
      BY <1>5, <1>7, <1>9
    <2>2. /\ Counted(AddField(taken, o, k, value), Less(more, value))
          /\ Renewed(taken, AddField(taken, o, k, value), o, items, taken[o].kind)
          /\ DOMAIN items = DOMAIN taken[o].items \cup {k} /\ items[k] = value
          /\ \A i \in DOMAIN taken[o].items : items[i] = taken[o].items[i]
      <3>1. Counted(AddField(taken, o, k, value), Less(more, value))
        BY <1>12, <2>1, CountedAdd
      <3>2. Renewed(taken, AddField(taken, o, k, value), o, items, taken[o].kind)
        BY <1>12, <2>1, CountedAdd
      <3>3. DOMAIN items = DOMAIN taken[o].items \cup {k} /\ items[k] = value
        BY DEF AddedField
      <3>4. \A i \in DOMAIN taken[o].items : items[i] = taken[o].items[i]
        BY <2>1 DEF AddedField
      <3> QED
        BY <3>1, <3>2, <3>3, <3>4
    <2> HIDE DEF items
    <2> QED
      BY <1>1, <2>2, Zenon
  <1>14. Less(more, value) = handles
    BY <1>2, <1>11, MoreLess DEF more
  <1>15. ProperItem(heap'[o], value.kind)
    BY <1>3, <1>5, <1>7, <1>9, <1>13 DEF ProperItem, Renewed
  <1> HIDE DEF items
  <1>16. Proper(heap', {})
    BY <1>3, <1>5, <1>9, <1>10, <1>13, <1>15, ProperAdded
  <1> QED
    BY <1>1, <1>2, <1>13, <1>14, <1>16 DEF Used

Appended(r, value, items, k) ==
    /\ AreItems(items, "array") /\ DOMAIN items = DOMAIN r.items \cup {k}
    /\ k \notin DOMAIN r.items /\ items[k] = value
    /\ \A i \in DOMAIN r.items \ {k} : items[i] = r.items[i]

LEMMA AppendedItems ==
    ASSUME NEW r, IsNode(r), r.type = "array", NEW value,
           NEW items, items = Append(r.items, value), NEW k, k = Len(r.items) + 1
    PROVE  Appended(r, value, items, k)
  <1>1. PICK S : r.items \in Seq(S)
    BY DEF IsNode
  <1>2. r.items \in Seq(S \cup {value})
    BY <1>1, SeqMonotonic
  <1>3. /\ Len(r.items) \in Nat /\ DOMAIN r.items = 1..Len(r.items)
        /\ items \in Seq(S \cup {value}) /\ Len(items) = k
        /\ \A i \in 1..Len(r.items) : items[i] = r.items[i]
        /\ items[k] = value
    BY <1>2, LenProperties, AppendProperties
  <1>4. DOMAIN items = 1..k /\ items = [i \in DOMAIN items |-> items[i]]
    BY <1>3, LenProperties
  <1>5. IsFiniteSet(1..k)
    BY <1>3, FS_Interval
  <1>6. DOMAIN items = DOMAIN r.items \cup {k} /\ k \notin DOMAIN r.items
    BY <1>3, <1>4
  <1>7. AreItems(items, "array")
    <2>1. \E T : items \in Seq(T)
      BY <1>3
    <2>2. IsFiniteSet(DOMAIN items)
      BY <1>4, <1>5, Zenon
    <2> QED
      BY <1>4, <2>1, <2>2, Zenon DEF AreItems
  <1>8. \A i \in DOMAIN r.items \ {k} : items[i] = r.items[i]
    BY <1>3
  <1> QED
    BY <1>3, <1>6, <1>7, <1>8 DEF Appended

LEMMA AppendUsed ==
    ASSUME Used, NEW a \in Arrays, NEW value, AppendTo(a, value)
    PROVE  Used'
  <1> DEFINE taken == Taken(heap, value)
             more == More(handles, value)
             items == Append(taken[a].items, value)
             k == Len(taken[a].items) + 1
             kind == KindAfter(heap[a], value)
  <1>1. /\ value \in Values(a) \cup {NullValue} /\ Fitting(heap[a], value) /\ handles' = handles
        /\ heap' = [taken EXCEPT ![a].items = items, ![a].kind = kind]
    BY DEF AppendTo, AppendValue
  <1>2. a \in DOMAIN heap /\ heap[a].type = "array" /\ handles \in [Nodes -> Nat]
    BY ReachableInHeap DEF Arrays, Used
  <1>3. /\ value.kind \in Containers => value.of \in DOMAIN heap
        /\ value.kind # "undefined"
    <2>1. CASE value \in Values(a)
      BY <2>1, InValues, ReachableInHeap
    <2>2. CASE value = NullValue
      BY <2>2 DEF NullValue, Containers
    <2> QED
      BY <1>1, <2>1, <2>2
  <1>4. /\ Counted(taken, more) /\ DOMAIN taken = DOMAIN heap
        /\ \A m \in DOMAIN heap : /\ taken[m].items = heap[m].items /\ taken[m].type = heap[m].type
                                  /\ taken[m].kind = heap[m].kind
    BY <1>3, CountedTaken DEF Used
  <1>5. Proper(taken, {})
    BY <1>4, ProperKeeps DEF Keeps, Used
  <1>6. value.kind \in Containers => value.of \in Nodes
    BY <1>3 DEF Used, Counted, IsHeap
  <1>7. value.kind \in Containers => value.of \in DOMAIN taken /\ more[value.of] > 0
    BY <1>2, <1>3, <1>4, <1>6 DEF More
  <1> HIDE DEF taken, more, kind
  <1>8. a \in DOMAIN taken /\ taken[a].type = "array" /\ IsNode(taken[a]) /\ IsHeap(taken)
    BY <1>2, <1>4 DEF Counted, IsHeap
  <1>9. /\ AreItems(items, taken[a].type) /\ DOMAIN items = DOMAIN taken[a].items \cup {k}
        /\ k \notin DOMAIN taken[a].items /\ items[k] = value
        /\ \A i \in DOMAIN taken[a].items \ {k} : items[i] = taken[a].items[i]
    <2>1. /\ AreItems(items, "array") /\ DOMAIN items = DOMAIN taken[a].items \cup {k}
          /\ k \notin DOMAIN taken[a].items /\ items[k] = value
          /\ \A i \in DOMAIN taken[a].items \ {k} : items[i] = taken[a].items[i]
      <3> DEFINE node == taken[a]
      <3>1. IsNode(node) /\ node.type = "array"
        BY <1>8
      <3>2. items = Append(node.items, value) /\ k = Len(node.items) + 1
        OBVIOUS
      <3> HIDE DEF items, k, node
      <3>3. Appended(node, value, items, k)
        BY <3>1, <3>2, AppendedItems, Zenon
      <3> QED
        BY <3>3 DEF Appended, node
    <2> HIDE DEF items, k
    <2> QED
      BY <1>8, <2>1
  <1> HIDE DEF items, k
  <1>10. Renewed(taken, heap', a, items, kind)
    BY <1>1, <1>8, <1>9, NewItems
  <1>11. Counted(heap', handles)
    <2>1. k \notin Owning(taken[a])
      BY <1>9 DEF Owning
    <2>2. Counted(heap', Less(more, items[k]))
      BY <1>4, <1>7, <1>8, <1>9, <1>10, <2>1, CountedItem
    <2> QED
      BY <1>2, <1>6, <1>9, <2>2, MoreLess DEF more
  <1>12. /\ kind = taken[a].kind \/ taken[a].kind = "undefined"
         /\ value.kind \in {"null", kind}
    BY <1>1, <1>2, <1>4 DEF Fitting, KindAfter, kind
  <1>13. ProperItem(heap'[a], value.kind)
    BY <1>8, <1>10, <1>12 DEF ProperItem, Renewed
  <1>14. Proper(heap', {})
    BY <1>3, <1>5, <1>8, <1>9, <1>10, <1>12, <1>13, ProperAdded
  <1> QED
    BY <1>1, <1>2, <1>11, <1>14 DEF Used

LEMMA FiniteNames ==
    ASSUME NEW name
    PROVE  IsFiniteSet({name, "parameters", "more", "oneway", "continues"})
  <1> DEFINE S == {name, "parameters", "more", "oneway", "continues"}
             f == [i \in 1..5 |-> <<name, "parameters", "more", "oneway", "continues">>[i]]
  <1>1. f \in Surjection(1..5, S)
    <2>1. f \in [1..5 -> S]
      OBVIOUS
    <2>2. f[1] = name /\ f[2] = "parameters" /\ f[3] = "more" /\ f[4] = "oneway" /\ f[5] = "continues"
      OBVIOUS
    <2>3. \A t \in S : \E i \in 1..5 : f[i] = t
      <3> HIDE DEF f
      <3> QED
        BY <2>2
    <2> QED
      BY <2>1, <2>3 DEF Surjection
  <1>2. IsFiniteSet(1..5)
    <2>1. 1 \in Int /\ 5 \in Int
      OBVIOUS
    <2> QED
      BY <2>1, FS_Interval, Zenon
  <1> QED
    BY <1>1, <1>2, FS_Surjection

LEMMA PackUsed ==
    ASSUME Used, NEW name \in {"method", "error"}, NEW named \in BOOLEAN, NEW parameters, NEW flags,
           Pack(name, named, parameters, flags)
    PROVE  Used'
  <1> DEFINE items == Packed(name, named, parameters, flags)
             h == With(heap, Address, [Node("object") EXCEPT !.items = items])
             h1 == With(heap, Address, Node("object"))
             own == [handles EXCEPT ![Address] = 1]
  <1>1. /\ parameters \in Objects \cup {NULL} /\ flags \subseteq {"more", "oneway", "continues"}
        /\ Free # {} /\ heap' = IF parameters = NULL THEN h ELSE RefOf(h, parameters)
        /\ handles' = [handles EXCEPT ![Address] = @ + 1]
    BY DEF Pack, Flags, Hold
  <1>2. Address \in Nodes \ DOMAIN heap /\ handles \in [Nodes -> Nat]
    BY <1>1, FreeAddress DEF Used
  <1>3. /\ Counted(h1, own) /\ handles[Address] = 0 /\ DOMAIN h1 = DOMAIN heap \cup {Address}
        /\ h1[Address] = Node("object") /\ \A m \in DOMAIN heap : h1[m] = heap[m]
    <2> DEFINE a == Address
               h2 == With(heap, a, Node("object"))
    <2>1. "object" \in Containers /\ Counted(heap, handles) /\ a \in Nodes \ DOMAIN heap
      BY <1>2 DEF Containers, Used
    <2> HIDE DEF a
    <2>2. /\ Counted(h2, [handles EXCEPT ![a] = 1]) /\ handles[a] = 0
          /\ DOMAIN h2 = DOMAIN heap \cup {a}
          /\ h2[a] = Node("object") /\ \A m \in DOMAIN heap : h2[m] = heap[m]
      BY <2>1, CountedNew
    <2>3. h1 = h2 /\ own = [handles EXCEPT ![a] = 1]
      BY DEF a
    <2> HIDE DEF h1, h2, own
    <2>4. /\ Counted(h2, own) /\ handles[a] = 0
          /\ DOMAIN h2 = DOMAIN heap \cup {a}
          /\ h2[a] = Node("object") /\ \A m \in DOMAIN heap : h2[m] = heap[m]
      BY <2>2, <2>3
    <2> QED
      BY <2>3, <2>4 DEF a
  <1>4. handles' = own /\ own \in [Nodes -> Nat]
    BY <1>1, <1>2, <1>3
  <1>5. /\ items = [i \in DOMAIN items |-> items[i]] /\ IsFiniteSet(DOMAIN items)
        /\ \A i \in DOMAIN items : \/ items[i].kind \in {"string", "bool"}
                                   \/ /\ i = "parameters" /\ parameters # NULL
                                      /\ items[i] = [kind |-> "object", of |-> parameters]
        /\ parameters # NULL => /\ "parameters" \in DOMAIN items
                                /\ items["parameters"] = [kind |-> "object", of |-> parameters]
    <2>1. DOMAIN items = (IF named THEN {name} ELSE {}) \cup flags
                           \cup (IF parameters # NULL THEN {"parameters"} ELSE {})
      BY DEF Packed
    <2>2. DOMAIN items \subseteq {name, "parameters", "more", "oneway", "continues"}
      BY <1>1, <2>1
    <2>3. IsFiniteSet(DOMAIN items)
      BY <2>2, FiniteNames, FS_Subset
    <2>4. items = [i \in DOMAIN items |-> items[i]]
      BY DEF Packed
    <2>5. "parameters" # name
      OBVIOUS
    <2>6. \A i \in DOMAIN items :
             items[i] = IF i = name THEN Text
                        ELSE IF i = "parameters" THEN [kind |-> "object", of |-> parameters] ELSE True
      BY DEF Packed
    <2>7. Text.kind = "string" /\ True.kind = "bool"
      BY DEF Text, True
    <2>8. "parameters" \in DOMAIN items => parameters # NULL
      BY <1>1, <2>1, <2>5
    <2>9. parameters # NULL => "parameters" \in DOMAIN items
      BY <2>1
    <2> HIDE DEF items
    <2> QED
      BY <2>3, <2>4, <2>5, <2>6, <2>7, <2>8, <2>9
  <1>6. h = [h1 EXCEPT ![Address].items = items]
    <2> DEFINE new == [Node("object") EXCEPT !.items = items]
               b == [h1 EXCEPT ![Address].items = items]
    <2>1. DOMAIN b = DOMAIN h1 /\ b = [m \in DOMAIN h1 |-> b[m]] /\ h = [m \in DOMAIN h1 |-> h[m]]
      BY DEF With
    <2>2. b[Address] = new /\ h[Address] = new
      BY <1>3 DEF With
    <2>3. \A m \in DOMAIN heap : m # Address
      BY <1>2
    <2>4. \A m \in DOMAIN heap : h[m] = heap[m] /\ b[m] = heap[m]
      BY <1>3, <2>3 DEF With
    <2> HIDE DEF b, h, h1, new
    <2>5. \A m \in DOMAIN h1 : h[m] = b[m]
      BY <1>3, <2>2, <2>4
    <2>6. h = b
      BY <2>1, <2>5
    <2> QED
      BY <2>6 DEF b
  <1> HIDE DEF items, h, own
  <1>7. Node("object").type = "object" /\ Owning(Node("object")) = {} /\ Node("object").items = <<>>
        /\ DOMAIN <<>> = {}
    BY EmptyNode DEF Containers
  <1> HIDE DEF h1
  <1>8. Renewed(h1, h, Address, items, h1[Address].kind)
    <2>1. IsHeap(h1) /\ Address \in DOMAIN h1
      BY <1>3 DEF Counted
    <2>2. AreItems(items, h1[Address].type)
      BY <1>3, <1>5, <1>7 DEF AreItems
    <2> QED
      BY <1>6, <2>1, <2>2, NewItems
  <1>9. /\ IsHeap(h) /\ DOMAIN h = DOMAIN h1 /\ h[Address].items = items /\ h[Address].type = "object"
        /\ \A m \in DOMAIN heap : h[m] = heap[m]
        /\ \A m \in DOMAIN h1 : h[m].refcount = h1[m].refcount
    <2>1. \A m \in DOMAIN heap : m # Address /\ m \in DOMAIN h1
      BY <1>2, <1>3
    <2> QED
      BY <1>3, <1>7, <1>8, <2>1 DEF Renewed
  <1>10. Proper(h, {})
    <2> SUFFICES ASSUME NEW n \in DOMAIN h, NEW i \in DOMAIN h[n].items
                 PROVE  ProperItem(h[n], h[n].items[i].kind) /\ h[n].items[i].kind # "undefined"
      BY DEF Proper
    <2>1. CASE n = Address
      <3>1. items[i].kind \in {"string", "bool", "object"}
        BY <1>5, <1>9, <2>1
      <3> QED
        BY <1>9, <2>1, <3>1 DEF ProperItem
    <2>2. CASE n # Address
      <3>1. n \in DOMAIN heap /\ h[n] = heap[n]
        BY <1>3, <1>9, <2>2
      <3> QED
        BY <3>1 DEF Used, Proper
    <2> QED
      BY <2>1, <2>2
  <1>11. CASE parameters = NULL
    <2>1. Owning(h[Address]) = {}
      BY <1>5, <1>9, <1>11 DEF Owning, Containers
    <2>2. \A m \in DOMAIN h1 : SameOwning(h1[m], h[m])
      <3> TAKE m \in DOMAIN h1
      <3>1. CASE m = Address
        BY <1>3, <1>7, <2>1, <3>1 DEF SameOwning
      <3>2. CASE m # Address
        BY <1>3, <1>9, <3>2 DEF SameOwning
      <3> QED
        BY <3>1, <3>2
    <2>3. SamePlaces(h1, h) /\ SameCounts(h1, h)
      BY <1>9, <2>2 DEF SamePlaces, SameCounts
    <2>4. Counted(h, own)
      BY <1>3, <1>9, <2>3, CountedSame
    <2> QED
      BY <1>1, <1>4, <1>10, <1>11, <2>4 DEF Used
  <1>12. CASE parameters # NULL
    <2> DEFINE p == parameters
               h2 == RefOf(h1, p)
               h3 == RefOf(h, p)
               own2 == [own EXCEPT ![p] = @ + 1]
    <2>1. p \in DOMAIN heap /\ p # Address /\ p \in DOMAIN h1 /\ p \in Nodes
      <3>1. p \in Objects
        BY <1>1, <1>12
      <3>2. p \in DOMAIN heap
        BY <3>1, InObjects
      <3>3. p \in Nodes
        BY <3>2 DEF Used, Counted, IsHeap
      <3> QED
        BY <1>2, <1>3, <3>2, <3>3
    <2>2. /\ Counted(h2, own2) /\ DOMAIN h2 = DOMAIN h1
          /\ \A m \in DOMAIN h1 : h2[m].items = h1[m].items
      BY <1>3, <2>1, CountedRefOf
    <2>3. h[p].refcount + 1 \in Nat /\ IsHeap(h) /\ p \in DOMAIN h
      <3>1. p \in DOMAIN h /\ IsHeap(h)
        BY <1>9, <2>1
      <3>2. h[p].refcount \in Nat
        BY <3>1 DEF IsHeap, IsNode
      <3> QED
        BY <3>1, <3>2
    <2>4. /\ IsHeap(h3) /\ SamePlaces(h, h3)
          /\ \A m \in DOMAIN h : /\ h3[m].items = h[m].items /\ h3[m].type = h[m].type
                                 /\ h3[m].kind = h[m].kind
                                 /\ h3[m].refcount = IF m = p THEN h[p].refcount + 1 ELSE h[m].refcount
      BY <2>3, Recount DEF RefOf
    <2>5. \A m \in DOMAIN h1 : h2[m].refcount = IF m = p THEN h1[p].refcount + 1 ELSE h1[m].refcount
      <3>1. h1[p].refcount + 1 \in Nat /\ IsHeap(h1)
        <4>1. IsHeap(h1)
          BY <1>3 DEF Counted
        <4>2. h1[p].refcount \in Nat
          BY <2>1, <4>1 DEF IsHeap, IsNode
        <4> QED
          BY <4>1, <4>2
      <3> QED
        BY <2>1, <3>1, Recount DEF RefOf
    <2> HIDE DEF h2, h3
    <2>6. DOMAIN h3 = DOMAIN h1 /\ SameCounts(h2, h3)
      BY <1>9, <2>1, <2>2, <2>4, <2>5 DEF SamePlaces, SameCounts
    <2>7. /\ "parameters" \in DOMAIN items /\ items["parameters"].kind = "object"
          /\ items["parameters"].of = p
      BY <1>5, <1>12
    <2>8. OneMore(h2, h3, Address, "parameters")
      <3>1. Owning(h2[Address]) = {}
        BY <1>3, <1>7, <2>2 DEF Owning
      <3>2. Owning(h3[Address]) = {"parameters"}
        BY <1>3, <1>5, <1>9, <2>4, <2>7 DEF Owning, Containers
      <3>3. \A m \in DOMAIN h2 \ {Address} : SameOwning(h2[m], h3[m])
        <4> TAKE m \in DOMAIN h2 \ {Address}
        <4>1. m \in DOMAIN heap /\ h2[m].items = h1[m].items /\ h3[m].items = h[m].items
              /\ h[m] = heap[m] /\ h1[m] = heap[m]
          BY <1>3, <1>9, <2>2, <2>4
        <4> QED
          BY <4>1 DEF SameOwning, Owning
      <3> QED
        BY <2>2, <2>6, <3>1, <3>2, <3>3 DEF OneMore
    <2>9. h3[Address].items["parameters"].of = p
      BY <1>3, <1>9, <2>4, <2>7
    <2>10. own2[p] > 0
      BY <1>4, <2>1
    <2>11. Counted(h3, [own2 EXCEPT ![p] = @ - 1])
      <3>1. Address \in DOMAIN h2 /\ p \in DOMAIN h2
        BY <1>3, <2>1, <2>2
      <3> HIDE DEF own2, p
      <3> QED
        BY <2>2, <2>4, <2>6, <2>8, <2>9, <2>10, <3>1, CountedPut
    <2>12. [own2 EXCEPT ![p] = @ - 1] = own
      <3> HIDE DEF p
      <3> QED
        BY <1>4, <2>1, OneAndBack
    <2>13. heap' = h3
      BY <1>1, <1>12 DEF h3
    <2>14. Proper(h3, {})
      BY <1>10, <2>4, ProperKeeps DEF Keeps, SamePlaces
    <2> QED
      BY <1>4, <2>11, <2>12, <2>13, <2>14 DEF Used
  <1> QED
    BY <1>11, <1>12

LEMMA UnpackUsed ==
    ASSUME Used, NEW m \in Objects, NEW name, Unpack(m, name)
    PROVE  Used'
  <1>1. CASE Missing(heap, m, "parameters")
    BY <1>1, NewUsed DEF Unpack, Containers
  <1>2. CASE ~Missing(heap, m, "parameters")
    <2> DEFINE p == heap[m].items["parameters"].of
    <2>1. Found(heap, m, "parameters", "object")
      BY <1>2 DEF Unpack, IsMessage, Optional
    <2>2. "parameters" \in Owning(heap[m])
      BY <2>1 DEF Found, Owning, Containers
    <2>3. p \in Members(heap[m])
      BY <2>2 DEF Members
    <2>4. p \in DOMAIN heap
      BY <2>3, InObjects DEF Used, Counted
    <2>5. heap' = RefOf(heap, p) /\ Hold(p)
      BY <1>2 DEF Unpack
    <2> QED
      BY <2>4, <2>5, RefUsed
  <1> QED
    BY <1>1, <1>2

\* Every call of the program keeps the counts and the values.
LEMMA UseUsed ==
    ASSUME Used, Use
    PROVE  Used'
  <1>1. ASSUME NEW type \in Containers, New(type) PROVE Used'
    BY <1>1, NewUsed
  <1>2. ASSUME NEW n \in Nodes, Ref(n) PROVE Used'
    BY <1>2, RefUsed, ReachableInHeap DEF Ref
  <1>3. ASSUME NEW n \in Nodes, Release(n) PROVE Used'
    BY <1>3, ReleaseUsed
  <1>4. ASSUME NEW o \in Objects, NEW k \in Keys, SetNull(o, k) PROVE Used'
    BY <1>4, SetNullUsed
  <1>5. ASSUME NEW o \in Objects, NEW k \in Keys, NEW v \in Values(o), Set(o, k, v) PROVE Used'
    BY <1>5, SetUsed
  <1>6. ASSUME NEW a \in Arrays, NEW v \in Values(a) \cup {NullValue}, AppendTo(a, v) PROVE Used'
    BY <1>6, AppendUsed
  <1>7. ASSUME NEW name \in {"method", "error"}, NEW named \in BOOLEAN, NEW p \in Objects \cup {NULL},
               NEW flags \in SUBSET Flags(name), Pack(name, named, p, flags)
        PROVE  Used'
    BY <1>7, PackUsed
  <1>8. ASSUME NEW m \in Objects, NEW name, Unpack(m, name) PROVE Used'
    BY <1>8, UnpackUsed
  <1> QED
    BY <1>1, <1>2, <1>3, <1>4, <1>5, <1>6, <1>7, <1>8 DEF Use

-----------------------------------------------------------------------------
(* The reader.                                                             *)

Frames(T) == [node : Nodes, slot : T]

LEMMA StackFacts ==
    ASSUME NEW r, IsReader(r)
    PROVE  /\ Len(r.stack) \in Nat /\ DOMAIN r.stack = 1..Len(r.stack)
           /\ \A j \in DOMAIN r.stack : r.stack[j].node \in Nodes
           /\ r.stack = <<>> <=> Len(r.stack) = 0
           /\ \E T : r.stack \in Seq(Frames(T))
  <1>1. PICK T : r.stack \in Seq(Frames(T))
    BY DEF IsReader, Frames
  <1>2. /\ Len(r.stack) \in Nat /\ DOMAIN r.stack = 1..Len(r.stack)
        /\ \A j \in DOMAIN r.stack : r.stack[j] \in Frames(T)
    BY <1>1, LenProperties
  <1>3. \A f \in Frames(T) : f.node \in Nodes
    BY DEF Frames
  <1>4. r.stack = <<>> <=> Len(r.stack) = 0
    BY <1>1, EmptySeq
  <1> QED
    BY <1>1, <1>2, <1>3, <1>4

LEMMA OpenedList ==
    ASSUME NEW T, NEW s \in Seq(Frames(T))
    PROVE  /\ Opened(s) \in Seq(Nodes) /\ Len(Opened(s)) = Len(s) /\ DOMAIN Opened(s) = DOMAIN s
           /\ \A j \in DOMAIN s : Opened(s)[j] = s[j].node
  <1>0. Len(s) \in Nat /\ DOMAIN s = 1..Len(s) /\ \A j \in 1..Len(s) : s[j] \in Frames(T)
    BY LenProperties
  <1>1. \A j \in 1..Len(s) : s[j].node \in Nodes
    BY <1>0 DEF Frames
  <1>2. Opened(s) = [j \in 1..Len(s) |-> s[j].node]
    BY <1>0 DEF Opened
  <1>3. Opened(s) \in [1..Len(s) -> Nodes]
    BY <1>0, <1>1, <1>2
  <1> QED
    BY <1>0, <1>1, <1>2, <1>3

LEMMA OutsideIsOwing ==
    ASSUME NEW held \in [Nodes -> Nat], NEW r, IsReader(r), r.at # "tail"
    PROVE  Outside(held, r) = Owing(held, Opened(r.stack))
  <1>1. \A n : Count(Opened(r.stack), n) \in Nat
    BY StackFacts, OpenedList, CountType
  <1>2. \A n \in Nodes : held[n] + Count(Opened(r.stack), n) + 0 = held[n] + Count(Opened(r.stack), n)
    BY <1>1
  <1> QED
    BY <1>2 DEF Outside, Owing

\* A node that is counted once is open once.
LEMMA OpenOnce ==
    ASSUME NEW s \in Seq(Nodes), NEW i \in DOMAIN s, NEW j \in DOMAIN s, s[i] = s[j],
           Count(s, s[i]) <= 1
    PROVE  i = j
  <1> DEFINE A == {k \in DOMAIN s : s[k] = s[i]}
  <1>1. IsFiniteSet(A) /\ Cardinality(A) \in Nat /\ Cardinality(A) = Count(s, s[i])
    BY CountType DEF Count
  <1>2. i \in A /\ j \in A
    OBVIOUS
  <1> HIDE DEF A
  <1>3. Cardinality(A) # 0
    BY <1>1, <1>2, FS_EmptySet
  <1>4. Cardinality(A) = 1
    BY <1>1, <1>3
  <1>5. \E x : A = {x}
    BY <1>1, <1>4, FS_Singleton
  <1> QED
    BY <1>2, <1>5

LEMMA CountedOnce ==
    ASSUME NEW s \in Seq(Nodes), NEW i \in DOMAIN s
    PROVE  Count(s, s[i]) \in Nat /\ Count(s, s[i]) >= 1
  <1>1. Count(s, s[i]) \in Nat
    BY CountType
  <1>2. Count(s, s[i]) # 0
    BY CountNone
  <1> QED
    BY <1>1, <1>2

\* What is open has no other owner.
LEMMA OpenAlone ==
    ASSUME NEW h, NEW own, Counted(h, own), NEW held \in [Nodes -> Nat], NEW s \in Seq(Nodes),
           \A n \in Nodes : own[n] >= Owing(held, s)[n],
           NEW j \in DOMAIN s, s[j] \in DOMAIN h, h[s[j]].refcount = 1
    PROVE  /\ held[s[j]] = 0 /\ Places(h, s[j]) = {}
           /\ own[s[j]] = 1
           /\ \A i \in DOMAIN s : s[i] = s[j] => i = j
  <1> DEFINE n == s[j]
  <1>1. n \in Nodes /\ held[n] \in Nat
    OBVIOUS
  <1>2. Count(s, n) \in Nat /\ Count(s, n) >= 1
    BY CountedOnce
  <1>3. own[n] >= held[n] + Count(s, n) /\ own[n] \in Nat
    BY <1>1 DEF Owing, Counted
  <1>4. 1 = own[n] + Cardinality(Places(h, n)) /\ Cardinality(Places(h, n)) \in Nat
    BY FinitePlaces DEF Counted
  <1>5. held[n] = 0 /\ own[n] = 1 /\ Cardinality(Places(h, n)) = 0 /\ Count(s, n) = 1
    BY <1>1, <1>2, <1>3, <1>4
  <1>6. Places(h, n) = {}
    BY <1>5, NoPlaces DEF Counted
  <1>7. \A i \in DOMAIN s : s[i] = s[j] => i = j
    <2> TAKE i \in DOMAIN s
    <2>1. ASSUME s[i] = s[j] PROVE i = j
      <3>1. Count(s, s[i]) <= 1
        BY <1>5, <2>1
      <3> QED
        BY <2>1, <3>1, OpenOnce
    <2> QED
      BY <2>1
  <1> QED
    BY <1>5, <1>6, <1>7

LEMMA OwedAlone ==
    ASSUME NEW h, NEW held \in [Nodes -> Nat], NEW s \in Seq(Nodes), Counted(h, Owing(held, s)),
           NEW j \in DOMAIN s, s[j] \in DOMAIN h, h[s[j]].refcount = 1
    PROVE  held[s[j]] = 0 /\ Places(h, s[j]) = {}
  <1> DEFINE own == Owing(held, s)
  <1>1. own \in [Nodes -> Nat]
    BY DEF Counted
  <1>2. \A n \in Nodes : own[n] >= own[n]
    BY <1>1
  <1>3. Counted(h, own) /\ \A n \in Nodes : own[n] >= Owing(held, s)[n]
    BY <1>2
  <1> HIDE DEF own
  <1> QED
    BY <1>3, OpenAlone

LEMMA KeepsPlaces ==
    ASSUME NEW h, NEW h2, Keeps(h, h2), NEW n
    PROVE  Places(h2, n) \subseteq Places(h, n)
  <1> SUFFICES ASSUME NEW p \in Places(h2, n) PROVE p \in Places(h, n)
    OBVIOUS
  <1>1. p \in References(h2)
    BY DEF Places
  <1>2. PICK m \in DOMAIN h2 : \E i \in Owning(h2[m]) : p = <<m, i>>
    BY <1>1, InReferences
  <1>3. PICK i \in Owning(h2[m]) : p = <<m, i>>
    BY <1>2
  <1>4. h2[m].items[i].of = n
    BY <1>3, InPlaces
  <1>5. m \in DOMAIN h /\ h2[m].items = h[m].items
    BY DEF Keeps
  <1>6. i \in Owning(h[m])
    BY <1>5 DEF Owning
  <1> QED
    BY <1>3, <1>4, <1>5, <1>6, InPlaces

\* The nodes that are open, and how they are, in the middle of a step.
Alone(h, r) == \A j \in DOMAIN r.stack : r.stack[j].node \in DOMAIN h /\ h[r.stack[j].node].refcount = 1
OpenNodes(r) == {r.stack[j].node : j \in DOMAIN r.stack}

LEMMA Resting ==
    ASSUME NEW h, NEW held, NEW r, held \in [Nodes -> Nat], Counted(h, held), Proper(h, {}),
           IsReader(r), r.stack = <<>>, r.at \in {"idle", "start", "done"}, r.stuck => r.at = "done"
    PROVE  Holds(h, held, r)
  <1>1. DOMAIN r.stack = {}
    OBVIOUS
  <1>2. Waiting(r) = {}
    BY <1>1 DEF Waiting
  <1>3. Outside(held, r) = held
    <2>1. Outside(held, r) = Owing(held, Opened(r.stack))
      BY OutsideIsOwing
    <2>2. \A n : Count(Opened(r.stack), n) = 0
      BY <1>1, StackFacts, OpenedList, CountNone
    <2>3. \A n \in Nodes : held[n] + 0 = held[n]
      OBVIOUS
    <2>4. Owing(held, Opened(r.stack)) = [n \in Nodes |-> held[n]]
      BY <2>2, <2>3 DEF Owing
    <2> QED
      BY <2>1, <2>4
  <1>4. Opening(h, r)
    BY <1>1, <1>2 DEF Opening, Reading
  <1> QED
    BY <1>2, <1>3, <1>4 DEF Holds

LEMMA Rested ==
    ASSUME NEW h, NEW held, NEW r, Holds(h, held, r), r.stack = <<>>, r.at # "tail"
    PROVE  Counted(h, held) /\ Proper(h, {}) /\ held \in [Nodes -> Nat] /\ IsReader(r)
  <1>1. DOMAIN r.stack = {} /\ IsReader(r) /\ held \in [Nodes -> Nat]
    BY DEF Holds, Opening
  <1>2. Waiting(r) = {}
    BY <1>1 DEF Waiting
  <1>3. Outside(held, r) = held
    <2>1. Outside(held, r) = Owing(held, Opened(r.stack))
      BY <1>1, OutsideIsOwing
    <2>2. \A n : Count(Opened(r.stack), n) = 0
      BY <1>1, StackFacts, OpenedList, CountNone
    <2>3. \A n \in Nodes : held[n] + 0 = held[n]
      BY <1>1
    <2>4. Owing(held, Opened(r.stack)) = [n \in Nodes |-> held[n]]
      BY <2>2, <2>3 DEF Owing
    <2> QED
      BY <1>1, <2>1, <2>4
  <1> QED
    BY <1>1, <1>2, <1>3 DEF Holds

LEMMA FailedReader ==
    ASSUME NEW r, NEW why,
           r = [at |-> r.at, stack |-> r.stack, source |-> r.source, given |-> r.given,
                written |-> r.written, stuck |-> r.stuck, result |-> r.result, why |-> r.why]
    PROVE  [r EXCEPT !.at = "done", !.stack = <<>>, !.result = NULL, !.why = why]
             = [at |-> "done", stack |-> <<>>, source |-> r.source, given |-> r.given,
                written |-> r.written, stuck |-> r.stuck, result |-> NULL, why |-> why]
  <1> DEFINE r1 == [r EXCEPT !.at = "done"]
             r2 == [r1 EXCEPT !.stack = <<>>]
             r3 == [r2 EXCEPT !.result = NULL]
             r4 == [r3 EXCEPT !.why = why]
  <1>1. r1 = [at |-> "done", stack |-> r.stack, source |-> r.source, given |-> r.given,
              written |-> r.written, stuck |-> r.stuck, result |-> r.result, why |-> r.why]
    OBVIOUS
  <1> HIDE DEF r1
  <1>2. r2 = [at |-> "done", stack |-> <<>>, source |-> r.source, given |-> r.given,
              written |-> r.written, stuck |-> r.stuck, result |-> r.result, why |-> r.why]
    BY <1>1
  <1> HIDE DEF r2
  <1>3. r3 = [at |-> "done", stack |-> <<>>, source |-> r.source, given |-> r.given,
              written |-> r.written, stuck |-> r.stuck, result |-> NULL, why |-> r.why]
    BY <1>2
  <1> HIDE DEF r3
  <1>4. r4 = [at |-> "done", stack |-> <<>>, source |-> r.source, given |-> r.given,
              written |-> r.written, stuck |-> r.stuck, result |-> NULL, why |-> why]
    BY <1>3
  <1> HIDE DEF r4
  <1>5. r4 = [r EXCEPT !.at = "done", !.stack = <<>>, !.result = NULL, !.why = why]
    BY DEF r1, r2, r3, r4
  <1> QED
    BY <1>4, <1>5

\* A failure frees everything that is open, whatever is in it.
LEMMA FailHolds ==
    ASSUME NEW h, NEW held \in [Nodes -> Nat], NEW r, NEW why, IsReader(r),
           Counted(h, Owing(held, Opened(r.stack))), Alone(h, r),
           \A n \in DOMAIN h \ OpenNodes(r) : \A i \in DOMAIN h[n].items :
              ProperItem(h[n], h[n].items[i].kind) /\ h[n].items[i].kind # "undefined",
           Fail(h, r, why), handles' = held
    PROVE  IInv'
  <1> DEFINE s == Opened(r.stack)
             h2 == Unref(h, s)
             r2 == [r EXCEPT !.at = "done", !.stack = <<>>, !.result = NULL, !.why = why]
  <1>1. heap' = h2 /\ reader' = r2
    BY DEF Fail
  <1>2. s \in Seq(Nodes) /\ DOMAIN s = DOMAIN r.stack /\ \A j \in DOMAIN s : s[j] = r.stack[j].node
    BY StackFacts, OpenedList
  <1>3. Counted(h2, held) /\ Keeps(h, h2)
    BY <1>2, CountedUnref
  <1>4. IsReader(r2) /\ r2.at = "done" /\ r2.stack = <<>>
    <2>1. r = [at |-> r.at, stack |-> r.stack, source |-> r.source, given |-> r.given,
               written |-> r.written, stuck |-> r.stuck, result |-> r.result, why |-> r.why]
      BY DEF IsReader
    <2>2. r2 = [at |-> "done", stack |-> <<>>, source |-> r.source, given |-> r.given,
                written |-> r.written, stuck |-> r.stuck, result |-> NULL, why |-> why]
      BY <2>1, FailedReader, Zenon
    <2>3. <<>> \in Seq([node : Nodes, slot : {}])
      OBVIOUS
    <2> HIDE DEF r2
    <2> QED
      BY <2>2, <2>3 DEF IsReader
  <1> HIDE DEF h2, s, r2
  <1>5. \A j \in DOMAIN r.stack : r.stack[j].node \notin DOMAIN h2
    <2> SUFFICES ASSUME NEW j \in DOMAIN r.stack, r.stack[j].node \in DOMAIN h2 PROVE FALSE
      OBVIOUS
    <2> DEFINE n == r.stack[j].node
    <2>1. n = s[j] /\ j \in DOMAIN s /\ n \in DOMAIN h /\ h[n].refcount = 1 /\ n \in Nodes
      BY <1>2 DEF Alone
    <2>2. Counted(h, Owing(held, s))
      BY DEF s
    <2>4. held[n] = 0 /\ Places(h, n) = {}
      <3>2. s[j] \in DOMAIN h /\ h[s[j]].refcount = 1 /\ j \in DOMAIN s
        BY <2>1
      <3>3. held[s[j]] = 0 /\ Places(h, s[j]) = {}
        BY <1>2, <2>2, <3>2, OwedAlone
      <3> QED
        BY <2>1, <3>3
    <2>5. Places(h2, n) = {}
      BY <1>3, <2>4, KeepsPlaces
    <2>6. h2[n].refcount = held[n] + Cardinality(Places(h2, n)) /\ h2[n].refcount > 0
      BY <1>3 DEF Counted
    <2> QED
      BY <2>4, <2>5, <2>6, FS_EmptySet
  <1>6. Proper(h2, {})
    <2> SUFFICES ASSUME NEW n \in DOMAIN h2, NEW i \in DOMAIN h2[n].items
                 PROVE  ProperItem(h2[n], h2[n].items[i].kind) /\ h2[n].items[i].kind # "undefined"
      BY DEF Proper
    <2>1. n \notin OpenNodes(r)
      BY <1>5 DEF OpenNodes
    <2>2. n \in DOMAIN h /\ h2[n].items = h[n].items /\ h2[n].type = h[n].type /\ h2[n].kind = h[n].kind
      BY <1>3 DEF Keeps
    <2>3. ProperItem(h[n], h[n].items[i].kind) /\ h[n].items[i].kind # "undefined"
      BY <2>1, <2>2
    <2> QED
      BY <2>2, <2>3 DEF ProperItem
  <1>7. Holds(h2, held, r2)
    BY <1>3, <1>4, <1>6, Resting
  <1> QED
    BY <1>1, <1>7 DEF IInv

\* Every place that is open.
All(r) == {<<r.stack[j].node, r.stack[j].slot>> : j \in DOMAIN r.stack}

\* The places without a value are there, and have none.
Empty(h, places) == \A p \in places : p[2] \in DOMAIN h[p[1]].items /\ h[p[1]].items[p[2]].kind = "undefined"

\* Another state of the reader.
LEMMA AtOther ==
    ASSUME NEW r, IsReader(r), NEW at \in Reading \cup {"idle", "start", "tail", "done"}
    PROVE  LET r2 == [r EXCEPT !.at = at]
           IN /\ IsReader(r2) /\ r2.at = at /\ r2.stack = r.stack /\ r2.stuck = r.stuck
              /\ r2.result = r.result
  <1> DEFINE r2 == [r EXCEPT !.at = at]
  <1>1. r = [at |-> r.at, stack |-> r.stack, source |-> r.source, given |-> r.given,
             written |-> r.written, stuck |-> r.stuck, result |-> r.result, why |-> r.why]
    BY DEF IsReader
  <1>2. r2 = [at |-> at, stack |-> r.stack, source |-> r.source, given |-> r.given,
              written |-> r.written, stuck |-> r.stuck, result |-> r.result, why |-> r.why]
    BY <1>1
  <1> HIDE DEF r2
  <1>3. r2.at = at /\ r2.stack = r.stack /\ r2.stuck = r.stuck /\ r2.result = r.result
    BY <1>2
  <1>4. IsReader(r2)
    BY <1>2, <1>3 DEF IsReader
  <1> QED
    BY <1>3, <1>4 DEF r2

LEMMA AtPlace ==
    ASSUME NEW r, IsReader(r), NEW at \in Reading, NEW r2, r2 = [r EXCEPT !.at = at]
    PROVE  /\ IsReader(r2) /\ r2.at = at /\ r2.stack = r.stack /\ r2.stuck = r.stuck
           /\ r2.result = r.result
  <1>1. at \in Reading \cup {"idle", "start", "tail", "done"}
    OBVIOUS
  <1> QED
    BY <1>1, AtOther, Zenon

LEMMA ReadingHolds ==
    ASSUME NEW h, NEW held \in [Nodes -> Nat], NEW r, IsReader(r), r.at \in Reading,
           r.stack # <<>>, r.stuck => r.at = "next", Alone(h, r),
           Counted(h, Owing(held, Opened(r.stack))), Proper(h, Waiting(r)), Empty(h, Waiting(r)),
           r.at = "colon" => h[Last(r.stack).node].type = "object"
    PROVE  Holds(h, held, r)
  <1>1. r.at # "tail"
    BY DEF Reading
  <1>2. Counted(h, Outside(held, r))
    BY <1>1, OutsideIsOwing
  <1>3. Opening(h, r)
    BY <1>1 DEF Opening, Alone, Empty
  <1> QED
    BY <1>2, <1>3 DEF Holds

\* The nodes that are open are different ones.
LEMMA OpenDistinct ==
    ASSUME NEW h, NEW own, Counted(h, own), NEW held \in [Nodes -> Nat], NEW r, IsReader(r),
           \A n \in Nodes : own[n] >= Owing(held, Opened(r.stack))[n], Alone(h, r)
    PROVE  \A j \in DOMAIN r.stack :
              /\ own[r.stack[j].node] = 1
              /\ \A i \in DOMAIN r.stack : r.stack[i].node = r.stack[j].node => i = j
  <1> DEFINE s == Opened(r.stack)
  <1>1. s \in Seq(Nodes) /\ DOMAIN s = DOMAIN r.stack /\ \A j \in DOMAIN s : s[j] = r.stack[j].node
    BY StackFacts, OpenedList
  <1> HIDE DEF s
  <1> TAKE j \in DOMAIN r.stack
  <1>2. j \in DOMAIN s /\ s[j] \in DOMAIN h /\ h[s[j]].refcount = 1
    BY <1>1 DEF Alone
  <1>3. \A n \in Nodes : own[n] >= Owing(held, s)[n]
    BY DEF s
  <1>4. own[s[j]] = 1 /\ \A i \in DOMAIN s : s[i] = s[j] => i = j
    BY <1>1, <1>2, <1>3, OpenAlone
  <1> QED
    BY <1>1, <1>4

\* The places that wait, after the innermost has its value.
LEMMA WaitingNext ==
    ASSUME NEW r, IsReader(r), r.stack # <<>>, r.at = "next"
    PROVE  LET d == Len(r.stack)
           IN /\ d \in DOMAIN r.stack /\ Last(r.stack) = r.stack[d]
              /\ \A j \in DOMAIN r.stack : j # d => <<r.stack[j].node, r.stack[j].slot>> \in Waiting(r)
              /\ r.stuck => <<r.stack[d].node, r.stack[d].slot>> \in Waiting(r)
              /\ \A p \in Waiting(r) : \E j \in DOMAIN r.stack :
                    p = <<r.stack[j].node, r.stack[j].slot>> /\ (j = d => r.stuck)
  <1> DEFINE d == Len(r.stack)
  <1>1. d \in Nat /\ DOMAIN r.stack = 1..d /\ d # 0
    BY StackFacts
  <1>2. \A j \in DOMAIN r.stack : Waits(r, j) <=> (j # d \/ r.stuck)
    BY <1>1 DEF Waits
  <1> QED
    BY <1>1, <1>2 DEF Waiting, Last

LEMMA OwingType ==
    ASSUME NEW held \in [Nodes -> Nat], NEW s \in Seq(Nodes)
    PROVE  Owing(held, s) \in [Nodes -> Nat]
  <1>1. \A n \in Nodes : Count(s, n) \in Nat /\ held[n] \in Nat
    BY CountType
  <1> QED
    BY <1>1 DEF Owing

LEMMA MoreType ==
    ASSUME NEW own \in [Nodes -> Nat], NEW value, value.kind \in Containers => value.of \in Nodes
    PROVE  /\ More(own, value) \in [Nodes -> Nat]
           /\ \A n \in Nodes : More(own, value)[n] >= own[n]
           /\ value.kind \in Containers => More(own, value)[value.of] > 0
  <1>1. CASE value.kind \in Containers
    BY <1>1 DEF More
  <1>2. CASE value.kind \notin Containers
    BY <1>2 DEF More
  <1> QED
    BY <1>1, <1>2

\* One item is another.
LEMMA ChangedItem ==
    ASSUME NEW r, IsNode(r), NEW k \in DOMAIN r.items, NEW value
    PROVE  LET items == [r.items EXCEPT ![k] = value]
           IN /\ AreItems(items, r.type) /\ DOMAIN items = DOMAIN r.items \cup {k}
              /\ items[k] = value
              /\ \A i \in DOMAIN r.items \ {k} : items[i] = r.items[i]
  <1> DEFINE items == [r.items EXCEPT ![k] = value]
  <1>1. /\ DOMAIN items = DOMAIN r.items /\ items[k] = value
        /\ \A i \in DOMAIN r.items \ {k} : items[i] = r.items[i]
        /\ items = [i \in DOMAIN items |-> items[i]]
    OBVIOUS
  <1>2. IsFiniteSet(DOMAIN items)
    BY <1>1 DEF IsNode
  <1>3. ASSUME r.type = "array" PROVE \E S : items \in Seq(S)
    <2>1. PICK S : r.items \in Seq(S)
      BY <1>3 DEF IsNode
    <2>2. r.items \in Seq(S \cup {value})
      BY <2>1, SeqMonotonic
    <2>3. DOMAIN r.items = 1..Len(r.items) /\ Len(r.items) \in Nat /\ r.items \in [1..Len(r.items) -> S \cup {value}]
      BY <2>2, LenProperties
    <2> DEFINE n == Len(r.items)
               V == S \cup {value}
    <2>4. items \in [1..n -> V]
      BY <2>3
    <2> HIDE DEF n, V, items
    <2>5. n \in Nat
      BY <2>3 DEF n
    <2>6. items \in Seq(V)
      BY <2>4, <2>5
    <2> QED
      BY <2>6
  <1> HIDE DEF items
  <1>4. AreItems(items, r.type)
    BY <1>1, <1>2, <1>3 DEF AreItems
  <1> QED
    BY <1>1, <1>4 DEF items

\* The heap and the reader when the innermost place has its value, or none.
LEMMA NextHolds ==
    ASSUME NEW h, NEW held \in [Nodes -> Nat], NEW r, IsReader(r), r.stack # <<>>,
           Alone(h, r), Empty(h, All(r)),
           \A i, j \in DOMAIN r.stack : r.stack[i].node = r.stack[j].node => i = j,
           NEW h2, NEW n, n = Last(r.stack).node, NEW k, k = Last(r.stack).slot,
           Counted(h2, Owing(held, Opened(r.stack))), DOMAIN h2 = DOMAIN h,
           \A m \in DOMAIN h : h2[m].refcount = h[m].refcount,
           \A m \in DOMAIN h \ {n} : h2[m].items = h[m].items,
           NEW wait, Proper(h2, wait),
           \A p \in wait : p \in All(r),
           <<n, k>> \in wait => r.stuck \/ k \notin DOMAIN h2[n].items,
           r.stuck => k \in DOMAIN h2[n].items /\ h2[n].items[k].kind = "undefined"
    PROVE  Holds(h2, held, [r EXCEPT !.at = "next"])
  <1> DEFINE r2 == [r EXCEPT !.at = "next"]
             d == Len(r.stack)
  <1>1. IsReader(r2) /\ r2.at = "next" /\ r2.stack = r.stack /\ r2.stuck = r.stuck
    <2>1. "next" \in Reading
      BY DEF Reading
    <2>2. r2 = [r EXCEPT !.at = "next"]
      OBVIOUS
    <2> HIDE DEF r2
    <2> QED
      BY <2>1, <2>2, AtPlace
  <1> HIDE DEF r2
  <1>2. /\ d \in DOMAIN r.stack /\ Last(r.stack) = r.stack[d]
        /\ \A j \in DOMAIN r.stack : j # d => <<r.stack[j].node, r.stack[j].slot>> \in Waiting(r2)
        /\ r.stuck => <<r.stack[d].node, r.stack[d].slot>> \in Waiting(r2)
        /\ \A p \in Waiting(r2) : \E j \in DOMAIN r.stack :
              p = <<r.stack[j].node, r.stack[j].slot>> /\ (j = d => r.stuck)
    <2> DEFINE e == Len(r2.stack)
    <2>1. /\ e \in DOMAIN r2.stack /\ Last(r2.stack) = r2.stack[e]
          /\ \A j \in DOMAIN r2.stack :
                j # e => <<r2.stack[j].node, r2.stack[j].slot>> \in Waiting(r2)
          /\ r2.stuck => <<r2.stack[e].node, r2.stack[e].slot>> \in Waiting(r2)
          /\ \A p \in Waiting(r2) : \E j \in DOMAIN r2.stack :
                p = <<r2.stack[j].node, r2.stack[j].slot>> /\ (j = e => r2.stuck)
      <3>1. r2.stack # <<>>
        BY <1>1
      <3> QED
        BY <1>1, <3>1, WaitingNext, Zenon
    <2>2. d = e
      BY <1>1
    <2> HIDE DEF d, e
    <2> QED
      BY <1>1, <2>1, <2>2
  <1> HIDE DEF d
  <1>3. n = r.stack[d].node /\ k = r.stack[d].slot
    BY <1>2
  <1>4. Alone(h2, r2)
    BY <1>1 DEF Alone
  <1>5. Empty(h2, Waiting(r2))
    <2> SUFFICES ASSUME NEW p \in Waiting(r2)
                 PROVE  p[2] \in DOMAIN h2[p[1]].items /\ h2[p[1]].items[p[2]].kind = "undefined"
      BY DEF Empty
    <2>1. PICK j \in DOMAIN r.stack : p = <<r.stack[j].node, r.stack[j].slot>> /\ (j = d => r.stuck)
      BY <1>2
    <2>2. p[1] = r.stack[j].node /\ p[2] = r.stack[j].slot
      BY <2>1
    <2>3. CASE j = d
      BY <1>3, <2>1, <2>2, <2>3
    <2>4. CASE j # d
      <3>1. p[1] # n /\ p[1] \in DOMAIN h
        BY <1>2, <1>3, <2>2, <2>4 DEF Alone
      <3>2. p \in All(r)
        BY <2>1 DEF All
      <3>3. p[2] \in DOMAIN h[p[1]].items /\ h[p[1]].items[p[2]].kind = "undefined"
        BY <3>2 DEF Empty
      <3> QED
        BY <3>1, <3>3
    <2> QED
      BY <2>3, <2>4
  <1>6. Proper(h2, Waiting(r2))
    <2> SUFFICES ASSUME NEW m \in DOMAIN h2, NEW i \in DOMAIN h2[m].items
                 PROVE  /\ ProperItem(h2[m], h2[m].items[i].kind)
                        /\ h2[m].items[i].kind = "undefined" => <<m, i>> \in Waiting(r2)
      BY DEF Proper
    <2>1. /\ ProperItem(h2[m], h2[m].items[i].kind)
          /\ h2[m].items[i].kind = "undefined" => <<m, i>> \in wait
      BY DEF Proper
    <2>2. ASSUME <<m, i>> \in wait PROVE <<m, i>> \in Waiting(r2)
      <3>1. PICK j \in DOMAIN r.stack : <<m, i>> = <<r.stack[j].node, r.stack[j].slot>>
        BY <2>2 DEF All
      <3>2. CASE j # d
        BY <1>2, <3>1, <3>2
      <3>3. CASE j = d
        <4>1. m = n /\ i = k /\ <<m, i>> = <<n, k>>
          BY <1>3, <3>1, <3>3
        <4>2. r.stuck
          BY <2>2, <4>1
        <4> QED
          BY <1>2, <3>1, <3>3, <4>2
      <3> QED
        BY <3>2, <3>3
    <2> QED
      BY <2>1, <2>2
  <1>7. Counted(h2, Owing(held, Opened(r2.stack)))
    BY <1>1
  <1>8. Holds(h2, held, r2)
    BY <1>1, <1>4, <1>5, <1>6, <1>7, ReadingHolds DEF Reading
  <1> QED
    BY <1>8 DEF r2

\* A value that was read comes to its place, or is refused there.
LEMMA DeliverHolds ==
    ASSUME NEW h, NEW held \in [Nodes -> Nat], NEW r, NEW value, IsReader(r), r.stack # <<>>,
           Counted(h, More(Owing(held, Opened(r.stack)), value)),
           value.kind \in Containers => value.of \in DOMAIN h,
           Alone(h, r), Proper(h, All(r)), Empty(h, All(r)),
           value.kind = "undefined" <=> r.stuck,
           Deliver(h, r, value), handles' = held
    PROVE  IInv'
  <1> DEFINE frame == Last(r.stack)
             n == frame.node
             k == frame.slot
             own == Owing(held, Opened(r.stack))
             more == More(own, value)
             items == [h[n].items EXCEPT ![k] = value]
             placed == [h EXCEPT ![n].items[k] = value]
             r2 == [r EXCEPT !.at = "next"]
  <1>1. /\ n \in DOMAIN h /\ n \in Nodes /\ h[n].refcount = 1 /\ n \in OpenNodes(r)
        /\ <<n, k>> \in All(r)
    <2> DEFINE d == Len(r.stack)
    <2>1. d \in Nat /\ DOMAIN r.stack = 1..d /\ d # 0 /\ \A j \in DOMAIN r.stack : r.stack[j].node \in Nodes
      BY StackFacts
    <2>2. d \in DOMAIN r.stack /\ frame = r.stack[d]
      BY <2>1 DEF Last
    <2> HIDE DEF d, frame
    <2> QED
      BY <2>1, <2>2 DEF Alone, OpenNodes, All
  <1>2. k \in DOMAIN h[n].items /\ h[n].items[k].kind = "undefined" /\ k \notin Owning(h[n])
    <2>1. <<n, k>>[1] = n /\ <<n, k>>[2] = k
      OBVIOUS
    <2>2. k \in DOMAIN h[n].items /\ h[n].items[k].kind = "undefined"
      BY <1>1, <2>1 DEF Empty
    <2> QED
      BY <2>2 DEF Owning, Containers
  <1>3. IsHeap(h) /\ IsNode(h[n]) /\ h[n].type \in Containers
    BY <1>1 DEF Counted, IsHeap, IsNode
  <1>4. own \in [Nodes -> Nat] /\ Opened(r.stack) \in Seq(Nodes)
    BY StackFacts, OpenedList, OwingType
  <1>5. value.kind \in Containers => value.of \in Nodes
    BY <1>3 DEF IsHeap
  <1>6. /\ Counted(h, more) /\ \A m \in Nodes : more[m] >= own[m]
        /\ value.kind \in Containers => more[value.of] > 0
    BY <1>4, <1>5, MoreType
  <1>7. \A i, j \in DOMAIN r.stack : r.stack[i].node = r.stack[j].node => i = j
    <2> HIDE DEF more
    <2> QED
      BY <1>6, OpenDistinct
  <1>8. /\ AreItems(items, h[n].type) /\ DOMAIN items = DOMAIN h[n].items \cup {k}
        /\ items[k] = value
        /\ \A i \in DOMAIN h[n].items \ {k} : items[i] = h[n].items[i]
    <2> HIDE DEF k, n
    <2> QED
      BY <1>2, <1>3, ChangedItem
  <1>9. placed = [h EXCEPT ![n].items = items]
    OBVIOUS
  <1>10. Less(more, value) = own
    BY <1>4, <1>5, MoreLess
  <1> HIDE DEF items, placed, own, more
  <1>11. ASSUME NEW h2, NEW kind, Renewed(h, h2, n, items, kind)
         PROVE  /\ Counted(h2, own) /\ DOMAIN h2 = DOMAIN h
                /\ \A m \in DOMAIN h : h2[m].refcount = h[m].refcount
                /\ \A m \in DOMAIN h \ {n} : h2[m] = h[m]
                /\ h2[n].items = items
    <2>1. Counted(h2, Less(more, items[k]))
      <3>1. items[k].kind \in Containers => items[k].of \in DOMAIN h /\ more[items[k].of] > 0
        BY <1>6, <1>8
      <3> HIDE DEF n, k
      <3> QED
        BY <1>1, <1>2, <1>6, <1>8, <1>11, <3>1, CountedItem
    <2>2. Counted(h2, own)
      BY <1>8, <1>10, <2>1
    <2>3. /\ DOMAIN h2 = DOMAIN h /\ h2[n].items = items
          /\ \A m \in DOMAIN h \ {n} : h2[m] = h[m]
          /\ h2[n].refcount = h[n].refcount
      BY <1>11 DEF Renewed
    <2> QED
      BY <2>2, <2>3
  <1>12. Renewed(h, placed, n, items, h[n].kind)
    <2> HIDE DEF n
    <2> QED
      BY <1>1, <1>3, <1>8, <1>9, NewItems
  <1>13. CASE h[n].type = "object" /\ value.kind = "null"
    <2> DEFINE h2 == RemoveField(h, n, k)
    <2>1. heap' = h2 /\ reader' = r2
      BY <1>13 DEF Deliver, Placed
    <2>2. more = own /\ ~r.stuck
      BY <1>13 DEF more, More, Containers
    <2>3. /\ Counted(h2, own) /\ Removed(h, h2, n, k) /\ DOMAIN h2 = DOMAIN h
          /\ \A m \in DOMAIN h : h2[m].refcount = h[m].refcount
      <3>1. h[n].items[k].kind \notin Containers
        BY <1>2 DEF Containers
      <3>2. Counted(h, own)
        BY <1>6, <2>2
      <3> HIDE DEF n, k
      <3> QED
        BY <1>1, <1>2, <1>13, <3>1, <3>2, CountedRemove
    <2>4. Proper(h2, All(r))
      <3> HIDE DEF n, k, h2
      <3> QED
        BY <1>1, <2>3, ProperRemoved
    <2> HIDE DEF h2
    <2>5. /\ \A m \in DOMAIN h \ {n} : h2[m].items = h[m].items
          /\ k \notin DOMAIN h2[n].items
      BY <1>1, <2>3 DEF Removed, Without
    <2>6. \A p \in All(r) : p \in All(r)
      OBVIOUS
    <2>7. Counted(h2, Owing(held, Opened(r.stack)))
      BY <2>3 DEF own
    <2>8. Holds(h2, held, r2)
      BY <1>7, <2>2, <2>3, <2>4, <2>5, <2>7, NextHolds
    <2> QED
      BY <2>1, <2>8 DEF IInv
  <1>14. CASE ~(h[n].type = "object" /\ value.kind = "null")
    <2>1. Placed(h, frame, value) = placed
      BY <1>14 DEF Placed, placed
    <2>2. CASE h[n].type = "array" /\ ~Fitting(h[n], value)
      <3>1. Fail(placed, r, "type")
        BY <2>1, <2>2 DEF Deliver
      <3>2. /\ Counted(placed, own) /\ DOMAIN placed = DOMAIN h
            /\ \A m \in DOMAIN h : placed[m].refcount = h[m].refcount
            /\ \A m \in DOMAIN h \ {n} : placed[m] = h[m]
        BY <1>11, <1>12
      <3>3. Alone(placed, r)
        BY <3>2 DEF Alone
      <3>4. \A m \in DOMAIN placed \ OpenNodes(r) : \A i \in DOMAIN placed[m].items :
               ProperItem(placed[m], placed[m].items[i].kind) /\ placed[m].items[i].kind # "undefined"
        <4> SUFFICES ASSUME NEW m \in DOMAIN placed \ OpenNodes(r), NEW i \in DOMAIN placed[m].items
                     PROVE  /\ ProperItem(placed[m], placed[m].items[i].kind)
                            /\ placed[m].items[i].kind # "undefined"
          OBVIOUS
        <4>1. m \in DOMAIN h \ {n} /\ placed[m] = h[m]
          BY <1>1, <3>2
        <4>2. /\ ProperItem(h[m], h[m].items[i].kind)
              /\ h[m].items[i].kind = "undefined" => <<m, i>> \in All(r)
          BY <4>1 DEF Proper
        <4>3. <<m, i>> \notin All(r)
          BY DEF All, OpenNodes
        <4> QED
          BY <4>1, <4>2, <4>3
      <3> QED
        BY <3>1, <3>2, <3>3, <3>4, FailHolds DEF own
    <2>3. CASE ~(h[n].type = "array" /\ ~Fitting(h[n], value))
      <3> DEFINE kind == IF h[n].type = "array" THEN KindAfter(h[n], value) ELSE h[n].kind
                 h2 == IF h[n].type = "array" THEN [placed EXCEPT ![n].kind = kind] ELSE placed
      <3>1. heap' = h2 /\ reader' = r2
        BY <2>1, <2>3 DEF Deliver
      <3>2. Renewed(h, h2, n, items, kind)
        <4>1. CASE h[n].type = "array"
          <5>1. h2 = [h EXCEPT ![n].items = items, ![n].kind = kind]
            BY <1>9, <4>1
          <5> HIDE DEF n, kind, h2
          <5> QED
            BY <1>1, <1>3, <1>8, <5>1, NewItems
        <4>2. CASE h[n].type # "array"
          <5>1. h2 = placed /\ kind = h[n].kind
            BY <4>2
          <5> HIDE DEF h2, kind
          <5> QED
            BY <1>12, <5>1
        <4> QED
          BY <4>1, <4>2
      <3> HIDE DEF h2
      <3>3. /\ Counted(h2, own) /\ DOMAIN h2 = DOMAIN h
            /\ \A m \in DOMAIN h : h2[m].refcount = h[m].refcount
            /\ \A m \in DOMAIN h \ {n} : h2[m] = h[m]
            /\ h2[n].items = items
        BY <1>11, <3>2
      <3>4. kind = h[n].kind \/ h[n].kind = "undefined"
        BY <2>3 DEF Fitting, KindAfter
      <3>5. ProperItem(h2[n], value.kind)
        <4>1. h2[n].kind = kind /\ h2[n].type = h[n].type
          BY <3>2 DEF Renewed
        <4> QED
          BY <1>14, <2>3, <4>1 DEF ProperItem, KindAfter
      <3> DEFINE wait == IF r.stuck THEN All(r) ELSE All(r) \ {<<n, k>>}
      <3>6. Proper(h2, wait)
        <4>1. items[k].kind = "undefined" => <<n, k>> \in wait
          BY <1>1, <1>8
        <4>2. \A m, i : <<m, i>> \in All(r) /\ <<m, i>> # <<n, k>> => <<m, i>> \in wait
          OBVIOUS
        <4>3. /\ ProperItem(h2[n], items[k].kind)
              /\ DOMAIN items = DOMAIN h[n].items \cup {k}
              /\ \A i \in DOMAIN h[n].items \ {k} : items[i] = h[n].items[i]
          BY <1>8, <3>5
        <4> HIDE DEF wait, kind, n, k
        <4> QED
          BY <1>1, <3>2, <3>4, <4>1, <4>2, <4>3, ProperAdded
      <3>7. /\ \A p \in wait : p \in All(r)
            /\ <<n, k>> \in wait => r.stuck
        OBVIOUS
      <3>8. r.stuck => k \in DOMAIN h2[n].items /\ h2[n].items[k].kind = "undefined"
        BY <1>8, <3>3
      <3>9. Counted(h2, Owing(held, Opened(r.stack)))
        BY <3>3 DEF own
      <3> HIDE DEF wait
      <3>10. Holds(h2, held, r2)
        BY <1>7, <3>3, <3>6, <3>7, <3>8, <3>9, NextHolds
      <3> QED
        BY <3>1, <3>10 DEF IInv
    <2> QED
      BY <2>2, <2>3
  <1> QED
    BY <1>13, <1>14

\* What is read next: nothing else of the reader changes.
LEMMA PastFacts ==
    ASSUME IsReader(reader), NEW t
    PROVE  /\ IsReader(Past(t)) /\ Past(t).stack = reader.stack /\ Past(t).at = reader.at
           /\ Past(t).result = reader.result /\ Past(t).stuck = FALSE
  <1> DEFINE source == IF reader.stuck THEN reader.source ELSE Append(reader.source, t)
             given == IF reader.given = <<>> THEN reader.given ELSE Tail(reader.given)
             r == reader
             no == FALSE
             r1 == [r EXCEPT !.source = source]
             r2 == [r1 EXCEPT !.given = given]
             r3 == [r2 EXCEPT !.stuck = no]
  <1>0. Past(t) = r3
    BY DEF Past
  <1>1. r = [at |-> r.at, stack |-> r.stack, source |-> r.source, given |-> r.given,
             written |-> r.written, stuck |-> r.stuck, result |-> r.result, why |-> r.why]
    BY DEF IsReader
  <1> HIDE DEF source, given, r, no
  <1>2. r1 = [at |-> r.at, stack |-> r.stack, source |-> source, given |-> r.given,
              written |-> r.written, stuck |-> r.stuck, result |-> r.result, why |-> r.why]
    BY <1>1
  <1> HIDE DEF r1
  <1>3. r2 = [at |-> r.at, stack |-> r.stack, source |-> source, given |-> given,
              written |-> r.written, stuck |-> r.stuck, result |-> r.result, why |-> r.why]
    BY <1>2
  <1> HIDE DEF r2
  <1>4. r3 = [at |-> r.at, stack |-> r.stack, source |-> source, given |-> given,
              written |-> r.written, stuck |-> no, result |-> r.result, why |-> r.why]
    BY <1>3
  <1> HIDE DEF r3
  <1>5. /\ r3.at = r.at /\ r3.stack = r.stack /\ r3.stuck = no /\ r3.result = r.result
        /\ r3 = [at |-> r3.at, stack |-> r3.stack, source |-> r3.source, given |-> r3.given,
                 written |-> r3.written, stuck |-> r3.stuck, result |-> r3.result, why |-> r3.why]
    BY <1>4
  <1>6. IsReader(r3)
    BY <1>5 DEF IsReader, r, no
  <1> QED
    BY <1>0, <1>5, <1>6 DEF r, no

\* The reader with another stack.
LEMMA StackOther ==
    ASSUME NEW r, IsReader(r), NEW T, NEW s \in Seq(Frames(T))
    PROVE  LET r2 == [r EXCEPT !.stack = s]
           IN /\ IsReader(r2) /\ r2.stack = s /\ r2.at = r.at /\ r2.stuck = r.stuck
              /\ r2.result = r.result
  <1> DEFINE r2 == [r EXCEPT !.stack = s]
  <1>1. r = [at |-> r.at, stack |-> r.stack, source |-> r.source, given |-> r.given,
             written |-> r.written, stuck |-> r.stuck, result |-> r.result, why |-> r.why]
    BY DEF IsReader
  <1>2. r2 = [at |-> r.at, stack |-> s, source |-> r.source, given |-> r.given,
              written |-> r.written, stuck |-> r.stuck, result |-> r.result, why |-> r.why]
    BY <1>1
  <1> HIDE DEF r2
  <1>3. r2.stack = s /\ r2.at = r.at /\ r2.stuck = r.stuck /\ r2.result = r.result
    BY <1>2
  <1>4. \E U : r2.stack \in Seq([node : Nodes, slot : U])
    BY <1>3 DEF Frames
  <1>5. IsReader(r2)
    BY <1>2, <1>3, <1>4 DEF IsReader
  <1> QED
    BY <1>3, <1>5 DEF r2

\* Nodes that are not open have values in all their places.
LEMMA FailAll ==
    ASSUME NEW h, NEW held \in [Nodes -> Nat], NEW r, NEW why, IsReader(r),
           Counted(h, Owing(held, Opened(r.stack))), Alone(h, r), Proper(h, All(r)),
           Fail(h, r, why), handles' = held
    PROVE  IInv'
  <1>1. \A n \in DOMAIN h \ OpenNodes(r) : \A i \in DOMAIN h[n].items :
           ProperItem(h[n], h[n].items[i].kind) /\ h[n].items[i].kind # "undefined"
    <2> SUFFICES ASSUME NEW n \in DOMAIN h \ OpenNodes(r), NEW i \in DOMAIN h[n].items
                 PROVE  ProperItem(h[n], h[n].items[i].kind) /\ h[n].items[i].kind # "undefined"
      OBVIOUS
    <2>1. /\ ProperItem(h[n], h[n].items[i].kind)
          /\ h[n].items[i].kind = "undefined" => <<n, i>> \in All(r)
      BY DEF Proper
    <2>2. <<n, i>> \notin All(r)
      BY DEF All, OpenNodes
    <2> QED
      BY <2>1, <2>2
  <1> QED
    BY <1>1, FailHolds

\* One frame more: f.
Pushed(s, s2, f) ==
    /\ (\E T : s2 \in Seq(Frames(T))) /\ s2 # <<>>
    /\ Len(s) \in Nat /\ Len(s2) = Len(s) + 1 /\ DOMAIN s = 1..Len(s)
    /\ DOMAIN s2 = 1..Len(s2)
    /\ \A j \in DOMAIN s : s2[j] = s[j]
    /\ s2[Len(s2)] = f
    /\ Opened(s2) = Append(Opened(s), f.node)

LEMMA PushStack ==
    ASSUME NEW T, NEW s \in Seq(Frames(T)), NEW n \in Nodes, NEW x,
           NEW f, f = [node |-> n, slot |-> x], NEW s2, s2 = Append(s, f)
    PROVE  Pushed(s, s2, f) /\ f.node = n
  <1> DEFINE V == Frames(T \cup {x})
  <1>1. f \in V /\ f.node = n
    BY DEF Frames
  <1>2. Frames(T) \subseteq V
    BY DEF Frames
  <1>3. s \in Seq(V)
    BY <1>2, SeqMonotonic
  <1> HIDE DEF V
  <1>4. /\ s2 \in Seq(V) /\ Len(s2) = Len(s) + 1 /\ Len(s) \in Nat /\ DOMAIN s = 1..Len(s)
        /\ DOMAIN s2 = 1..Len(s2) /\ s2 # <<>>
        /\ \A j \in 1..Len(s) : s2[j] = s[j]
        /\ s2[Len(s2)] = f
    BY <1>1, <1>3, AppendProperties, LenProperties
  <1>5. /\ Opened(s) \in Seq(Nodes) /\ Len(Opened(s)) = Len(s)
        /\ \A j \in DOMAIN s : Opened(s)[j] = s[j].node
    BY OpenedList
  <1>6. /\ Opened(s2) \in Seq(Nodes) /\ Len(Opened(s2)) = Len(s2)
        /\ \A j \in DOMAIN s2 : Opened(s2)[j] = s2[j].node
    BY <1>4, OpenedList DEF V
  <1>7. Opened(s2) = Append(Opened(s), n)
    <2> DEFINE a == Opened(s)
               b == Opened(s2)
               c == Append(a, n)
    <2>1. /\ c \in Seq(Nodes) /\ Len(c) = Len(s) + 1 /\ c[Len(s) + 1] = n
          /\ \A j \in 1..Len(s) : c[j] = a[j]
      BY <1>5, AppendProperties
    <2>2. b \in Seq(Nodes) /\ Len(b) = Len(s) + 1
      BY <1>4, <1>6
    <2>3. \A j \in 1..Len(s) : b[j] = a[j]
      <3> SUFFICES ASSUME NEW j \in 1..Len(s) PROVE b[j] = a[j]
        OBVIOUS
      <3>1. j \in DOMAIN s /\ j \in DOMAIN s2
        BY <1>4
      <3>2. b[j] = s2[j].node /\ a[j] = s[j].node
        BY <3>1, <1>5, <1>6, Zenon
      <3>3. s2[j] = s[j]
        BY <1>4, Zenon
      <3> QED
        BY <3>2, <3>3, Zenon
    <2>4. b[Len(s) + 1] = n
      BY <1>1, <1>4, <1>6
    <2> HIDE DEF a, b, c
    <2>5. \A j \in 1..Len(b) : b[j] = c[j]
      BY <1>4, <2>1, <2>2, <2>3, <2>4
    <2> QED
      BY <1>4, <2>1, <2>2, <2>5, SeqEqual DEF a, b, c
  <1> QED
    BY <1>1, <1>4, <1>7 DEF V, Pushed

\* A new object or array is open.
LEMMA DescendHolds ==
    ASSUME NEW h, NEW held \in [Nodes -> Nat], NEW r, NEW type \in Containers, IsReader(r), ~r.stuck,
           Counted(h, Owing(held, Opened(r.stack))), Alone(h, r), Proper(h, All(r)), Empty(h, All(r)),
           DOMAIN h = DOMAIN heap, Descend(h, r, type), handles' = held
    PROVE  IInv'
  <1> DEFINE a == Address
             s == r.stack
             own == Owing(held, Opened(s))
             f == [node |-> a, slot |-> 0]
             h2 == With(h, a, Node(type))
             r1 == [r EXCEPT !.at = "open"]
             r2 == [r1 EXCEPT !.stack = Append(s, f)]
  <1>1. CASE Free = {}
    BY <1>1, FailAll DEF Descend
  <1>2. CASE Free # {}
    <2>1. a \in Nodes \ DOMAIN h
      BY <1>2, FreeAddress
    <2>2. heap' = h2 /\ reader' = r2
      <3>1. reader' = [r EXCEPT !.at = "open", !.stack = Append(@, f)]
        BY <1>2 DEF Descend
      <3>2. r1.stack = s
        BY DEF IsReader
      <3>3. [r EXCEPT !.at = "open", !.stack = Append(@, f)] = [r1 EXCEPT !.stack = Append(@, f)]
        OBVIOUS
      <3>4. heap' = h2
        BY <1>2 DEF Descend
      <3> HIDE DEF r1, f
      <3> QED
        BY <3>1, <3>2, <3>3, <3>4 DEF r1
    <2> HIDE DEF a
    <2>3. /\ Counted(h2, [own EXCEPT ![a] = 1]) /\ own[a] = 0
          /\ DOMAIN h2 = DOMAIN h \cup {a}
          /\ h2[a] = Node(type) /\ \A m \in DOMAIN h : h2[m] = h[m]
      <3> HIDE DEF own
      <3> QED
        BY <2>1, CountedNew DEF own
    <2>4. PICK T : s \in Seq(Frames(T))
      BY StackFacts
    <2> DEFINE s2 == Append(s, f)
    <2>5. Pushed(s, s2, f) /\ f.node = a
      <3>1. a \in Nodes
        BY <2>1
      <3>2. f = [node |-> a, slot |-> 0] /\ s2 = Append(s, f)
        OBVIOUS
      <3> HIDE DEF s, f, s2
      <3>3. s \in Seq(Frames(T))
        BY <2>4
      <3>4. ASSUME NEW x, f = [node |-> a, slot |-> x] PROVE Pushed(s, s2, f)
        BY <3>1, <3>2, <3>3, <3>4, PushStack
      <3>5. f.node = a
        BY <3>2
      <3> QED
        BY <3>2, <3>4, <3>5
    <2>a. /\ (\E U : s2 \in Seq(Frames(U))) /\ s2 # <<>>
          /\ Len(s) \in Nat /\ Len(s2) = Len(s) + 1 /\ DOMAIN s = 1..Len(s)
          /\ DOMAIN s2 = 1..Len(s2)
          /\ \A j \in DOMAIN s : s2[j] = s[j]
          /\ s2[Len(s2)] = f
          /\ Opened(s2) = Append(Opened(s), a)
      BY <2>5 DEF Pushed
    <2>6. IsReader(r1) /\ r1.at = "open" /\ r1.stack = s /\ r1.stuck = r.stuck
      <3>1. "open" \in Reading
        BY DEF Reading
      <3>2. r1 = [r EXCEPT !.at = "open"]
        OBVIOUS
      <3> HIDE DEF r1
      <3> QED
        BY <3>1, <3>2, AtPlace
    <2>7. IsReader(r2) /\ r2.at = "open" /\ r2.stack = s2 /\ ~r2.stuck
      <3> HIDE DEF r1, s2, s
      <3>1. r2 = [r1 EXCEPT !.stack = s2]
        BY DEF s2
      <3> HIDE DEF r2
      <3> QED
        BY <2>a, <2>6, <3>1, StackOther
    <2>8. h2[a].refcount = 1 /\ DOMAIN h2[a].items = {} /\ f.node = a
      BY <2>3, EmptyNode
    <2> HIDE DEF h2, r2, r1, s2, f
    <2>9. Counted(h2, Owing(held, Opened(r2.stack)))
      <3>1. Owing(held, Opened(s2)) = [own EXCEPT ![a] = 1]
        <4> DEFINE o == Opened(s)
                   o2 == Append(o, a)
        <4>1. o \in Seq(Nodes)
          BY <2>4, OpenedList
        <4>2. own \in [Nodes -> Nat] /\ \A n \in Nodes : own[n] = held[n] + Count(o, n)
          BY <4>1, OwingType DEF Owing
        <4>3. \A n \in Nodes : Count(o2, n) = Count(o, n) + (IF a = n THEN 1 ELSE 0) /\ Count(o, n) \in Nat
          <5>1. a \in Nodes
            BY <2>1
          <5> HIDE DEF o
          <5>2. \A n : Count(o2, n) = Count(o, n) + (IF a = n THEN 1 ELSE 0)
            BY <4>1, <5>1, CountAppend, Zenon
          <5>3. \A n : Count(o, n) \in Nat
            BY <4>1, CountType
          <5> QED
            BY <5>2, <5>3
        <4> HIDE DEF o, o2, own
        <4>4. \A n \in Nodes : held[n] + Count(o2, n) = [own EXCEPT ![a] = 1][n]
          <5> TAKE n \in Nodes
          <5>1. CASE n = a
            <6>1. own[n] = 0 /\ [own EXCEPT ![a] = 1][n] = 1 /\ Count(o2, n) = Count(o, n) + 1
              BY <2>1, <2>3, <4>2, <4>3, <5>1
            <6>2. held[n] + Count(o, n) = 0 /\ held[n] \in Nat /\ Count(o, n) \in Nat
              BY <4>2, <4>3, <6>1
            <6> QED
              BY <6>1, <6>2
          <5>2. CASE n # a
            <6>1. [own EXCEPT ![a] = 1][n] = own[n] /\ Count(o2, n) = Count(o, n)
              BY <4>2, <4>3, <5>2
            <6> QED
              BY <4>2, <6>1
          <5> QED
            BY <5>1, <5>2
        <4>5. [n \in Nodes |-> held[n] + Count(o2, n)] = [own EXCEPT ![a] = 1]
          BY <4>2, <4>4
        <4> QED
          BY <2>a, <4>5 DEF Owing, o, o2
      <3> HIDE DEF own
      <3> QED
        BY <2>3, <2>7, <3>1
    <2>10. Alone(h2, r2)
      <3> SUFFICES ASSUME NEW j \in DOMAIN s2
                   PROVE  s2[j].node \in DOMAIN h2 /\ h2[s2[j].node].refcount = 1
        BY <2>7 DEF Alone
      <3>1. CASE j \in DOMAIN s
        BY <2>3, <2>a, <3>1 DEF Alone
      <3>2. CASE j = Len(s2)
        BY <2>3, <2>a, <2>8, <3>2
      <3> QED
        BY <2>a, <3>1, <3>2
    <2>11. \A p : p \in Waiting(r2) <=> p \in All(r)
      <3>1. \A j \in DOMAIN s2 : Waits(r2, j) <=> j \in DOMAIN s
        BY <2>a, <2>7 DEF Waits
      <3>2. \A j \in DOMAIN s : j \in DOMAIN s2
        BY <2>a
      <3> QED
        BY <2>a, <2>7, <3>1, <3>2 DEF Waiting, All
    <2>12. \A p \in All(r) : p[1] \in DOMAIN h
      BY DEF All, Alone
    <2>13. Empty(h2, Waiting(r2))
      BY <2>3, <2>11, <2>12 DEF Empty
    <2>14. Proper(h2, Waiting(r2))
      <3> SUFFICES ASSUME NEW n \in DOMAIN h2, NEW i \in DOMAIN h2[n].items
                   PROVE  /\ ProperItem(h2[n], h2[n].items[i].kind)
                          /\ h2[n].items[i].kind = "undefined" => <<n, i>> \in Waiting(r2)
        BY DEF Proper
      <3>1. n \in DOMAIN h /\ h2[n] = h[n]
        BY <2>3, <2>8
      <3>2. /\ ProperItem(h[n], h[n].items[i].kind)
            /\ h[n].items[i].kind = "undefined" => <<n, i>> \in All(r)
        BY <3>1 DEF Proper
      <3> QED
        BY <2>11, <3>1, <3>2
    <2>15. Holds(h2, held, r2)
      BY <2>a, <2>7, <2>9, <2>10, <2>13, <2>14, ReadingHolds DEF Reading
    <2> QED
      BY <2>2, <2>15 DEF IInv
  <1> QED
    BY <1>1, <1>2

\* One frame less.
LEMMA PopStack ==
    ASSUME NEW T, NEW s \in Seq(Frames(T)), s # <<>>
    PROVE  /\ Front(s) \in Seq(Frames(T)) /\ Pushed(Front(s), s, Last(s))
           /\ Last(s).node \in Nodes
  <1> DEFINE d == Len(s)
             out == Front(s)
             f == Last(s)
  <1>1. /\ d \in Nat /\ d # 0 /\ DOMAIN s = 1..d /\ \A j \in 1..d : s[j] \in Frames(T)
    BY LenProperties, EmptySeq
  <1>2. out = SubSeq(s, 1, d - 1) /\ f = s[d] /\ d \in 1..d
    BY <1>1 DEF Front, Last
  <1>3. /\ out \in Seq(Frames(T)) /\ Len(out) = d - 1
        /\ \A j \in 1..(d - 1) : out[j] = s[j]
    <2> HIDE DEF out
    <2>1. d - 1 \in Int /\ 1 \in Int /\ \A i \in 1..(d - 1) : i \in 1..d
      BY <1>1
    <2>2. /\ SubSeq(s, 1, d - 1) \in Seq(Frames(T))
          /\ Len(SubSeq(s, 1, d - 1)) = IF 1 <= d - 1 THEN d - 1 - 1 + 1 ELSE 0
          /\ \A i \in 1..(d - 1 - 1 + 1) : SubSeq(s, 1, d - 1)[i] = s[1 + i - 1]
      BY <1>1, <2>1, SubSeqProperties
    <2> HIDE DEF d
    <2> QED
      BY <1>1, <1>2, <2>2
  <1>4. f \in Frames(T) /\ f.node \in Nodes /\ f = [node |-> f.node, slot |-> f.slot]
    <2>1. f \in Frames(T)
      BY <1>1, <1>2
    <2> HIDE DEF f
    <2> QED
      BY <2>1 DEF Frames
  <1> HIDE DEF out, f
  <1>5. s = Append(out, f)
    <2> DEFINE s2 == Append(out, f)
    <2>1. /\ s2 \in Seq(Frames(T)) /\ Len(s2) = d /\ s2[d] = f
          /\ \A j \in 1..(d - 1) : s2[j] = out[j]
      <3>1. /\ s2 \in Seq(Frames(T)) /\ Len(s2) = Len(out) + 1 /\ s2[Len(out) + 1] = f
            /\ \A j \in 1..Len(out) : s2[j] = out[j]
        BY <1>3, <1>4, AppendProperties
      <3>2. Len(out) + 1 = d
        BY <1>1, <1>3
      <3> HIDE DEF s2
      <3> QED
        BY <1>3, <3>1, <3>2
    <2> HIDE DEF s2
    <2>2. \A j \in 1..d : s2[j] = s[j]
      <3> TAKE j \in 1..d
      <3>1. CASE j = d
        BY <1>2, <2>1, <3>1
      <3>2. CASE j # d
        <4>1. d \in Nat /\ j \in 1..d
          BY <1>1
        <4> HIDE DEF d
        <4>2. j \in 1..(d - 1)
          BY <3>2, <4>1
        <4> QED
          BY <1>3, <2>1, <4>2
      <3> QED
        BY <3>1, <3>2
    <2> QED
      BY <2>1, <2>2, SeqEqual DEF s2
  <1> HIDE DEF d
  <1>6. Pushed(out, s, f)
    <2>1. f.node \in Nodes /\ f = [node |-> f.node, slot |-> f.slot]
      BY <1>4
    <2>2. ASSUME NEW n \in Nodes, NEW x, f = [node |-> n, slot |-> x] PROVE Pushed(out, s, f)
      BY <1>3, <1>5, <2>2, PushStack
    <2> QED
      BY <2>1, <2>2
  <1> QED
    BY <1>3, <1>4, <1>6 DEF out, f

LEMMA OwingAppend ==
    ASSUME NEW held \in [Nodes -> Nat], NEW s \in Seq(Nodes), NEW n \in Nodes
    PROVE  Owing(held, Append(s, n)) = [Owing(held, s) EXCEPT ![n] = @ + 1]
  <1> DEFINE s2 == Append(s, n)
             own == Owing(held, s)
             more == [own EXCEPT ![n] = @ + 1]
  <1>1. own \in [Nodes -> Nat] /\ \A m \in Nodes : own[m] = held[m] + Count(s, m)
    BY OwingType DEF Owing
  <1>2. \A m : Count(s2, m) = Count(s, m) + (IF n = m THEN 1 ELSE 0)
    BY CountAppend
  <1>3. \A m : Count(s, m) \in Nat
    BY CountType
  <1> HIDE DEF own, s2
  <1>4. more = [m \in Nodes |-> more[m]] /\ \A m \in Nodes : more[m] = IF m = n THEN own[n] + 1 ELSE own[m]
    BY <1>1
  <1> HIDE DEF more
  <1>5. \A m \in Nodes : held[m] + Count(s2, m) = more[m]
    <2> TAKE m \in Nodes
    <2>1. CASE m = n
      <3>1. Count(s2, m) = Count(s, m) + 1 /\ more[m] = own[m] + 1
        BY <1>2, <1>4, <2>1
      <3> QED
        BY <1>1, <1>3, <3>1
    <2>2. CASE m # n
      <3>1. Count(s2, m) = Count(s, m) /\ more[m] = own[m]
        <4>1. Count(s2, m) = Count(s, m) + 0
          BY <1>2, <2>2
        <4> QED
          BY <1>3, <1>4, <2>2, <4>1
      <3> QED
        BY <1>1, <3>1
    <2> QED
      BY <2>1, <2>2
  <1>6. Owing(held, s2) = more
    BY <1>4, <1>5 DEF Owing
  <1> QED
    BY <1>6 DEF s2, more, own

\* The reader with another result.
LEMMA ResultOther ==
    ASSUME NEW r, IsReader(r), NEW x
    PROVE  LET r2 == [r EXCEPT !.result = x]
           IN /\ IsReader(r2) /\ r2.stack = r.stack /\ r2.at = r.at /\ r2.stuck = r.stuck
              /\ r2.result = x
  <1> DEFINE r2 == [r EXCEPT !.result = x]
  <1>1. r = [at |-> r.at, stack |-> r.stack, source |-> r.source, given |-> r.given,
             written |-> r.written, stuck |-> r.stuck, result |-> r.result, why |-> r.why]
    BY DEF IsReader
  <1>2. r2 = [at |-> r.at, stack |-> r.stack, source |-> r.source, given |-> r.given,
              written |-> r.written, stuck |-> r.stuck, result |-> x, why |-> r.why]
    BY <1>1
  <1> HIDE DEF r2
  <1>3. r2.stack = r.stack /\ r2.at = r.at /\ r2.stuck = r.stuck /\ r2.result = x
    BY <1>2
  <1>4. IsReader(r2)
    BY <1>2, <1>3 DEF IsReader
  <1> QED
    BY <1>3, <1>4 DEF r2

\* What the reader has when it is between two tokens of a text.
LEMMA InTheMiddle ==
    ASSUME IInv, reader.at \in Reading
    PROVE  /\ IsReader(reader) /\ handles \in [Nodes -> Nat] /\ reader.stack # <<>>
           /\ Counted(heap, Owing(handles, Opened(reader.stack)))
           /\ Alone(heap, reader) /\ Proper(heap, Waiting(reader)) /\ Empty(heap, Waiting(reader))
           /\ reader.stuck => reader.at = "next"
           /\ Depth \in Nat /\ Depth # 0 /\ DOMAIN reader.stack = 1..Depth
           /\ Top = reader.stack[Depth] /\ Top.node \in DOMAIN heap /\ Top.node \in Nodes
  <1>1. Holds(heap, handles, reader)
    BY DEF IInv
  <1>2. reader.at # "tail" /\ reader.at # "done"
    BY DEF Reading
  <1>3. Opening(heap, reader) /\ IsReader(reader) /\ handles \in [Nodes -> Nat] /\ reader.stack # <<>>
    BY <1>1 DEF Holds, Opening
  <1>4. Counted(heap, Owing(handles, Opened(reader.stack)))
    BY <1>1, <1>2, <1>3, OutsideIsOwing DEF Holds
  <1>5. Alone(heap, reader) /\ Empty(heap, Waiting(reader)) /\ (reader.stuck => reader.at = "next")
    BY <1>2, <1>3 DEF Opening, Alone, Empty
  <1>6. Depth \in Nat /\ Depth # 0 /\ DOMAIN reader.stack = 1..Depth
    BY <1>3, StackFacts DEF Depth
  <1>7. Top = reader.stack[Depth] /\ Depth \in DOMAIN reader.stack
    BY <1>6 DEF Top, Depth, Last
  <1>8. Top.node \in DOMAIN heap /\ heap[Top.node].refcount = 1
    BY <1>5, <1>7 DEF Alone
  <1>9. Top.node \in Nodes
    BY <1>4, <1>8 DEF Counted, IsHeap
  <1> QED
    BY <1>1, <1>3, <1>4, <1>5, <1>6, <1>7, <1>8, <1>9 DEF Holds

\* All that is open waits, when the innermost does.
LEMMA WaitingAll ==
    ASSUME NEW r, r.at = "value"
    PROVE  Waiting(r) = All(r)
  <1>1. \A j \in DOMAIN r.stack : Waits(r, j)
    BY DEF Waits
  <1> QED
    BY <1>1 DEF Waiting, All

LEMMA OutsideTail ==
    ASSUME NEW held \in [Nodes -> Nat], NEW r, IsReader(r), r.stack = <<>>, r.at = "tail",
           r.result \in Nodes
    PROVE  Outside(held, r) = [held EXCEPT ![r.result] = @ + 1]
  <1>0. DOMAIN r.stack = {}
    OBVIOUS
  <1> DEFINE more == [held EXCEPT ![r.result] = @ + 1]
  <1>1. \A n : Count(Opened(r.stack), n) = 0
    BY <1>0, StackFacts, OpenedList, CountNone
  <1>2. /\ more = [n \in Nodes |-> more[n]]
        /\ \A n \in Nodes : more[n] = IF n = r.result THEN held[n] + 1 ELSE held[n]
    OBVIOUS
  <1> HIDE DEF more
  <1>3. \A n \in Nodes : held[n] + Count(Opened(r.stack), n)
                           + (IF r.at = "tail" /\ r.result = n THEN 1 ELSE 0) = more[n]
    <2> TAKE n \in Nodes
    <2>1. held[n] \in Nat /\ Count(Opened(r.stack), n) = 0
      BY <1>1
    <2>2. CASE n = r.result
      BY <1>2, <2>1, <2>2
    <2>3. CASE n # r.result
      BY <1>2, <2>1, <2>3
    <2> QED
      BY <2>2, <2>3
  <1>4. Outside(held, r) = more
    BY <1>2, <1>3 DEF Outside
  <1> QED
    BY <1>4 DEF more

\* The result of a text is there, and belongs to the reader.
LEMMA TailHolds ==
    ASSUME NEW h, NEW held \in [Nodes -> Nat], NEW r, IsReader(r), r.stack = <<>>, r.at = "tail",
           ~r.stuck, r.result \in DOMAIN h, Proper(h, {}),
           Counted(h, [held EXCEPT ![r.result] = @ + 1])
    PROVE  Holds(h, held, r)
  <1>1. DOMAIN r.stack = {}
    OBVIOUS
  <1>2. Waiting(r) = {}
    BY <1>1 DEF Waiting
  <1>3. Outside(held, r) = [held EXCEPT ![r.result] = @ + 1]
    <2>1. r.result \in Nodes
      BY DEF Counted, IsHeap
    <2> QED
      BY <2>1, OutsideTail
  <1>4. Opening(h, r)
    BY <1>1, <1>2 DEF Opening, Reading
  <1> QED
    BY <1>2, <1>3, <1>4 DEF Holds

\* The innermost object or array is complete: it is the value of the next one,
\* or the result.
LEMMA AscendHolds ==
    ASSUME IInv, reader.at \in {"open", "next"}, ~reader.stuck, NEW t, Ascend(Past(t)),
           handles' = handles
    PROVE  IInv'
  <1> DEFINE p == Past(t)
             s == reader.stack
             s0 == Front(s)
             f == Last(s)
             n == f.node
             own0 == Owing(handles, Opened(s0))
             out == [p EXCEPT !.stack = s0]
             value == [kind |-> heap[n].type, of |-> n]
  <1>1. /\ IsReader(reader) /\ handles \in [Nodes -> Nat] /\ s # <<>>
        /\ Counted(heap, Owing(handles, Opened(s)))
        /\ Alone(heap, reader) /\ Proper(heap, Waiting(reader)) /\ Empty(heap, Waiting(reader))
        /\ Depth \in Nat /\ Depth # 0 /\ DOMAIN s = 1..Depth
        /\ Top = s[Depth] /\ n \in DOMAIN heap /\ n \in Nodes /\ Top = f
    BY InTheMiddle DEF Reading, Top
  <1>2. IsReader(p) /\ p.stack = s /\ p.at = reader.at /\ p.stuck = FALSE
    BY <1>1, PastFacts
  <1>3. PICK T : s \in Seq(Frames(T))
    BY <1>1, StackFacts
  <1>4. s0 \in Seq(Frames(T)) /\ Pushed(s0, s, f)
    BY <1>1, <1>3, PopStack
  <1>5. /\ Len(s0) \in Nat /\ Depth = Len(s0) + 1 /\ DOMAIN s0 = 1..Len(s0)
        /\ \A j \in DOMAIN s0 : s[j] = s0[j]
        /\ Opened(s) = Append(Opened(s0), n)
    BY <1>4 DEF Pushed, Depth
  <1>6. Opened(s0) \in Seq(Nodes) /\ own0 \in [Nodes -> Nat]
    BY <1>1, <1>4, OpenedList, OwingType
  <1>7. Counted(heap, [own0 EXCEPT ![n] = @ + 1])
    <2> HIDE DEF n, s0
    <2>1. Owing(handles, Append(Opened(s0), n)) = [Owing(handles, Opened(s0)) EXCEPT ![n] = @ + 1]
      BY <1>1, <1>6, OwingAppend
    <2>2. Owing(handles, Opened(s)) = [own0 EXCEPT ![n] = @ + 1]
      BY <1>5, <2>1
    <2> HIDE DEF own0
    <2> QED
      BY <1>1, <2>2
  <1>8. IsReader(out) /\ out.stack = s0 /\ out.at = reader.at /\ ~out.stuck
    <2> HIDE DEF p, s0
    <2> QED
      BY <1>2, <1>4, StackOther
  <1>9. \A q : q \in Waiting(reader) <=> q \in All(out)
    <2>1. \A j \in DOMAIN s : Waits(reader, j) <=> j \in DOMAIN s0
      BY <1>1, <1>5 DEF Waits, Depth
    <2>2. \A j \in DOMAIN s0 : j \in DOMAIN s
      BY <1>1, <1>5
    <2> HIDE DEF out, s0
    <2> QED
      BY <1>5, <1>8, <2>1, <2>2 DEF Waiting, All
  <1>10. Waiting(reader) = All(out)
    BY <1>9
  <1>11. CASE Depth = 1
    <2> DEFINE r1 == [out EXCEPT !.at = "tail"]
               r2 == [r1 EXCEPT !.result = n]
    <2>1. heap' = heap /\ reader' = r2
      <3>1. reader' = [[p EXCEPT !.stack = Front(@)] EXCEPT !.at = "tail", !.result = n] /\ heap' = heap
        BY <1>1, <1>11 DEF Ascend
      <3>2. [p EXCEPT !.stack = Front(@)] = out
        BY <1>2
      <3> HIDE DEF out, n, p
      <3>3. [out EXCEPT !.at = "tail", !.result = n] = r2
        OBVIOUS
      <3> QED
        BY <3>1, <3>2, <3>3
    <2>2. IsReader(r1) /\ r1.at = "tail" /\ r1.stack = s0 /\ ~r1.stuck
      <3> HIDE DEF out
      <3> QED
        BY <1>8, AtOther
    <2>3. IsReader(r2) /\ r2.at = "tail" /\ r2.stack = s0 /\ ~r2.stuck /\ r2.result = n
      <3> HIDE DEF r1, n
      <3> QED
        BY <2>2, ResultOther
    <2>4. s0 = <<>> /\ DOMAIN s0 = {}
      <3>1. Len(s0) = 0
        BY <1>5, <1>11
      <3> HIDE DEF s0
      <3> QED
        BY <1>4, <1>5, <3>1, EmptySeq
    <2> HIDE DEF r2, r1, out
    <2>5. Proper(heap, {})
      <3>1. All(out) = {}
        BY <1>8, <2>4 DEF All
      <3> QED
        BY <1>1, <1>10, <3>1
    <2>6. Counted(heap, [handles EXCEPT ![n] = @ + 1])
      <3>1. own0 = handles
        <4>1. \A m : Count(Opened(s0), m) = 0
          <5>1. DOMAIN Opened(s0) = {}
            BY <2>4 DEF Opened
          <5> QED
            BY <1>6, <5>1, CountNone
        <4>2. \A m \in Nodes : own0[m] = handles[m]
          <5>1. \A m \in Nodes : own0[m] = handles[m] + Count(Opened(s0), m)
            BY DEF Owing
          <5> HIDE DEF own0
          <5> QED
            BY <1>1, <4>1, <5>1
        <4> HIDE DEF own0
        <4> QED
          BY <1>1, <1>6, <4>2
      <3> QED
        BY <1>7, <3>1
    <2>7. Holds(heap, handles, r2)
      BY <1>1, <2>3, <2>4, <2>5, <2>6, TailHolds
    <2> QED
      BY <2>1, <2>7 DEF IInv
  <1>12. CASE Depth # 1
    <2>1. Deliver(heap, out, value)
      <3>1. [p EXCEPT !.stack = Front(@)] = out
        BY <1>2
      <3> QED
        BY <1>1, <1>12, <3>1 DEF Ascend
    <2>2. heap[n].type \in Containers
      BY <1>1 DEF Counted, IsHeap, IsNode
    <2>3. value.kind = heap[n].type /\ value.of = n /\ value.kind \in Containers /\ value.kind # "undefined"
      BY <2>2 DEF Containers
    <2> HIDE DEF value, out, own0, n
    <2>4. Counted(heap, More(own0, value))
      BY <1>7, <2>3 DEF More
    <2>5. out.stack # <<>>
      <3>1. Len(s0) # 0
        BY <1>5, <1>12
      <3> HIDE DEF s0
      <3> QED
        BY <1>4, <1>8, <3>1, EmptySeq
    <2>6. Alone(heap, out)
      BY <1>1, <1>5, <1>8, SMTT(30) DEF Alone
    <2>7. Counted(heap, More(Owing(handles, Opened(out.stack)), value))
      BY <1>8, <2>4 DEF own0
    <2>8. Proper(heap, All(out)) /\ Empty(heap, All(out))
      BY <1>1, <1>10
    <2>9. /\ value.kind \in Containers => value.of \in DOMAIN heap
          /\ value.kind = "undefined" <=> out.stuck
      BY <1>1, <1>8, <2>3
    <2> QED
      BY <1>1, <1>8, <2>1, <2>5, <2>6, <2>7, <2>8, <2>9, DeliverHolds
  <1> QED
    BY <1>11, <1>12

\* The places that wait are places that are open.
LEMMA WaitingOpen ==
    ASSUME NEW r
    PROVE  \A p \in Waiting(r) : p \in All(r)
  BY DEF Waiting, All

LEMMA ProperMore ==
    ASSUME NEW h, NEW wait, NEW wait2, Proper(h, wait), \A p \in wait : p \in wait2
    PROVE  Proper(h, wait2)
  BY DEF Proper

\* A token that is none of those expected.
LEMMA ReadFails ==
    ASSUME IInv, reader.at \in Reading, NEW t, NEW why, Fail(heap, Past(t), why), handles' = handles
    PROVE  IInv'
  <1> DEFINE p == Past(t)
  <1>1. /\ IsReader(reader) /\ handles \in [Nodes -> Nat]
        /\ Counted(heap, Owing(handles, Opened(reader.stack)))
        /\ Alone(heap, reader) /\ Proper(heap, Waiting(reader))
    BY InTheMiddle
  <1>2. IsReader(p) /\ p.stack = reader.stack
    BY <1>1, PastFacts
  <1> HIDE DEF p
  <1>3. Proper(heap, All(reader))
    BY <1>1, WaitingOpen, ProperMore
  <1>4. Alone(heap, p) /\ All(p) = All(reader)
    BY <1>1, <1>2 DEF Alone, All
  <1>5. Proper(heap, All(p)) /\ Counted(heap, Owing(handles, Opened(p.stack))) /\ Fail(heap, p, why)
    BY <1>1, <1>2, <1>3, <1>4 DEF p
  <1> QED
    BY <1>1, <1>2, <1>4, <1>5, FailAll

\* Before the first token nothing is open.
LEMMA ReadStartHolds ==
    ASSUME IInv, ReadStart
    PROVE  IInv'
  <1>1. reader.at = "start" /\ handles' = handles
    BY DEF ReadStart
  <1>2. PICK t \in Ahead : IF t = Op("{") THEN Descend(heap, Past(t), "object") ELSE Fail(heap, Past(t), "json")
    BY DEF ReadStart
  <1> DEFINE p == Past(t)
  <1>3. Holds(heap, handles, reader) /\ reader.stack = <<>> /\ reader.at # "tail"
    BY <1>1 DEF IInv, Holds, Opening, Reading
  <1>4. Counted(heap, handles) /\ Proper(heap, {}) /\ handles \in [Nodes -> Nat] /\ IsReader(reader)
    BY <1>3, Rested
  <1>5. IsReader(p) /\ p.stack = <<>> /\ ~p.stuck
    BY <1>3, <1>4, PastFacts
  <1> HIDE DEF p
  <1>6. DOMAIN p.stack = {}
    BY <1>5
  <1>7. Counted(heap, Owing(handles, Opened(p.stack)))
    <2>1. \A n : Count(Opened(p.stack), n) = 0
      BY <1>5, <1>6, StackFacts, OpenedList, CountNone
    <2>2. \A n \in Nodes : handles[n] + 0 = handles[n]
      BY <1>4
    <2>3. Owing(handles, Opened(p.stack)) = [n \in Nodes |-> handles[n]]
      BY <2>1, <2>2 DEF Owing
    <2> QED
      BY <1>4, <2>3
  <1>8. Alone(heap, p) /\ All(p) = {}
    BY <1>6 DEF Alone, All
  <1>9. Proper(heap, All(p)) /\ Empty(heap, All(p))
    BY <1>4, <1>8 DEF Empty
  <1>10. CASE Descend(heap, p, "object")
    BY <1>1, <1>4, <1>5, <1>7, <1>8, <1>9, <1>10, DescendHolds DEF Containers
  <1>11. CASE Fail(heap, p, "json")
    BY <1>1, <1>4, <1>5, <1>7, <1>8, <1>9, <1>11, FailAll
  <1> QED
    BY <1>2, <1>10, <1>11 DEF p

\* The error of a string is all that can be read where it is.
LEMMA StuckAhead ==
    ASSUME NEW t \in Ahead, reader.stuck
    PROVE  t = Broken
  BY DEF Ahead

LEMMA ReadNextHolds ==
    ASSUME IInv, ReadNext
    PROVE  IInv'
  <1>1. reader.at = "next" /\ handles' = handles /\ reader.at \in Reading
    BY DEF ReadNext, Reading
  <1>2. PICK t \in Ahead :
           \/ t = Closing /\ Ascend(Past(t))
           \/ /\ t = Op(",")
              /\ reader' = [Past(t) EXCEPT !.at = "item"]
              /\ UNCHANGED heap
           \/ Fail(heap, Past(t), "json")
    BY DEF ReadNext
  <1>3. /\ IsReader(reader) /\ handles \in [Nodes -> Nat] /\ reader.stack # <<>>
        /\ Counted(heap, Owing(handles, Opened(reader.stack)))
        /\ Alone(heap, reader) /\ Proper(heap, Waiting(reader)) /\ Empty(heap, Waiting(reader))
    BY <1>1, InTheMiddle
  <1>4. \A x : Op(x) # Broken
    BY DEF Op, Broken
  <1>5. CASE t = Closing /\ Ascend(Past(t))
    <2>1. ~reader.stuck
      BY <1>4, <1>5, StuckAhead DEF Closing
    <2> QED
      BY <1>1, <1>5, <2>1, AscendHolds
  <1>6. CASE t = Op(",") /\ reader' = [Past(t) EXCEPT !.at = "item"] /\ UNCHANGED heap
    <2> DEFINE p == Past(t)
               r2 == [p EXCEPT !.at = "item"]
    <2>1. ~reader.stuck
      BY <1>4, <1>6, StuckAhead
    <2>2. IsReader(p) /\ p.stack = reader.stack /\ ~p.stuck
      BY <1>3, PastFacts
    <2>3. IsReader(r2) /\ r2.at = "item" /\ r2.stack = reader.stack /\ ~r2.stuck
      <3>1. "item" \in Reading
        BY DEF Reading
      <3> HIDE DEF p
      <3>2. r2 = [p EXCEPT !.at = "item"]
        OBVIOUS
      <3> HIDE DEF r2
      <3> QED
        BY <2>2, <3>1, <3>2, AtPlace
    <2> HIDE DEF r2
    <2>4. Waiting(r2) = Waiting(reader)
      <3>1. \A j \in DOMAIN reader.stack : Waits(r2, j) <=> Waits(reader, j)
        BY <1>1, <2>1, <2>3 DEF Waits
      <3> QED
        BY <2>3, <3>1 DEF Waiting
    <2>5. Alone(heap, r2)
      BY <1>3, <2>3 DEF Alone
    <2>6. Holds(heap, handles, r2)
      BY <1>3, <2>3, <2>4, <2>5, ReadingHolds DEF Reading
    <2>7. heap' = heap /\ reader' = r2
      BY <1>6 DEF r2
    <2> QED
      BY <1>1, <2>6, <2>7 DEF IInv
  <1>7. CASE Fail(heap, Past(t), "json")
    BY <1>1, <1>7, ReadFails
  <1> QED
    BY <1>2, <1>5, <1>6, <1>7

LEMMA ReadEmptyHolds ==
    ASSUME IInv, ReadEmpty
    PROVE  IInv'
  <1>1. reader.at = "open" /\ handles' = handles /\ reader.at \in Reading
    BY DEF ReadEmpty, Reading
  <1>2. PICK t \in Ahead : t = Closing /\ Ascend(Past(t))
    BY DEF ReadEmpty
  <1>3. ~reader.stuck
    BY <1>1, InTheMiddle
  <1> QED
    BY <1>1, <1>2, <1>3, AscendHolds

\* The innermost frame with another place.
Slotted(r, r2, d, x) ==
    /\ IsReader(r2) /\ r2.at = r.at /\ r2.stuck = r.stuck
    /\ DOMAIN r2.stack = DOMAIN r.stack /\ Len(r2.stack) = Len(r.stack)
    /\ \A j \in DOMAIN r.stack : /\ r2.stack[j].node = r.stack[j].node
                                 /\ j # d => r2.stack[j] = r.stack[j]
    /\ r2.stack[d].slot = x
    /\ Opened(r2.stack) = Opened(r.stack)

LEMMA SlotOther ==
    ASSUME NEW r, IsReader(r), NEW d \in DOMAIN r.stack, NEW x
    PROVE  Slotted(r, [r EXCEPT !.stack[d].slot = x], d, x)
  <1> DEFINE s == r.stack
             f == s[d]
             f2 == [f EXCEPT !.slot = x]
             s2 == [s EXCEPT ![d] = f2]
             r2 == [r EXCEPT !.stack = s2]
  <1>1. PICK T : s \in Seq(Frames(T))
    BY StackFacts
  <1> DEFINE V == Frames(T \cup {x})
             n == Len(s)
  <1>2. n \in Nat /\ DOMAIN s = 1..n /\ \A j \in 1..n : s[j] \in Frames(T)
    BY <1>1, LenProperties
  <1>3. f = [node |-> f.node, slot |-> f.slot] /\ f.node \in Nodes
    <2>1. f \in Frames(T)
      BY <1>2
    <2> HIDE DEF f
    <2> QED
      BY <2>1 DEF Frames
  <1>4. f2 = [node |-> f.node, slot |-> x]
    <2> HIDE DEF f
    <2> QED
      BY <1>3
  <1> HIDE DEF f2
  <1>5. f2.node = f.node /\ f2.slot = x /\ f2 \in V
    BY <1>3, <1>4 DEF Frames
  <1>6. \A j \in 1..n : s[j] \in V
    BY <1>2 DEF Frames
  <1>7. s2 \in Seq(V) /\ Len(s2) = n /\ DOMAIN s2 = 1..n
    <2>1. s2 = [j \in 1..n |-> IF j = d THEN f2 ELSE s[j]]
      BY <1>2
    <2> HIDE DEF s2, s, V, n
    <2>2. s2 \in [1..n -> V]
      BY <1>5, <1>6, <2>1
    <2> QED
      BY <1>2, <2>2
  <1>8. /\ \A j \in DOMAIN s : s2[j].node = s[j].node /\ (j # d => s2[j] = s[j])
        /\ s2[d].slot = x
    BY <1>5
  <1>9. r2 = [r EXCEPT !.stack[d].slot = x]
    BY DEF f2
  <1> HIDE DEF s2, V
  <1>10. IsReader(r2) /\ r2.stack = s2 /\ r2.at = r.at /\ r2.stuck = r.stuck
    BY <1>7, StackOther DEF V
  <1> HIDE DEF r2
  <1>11. Opened(s2) = Opened(s)
    <2>1. DOMAIN s2 = DOMAIN s
      BY <1>2, <1>7
    <2> HIDE DEF s, f, n
    <2> QED
      BY <1>8, <2>1 DEF Opened
  <1>12. Slotted(r, r2, d, x)
    BY <1>2, <1>7, <1>8, <1>10, <1>11 DEF Slotted
  <1> QED
    BY <1>9, <1>12, Zenon

LEMMA ReadNameHolds ==
    ASSUME IInv, ReadName
    PROVE  IInv'
  <1>1. /\ reader.at \in {"open", "item"} /\ reader.at \in Reading /\ handles' = handles
        /\ heap[Top.node].type = "object"
    BY DEF ReadName, Reading, IsObject
  <1>2. PICK t \in Ahead :
           IF t.token = "string"
           THEN /\ reader' = [Past(t) EXCEPT !.at = "colon", !.stack[Depth].slot = t.of]
                /\ UNCHANGED heap
           ELSE Fail(heap, Past(t), "json")
    BY DEF ReadName
  <1>3. /\ IsReader(reader) /\ handles \in [Nodes -> Nat] /\ reader.stack # <<>>
        /\ Counted(heap, Owing(handles, Opened(reader.stack)))
        /\ Alone(heap, reader) /\ Proper(heap, Waiting(reader)) /\ Empty(heap, Waiting(reader))
        /\ ~reader.stuck
        /\ Depth \in Nat /\ Depth # 0 /\ DOMAIN reader.stack = 1..Depth
        /\ Top = reader.stack[Depth]
    BY <1>1, InTheMiddle
  <1>4. CASE t.token = "string"
    <2> DEFINE p == Past(t)
               r1 == [p EXCEPT !.at = "colon"]
               d == Depth
               r2 == [r1 EXCEPT !.stack[d].slot = t.of]
    <2>1. heap' = heap /\ reader' = r2
      <3>1. reader' = [p EXCEPT !.at = "colon", !.stack[d].slot = t.of] /\ heap' = heap
        BY <1>2, <1>4
      <3> HIDE DEF p, d
      <3>2. [p EXCEPT !.at = "colon", !.stack[d].slot = t.of] = r2
        OBVIOUS
      <3> QED
        BY <3>1, <3>2
    <2>2. IsReader(p) /\ p.stack = reader.stack /\ ~p.stuck
      BY <1>3, PastFacts
    <2>3. IsReader(r1) /\ r1.at = "colon" /\ r1.stack = reader.stack /\ ~r1.stuck
      <3>1. "colon" \in Reading
        BY DEF Reading
      <3> HIDE DEF p
      <3>2. r1 = [p EXCEPT !.at = "colon"]
        OBVIOUS
      <3> HIDE DEF r1
      <3> QED
        BY <2>2, <3>1, <3>2, AtPlace
    <2>4. d \in DOMAIN r1.stack
      BY <1>3, <2>3
    <2>5. /\ IsReader(r2) /\ r2.at = r1.at /\ r2.stuck = r1.stuck
          /\ DOMAIN r2.stack = DOMAIN r1.stack /\ Len(r2.stack) = Len(r1.stack)
          /\ \A j \in DOMAIN r1.stack : /\ r2.stack[j].node = r1.stack[j].node
                                        /\ j # d => r2.stack[j] = r1.stack[j]
          /\ Opened(r2.stack) = Opened(r1.stack)
      <3> HIDE DEF r1, d
      <3>1. Slotted(r1, r2, d, t.of)
        BY <2>3, <2>4, SlotOther
      <3> HIDE DEF r2
      <3> QED
        BY <3>1 DEF Slotted
    <2> HIDE DEF r2
    <2>6. /\ IsReader(r2) /\ r2.at = "colon" /\ ~r2.stuck
          /\ DOMAIN r2.stack = 1..Depth /\ Len(r2.stack) = Depth /\ Depth = Len(reader.stack)
          /\ \A j \in 1..Depth : /\ r2.stack[j].node = reader.stack[j].node
                                 /\ j # Depth => r2.stack[j] = reader.stack[j]
          /\ Opened(r2.stack) = Opened(reader.stack)
      BY <1>3, <2>3, <2>5 DEF Depth
    <2>7. r2.stack # <<>>
      BY <1>3, <2>6, StackFacts
    <2>8. Alone(heap, r2)
      BY <1>3, <2>6 DEF Alone
    <2>9. Waiting(r2) = Waiting(reader)
      <3>1. \A j \in 1..Depth : Waits(r2, j) <=> j # Depth
        BY <1>3, <2>6 DEF Waits
      <3>2. \A j \in 1..Depth : Waits(reader, j) <=> j # Depth
        BY <1>1, <1>3, <2>6 DEF Waits
      <3>3. \A q : q \in Waiting(r2) <=> \E j \in 1..Depth :
                      j # Depth /\ q = <<r2.stack[j].node, r2.stack[j].slot>>
        BY <2>6, <3>1 DEF Waiting
      <3>4. \A q : q \in Waiting(reader) <=> \E j \in 1..Depth :
                      j # Depth /\ q = <<reader.stack[j].node, reader.stack[j].slot>>
        BY <1>3, <3>2 DEF Waiting
      <3>5. \A q : q \in Waiting(r2) <=> q \in Waiting(reader)
        BY <2>6, <3>3, <3>4
      <3> QED
        BY <3>5
    <2>10. heap[Last(r2.stack).node].type = "object"
      <3>1. Last(r2.stack) = r2.stack[Depth] /\ Depth \in 1..Depth
        BY <1>3, <2>6 DEF Last
      <3> QED
        BY <1>1, <1>3, <2>6, <3>1
    <2>11. Counted(heap, Owing(handles, Opened(r2.stack)))
      BY <1>3, <2>6
    <2>12. Holds(heap, handles, r2)
      BY <1>3, <2>6, <2>7, <2>8, <2>9, <2>10, <2>11, ReadingHolds DEF Reading
    <2> QED
      BY <1>1, <2>1, <2>12 DEF IInv
  <1>5. CASE t.token # "string"
    <2>1. Fail(heap, Past(t), "json")
      BY <1>2, <1>5
    <2> QED
      BY <1>1, <2>1, ReadFails
  <1> QED
    BY <1>4, <1>5

\* The innermost place is made: it is there, and has no value yet.
Placing(h, h2, r, wait, d, items) ==
    LET n == r.stack[d].node
        k == r.stack[d].slot
    IN /\ d \in DOMAIN r.stack /\ n \in DOMAIN h
       /\ Proper(h, wait) /\ Empty(h, wait) /\ Alone(h, r)
       /\ \A j \in DOMAIN r.stack : j # d => <<r.stack[j].node, r.stack[j].slot>> \in wait
       /\ \A p \in wait : p \in All(r)
       /\ \A j \in DOMAIN r.stack : r.stack[j].node = n => j = d
       /\ Renewed(h, h2, n, items, h[n].kind)
       /\ DOMAIN items = DOMAIN h[n].items \cup {k} /\ items[k] = Undefined
       /\ \A i \in DOMAIN h[n].items \ {k} : items[i] = h[n].items[i]

LEMMA PlacedProper ==
    ASSUME NEW h, NEW h2, NEW r, NEW wait, NEW d, NEW items, Placing(h, h2, r, wait, d, items)
    PROVE  Proper(h2, All(r)) /\ Empty(h2, All(r)) /\ Alone(h2, r)
  <1> DEFINE n == r.stack[d].node
             k == r.stack[d].slot
  <1>0. /\ d \in DOMAIN r.stack /\ n \in DOMAIN h
        /\ Proper(h, wait) /\ Empty(h, wait) /\ Alone(h, r)
        /\ \A j \in DOMAIN r.stack : j # d => <<r.stack[j].node, r.stack[j].slot>> \in wait
        /\ \A p \in wait : p \in All(r)
        /\ \A j \in DOMAIN r.stack : r.stack[j].node = n => j = d
        /\ Renewed(h, h2, n, items, h[n].kind)
        /\ DOMAIN items = DOMAIN h[n].items \cup {k} /\ items[k] = Undefined
        /\ \A i \in DOMAIN h[n].items \ {k} : items[i] = h[n].items[i]
    BY DEF Placing
  <1>1. /\ DOMAIN h2 = DOMAIN h /\ h2[n].items = items /\ h2[n].type = h[n].type
        /\ h2[n].refcount = h[n].refcount /\ h2[n].kind = h[n].kind
        /\ \A m \in DOMAIN h \ {n} : h2[m] = h[m]
    BY <1>0 DEF Renewed
  <1>2. Undefined.kind = "undefined"
    BY DEF Undefined
  <1>3. Proper(h2, All(r))
    <2>1. ProperItem(h2[n], items[k].kind)
      <3>1. items[k].kind = "undefined"
        BY <1>0, <1>2
      <3> HIDE DEF n, k
      <3> QED
        BY <3>1 DEF ProperItem
    <2>2. items[k].kind = "undefined" => <<n, k>> \in All(r)
      BY <1>0 DEF All
    <2>3. \A m, i : <<m, i>> \in wait /\ <<m, i>> # <<n, k>> => <<m, i>> \in All(r)
      BY <1>0
    <2> HIDE DEF n, k
    <2> QED
      BY <1>0, <2>1, <2>2, <2>3, ProperAdded
  <1>4. Empty(h2, All(r))
    <2> SUFFICES ASSUME NEW p \in All(r)
                 PROVE  p[2] \in DOMAIN h2[p[1]].items /\ h2[p[1]].items[p[2]].kind = "undefined"
      BY DEF Empty
    <2>1. PICK j \in DOMAIN r.stack : p = <<r.stack[j].node, r.stack[j].slot>>
      BY DEF All
    <2>2. p[1] = r.stack[j].node /\ p[2] = r.stack[j].slot
      BY <2>1
    <2>3. CASE j = d
      BY <1>0, <1>1, <1>2, <2>2, <2>3
    <2>4. CASE j # d
      <3>1. p[1] \in DOMAIN h \ {n}
        BY <1>0, <2>2, <2>4 DEF Alone
      <3>2. p[2] \in DOMAIN h[p[1]].items /\ h[p[1]].items[p[2]].kind = "undefined"
        BY <1>0, <2>1, <2>4 DEF Empty
      <3> QED
        BY <1>1, <3>1, <3>2
    <2> QED
      BY <2>3, <2>4
  <1>5. Alone(h2, r)
    BY <1>0, <1>1 DEF Alone
  <1> QED
    BY <1>3, <1>4, <1>5

LEMMA NoLess ==
    ASSUME NEW own
    PROVE  Less(own, Undefined) = own
  BY DEF Less, Undefined, Containers

LEMMA ReadColonHolds ==
    ASSUME IInv, ReadColon
    PROVE  IInv'
  <1>1. reader.at = "colon" /\ reader.at \in Reading /\ handles' = handles
    BY DEF ReadColon, Reading
  <1>2. PICK t \in Ahead :
           \/ \E why : Fail(heap, Past(t), why)
           \/ /\ Top.slot \notin DOMAIN heap[Top.node].items
              /\ heap' = AddField(heap, Top.node, Top.slot, Undefined)
              /\ reader' = [Past(t) EXCEPT !.at = "value"]
    BY DEF ReadColon
  <1>3. CASE \E why : Fail(heap, Past(t), why)
    BY <1>1, <1>3, ReadFails
  <1>4. CASE /\ Top.slot \notin DOMAIN heap[Top.node].items
             /\ heap' = AddField(heap, Top.node, Top.slot, Undefined)
             /\ reader' = [Past(t) EXCEPT !.at = "value"]
    <2> DEFINE p == Past(t)
               r2 == [p EXCEPT !.at = "value"]
               n == Top.node
               k == Top.slot
               h2 == AddField(heap, n, k, Undefined)
               own == Owing(handles, Opened(reader.stack))
               items == AddedField(heap[n].items, k, Undefined)
    <2>1. /\ IsReader(reader) /\ handles \in [Nodes -> Nat] /\ reader.stack # <<>>
          /\ Counted(heap, own)
          /\ Alone(heap, reader) /\ Proper(heap, Waiting(reader)) /\ Empty(heap, Waiting(reader))
          /\ ~reader.stuck
          /\ Depth \in Nat /\ Depth # 0 /\ DOMAIN reader.stack = 1..Depth
          /\ Top = reader.stack[Depth] /\ n \in DOMAIN heap
      BY <1>1, InTheMiddle
    <2>2. heap[n].type = "object"
      BY <1>1 DEF IInv, Holds, Opening, Top
    <2>3. IsReader(p) /\ p.stack = reader.stack /\ ~p.stuck
      BY <2>1, PastFacts
    <2>4. IsReader(r2) /\ r2.at = "value" /\ r2.stack = reader.stack /\ ~r2.stuck
      <3>1. "value" \in Reading
        BY DEF Reading
      <3> HIDE DEF p
      <3>2. r2 = [p EXCEPT !.at = "value"]
        OBVIOUS
      <3> HIDE DEF r2
      <3> QED
        BY <2>3, <3>1, <3>2, AtPlace
    <2>5. heap' = h2 /\ reader' = r2
      BY <1>4
    <2> HIDE DEF r2
    <2>6. /\ Counted(h2, own) /\ Renewed(heap, h2, n, items, heap[n].kind)
          /\ DOMAIN items = DOMAIN heap[n].items \cup {k} /\ items[k] = Undefined
          /\ \A i \in DOMAIN heap[n].items : items[i] = heap[n].items[i]
      <3>1. Undefined.kind \notin Containers
        BY DEF Undefined, Containers
      <3>2. n \in DOMAIN heap /\ heap[n].type = "object" /\ k \notin DOMAIN heap[n].items /\ Counted(heap, own)
        BY <1>4, <2>1, <2>2
      <3> HIDE DEF n, k, own
      <3>3. /\ Counted(h2, Less(own, Undefined)) /\ Renewed(heap, h2, n, items, heap[n].kind)
        BY <3>1, <3>2, CountedAdd
      <3>4. /\ DOMAIN items = DOMAIN heap[n].items \cup {k} /\ items[k] = Undefined
            /\ \A i \in DOMAIN heap[n].items : items[i] = heap[n].items[i]
        BY <3>2 DEF AddedField
      <3> HIDE DEF items
      <3> QED
        BY <3>3, <3>4, NoLess
    <2> HIDE DEF h2, items
    <2>7. \A j \in DOMAIN reader.stack : reader.stack[j].node = n => j = Depth
      <3>1. own \in [Nodes -> Nat] /\ \A m \in Nodes : own[m] >= own[m]
        <4>1. own \in [Nodes -> Nat]
          BY <2>1 DEF Counted
        <4> HIDE DEF own
        <4> QED
          BY <4>1
      <3>2. \A m \in Nodes : own[m] >= Owing(handles, Opened(reader.stack))[m]
        BY <3>1
      <3> HIDE DEF own
      <3>3. \A j \in DOMAIN reader.stack : \A i \in DOMAIN reader.stack :
               reader.stack[i].node = reader.stack[j].node => i = j
        BY <2>1, <3>2, OpenDistinct
      <3>4. Depth \in DOMAIN reader.stack
        BY <2>1
      <3> QED
        BY <2>1, <3>3, <3>4
    <2>8. /\ \A j \in DOMAIN reader.stack :
                j # Depth => <<reader.stack[j].node, reader.stack[j].slot>> \in Waiting(reader)
          /\ Depth \in DOMAIN reader.stack
      <3>1. Depth = Len(reader.stack)
        BY DEF Depth
      <3>2. \A j \in DOMAIN reader.stack : j # Depth => Waits(reader, j)
        BY <2>1, <3>1 DEF Waits
      <3> QED
        BY <2>1, <3>2 DEF Waiting
    <2>9. Proper(h2, All(reader)) /\ Empty(h2, All(reader)) /\ Alone(h2, reader)
      <3>1. n = reader.stack[Depth].node /\ k = reader.stack[Depth].slot
        BY <2>1
      <3>2. Placing(heap, h2, reader, Waiting(reader), Depth, items)
        BY <2>1, <2>6, <2>7, <2>8, <3>1, WaitingOpen DEF Placing
      <3> QED
        BY <3>2, PlacedProper
    <2>10. All(r2) = All(reader) /\ Alone(h2, r2) /\ Waiting(r2) = All(r2)
      BY <2>4, <2>9, WaitingAll DEF All, Alone
    <2>11. Counted(h2, Owing(handles, Opened(r2.stack)))
      BY <2>4, <2>6
    <2>12. Proper(h2, Waiting(r2)) /\ Empty(h2, Waiting(r2))
      BY <2>9, <2>10
    <2>13. Holds(h2, handles, r2)
      BY <2>1, <2>4, <2>10, <2>11, <2>12, ReadingHolds DEF Reading
    <2> QED
      BY <1>1, <2>5, <2>13 DEF IInv
  <1> QED
    BY <1>2, <1>3, <1>4

LEMMA StuckOther ==
    ASSUME NEW r, IsReader(r), NEW b \in BOOLEAN
    PROVE  LET r2 == [r EXCEPT !.stuck = b]
           IN /\ IsReader(r2) /\ r2.stack = r.stack /\ r2.at = r.at /\ r2.stuck = b
              /\ r2.result = r.result
  <1> DEFINE r2 == [r EXCEPT !.stuck = b]
  <1>1. r = [at |-> r.at, stack |-> r.stack, source |-> r.source, given |-> r.given,
             written |-> r.written, stuck |-> r.stuck, result |-> r.result, why |-> r.why]
    BY DEF IsReader
  <1>2. r2 = [at |-> r.at, stack |-> r.stack, source |-> r.source, given |-> r.given,
              written |-> r.written, stuck |-> b, result |-> r.result, why |-> r.why]
    BY <1>1
  <1> HIDE DEF r2
  <1>3. r2.stack = r.stack /\ r2.at = r.at /\ r2.stuck = b /\ r2.result = r.result
    BY <1>2
  <1>4. IsReader(r2)
    BY <1>2, <1>3 DEF IsReader
  <1> QED
    BY <1>3, <1>4 DEF r2

\* A value that is no object or array.
LEMMA PlainHolds ==
    ASSUME NEW h, NEW held \in [Nodes -> Nat], NEW r, NEW value, IsReader(r), r.stack # <<>>,
           Counted(h, Owing(held, Opened(r.stack))), value.kind \notin Containers,
           Alone(h, r), Proper(h, All(r)), Empty(h, All(r)),
           value.kind = "undefined" <=> r.stuck,
           Deliver(h, r, value), handles' = held
    PROVE  IInv'
  <1>1. More(Owing(held, Opened(r.stack)), value) = Owing(held, Opened(r.stack))
    BY DEF More
  <1> QED
    BY <1>1, DeliverHolds

\* A value is read, where its place is.
LEMMA ValueHolds ==
    ASSUME NEW h, NEW held \in [Nodes -> Nat], NEW r, NEW t, IsReader(r), r.stack # <<>>, ~r.stuck,
           Counted(h, Owing(held, Opened(r.stack))), DOMAIN h = DOMAIN heap,
           Alone(h, r), Proper(h, All(r)), Empty(h, All(r)), Value(h, r, t), handles = held
    PROVE  IInv'
  <1>1. handles' = held
    BY DEF Value
  <1>2. ASSUME NEW why, Fail(h, r, why) PROVE IInv'
    BY <1>1, <1>2, FailAll
  <1>3. ASSUME NEW type \in Containers, Descend(h, r, type) PROVE IInv'
    BY <1>1, <1>3, DescendHolds
  <1>4. ASSUME NEW value, value.kind \notin Containers, value.kind # "undefined", Deliver(h, r, value)
        PROVE  IInv'
    BY <1>1, <1>4, PlainHolds
  <1>5. ASSUME Deliver(h, [r EXCEPT !.stuck = TRUE], Undefined) PROVE IInv'
    <2> DEFINE r2 == [r EXCEPT !.stuck = TRUE]
    <2>1. IsReader(r2) /\ r2.stack = r.stack /\ r2.stuck = TRUE
      BY StuckOther
    <2> HIDE DEF r2
    <2>2. Alone(h, r2) /\ All(r2) = All(r)
      BY <2>1 DEF Alone, All
    <2>3. Undefined.kind = "undefined" /\ Undefined.kind \notin Containers
      BY DEF Undefined, Containers
    <2>4. Deliver(h, r2, Undefined)
      BY <1>5 DEF r2
    <2>5. /\ r2.stack # <<>> /\ Counted(h, Owing(held, Opened(r2.stack)))
          /\ Proper(h, All(r2)) /\ Empty(h, All(r2))
      BY <2>1, <2>2
    <2> QED
      BY <1>1, <2>1, <2>2, <2>3, <2>4, <2>5, PlainHolds
  <1>6. \/ \E why : Fail(h, r, why)
        \/ \E type \in Containers : Descend(h, r, type)
        \/ \E value : value.kind \notin Containers /\ value.kind # "undefined" /\ Deliver(h, r, value)
        \/ Deliver(h, [r EXCEPT !.stuck = TRUE], Undefined)
    <2>1. NullValue.kind \notin Containers /\ NullValue.kind # "undefined"
      BY DEF NullValue, Containers
    <2>2. \A x : [kind |-> "bool", of |-> x].kind \notin Containers /\ [kind |-> "bool", of |-> x].kind # "undefined"
      BY DEF Containers
    <2>3. \A x : [kind |-> "string", of |-> x].kind \notin Containers /\ [kind |-> "string", of |-> x].kind # "undefined"
      BY DEF Containers
    <2>4. \A x : NumberValue(x).kind \notin Containers /\ NumberValue(x).kind # "undefined"
      BY DEF Containers, NumberValue
    <2>5. "object" \in Containers /\ "array" \in Containers
      BY DEF Containers
    <2>6. \/ Fail(h, r, "depth") \/ Fail(h, r, "range") \/ Fail(h, r, "json")
          \/ Descend(h, r, "object") \/ Descend(h, r, "array")
          \/ Deliver(h, r, NullValue)
          \/ Deliver(h, r, [kind |-> "bool", of |-> t.of])
          \/ Deliver(h, r, [kind |-> "string", of |-> t.of])
          \/ Deliver(h, r, NumberValue(t.of))
          \/ Deliver(h, [r EXCEPT !.stuck = TRUE], Undefined)
      BY DEF Value
    <2> QED
      BY <2>1, <2>2, <2>3, <2>4, <2>5, <2>6
  <1> QED
    BY <1>2, <1>3, <1>4, <1>5, <1>6

LEMMA ReadValueHolds ==
    ASSUME IInv, ReadValue
    PROVE  IInv'
  <1>1. reader.at = "value" /\ reader.at \in Reading
    BY DEF ReadValue, Reading
  <1>2. PICK t \in Ahead : Value(heap, Past(t), t)
    BY DEF ReadValue
  <1> DEFINE p == Past(t)
  <1>3. /\ IsReader(reader) /\ handles \in [Nodes -> Nat] /\ reader.stack # <<>>
        /\ Counted(heap, Owing(handles, Opened(reader.stack)))
        /\ Alone(heap, reader) /\ Proper(heap, Waiting(reader)) /\ Empty(heap, Waiting(reader))
        /\ ~reader.stuck
    BY <1>1, InTheMiddle
  <1>4. IsReader(p) /\ p.stack = reader.stack /\ ~p.stuck
    BY <1>3, PastFacts
  <1> HIDE DEF p
  <1>5. Alone(heap, p) /\ All(p) = Waiting(reader)
    BY <1>1, <1>3, <1>4, WaitingAll DEF Alone, All
  <1>6. /\ Proper(heap, All(p)) /\ Empty(heap, All(p)) /\ p.stack # <<>>
        /\ Counted(heap, Owing(handles, Opened(p.stack))) /\ Value(heap, p, t)
    BY <1>2, <1>3, <1>4, <1>5 DEF p
  <1> QED
    BY <1>3, <1>4, <1>5, <1>6, ValueHolds

\* The next element has its place.
LEMMA ReadElementHolds ==
    ASSUME IInv, ReadElement
    PROVE  IInv'
  <1> DEFINE n == Top.node
             d == Depth
             k == Len(heap[n].items) + 1
             items == Append(heap[n].items, Undefined)
             h2 == [heap EXCEPT ![n].items = items]
             own == Owing(handles, Opened(reader.stack))
  <1>1. reader.at \in {"open", "item"} /\ reader.at \in Reading /\ heap[n].type # "object"
    BY DEF ReadElement, Reading, IsObject
  <1>2. PICK t \in Ahead :
           Value([heap EXCEPT ![n].items = Append(@, Undefined)], [Past(t) EXCEPT !.stack[d].slot = k], t)
    BY DEF ReadElement
  <1> DEFINE p == Past(t)
             r2 == [p EXCEPT !.stack[d].slot = k]
  <1>3. /\ IsReader(reader) /\ handles \in [Nodes -> Nat] /\ reader.stack # <<>>
        /\ Counted(heap, own)
        /\ Alone(heap, reader) /\ Proper(heap, Waiting(reader)) /\ Empty(heap, Waiting(reader))
        /\ ~reader.stuck
        /\ d \in Nat /\ d # 0 /\ DOMAIN reader.stack = 1..d
        /\ Top = reader.stack[d] /\ n \in DOMAIN heap
    BY <1>1, InTheMiddle
  <1>4. /\ IsHeap(heap) /\ IsNode(heap[n]) /\ heap[n].type = "array" /\ own \in [Nodes -> Nat]
    BY <1>1, <1>3 DEF Counted, IsHeap, IsNode, Containers
  <1>5. Value(h2, r2, t)
    BY <1>2
  <1>6. IsReader(p) /\ p.stack = reader.stack /\ ~p.stuck
    BY <1>3, PastFacts
  <1> HIDE DEF p
  <1>7. /\ IsReader(r2) /\ ~r2.stuck
        /\ DOMAIN r2.stack = DOMAIN reader.stack /\ Len(r2.stack) = Len(reader.stack)
        /\ \A j \in DOMAIN reader.stack : /\ r2.stack[j].node = reader.stack[j].node
                                          /\ j # d => r2.stack[j] = reader.stack[j]
        /\ r2.stack[d].slot = k
        /\ Opened(r2.stack) = Opened(reader.stack)
    <2>1. d \in DOMAIN p.stack
      BY <1>3, <1>6
    <2> HIDE DEF d, k
    <2>2. /\ IsReader(r2) /\ r2.at = p.at /\ r2.stuck = p.stuck
          /\ DOMAIN r2.stack = DOMAIN p.stack /\ Len(r2.stack) = Len(p.stack)
          /\ \A j \in DOMAIN p.stack : /\ r2.stack[j].node = p.stack[j].node
                                       /\ j # d => r2.stack[j] = p.stack[j]
          /\ r2.stack[d].slot = k
          /\ Opened(r2.stack) = Opened(p.stack)
      <3>1. Slotted(p, r2, d, k)
        BY <1>6, <2>1, SlotOther
      <3> HIDE DEF r2
      <3> QED
        BY <3>1 DEF Slotted
    <2> HIDE DEF r2
    <2> QED
      BY <1>6, <2>2
  <1> HIDE DEF r2
  <1>8. /\ AreItems(items, heap[n].type) /\ DOMAIN items = DOMAIN heap[n].items \cup {k}
        /\ k \notin DOMAIN heap[n].items /\ items[k] = Undefined
        /\ \A i \in DOMAIN heap[n].items \ {k} : items[i] = heap[n].items[i]
    <2> DEFINE node == heap[n]
    <2>1. IsNode(node) /\ node.type = "array"
      BY <1>4
    <2> HIDE DEF node
    <2>2. LET newer == Append(node.items, Undefined)
              k2 == Len(node.items) + 1
          IN /\ AreItems(newer, "array") /\ DOMAIN newer = DOMAIN node.items \cup {k2}
             /\ k2 \notin DOMAIN node.items /\ newer[k2] = Undefined
             /\ \A i \in DOMAIN node.items \ {k2} : newer[i] = node.items[i]
      <3> DEFINE newer == Append(node.items, Undefined)
                 k2 == Len(node.items) + 1
      <3>1. newer = Append(node.items, Undefined) /\ k2 = Len(node.items) + 1
        OBVIOUS
      <3> HIDE DEF newer, k2
      <3>2. Appended(node, Undefined, newer, k2)
        BY <2>1, <3>1, AppendedItems, Zenon
      <3> QED
        BY <3>2 DEF Appended, newer, k2
    <2> QED
      BY <1>4, <2>2 DEF node
  <1>9. k \notin Owning(heap[n])
    BY <1>8 DEF Owning
  <1> HIDE DEF items
  <1>10. Renewed(heap, h2, n, items, heap[n].kind)
    <2> HIDE DEF n
    <2> QED
      BY <1>3, <1>4, <1>8, NewItems
  <1> HIDE DEF h2
  <1>11. Counted(h2, own)
    <2>1. Undefined.kind \notin Containers
      BY DEF Undefined, Containers
    <2>2. items[k].kind \in Containers => items[k].of \in DOMAIN heap /\ own[items[k].of] > 0
      BY <1>8, <2>1
    <2>3. Counted(h2, Less(own, items[k]))
      <3> HIDE DEF n, k, own
      <3> QED
        BY <1>3, <1>8, <1>9, <1>10, <2>2, CountedItem
    <2> QED
      BY <1>8, <2>3, NoLess
  <1>12. \A j \in DOMAIN reader.stack : reader.stack[j].node = n => j = d
    <2>1. \A m \in Nodes : own[m] >= own[m]
      <3> HIDE DEF own
      <3> QED
        BY <1>4
    <2>2. \A m \in Nodes : own[m] >= Owing(handles, Opened(reader.stack))[m]
      BY <2>1
    <2> HIDE DEF own
    <2>3. \A j \in DOMAIN reader.stack : \A i \in DOMAIN reader.stack :
             reader.stack[i].node = reader.stack[j].node => i = j
      BY <1>3, <2>2, OpenDistinct
    <2> QED
      BY <1>3, <2>3
  <1>13. \A j \in DOMAIN reader.stack : Waits(reader, j) <=> j # d
    <2>1. d = Len(reader.stack)
      BY DEF Depth
    <2> HIDE DEF d
    <2> QED
      BY <1>1, <1>3, <2>1 DEF Waits
  <1> HIDE DEF d
  <1>14. /\ \A j \in DOMAIN r2.stack : j # d => <<r2.stack[j].node, r2.stack[j].slot>> \in Waiting(reader)
         /\ \A q \in Waiting(reader) : q \in All(r2)
    <2>1. \A j \in DOMAIN reader.stack : j # d =>
             <<r2.stack[j].node, r2.stack[j].slot>> = <<reader.stack[j].node, reader.stack[j].slot>>
      BY <1>7
    <2> QED
      BY <1>7, <1>13, <2>1 DEF Waiting, All
  <1>15. Alone(heap, r2)
    BY <1>3, <1>7 DEF Alone
  <1>16. Placing(heap, h2, r2, Waiting(reader), d, items)
    <2>1. d \in DOMAIN r2.stack /\ r2.stack[d].node = n /\ r2.stack[d].slot = k
      BY <1>3, <1>7
    <2>2. \A j \in DOMAIN r2.stack : r2.stack[j].node = n => j = d
      BY <1>7, <1>12
    <2> HIDE DEF n, k
    <2> QED
      BY <1>3, <1>8, <1>10, <1>14, <1>15, <2>1, <2>2 DEF Placing
  <1>17. Proper(h2, All(r2)) /\ Empty(h2, All(r2)) /\ Alone(h2, r2)
    BY <1>16, PlacedProper
  <1>18. r2.stack # <<>>
    <2>1. d \in DOMAIN reader.stack
      BY <1>3
    <2>2. DOMAIN r2.stack # {}
      BY <1>7, <2>1
    <2> QED
      BY <2>2
  <1>19. DOMAIN h2 = DOMAIN heap /\ Counted(h2, Owing(handles, Opened(r2.stack)))
    BY <1>7, <1>10, <1>11 DEF Renewed
  <1> QED
    BY <1>3, <1>5, <1>7, <1>17, <1>18, <1>19, ValueHolds

LEMMA WhyOther ==
    ASSUME NEW r, IsReader(r), NEW why
    PROVE  LET r2 == [r EXCEPT !.why = why]
           IN /\ IsReader(r2) /\ r2.stack = r.stack /\ r2.at = r.at /\ r2.stuck = r.stuck
              /\ r2.result = r.result
  <1> DEFINE r2 == [r EXCEPT !.why = why]
  <1>1. r = [at |-> r.at, stack |-> r.stack, source |-> r.source, given |-> r.given,
             written |-> r.written, stuck |-> r.stuck, result |-> r.result, why |-> r.why]
    BY DEF IsReader
  <1>2. r2 = [at |-> r.at, stack |-> r.stack, source |-> r.source, given |-> r.given,
              written |-> r.written, stuck |-> r.stuck, result |-> r.result, why |-> why]
    BY <1>1
  <1> HIDE DEF r2
  <1>3. r2.stack = r.stack /\ r2.at = r.at /\ r2.stuck = r.stuck /\ r2.result = r.result
    BY <1>2
  <1>4. IsReader(r2)
    BY <1>2, <1>3 DEF IsReader
  <1> QED
    BY <1>3, <1>4 DEF r2

LEMMA AtTail ==
    ASSUME IInv, reader.at = "tail"
    PROVE  /\ handles \in [Nodes -> Nat] /\ IsReader(reader) /\ reader.stack = <<>> /\ ~reader.stuck
           /\ reader.result \in DOMAIN heap /\ reader.result \in Nodes
           /\ Proper(heap, {}) /\ Counted(heap, [handles EXCEPT ![reader.result] = @ + 1])
  <1>1. Holds(heap, handles, reader)
    BY DEF IInv
  <1>2. /\ handles \in [Nodes -> Nat] /\ IsReader(reader) /\ reader.stack = <<>> /\ ~reader.stuck
        /\ reader.result \in DOMAIN heap
    BY <1>1 DEF Holds, Opening, Reading
  <1>3. Counted(heap, Outside(handles, reader)) /\ Proper(heap, Waiting(reader))
    BY <1>1 DEF Holds
  <1>4. reader.result \in Nodes
    BY <1>2, <1>3 DEF Counted, IsHeap
  <1>5. DOMAIN reader.stack = {}
    BY <1>2
  <1>6. Waiting(reader) = {}
    BY <1>5 DEF Waiting
  <1> QED
    BY <1>2, <1>3, <1>4, <1>6, OutsideTail

\* The result is the program's, or nobody's.
LEMMA ReadTailHolds ==
    ASSUME IInv, ReadTail
    PROVE  IInv'
  <1> DEFINE v == reader.result
             held == [handles EXCEPT ![v] = @ + 1]
  <1>1. reader.at = "tail"
    BY DEF ReadTail
  <1>2. /\ handles \in [Nodes -> Nat] /\ IsReader(reader) /\ reader.stack = <<>> /\ ~reader.stuck
        /\ v \in DOMAIN heap /\ v \in Nodes
        /\ Proper(heap, {}) /\ Counted(heap, held)
    BY <1>1, AtTail
  <1>3. PICK t \in Ahead :
           LET done == [Past(t) EXCEPT !.at = "done"]
           IN IF t = End
              THEN /\ handles' = held
                   /\ reader' = done
                   /\ UNCHANGED heap
              ELSE /\ heap' = Unref(heap, <<v>>)
                   /\ reader' = [done EXCEPT !.result = NULL, !.why = "json"]
                   /\ UNCHANGED handles
    BY DEF ReadTail
  <1> DEFINE p == Past(t)
             done == [p EXCEPT !.at = "done"]
  <1>4. IsReader(p) /\ p.stack = <<>> /\ ~p.stuck
    BY <1>2, PastFacts
  <1>5. IsReader(done) /\ done.at = "done" /\ done.stack = <<>> /\ ~done.stuck
    <2> HIDE DEF p
    <2> QED
      BY <1>4, AtOther
  <1>6. CASE t = End
    <2>1. handles' = held /\ reader' = done /\ heap' = heap
      BY <1>3, <1>6
    <2>2. held \in [Nodes -> Nat]
      BY <1>2 DEF Counted
    <2> HIDE DEF held, done
    <2>3. Holds(heap, held, done)
      BY <1>2, <1>5, <2>2, Resting
    <2> QED
      BY <2>1, <2>3 DEF IInv
  <1>7. CASE t # End
    <2> DEFINE r1 == [done EXCEPT !.result = NULL]
               r2 == [r1 EXCEPT !.why = "json"]
               one == <<v>>
               h2 == Unref(heap, one)
    <2>1. heap' = h2 /\ handles' = handles /\ reader' = r2
      <3>1. /\ heap' = h2 /\ handles' = handles
            /\ reader' = [done EXCEPT !.result = NULL, !.why = "json"]
        BY <1>3, <1>7
      <3> HIDE DEF done
      <3>2. [done EXCEPT !.result = NULL, !.why = "json"] = r2
        OBVIOUS
      <3> QED
        BY <3>1, <3>2
    <2> HIDE DEF done
    <2>2. IsReader(r1) /\ r1.at = "done" /\ r1.stack = <<>> /\ ~r1.stuck
      BY <1>5, ResultOther
    <2> HIDE DEF r1
    <2>3. IsReader(r2) /\ r2.at = "done" /\ r2.stack = <<>> /\ ~r2.stuck
      BY <2>2, WhyOther
    <2>4. one \in Seq(Nodes)
      BY <1>2
    <2>5. held = Owing(handles, one)
      <3> HIDE DEF v
      <3> QED
        BY <1>2, OwingOne
    <2> HIDE DEF r2, one, held
    <2>6. Counted(h2, handles) /\ Keeps(heap, h2)
      BY <1>2, <2>4, <2>5, CountedUnref
    <2> HIDE DEF h2
    <2>7. Proper(h2, {})
      BY <1>2, <2>6, ProperKeeps
    <2>8. Holds(h2, handles, r2)
      BY <1>2, <2>3, <2>6, <2>7, Resting
    <2> QED
      BY <2>1, <2>8 DEF IInv
  <1> QED
    BY <1>6, <1>7

-----------------------------------------------------------------------------
(* Between two texts.                                                      *)

LEMMA IdleReader ==
    ASSUME NEW at \in {"idle", "start"}, NEW given, NEW written
    PROVE  LET r == [at |-> at, stack |-> <<>>, source |-> <<>>, given |-> given, written |-> written,
                     stuck |-> FALSE, result |-> NULL, why |-> ""]
           IN IsReader(r) /\ r.at = at /\ r.stack = <<>> /\ ~r.stuck
  <1> DEFINE no == FALSE
             r == [at |-> at, stack |-> <<>>, source |-> <<>>, given |-> given, written |-> written,
                   stuck |-> no, result |-> NULL, why |-> ""]
  <1> HIDE DEF no
  <1>1. /\ r.at = at /\ r.stack = <<>> /\ r.stuck = no
        /\ r = [at |-> r.at, stack |-> r.stack, source |-> r.source, given |-> r.given,
                written |-> r.written, stuck |-> r.stuck, result |-> r.result, why |-> r.why]
    OBVIOUS
  <1> HIDE DEF r
  <1>2. <<>> \in Seq([node : Nodes, slot : {}])
    OBVIOUS
  <1>3. no \in BOOLEAN /\ ~no
    BY DEF no
  <1>4. IsReader(r)
    BY <1>1, <1>2, <1>3 DEF IsReader
  <1> QED
    BY <1>1, <1>3, <1>4 DEF r, no

LEMMA AtIdle ==
    ASSUME IInv, reader.at \in {"idle", "done"}
    PROVE  Used /\ IsReader(reader) /\ reader.stack = <<>> /\ (reader.stuck => reader.at = "done")
  <1>1. Holds(heap, handles, reader) /\ reader.stack = <<>> /\ reader.at # "tail"
    BY DEF IInv, Holds, Opening, Reading
  <1>2. reader.stuck => reader.at = "done"
    BY <1>1 DEF Holds, Opening
  <1> QED
    BY <1>1, <1>2, Rested DEF Used

LEMMA RestingHolds ==
    ASSUME Used', IsReader(reader'), reader'.stack = <<>>, reader'.at \in {"idle", "start", "done"},
           reader'.stuck => reader'.at = "done"
    PROVE  IInv'
  BY Resting DEF Used, IInv

LEMMA StartOtherHolds ==
    ASSUME IInv, StartOther
    PROVE  IInv'
  <1>1. /\ reader.at = "idle" /\ heap' = heap /\ handles' = handles
        /\ reader' = [Idle EXCEPT !.at = "start"]
    BY DEF StartOther
  <1>2. reader' = [at |-> "start", stack |-> <<>>, source |-> <<>>, given |-> <<>>, written |-> <<>>,
                   stuck |-> FALSE, result |-> NULL, why |-> ""]
    BY <1>1 DEF Idle
  <1>3. IsReader(reader') /\ reader'.at = "start" /\ reader'.stack = <<>> /\ ~reader'.stuck
    BY <1>2, IdleReader
  <1>4. Used'
    BY <1>1, AtIdle DEF Used
  <1> QED
    BY <1>3, <1>4, RestingHolds

LEMMA StartWrittenHolds ==
    ASSUME IInv, reader.at = "idle", NEW o \in Objects, StartWritten(o)
    PROVE  IInv'
  <1>1. /\ Release(o)
        /\ reader' = [Idle EXCEPT !.at = "start", !.given = Json(heap, o), !.written = Content(heap, o)]
    BY DEF StartWritten
  <1> DEFINE given   == Json(heap, o)
             written == Content(heap, o)
  <1>2. reader' = [at |-> "start", stack |-> <<>>, source |-> <<>>, given |-> given, written |-> written,
                   stuck |-> FALSE, result |-> NULL, why |-> ""]
    <2> HIDE DEF given, written
    <2> QED
      BY <1>1 DEF Idle, given, written
  <1> HIDE DEF given, written
  <1>3. IsReader(reader') /\ reader'.at = "start" /\ reader'.stack = <<>> /\ ~reader'.stuck
    BY <1>2, IdleReader
  <1>4. Used
    BY AtIdle
  <1>5. o \in Nodes
    BY <1>4, InObjects DEF Used, Counted, IsHeap
  <1>6. Used'
    BY <1>1, <1>4, <1>5, ReleaseUsed
  <1> QED
    BY <1>3, <1>6, RestingHolds

LEMMA FinishHolds ==
    ASSUME IInv, Finish
    PROVE  IInv'
  <1>1. reader.at = "done" /\ heap' = heap /\ handles' = handles /\ reader' = Idle
    BY DEF Finish
  <1>2. IsReader(reader') /\ reader'.at = "idle" /\ reader'.stack = <<>> /\ ~reader'.stuck
    BY <1>1, IdleReader DEF Idle
  <1>3. Used'
    BY <1>1, AtIdle DEF Used
  <1> QED
    BY <1>2, <1>3, RestingHolds

LEMMA UseHolds ==
    ASSUME IInv, reader.at = "idle", Use, reader' = reader
    PROVE  IInv'
  <1>1. Used /\ IsReader(reader) /\ reader.stack = <<>> /\ ~reader.stuck
    BY AtIdle
  <1>2. Used'
    BY <1>1, UseUsed
  <1> QED
    BY <1>1, <1>2, RestingHolds

LEMMA InitHolds ==
    ASSUME Init
    PROVE  IInv
  <1>1. heap = <<>> /\ handles = [n \in Nodes |-> 0] /\ reader = Idle
    BY DEF Init
  <1>2. IsReader(reader) /\ reader.at = "idle" /\ reader.stack = <<>> /\ ~reader.stuck
    BY <1>1, IdleReader DEF Idle
  <1>3. DOMAIN heap = {} /\ heap = [n \in DOMAIN heap |-> heap[n]]
    BY <1>1
  <1>4. handles \in [Nodes -> Nat] /\ \A n \in Nodes : handles[n] = 0
    BY <1>1
  <1>5. Counted(heap, handles)
    BY <1>3, <1>4 DEF Counted, IsHeap
  <1>6. Proper(heap, {})
    BY <1>3 DEF Proper
  <1>7. Holds(heap, handles, reader)
    BY <1>2, <1>4, <1>5, <1>6, Resting
  <1> QED
    BY <1>7 DEF IInv

-----------------------------------------------------------------------------
(* The invariant, and what follows from it.                                *)

LEMMA StepHolds ==
    ASSUME IInv, [Next]_vars
    PROVE  IInv'
  <1>1. CASE ReadStart
    BY <1>1, ReadStartHolds
  <1>2. CASE ReadNext
    BY <1>2, ReadNextHolds
  <1>3. CASE ReadEmpty
    BY <1>3, ReadEmptyHolds
  <1>4. CASE ReadName
    BY <1>4, ReadNameHolds
  <1>5. CASE ReadColon
    BY <1>5, ReadColonHolds
  <1>6. CASE ReadElement
    BY <1>6, ReadElementHolds
  <1>7. CASE ReadValue
    BY <1>7, ReadValueHolds
  <1>8. CASE ReadTail
    BY <1>8, ReadTailHolds
  <1>9. CASE StartOther
    BY <1>9, StartOtherHolds
  <1>10. CASE reader.at = "idle" /\ \E o \in Objects : StartWritten(o)
    BY <1>10, StartWrittenHolds
  <1>11. CASE Finish
    BY <1>11, FinishHolds
  <1>12. CASE reader.at = "idle" /\ Use /\ UNCHANGED <<reader, errno>>
    BY <1>12, UseHolds
  <1>13. CASE UNCHANGED vars
    BY <1>13 DEF vars, IInv
  <1> QED
    BY <1>1, <1>2, <1>3, <1>4, <1>5, <1>6, <1>7, <1>8, <1>9, <1>10, <1>11, <1>12, <1>13 DEF Next, Read

\* The owners of a node are those outside of the heap and those in it.
LEMMA OwnersFollow ==
    ASSUME IInv
    PROVE  OwnersAreCounted
  <1> DEFINE outside == Outside(handles, reader)
             s == reader.stack
  <1>1. /\ handles \in [Nodes -> Nat] /\ IsReader(reader) /\ Counted(heap, outside)
    BY DEF IInv, Holds, Opening
  <1>2. ASSUME NEW n \in Nodes
        PROVE  /\ Owners(n) = outside[n] + Cardinality(Places(heap, n))
               /\ outside[n] = 0 => handles[n] = 0
    <2> DEFINE opened == Cardinality({i \in DOMAIN s : s[i].node = n})
               places == Cardinality(Places(heap, n))
               result == IF reader.at = "tail" /\ reader.result = n THEN 1 ELSE 0
    <2>1. opened = Count(Opened(s), n)
      <3>1. DOMAIN Opened(s) = DOMAIN s /\ \A j \in DOMAIN s : Opened(s)[j] = s[j].node
        BY DEF Opened
      <3>2. {i \in DOMAIN s : s[i].node = n} = {i \in DOMAIN Opened(s) : Opened(s)[i] = n}
        BY <3>1
      <3> QED
        BY <3>2 DEF Count
    <2>2. Count(Opened(s), n) \in Nat
      BY <1>1, StackFacts, OpenedList, CountType
    <2>3. places \in Nat /\ handles[n] \in Nat /\ result \in {0, 1}
      BY <1>1, FinitePlaces DEF Counted
    <2>4. outside[n] = handles[n] + Count(Opened(s), n) + result
      BY DEF Outside
    <2>5. Owners(n) = handles[n] + places + opened + result
      BY DEF Owners
    <2> HIDE DEF opened, places, result, outside
    <2>6. Owners(n) = outside[n] + places /\ (outside[n] = 0 => handles[n] = 0)
      BY <2>1, <2>2, <2>3, <2>4, <2>5
    <2> QED
      BY <2>6 DEF places
  <1> HIDE DEF outside
  <1>3. ASSUME NEW n \in DOMAIN heap PROVE heap[n].refcount = Owners(n) /\ Owners(n) > 0
    <2>1. n \in Nodes
      BY <1>1 DEF Counted, IsHeap
    <2>2. heap[n].refcount = outside[n] + Cardinality(Places(heap, n)) /\ heap[n].refcount > 0
      BY <1>1 DEF Counted
    <2> QED
      BY <1>2, <2>1, <2>2
  <1>4. \A n \in Nodes \ DOMAIN heap : handles[n] = 0
    BY <1>1, <1>2 DEF Counted
  <1>5. \A n \in DOMAIN heap : Members(heap[n]) \subseteq DOMAIN heap
    BY <1>1 DEF Counted
  <1> QED
    BY <1>3, <1>4, <1>5 DEF OwnersAreCounted

LEMMA ValuesFollow ==
    ASSUME IInv
    PROVE  ValuesAreProper
  <1>1. Proper(heap, Waiting(reader)) /\ IsReader(reader)
    BY DEF IInv, Holds, Opening
  <1>2. PICK T : reader.stack \in Seq(Frames(T))
    BY <1>1, StackFacts
  <1>3. \A j \in DOMAIN reader.stack : reader.stack[j] \in Frames(T)
    BY <1>2, LenProperties
  <1> SUFFICES ASSUME NEW n \in DOMAIN heap, NEW i \in DOMAIN heap[n].items
               PROVE  /\ ProperItem(heap[n], heap[n].items[i].kind)
                      /\ heap[n].items[i].kind = "undefined" =>
                            \E j \in DOMAIN reader.stack : reader.stack[j] = [node |-> n, slot |-> i]
    BY DEF ValuesAreProper, ProperItem
  <1>4. /\ ProperItem(heap[n], heap[n].items[i].kind)
        /\ heap[n].items[i].kind = "undefined" => <<n, i>> \in Waiting(reader)
    BY <1>1 DEF Proper
  <1>5. ASSUME <<n, i>> \in Waiting(reader)
        PROVE  \E j \in DOMAIN reader.stack : reader.stack[j] = [node |-> n, slot |-> i]
    <2>1. PICK j \in DOMAIN reader.stack : <<n, i>> = <<reader.stack[j].node, reader.stack[j].slot>>
      BY <1>5 DEF Waiting
    <2> DEFINE f == reader.stack[j]
    <2>2. f \in Frames(T) /\ f.node = n /\ f.slot = i
      BY <1>3, <2>1
    <2> HIDE DEF f
    <2>3. f = [node |-> n, slot |-> i]
      BY <2>2 DEF Frames
    <2> QED
      BY <2>3 DEF f
  <1> QED
    BY <1>4, <1>5

\* What all functions of object.c, array.c and value.c keep: IInv, for a program
\* that uses values as it may and for every text.
THEOREM InvariantHolds == Spec => []IInv
  <1>1. Init => IInv
    BY InitHolds
  <1>2. IInv /\ [Next]_vars => IInv'
    BY StepHolds
  <1> QED
    BY <1>1, <1>2, PTL DEF Spec

\* lib/object.c and lib/array.c, _ref and _unref, and the error paths of the
\* readers: a node is freed exactly when its last owner lets go.
THEOREM OwnersCounted == Spec => []OwnersAreCounted
  <1>1. IInv => OwnersAreCounted
    BY OwnersFollow
  <1> QED
    BY <1>1, InvariantHolds, PTL

\* varlink_array_append_*, object_set_field and varlink_value_read_from_scanner:
\* the kinds of what is in an array, and no value without a kind but where the
\* reader is.
THEOREM ValuesProper == Spec => []ValuesAreProper
  <1>1. IInv => ValuesAreProper
    BY ValuesFollow
  <1> QED
    BY <1>1, InvariantHolds, PTL
=============================================================================
