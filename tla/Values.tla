------------------------------- MODULE Values -------------------------------
(***************************************************************************)
(* Objects and arrays (lib/object.c, lib/array.c, lib/value.c) and the     *)
(* messages made of them (lib/message.c), as one program uses them: what   *)
(* it creates it owns, what it puts into another object that one owns too, *)
(* and what nobody owns is freed with everything in it.                    *)
(*                                                                         *)
(* heap is the memory.  A node is an object, whose items are its fields,   *)
(* or an array, whose items are its elements.  A value is a kind and what  *)
(* it is a value of: some data, or the address of a node.                  *)
(***************************************************************************)
EXTENDS Integers, Sequences, FiniteSets, SequencesExt

CONSTANTS Nodes,       \* the addresses calloc can return
          Keys,        \* the names of fields
          Scalars,     \* values that are no nodes
          MaxItems,    \* bound: elements of an array
          MaxHandles,  \* bound: references of the program to one node
          NULL

Containers == {"object", "array"}
Undefined  == [kind |-> "undefined", of |-> "nothing"]
NullValue  == [kind |-> "null", of |-> "nothing"]
True       == [kind |-> "bool", of |-> "true"]
Text       == [kind |-> "string", of |-> "text"]

ASSUME ValuesAssumption ==
    /\ IsFiniteSet(Nodes) /\ NULL \notin Nodes
    /\ \A v \in Scalars : v.kind \in {"bool", "int", "float", "string"}
    /\ MaxItems \in Nat /\ MaxHandles \in Nat \ {0}

VARIABLES heap,    \* the nodes
          handles  \* handles[n]: how many references the program has

Node(type) == [type |-> type, refcount |-> 1, items |-> <<>>, kind |-> "undefined"]

\* calloc: an address that is free, whichever, or none.
Free    == Nodes \ DOMAIN heap
Address == CHOOSE n \in Free : TRUE
With(h, n, node) == [m \in DOMAIN h \cup {n} |-> IF m = n THEN node ELSE h[m]]

-----------------------------------------------------------------------------
(* References                                                              *)

\* The items of a node that refer to nodes, and the places of all of them.
Owning(node)  == {i \in DOMAIN node.items : node.items[i].kind \in Containers}
References(h) == UNION {{m} \X Owning(h[m]) : m \in DOMAIN h}
Places(h, n)  == {p \in References(h) : h[p[1]].items[p[2]].of = n}

\* varlink_value_clear of everything in a node: the nodes it refers to, one
\* after the other.
Members(node) == {node.items[i].of : i \in Owning(node)}
Children(node) ==
    LET owned == SetToSeq(Owning(node)) IN [j \in DOMAIN owned |-> node.items[owned[j]].of]

\* varlink_object_unref and varlink_array_unref, once for every node of a list:
\* the first that is left.  What is in a node that is freed comes next.
UnrefHead(s) ==
    LET n == Head(s.left)
    IN IF s.left = <<>> THEN s
       ELSE IF s.heap[n].refcount > 1
       THEN [heap |-> [s.heap EXCEPT ![n].refcount = @ - 1], left |-> Tail(s.left)]
       ELSE [heap |-> [m \in DOMAIN s.heap \ {n} |-> s.heap[m]],
             left |-> Children(s.heap[n]) \o Tail(s.left)]

\* Every call gives back one reference: one of the list or one in the heap.
Unref(h, ns) ==
    LET calls == Len(ns) + Cardinality(References(h))
        after[i \in 0..calls] == IF i = 0 THEN [heap |-> h, left |-> ns] ELSE UnrefHead(after[i - 1])
    IN after[calls].heap

RefOf(h, n) == [h EXCEPT ![n].refcount = @ + 1]

\* Some nodes and those that are in them, or in one in them: the least set.
Below(h, ns) ==
    {n \in DOMAIN h : \A S \in SUBSET DOMAIN h :
        ns \subseteq S /\ (\A m \in S : Members(h[m]) \subseteq S) => n \in S}

Owned     == {n \in DOMAIN heap : handles[n] > 0}
Reachable == Below(heap, Owned)

-----------------------------------------------------------------------------
(* Fields and elements                                                     *)

Objects == {n \in Reachable : heap[n].type = "object"}
Arrays  == {n \in Reachable : heap[n].type = "array"}

\* object_remove_field: the tree clears the value of the field.
RemoveField(h, o, k) ==
    IF k \notin DOMAIN h[o].items THEN h
    ELSE LET value == h[o].items[k]
             left  == [h EXCEPT ![o].items = [f \in DOMAIN @ \ {k} |-> @[f]]]
         IN IF value.kind \in Containers THEN Unref(left, <<value.of>>) ELSE left

\* object_add_field, where there is no such field, with its value.
AddField(h, o, k, value) ==
    [h EXCEPT ![o].items = [f \in DOMAIN @ \cup {k} |-> IF f = k THEN value ELSE @[f]]]

\* What a new owner does to a value: the reference to a node is counted.
TakenUncounted(h, value) == h
Taken(h, value) == IF value.kind \in Containers THEN RefOf(h, value.of) ELSE h

\* varlink_object_set_*: what was in the field goes first.
SetField(h, o, k, value) ==
    LET left == RemoveField(h, o, k) IN AddField(Taken(left, value), o, k, value)

\* varlink_array_append_*: an array has elements of one kind, or null.
FittingAny(array, value) == TRUE
Fitting(array, value) == value.kind = "null" \/ array.kind \in {"undefined", value.kind}

KindAfter(array, value) == IF value.kind = "null" THEN array.kind ELSE value.kind

AppendValue(h, a, value) ==
    LET h2 == Taken(h, value)
    IN [h2 EXCEPT ![a].items = Append(@, value), ![a].kind = KindAfter(h[a], value)]

\* varlink_object_get_*: the value of a field, if it has this kind.
Found(h, o, k, kind) == k \in DOMAIN h[o].items /\ h[o].items[k].kind = kind
Missing(h, o, k) == k \notin DOMAIN h[o].items
Optional(h, o, k, kind) == Missing(h, o, k) \/ Found(h, o, k, kind)

-----------------------------------------------------------------------------
(* The program                                                             *)

Hold(n)   == handles' = [handles EXCEPT ![n] = @ + 1]
MayHold(n) == handles[n] < MaxHandles

New(type) ==
    /\ Free # {}
    /\ heap' = With(heap, Address, Node(type))
    /\ Hold(Address)

Ref(n) ==
    /\ n \in Reachable /\ MayHold(n)
    /\ heap' = RefOf(heap, n)
    /\ Hold(n)

Release(n) ==
    /\ handles[n] > 0
    /\ heap' = Unref(heap, <<n>>)
    /\ handles' = [handles EXCEPT ![n] = @ - 1]

\* What the program may put into x: no node that x is in, which would never
\* be freed nor printed, and none that x owns alone in the field it replaces.
MayPut(x, n) == n \in Reachable /\ x \notin Below(heap, {n})
Survives(o, k, n) == n \in DOMAIN RemoveField(heap, o, k)

Values(x) == Scalars \cup {[kind |-> heap[n].type, of |-> n] : n \in {m \in Reachable : MayPut(x, m)}}

Set(o, k, value) ==
    /\ o \in Objects /\ value \in Values(o)
    /\ value.kind \in Containers => Survives(o, k, value.of)
    /\ heap' = SetField(heap, o, k, value)
    /\ UNCHANGED handles

SetNull(o, k) ==
    /\ o \in Objects /\ k \in DOMAIN heap[o].items
    /\ heap' = RemoveField(heap, o, k)
    /\ UNCHANGED handles

AppendTo(a, value) ==
    /\ a \in Arrays /\ value \in Values(a) \cup {NullValue}
    /\ Len(heap[a].items) < MaxItems
    /\ Fitting(heap[a], value)
    /\ heap' = AppendValue(heap, a, value)
    /\ UNCHANGED handles

-----------------------------------------------------------------------------
(* Messages                                                                *)

\* varlink_message_pack_call (name is "method") and _pack_reply ("error", or
\* none).  A call with both flags is not made.
Flags(name) == Keys \cap (IF name = "method" THEN {"more", "oneway"} ELSE {"continues"})

Packed(name, named, parameters, flags) ==
    [k \in (IF named THEN {name} ELSE {}) \cup flags
             \cup (IF parameters # NULL THEN {"parameters"} ELSE {}) |->
       CASE k = name         -> Text
         [] k = "parameters" -> [kind |-> "object", of |-> parameters]
         [] OTHER            -> True]

Pack(name, named, parameters, flags) ==
    /\ named \/ name = "error"
    /\ parameters \in Objects \cup {NULL}
    /\ flags \subseteq Flags(name) /\ flags # {"more", "oneway"}
    /\ Free # {}
    /\ LET h == With(heap, Address, [Node("object") EXCEPT
                                       !.items = Packed(name, named, parameters, flags)])
       IN heap' = IF parameters = NULL THEN h ELSE RefOf(h, parameters)
    /\ Hold(Address)

\* varlink_message_unpack_call and _unpack_reply: a message that is none is
\* refused, and nothing changes; the parameters of one are there, if empty.
IsMessage(m, name) ==
    /\ IF name = "method" THEN Found(heap, m, name, "string")
                          ELSE Optional(heap, m, name, "string")
    /\ Optional(heap, m, "parameters", "object")
    /\ \A flag \in Flags(name) : Optional(heap, m, flag, "bool")

Unpack(m, name) ==
    /\ m \in Objects /\ IsMessage(m, name)
    /\ IF Missing(heap, m, "parameters")
       THEN New("object")
       ELSE LET p == heap[m].items["parameters"].of
            IN MayHold(p) /\ heap' = RefOf(heap, p) /\ Hold(p)

\* Every call of the program.
Use ==
    \/ \E type \in Containers : New(type)
    \/ \E n \in Nodes : Ref(n) \/ Release(n)
    \/ \E o \in Objects, k \in Keys : SetNull(o, k) \/ \E v \in Values(o) : Set(o, k, v)
    \/ \E a \in Arrays : \E v \in Values(a) \cup {NullValue} : AppendTo(a, v)
    \/ \E name \in {"method", "error"} \cap Keys, named \in BOOLEAN, p \in Objects \cup {NULL} :
         \E flags \in SUBSET Flags(name) : Pack(name, named, p, flags)
    \/ \E m \in Objects, name \in {"method", "error"} \cap Keys : Unpack(m, name)
=============================================================================
