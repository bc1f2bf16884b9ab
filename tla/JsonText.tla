------------------------------ MODULE JsonText ------------------------------
(***************************************************************************)
(* Reading and writing JSON (lib/value.c, lib/scanner.c and the            *)
(* *_new_from_scanner and *_write_json functions of lib/object.c and       *)
(* lib/array.c) among the other uses of Values.                            *)
(*                                                                         *)
(* A text is a sequence of tokens; space is left out.  The reader descends *)
(* recursively, one frame for every object or array that is open; it takes *)
(* one token in a step.  It reads what varlink_object_to_json wrote, or a  *)
(* text of somebody else, of which each token is chosen when it is read.   *)
(***************************************************************************)
EXTENDS Values

CONSTANTS Tokens,      \* the tokens of texts of others
          InQuotes(_), \* the tokens of a name between quotation marks
          MaxText,     \* bound: their number, in a text
          MaxDepth     \* JSON_MAX_DEPTH

Op(o)      == [token |-> "op", of |-> o]
String(s)  == [token |-> "string", of |-> s]
Number(n)  == [token |-> "number", of |-> n]
Keyword(k) == [token |-> "keyword", of |-> k]
End        == [token |-> "end", of |-> ""]
Broken     == [token |-> "broken", of |-> ""]  \* a string with an error in it
Other      == [token |-> "other", of |-> ""]   \* anything else

ASSUME JsonAssumption == MaxText \in Nat /\ MaxDepth \in Nat \ {0}

VARIABLES reader,  \* see Idle
          errno    \* that of the thread: ERANGE, or anything else

vars == <<heap, handles, reader, errno>>

\* stack: the frames, innermost last; source: the tokens up to now, of a text
\* that is given or of somebody else; written: the object that the text was written
\* of, as tokens; why: the reason of a failure.
Idle == [at |-> "idle", stack |-> <<>>, source |-> <<>>, given |-> <<>>, written |-> <<>>,
         stuck |-> FALSE, result |-> NULL, why |-> ""]

IsWritten == reader.written # <<>>

Busy  == reader.at \notin {"idle", "done"}
Top   == Last(reader.stack)
Depth == Len(reader.stack)

-----------------------------------------------------------------------------
(* varlink_object_write_json and varlink_array_write_json                  *)

\* A number is written as it is read: the digits of a float suffice.  A float
\* that is not finite cannot be written; there is none.
Scalar(value) == CASE value.kind = "string"         -> String(value.of)
                   [] value.kind \in {"int", "float"} -> Number(value.of)
                   [] value.kind = "bool"           -> Keyword(value.of)
                   [] OTHER                         -> Keyword("null")

\* varlink_value_write_json: the tokens of a value, and of what is in it.  A string
\* is escaped, the name of a field is only put between quotation marks.
Written(h, o, names) ==
    LET written[n \in DOMAIN h] ==
          LET node  == h[n]
              order == IF node.type = "array" THEN [i \in DOMAIN node.items |-> i]
                                              ELSE SetToSeq(DOMAIN node.items)
              value(i) == IF node.items[i].kind \in Containers THEN written[node.items[i].of]
                                                               ELSE <<Scalar(node.items[i])>>
              item(j) == (IF j > 1 THEN <<Op(",")>> ELSE <<>>)
                           \o (IF node.type = "array" THEN <<>> ELSE Append(names[order[j]], Op(":")))
                           \o value(order[j])
          IN <<Op(IF node.type = "array" THEN "[" ELSE "{")>>
               \o FlattenSeq([j \in DOMAIN order |-> item(j)])
               \o <<Op(IF node.type = "array" THEN "]" ELSE "}")>>
    IN written[o]

Json(h, o)    == Written(h, o, [k \in Keys |-> InQuotes(k)])
Content(h, o) == Written(h, o, [k \in Keys |-> <<String(k)>>])

\* A name that is read as it is.
IsPlain(name) == InQuotes(name) = <<String(name)>>

-----------------------------------------------------------------------------
(* The scanner                                                             *)

\* scanner_peek: what can come next.
AheadPastErrors == IF IsWritten THEN {IF reader.given = <<>> THEN End ELSE Head(reader.given)}
                   ELSE {End} \cup (IF Len(reader.source) < MaxText THEN Tokens ELSE {})
Ahead == IF reader.stuck THEN {Broken}
         ELSE IF IsWritten THEN {IF reader.given = <<>> THEN End ELSE Head(reader.given)}
         ELSE {End} \cup (IF Len(reader.source) < MaxText THEN Tokens ELSE {})

Past(t) == [reader EXCEPT !.source = IF reader.stuck THEN @ ELSE Append(@, t),
                          !.given = IF @ = <<>> THEN @ ELSE Tail(@),
                          !.stuck = FALSE]

\* scanner_read_number: what the text says, unless strtol or strtod set errno,
\* or left it as it was.  "wide" is a float whose first digits are no long,
\* "extreme" the least or the greatest long.
ErrnoAfter(n) == IF n \in {"wide", "huge"} THEN "ERANGE" ELSE errno
InRange(n) == /\ n # "huge"
              /\ n = "extreme" => ErrnoAfter(n) # "ERANGE"
NumberValueFloat(n) == [kind |-> "float", of |-> "finite"]
NumberValue(n) == CASE n = "extreme" -> [kind |-> "int", of |-> n]
                    [] OTHER         -> [kind |-> "float", of |-> "finite"]

-----------------------------------------------------------------------------
(* varlink_object_new_from_json and the functions it descends to           *)

\* Everything that is open is freed on the way out.
Opened(stack) == [i \in DOMAIN stack |-> stack[i].node]
Fail(h, r, why) ==
    /\ heap' = Unref(h, Opened(r.stack))
    /\ reader' = [r EXCEPT !.at = "done", !.stack = <<>>, !.result = NULL, !.why = why]

\* The value that was read is in its place; null is no value of a field.
Placed(h, frame, value) ==
    IF h[frame.node].type = "object" /\ value.kind = "null"
    THEN RemoveField(h, frame.node, frame.slot)
    ELSE [h EXCEPT ![frame.node].items[frame.slot] = value]

\* Back in the object or array that is open: elements have one kind.
Deliver(h, r, value) ==
    LET frame  == Last(r.stack)
        array  == h[frame.node]
        placed == Placed(h, frame, value)
    IN IF array.type = "array" /\ ~Fitting(array, value)
       THEN Fail(placed, r, "type")
       ELSE /\ heap' = IF array.type = "array"
                       THEN [placed EXCEPT ![frame.node].kind = KindAfter(array, value)]
                       ELSE placed
            /\ reader' = [r EXCEPT !.at = "next"]

\* A new object or array, and its first token.
Descend(h, r, type) ==
    IF Free = {} THEN Fail(h, r, "memory")
    ELSE /\ heap' = With(h, Address, Node(type))
         /\ reader' = [r EXCEPT !.at = "open",
                                !.stack = Append(@, [node |-> Address, slot |-> 0])]

\* The object or array at the top is complete.
AscendAtOnce(r) == reader' = [r EXCEPT !.at = "tail", !.result = Top.node] /\ UNCHANGED heap
Ascend(r) ==
    LET value == [kind |-> heap[Top.node].type, of |-> Top.node]
        out   == [r EXCEPT !.stack = Front(@)]
    IN IF Depth = 1
       THEN /\ reader' = [out EXCEPT !.at = "tail", !.result = Top.node]
            /\ UNCHANGED heap
       ELSE Deliver(heap, out, value)

ReadStart ==
    /\ reader.at = "start"
    /\ \E t \in Ahead :
         IF t = Op("{") THEN Descend(heap, Past(t), "object") ELSE Fail(heap, Past(t), "json")
    /\ UNCHANGED <<handles, errno>>

IsObject == heap[Top.node].type = "object"
Closing  == Op(IF IsObject THEN "}" ELSE "]")

\* The end of the object or array, or a comma.
ReadNext ==
    /\ reader.at = "next"
    /\ \E t \in Ahead :
         \/ t = Closing /\ Ascend(Past(t))
         \/ /\ t = Op(",")
            /\ ~IsObject => Len(heap[Top.node].items) < MaxItems
            /\ reader' = [Past(t) EXCEPT !.at = "item"]
            /\ UNCHANGED heap
         \/ t \notin {Closing, Op(",")} /\ Fail(heap, Past(t), "json")
    /\ UNCHANGED <<handles, errno>>

ReadEmpty ==
    /\ reader.at = "open"
    /\ \E t \in Ahead : t = Closing /\ Ascend(Past(t))
    /\ UNCHANGED <<handles, errno>>

\* The name of a field.
ReadName ==
    /\ reader.at \in {"open", "item"} /\ IsObject
    /\ \E t \in Ahead :
         /\ ~(reader.at = "open" /\ t = Closing)
         /\ IF t.token = "string"
            THEN /\ reader' = [Past(t) EXCEPT !.at = "colon", !.stack[Depth].slot = t.of]
                 /\ UNCHANGED heap
            ELSE Fail(heap, Past(t), "json")
    /\ UNCHANGED <<handles, errno>>

\* A field without a value, which must be new.
ReadColon ==
    /\ reader.at = "colon"
    /\ \E t \in Ahead :
         IF t # Op(":") THEN Fail(heap, Past(t), "json")
         ELSE IF Top.slot \in DOMAIN heap[Top.node].items
         THEN Fail(heap, Past(t), "duplicate")
         ELSE /\ heap' = AddField(heap, Top.node, Top.slot, Undefined)
              /\ reader' = [Past(t) EXCEPT !.at = "value"]
    /\ UNCHANGED <<handles, errno>>

\* varlink_value_read_from_scanner.  The error of a string is negative, which
\* is not false: it is taken for a value, and found when the string that is
\* still there is no comma.
TooDeep == Depth >= MaxDepth

Value(h, r, t) ==
    /\ IF TooDeep THEN Fail(h, r, "depth")
       ELSE CASE t = Op("{")         -> Descend(h, r, "object")
              [] t = Op("[")         -> Descend(h, r, "array")
              [] t.token = "keyword" -> Deliver(h, r, IF t.of = "null" THEN NullValue
                                                      ELSE [kind |-> "bool", of |-> t.of])
              [] t.token = "string"  -> Deliver(h, r, [kind |-> "string", of |-> t.of])
              [] t.token = "broken"  -> Deliver(h, [r EXCEPT !.stuck = TRUE], Undefined)
              [] t.token = "number"  -> IF InRange(t.of) THEN Deliver(h, r, NumberValue(t.of))
                                                         ELSE Fail(h, r, "range")
              [] OTHER               -> Fail(h, r, "json")
    /\ errno' = IF t.token = "number" /\ ~TooDeep THEN ErrnoAfter(t.of) ELSE errno
    /\ UNCHANGED handles

ReadValue ==
    /\ reader.at = "value"
    /\ \E t \in Ahead : Value(heap, Past(t), t)

\* The next element, whose place is there before its value.
ReadElement ==
    /\ reader.at \in {"open", "item"} /\ ~IsObject
    /\ \E t \in Ahead :
         /\ ~(reader.at = "open" /\ t = Closing)
         /\ Value([heap EXCEPT ![Top.node].items = Append(@, Undefined)],
                  [Past(t) EXCEPT !.stack[Depth].slot = Len(heap[Top.node].items) + 1], t)

\* Nothing may follow the object.
ReadTail ==
    /\ reader.at = "tail"
    /\ \E t \in Ahead :
         LET done == [Past(t) EXCEPT !.at = "done"]
         IN IF t = End
            THEN /\ handles' = [handles EXCEPT ![reader.result] = @ + 1]
                 /\ reader' = done
                 /\ UNCHANGED heap
            ELSE /\ heap' = Unref(heap, <<reader.result>>)
                 /\ reader' = [done EXCEPT !.result = NULL, !.why = "json"]
                 /\ UNCHANGED handles
    /\ UNCHANGED errno

Read == \/ ReadStart \/ ReadNext \/ ReadEmpty \/ ReadName \/ ReadColon \/ ReadElement
        \/ ReadValue \/ ReadTail

-----------------------------------------------------------------------------
Init == heap = <<>> /\ handles = [n \in Nodes |-> 0] /\ reader = Idle /\ errno = "other"

\* A text of somebody else; what is read does not depend on what there is.
StartOther ==
    /\ reader.at = "idle" /\ heap = <<>>
    /\ reader' = [Idle EXCEPT !.at = "start"]
    /\ UNCHANGED <<heap, handles, errno>>

\* An object that was written, and dropped, is read again.
StartWritten(o) ==
    /\ o \in Objects
    /\ Release(o)
    /\ reader' = [Idle EXCEPT !.at = "start", !.given = Json(heap, o), !.written = Content(heap, o)]
    /\ UNCHANGED errno

\* Another function may set errno before the next text.
Finish ==
    /\ reader.at = "done"
    /\ reader' = Idle
    /\ errno' \in {errno, "other"}
    /\ UNCHANGED <<heap, handles>>

Next == \/ Read
        \/ StartOther
        \/ (reader.at = "idle" /\ \E o \in Objects : StartWritten(o))
        \/ Finish
        \/ (reader.at = "idle" /\ Use /\ UNCHANGED <<reader, errno>>)

Spec == Init /\ [][Next]_vars

-----------------------------------------------------------------------------
(* Properties                                                              *)

TypeOK ==
    /\ DOMAIN heap \subseteq Nodes
    /\ \A n \in DOMAIN heap :
         /\ heap[n].type \in Containers
         /\ heap[n].type = "object" => DOMAIN heap[n].items \subseteq Keys
         /\ heap[n].type = "array" => DOMAIN heap[n].items \subseteq 1..MaxItems
    /\ handles \in [Nodes -> 0..MaxHandles + 1]
    /\ reader.at \in {"idle", "start", "open", "next", "item", "colon", "value", "tail", "done"}
    /\ reader.at \in {"open", "next", "item", "colon", "value"} <=> Depth > 0
    /\ Depth <= MaxDepth
    /\ errno \in {"ERANGE", "other"}

\* The references to a node: the program's, other nodes', the reader's.
Owners(n) ==
    handles[n] + Cardinality(Places(heap, n))
      + Cardinality({i \in DOMAIN reader.stack : reader.stack[i].node = n})
      + (IF reader.at = "tail" /\ reader.result = n THEN 1 ELSE 0)

\* Nothing is freed that somebody still refers to, and nothing is left that
\* nobody does: not by any use of values, and not by a text that is refused
\* in the middle of it, at whatever depth.
OwnersAreCounted ==
    /\ \A n \in DOMAIN heap : heap[n].refcount = Owners(n) /\ Owners(n) > 0
    /\ \A n \in DOMAIN heap : Members(heap[n]) \subseteq DOMAIN heap
    /\ \A n \in Nodes \ DOMAIN heap : handles[n] = 0

\* Elements of an array have one kind, which the array knows, or are null; a
\* field is never null.  A value of no kind, at which writing aborts, is only
\* where the reader is about to put one.
ValuesAreProper ==
    \A n \in DOMAIN heap : \A i \in DOMAIN heap[n].items :
       LET kind == heap[n].items[i].kind
       IN /\ heap[n].type = "array" => kind \in {"null", "undefined", heap[n].kind}
          /\ heap[n].type = "object" => kind # "null"
          /\ kind = "undefined" =>
                \E j \in DOMAIN reader.stack : reader.stack[j] = [node |-> n, slot |-> i]

Accepted == reader.at = "done" /\ reader.result # NULL
Refused  == reader.at = "done" /\ reader.result = NULL

\* An object that was written is read, and is the same again.  Out of memory, it
\* is not; nor at a depth that can be built but is not read; nor with a number at
\* the end of the range, when an earlier one, in any text, was out of range; nor
\* with a name that has to be escaped, which object.c:486 does not do: it ends the
\* text (a quotation mark, a line), or is read as another name (a backslash).
HasOnlyPlainNames == \A name \in Keys : String(name) \in ToSet(reader.written) => IsPlain(name)

RoundTrip ==
    IsWritten /\ HasOnlyPlainNames =>
    /\ Accepted => Content(heap, reader.result) = reader.written
    /\ Refused =>
         \/ reader.why \in {"memory", "depth"}
         \/ reader.why = "range" /\ errno = "ERANGE" /\ Number("extreme") \in ToSet(reader.written)
=============================================================================
