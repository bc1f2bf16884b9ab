----------------------------- MODULE Interface -------------------------------
(***************************************************************************)
(* Descriptions of interfaces: how lib/interface.c and lib/type.c read one *)
(* from a text with lib/scanner.c and write one, and what a service does   *)
(* with the interfaces that it has (lib/service.c).                        *)
(*                                                                         *)
(* A text is a sequence of tokens: words, operators, and lines of the      *)
(* layout that matter, which are comments, empty lines and lines of spaces.*)
(* The reader is a recursive descent over them, which takes one in a step. *)
(* A text is somebody's, and each token is chosen when it is read; or what *)
(* was written of an interface, for a file ("format") or a client.         *)
(***************************************************************************)
EXTENDS Integers, Sequences, FiniteSets, SequencesExt

CONSTANTS MemberNames, FieldNames, QualifiedNames, InterfaceNames,
          WordsAt(_),  \* bound: the words of texts of others, at a place
          MaxTokens,   \* bound: their tokens and lines
          MaxLayout    \* bound: of these, comments, empty lines and lines of spaces

Keywords  == {"type", "method", "error"}
Basic     == {"bool", "int", "float", "string"}
Operators == {"(", ")", "[", "]", "?", ",", ":", "->"}
Lines     == {"#", "empty", "spaces"}

Token(s)   == [text |-> s, n |-> 0]
Comment(n) == [text |-> "#", n |-> n]
End        == Token("end of text")

\* Names of members begin with a capital, and names of other interfaces have dots.
ASSUME InterfaceAssumption ==
    /\ (MemberNames \cup QualifiedNames) \cap (Keywords \cup Basic \cup {"object"}) = {}
    /\ (MemberNames \cup QualifiedNames \cup FieldNames \cup InterfaceNames)
         \cap (Operators \cup Lines \cup {End.text, ""}) = {}
    /\ MaxTokens \in Nat /\ MaxLayout \in Nat

\* A type: "alias" has a name; "object" and "enum" have fields; "array", "map"
\* and "maybe" have one, without a name, of the type of the elements.
Type(kind, name, fields) == [kind |-> kind, name |-> name, fields |-> fields]
NoType        == Type("none", "", <<>>)
Field(name, docs, type) == [name |-> name, docs |-> docs, type |-> type]
Of(kind, type) == Type(kind, "", <<Field("", <<>>, type)>>)
Element(type) == type.fields[1].type

\* A type, those in it, and those in these: level by level, of which there are
\* no more than a text has tokens.
Within(type) == {type.fields[k].type : k \in DOMAIN type.fields}
WithinAll(types) == UNION {Within(type) : type \in types}
Parts(type) ==
    LET level[d \in 0..MaxTokens] ==
          IF d = 0 THEN {type} ELSE WithinAll(level[d - 1])
    IN UNION {level[d] : d \in 0..MaxTokens}

NoInterface == [name |-> "", docs |-> <<>>, members |-> <<>>]
NoMember    == [kind |-> "", name |-> "", docs |-> <<>>, types |-> <<>>]

VARIABLES text,       \* from: whose it is; given or left: what is left of it
          comment,    \* from last_comment_start on: the places of comments
          parser,     \* at: what comes next; open: types that are, innermost last
          interface,  \* what was read of it
          member,     \* the last member, which is not complete
          written,    \* the interface that the text was written from
          interfaces  \* those of the service, and the methods with a callback

vars == <<text, comment, parser, interface, member, written, interfaces>>

-----------------------------------------------------------------------------
(* The scanner                                                             *)

NoComment == [lines |-> <<>>, cut |-> FALSE]

Ahead == IF text.from # "other" THEN {IF text.given = <<>> THEN End ELSE Head(text.given)}
         ELSE {End} \cup (IF text.left > 0 THEN {Token(w) : w \in Operators \cup WordsAt(parser.at)}
                                           ELSE {})

\* The text after a token.
After == IF text.from # "other" THEN [text EXCEPT !.given = IF @ = <<>> THEN @ ELSE Tail(@)]
                                ELSE [text EXCEPT !.left = @ - 1]

\* scanner_advance, over one line.  The first comment after the last empty line
\* is kept, also if something else stands between them.
CommentAfterSpaces(line) ==
    CASE line.text = "empty"  -> NoComment
      [] line.text = "spaces" -> comment
      [] OTHER -> IF comment.cut THEN comment ELSE [comment EXCEPT !.lines = Append(@, line.n)]
CommentAfter(line) ==
    CASE line.text = "empty"  -> NoComment
      [] line.text = "spaces" -> [comment EXCEPT !.cut = comment.lines # <<>>]
      [] OTHER -> IF comment.cut THEN comment ELSE [comment EXCEPT !.lines = Append(@, line.n)]

\* Where the next token or line is in a text.
Place == MaxTokens - text.left + 1

Layout ==
    IF text.from # "other" THEN {t \in Ahead : t.text \in Lines}
    ELSE IF text.left = 0 \/ text.layout = MaxLayout THEN {}
    ELSE {Comment(Place), Token("empty"), Token("spaces")}

Reading == parser.at # "done"

Advance ==
    /\ Reading
    /\ \E line \in Layout :
         /\ comment' = CommentAfter(line)
         /\ text' = IF text.from # "other" THEN After
                                             ELSE [text EXCEPT !.left = @ - 1, !.layout = @ + 1]
    /\ UNCHANGED <<parser, interface, member, written, interfaces>>

\* scanner_get_last_docstring: up to the first line that is no comment.
Docs == comment.lines
CommentRead  == NoComment
CommentAsideAlways == [comment EXCEPT !.cut = TRUE]
CommentAside == [comment EXCEPT !.cut = comment.lines # <<>>]

\* One token is read, and nothing of the service changes.
Take(t) == /\ t.text \notin Lines
           /\ text' = After
           /\ UNCHANGED <<written, interfaces>>

-----------------------------------------------------------------------------
(* varlink_type_new_from_scanner                                           *)

Top  == Last(parser.open)
Base == [kind |-> "member", fields |-> <<>>, field |-> Field("", <<>>, NoType), wraps |-> <<>>]

Go(at, open) == parser' = [at |-> at, open |-> open, failed |-> FALSE]
Fail == /\ parser' = [at |-> "done", open |-> <<>>, failed |-> TRUE]
        /\ interface' = NoInterface /\ member' = NoMember  \* all is freed

SetTop(open, frame) == [open EXCEPT ![Len(open)] = frame]

\* Do not nest maybes.
Nested(wraps, type) ==
    LET kinds == Append(wraps, type.kind)
    IN \E i \in 1..Len(wraps) : kinds[i] = "maybe" /\ kinds[i + 1] = "maybe"

WrappedInOrder(wraps, type) == FoldLeft(LAMBDA t, kind : Of(kind, t), type, wraps)
Wrapped(wraps, type) ==
    LET wrapped[i \in 0..Len(wraps)] ==
          IF i = 0 THEN type ELSE Of(wraps[Len(wraps) + 1 - i], wrapped[i - 1])
    IN wrapped[Len(wraps)]

\* A member is complete: what its types may be, and its name is new.
KindsFit(m) ==
    /\ m.kind = "type" => m.types[1].kind \in {"object", "enum"}
    /\ m.kind = "error" => m.types[1].kind = "object"
    /\ m.kind = "method" => m.types[1].kind = "object" /\ m.types[2].kind = "object"

IsNewAfterLast(name, all) == all = <<>> \/ Last(all).name # name
IsNew(name, all) == \A i \in DOMAIN all : all[i].name # name

AddMember(m) ==
    IF m.kind = "method" /\ Len(m.types) = 1
    THEN Go("arrow", <<>>) /\ member' = m /\ UNCHANGED interface
    ELSE IF ~KindsFit(m) \/ ~IsNew(m.name, interface.members) THEN Fail
    ELSE /\ Go("member", <<>>)
         /\ interface' = [interface EXCEPT !.members = Append(@, m)]
         /\ member' = NoMember

\* A type is complete, and with it the arrays, maps and maybes it is in.
Complete(open, type) ==
    LET top == Last(open)
        all == Wrapped(top.wraps, type)
        field == [top.field EXCEPT !.type = all]
    IN IF Nested(top.wraps, type) THEN Fail
       ELSE IF top.kind = "member" THEN AddMember([member EXCEPT !.types = Append(@, all)])
       ELSE IF ~IsNew(field.name, top.fields) THEN Fail
       ELSE /\ Go("fields", SetTop(open, [top EXCEPT !.fields = Append(@, field), !.wraps = <<>>]))
            /\ UNCHANGED <<interface, member>>

Wrap(kind, at) ==
    /\ Go(at, SetTop(parser.open, [Top EXCEPT !.wraps = Append(@, kind)]))
    /\ UNCHANGED <<interface, member>>

On(at) == Go(at, parser.open) /\ UNCHANGED <<interface, member>>

ReadType(t) ==
    /\ parser.at = "type" /\ Take(t)
    /\ CASE t.text = "["            -> On("bracket")
         [] t.text = "?"            -> Wrap("maybe", "type")
         [] t.text \in Basic        -> Complete(parser.open, Type(t.text, "", <<>>))
         [] t.text = "object"       -> Complete(parser.open, Type("foreign object", "", <<>>))
         [] t.text = "("            -> /\ Go("open", Append(parser.open, [Base EXCEPT !.kind = "object"]))
                                       /\ UNCHANGED <<interface, member>>
         [] t.text \in MemberNames \cup QualifiedNames
                                    -> Complete(parser.open, Type("alias", t.text, <<>>))
         [] OTHER                   -> Fail
    /\ comment' = CommentAside

ReadBracket(t) ==
    /\ Take(t)
    /\ \/ parser.at = "bracket" /\ t.text = "string" /\ On("map")
       \/ parser.at = "bracket" /\ t.text = "]" /\ Wrap("array", "type")
       \/ parser.at = "map" /\ t.text = "]" /\ Wrap("map", "type")
       \/ /\ parser.at \in {"bracket", "map"}
          /\ t.text # "]" /\ (parser.at = "bracket" => t.text # "string")
          /\ Fail
    /\ comment' = CommentAside

\* After a field: another, or the end of the type.
MoreFields(open, t) ==
    CASE t.text = ")" -> Complete(Front(open), Type(Last(open).kind, "", Last(open).fields))
      [] t.text = "," -> Go("field", open) /\ UNCHANGED <<interface, member>>
      [] OTHER        -> Fail

ReadFields(t) ==
    /\ Take(t)
    /\ \/ parser.at = "fields"
       \/ parser.at = "open" /\ t.text = ")"
    /\ MoreFields(parser.open, t)
    /\ comment' = CommentAside

\* The name of a field, any word that has no dot.
AllWords == MemberNames \cup FieldNames \cup Keywords \cup Basic \cup {"object", "interface"}

ReadField(t) ==
    /\ parser.at = "field" \/ (parser.at = "open" /\ t.text # ")")
    /\ Take(t)
    /\ IF t.text \notin AllWords THEN Fail
       ELSE LET named == [Top EXCEPT !.field = Field(t.text, Docs, NoType)]
                open  == SetTop(parser.open, named)
            IN IF Top.kind = "enum" THEN Complete(open, NoType)
               ELSE Go("colon", open) /\ UNCHANGED <<interface, member>>
    /\ comment' = CommentRead

\* If the first field of a type has no type, it is an enum.
ReadColon(t) ==
    /\ parser.at = "colon" /\ Take(t)
    /\ IF t.text = ":" THEN On("type")
       ELSE IF Top.fields # <<>> THEN Fail
       ELSE MoreFields(SetTop(parser.open,
                              [Top EXCEPT !.kind = "enum", !.fields = <<Top.field>>]), t)
    /\ comment' = CommentAside

-----------------------------------------------------------------------------
(* varlink_interface_new_from_scanner                                      *)

ReadInterface(t) ==
    /\ parser.at = "interface" /\ Take(t)
    /\ IF t.text # "interface" THEN Fail
       ELSE /\ Go("name", <<>>)
            /\ interface' = [NoInterface EXCEPT !.docs = Docs]
            /\ UNCHANGED member
    /\ comment' = CommentRead

ReadName(t) ==
    /\ parser.at = "name" /\ Take(t)
    /\ IF t.text \notin InterfaceNames THEN Fail
       ELSE /\ Go("member", <<>>)
            /\ interface' = [interface EXCEPT !.name = t.text]
            /\ UNCHANGED member
    /\ comment' = CommentAside

\* varlink_interface_get_type and _get_method.
MemberOf(i, kind, name) == {k \in DOMAIN i.members : i.members[k].kind = kind /\ i.members[k].name = name}
HasType(i, name)   == MemberOf(i, "type", name) # {}
HasMethodAny(i, name) == \E k \in DOMAIN i.members : i.members[k].name = name
HasMethod(i, name) == MemberOf(i, "method", name) # {}

\* varlink_interface_try_resolve.
Resolved(i, type) ==
    LET resolved[t \in Parts(type)] ==
          CASE t.kind = "alias"            -> HasType(i, t.name)
            [] t.kind \in {"array", "map"} -> resolved[Element(t)]
            [] t.kind = "object"           -> \A k \in DOMAIN t.fields : resolved[t.fields[k].type]
            [] OTHER                       -> TRUE
    IN resolved[type]

AllResolved(i) ==
    \A k \in DOMAIN i.members : \A j \in DOMAIN i.members[k].types : Resolved(i, i.members[k].types[j])

ReadMember(t) ==
    /\ parser.at = "member" /\ Take(t)
    /\ IF t = End /\ AllResolved(interface) THEN Go("done", <<>>) /\ UNCHANGED <<interface, member>>
       ELSE IF t.text \notin Keywords THEN Fail
       ELSE /\ Go("member name", <<>>)
            /\ member' = [NoMember EXCEPT !.kind = t.text]
            /\ UNCHANGED interface
    /\ comment' = CommentAside

ReadMemberName(t) ==
    /\ parser.at = "member name" /\ Take(t)
    /\ IF t.text \notin MemberNames THEN Fail
       ELSE /\ Go("type", <<Base>>)
            /\ member' = [member EXCEPT !.name = t.text, !.docs = Docs]
            /\ UNCHANGED interface
    /\ comment' = CommentRead

ReadArrow(t) ==
    /\ parser.at = "arrow" /\ Take(t)
    /\ IF t.text # "->" THEN Fail ELSE Go("type", <<Base>>) /\ UNCHANGED <<interface, member>>
    /\ comment' = CommentAside

Read ==
    \E t \in Ahead :
       \/ ReadInterface(t) \/ ReadName(t) \/ ReadMember(t) \/ ReadMemberName(t) \/ ReadArrow(t)
       \/ ReadType(t) \/ ReadBracket(t) \/ ReadFields(t) \/ ReadField(t) \/ ReadColon(t)

-----------------------------------------------------------------------------
(* varlink_interface_write_description                                     *)

WrittenDocs(docs) == [i \in DOMAIN docs |-> Comment(docs[i])]

\* varlink_type_print.  Without indentation a type is one line, and the
\* comments of its fields are left out.
WrittenType(type, indent) ==
    LET printed[t \in Parts(type)] ==
          LET fields == t.fields
              \* An empty line is above and below a field with comments.
              space(i) == IF i > 1 /\ (fields[i].docs # <<>> \/ fields[i - 1].docs # <<>>)
                          THEN <<Token("empty")>> ELSE <<>>
              field(i) == (IF i > 1 THEN <<Token(",")>> ELSE <<>>)
                            \o (IF indent THEN space(i) \o WrittenDocs(fields[i].docs) ELSE <<>>)
                            \o <<Token(fields[i].name)>>
                            \o (IF t.kind = "object"
                                THEN <<Token(":")>> \o printed[fields[i].type] ELSE <<>>)
          IN CASE t.kind = "alias" -> <<Token(t.name)>>
               [] t.kind = "array" -> <<Token("["), Token("]")>> \o printed[Element(t)]
               [] t.kind = "map"   -> <<Token("["), Token("string"), Token("]")>> \o printed[Element(t)]
               [] t.kind = "maybe" -> <<Token("?")>> \o printed[Element(t)]
               [] t.kind \in Basic -> <<Token(t.kind)>>
               [] t.kind = "foreign object" -> <<Token("object")>>
               [] OTHER -> <<Token("(")>> \o FlattenSeq([i \in DOMAIN fields |-> field(i)]) \o <<Token(")")>>
    IN printed[type]

WrittenMember(m, indent) ==
    <<Token("empty")>> \o WrittenDocs(m.docs) \o <<Token(m.kind), Token(m.name)>>
      \o WrittenType(m.types[1], indent)
      \o (IF m.kind = "method" THEN <<Token("->")>> \o WrittenType(m.types[2], indent) ELSE <<>>)

Description(i, indent) ==
    WrittenDocs(i.docs) \o <<Token("interface"), Token(i.name)>>
      \o FlattenSeq([k \in DOMAIN i.members |-> WrittenMember(i.members[k], indent)])

-----------------------------------------------------------------------------
(* Files, services and their clients                                       *)

Start == [at |-> "interface", open |-> <<>>, failed |-> FALSE]

Text == [from |-> "other", given |-> <<>>, left |-> MaxTokens, layout |-> 0]

Init ==
    /\ text = Text
    /\ comment = NoComment
    /\ parser = Start
    /\ interface = NoInterface /\ member = NoMember /\ written = NoInterface
    /\ interfaces = <<>>

Accepted == parser.at = "done" /\ ~parser.failed
Refused  == parser.at = "done" /\ parser.failed

Parse(from, tokens) ==
    /\ text' = [text EXCEPT !.from = from, !.given = tokens]
    /\ comment' = NoComment
    /\ parser' = Start
    /\ written' = interface
    /\ interface' = NoInterface /\ member' = NoMember

\* varlink format: an interface is written, with indentation, and read again.
Format ==
    /\ Accepted /\ text.from = "other"
    /\ Parse("format", Description(interface, TRUE))
    /\ UNCHANGED interfaces

\* varlink_service_add_interface, with callbacks for some methods, in a service
\* that has other interfaces; and a client that asks for the description of the
\* new one, and reads it.
Add(interfacesBefore, names) ==
    [i \in DOMAIN interfacesBefore \cup {interface.name} |->
       IF i = interface.name THEN [of |-> interface, callbacks |-> names] ELSE interfacesBefore[i]]

AddInterface(before, names) ==
    /\ Accepted /\ text.from = "other"
    /\ IF (\A n \in names : HasMethod(interface, n)) /\ interface.name \notin DOMAIN before
       THEN /\ interfaces' = Add(before, names)
            /\ Parse("client", Description(interface, FALSE))
       ELSE /\ parser' = [parser EXCEPT !.failed = TRUE]  \* and it is freed
            /\ interfaces' = before
            /\ interface' = NoInterface
            /\ UNCHANGED <<text, comment, member, written>>

\* A service that has interfaces without members.
Services == UNION {[names -> {[of |-> NoInterface, callbacks |-> {}]}] : names \in SUBSET InterfaceNames}

\* The next text.
Again ==
    /\ Refused \/ (Accepted /\ text.from # "other")
    /\ text' = Text /\ comment' = NoComment /\ parser' = Start
    /\ interface' = NoInterface /\ member' = NoMember /\ written' = NoInterface
    /\ interfaces' = <<>>

Next == \/ Advance \/ Read
        \/ Format \/ (\E before \in Services, names \in SUBSET MemberNames : AddInterface(before, names))
        \/ Again

Spec == Init /\ [][Next]_vars

\* varlink_service_method_callback: what a call of a method leads to.  Its name is
\* that of an interface and that of a member, with the last dot between them; a name
\* without a dot has no interface.
Unqualified == ""
Answer(name, method) ==
    CASE name = Unqualified                       -> "InvalidParameter"
      [] name \notin DOMAIN interfaces            -> "InterfaceNotFound"
      [] ~HasMethod(interfaces[name].of, method)  -> "MethodNotFound"
      [] method \notin interfaces[name].callbacks -> "MethodNotImplemented"
      [] OTHER                                    -> "callback"

-----------------------------------------------------------------------------
(* Properties                                                              *)

TypeOK ==
    /\ text.from \in {"other", "format", "client"}
    /\ text.left \in -1..MaxTokens /\ text.layout \in 0..MaxLayout
    /\ parser.at \in {"interface", "name", "member", "member name", "arrow", "type", "bracket",
                      "map", "open", "fields", "field", "colon", "done"}
    /\ Reading => (parser.open # <<>> <=>
                     parser.at \in {"type", "bracket", "map", "open", "fields", "field", "colon"})
    /\ comment.cut => comment.lines # <<>>
    /\ member.kind = "" <=> parser.at \in {"interface", "name", "member"} \/ Accepted \/ Refused

\* Every type that is in a member, with it and what is in it.
TypesOf(i)  == UNION {ToSet(i.members[k].types) : k \in DOMAIN i.members}
AllParts(i) == UNION {Parts(type) : type \in TypesOf(i)}

Unique(all) == \A j, k \in DOMAIN all : all[j].name = all[k].name => j = k

\* A method has two objects and an error has one.
IsMember(m) ==
    LET kinds == [j \in DOMAIN m.types |-> m.types[j].kind]
    IN CASE m.kind = "type"   -> kinds \in {<<"object">>, <<"enum">>}
         [] m.kind = "error"  -> kinds = <<"object">>
         [] m.kind = "method" -> kinds = <<"object", "object">>

\* An enum has names alone and an object has a type for each, and no maybe is
\* directly in a maybe.
IsType(type) ==
    LET typed == {k \in DOMAIN type.fields : type.fields[k].type # NoType}
    IN CASE type.kind \in {"array", "map"} -> typed = {1}
         [] type.kind = "maybe"  -> typed = {1} /\ Element(type).kind # "maybe"
         [] type.kind = "object" -> Unique(type.fields) /\ typed = DOMAIN type.fields
         [] type.kind = "enum"   -> Unique(type.fields) /\ typed = {} /\ type.fields # <<>>
         [] OTHER                -> type.fields = <<>>

\* What is accepted is an interface: it has a name, no two members and no two
\* fields have one, and all of them are what they may be.
AcceptsInterfaces ==
    Accepted =>
       /\ interface.name \in InterfaceNames /\ Unique(interface.members)
       /\ \A k \in DOMAIN interface.members : IsMember(interface.members[k])
       /\ \A type \in AllParts(interface) : IsType(type)

Methods(i) == {i.members[k].name : k \in {j \in DOMAIN i.members : i.members[j].kind = "method"}}

\* A method that a client finds in the description is found by the service, which
\* calls its callback, if there is one; and no other method is.
DescribedIsCallable ==
    Accepted /\ text.from = "client" =>
       \A name \in InterfaceNames \cup {Unqualified}, method \in MemberNames :
          LET answer == Answer(name, method)
          IN /\ answer \in {"callback", "MethodNotImplemented"}
                 <=> name = interface.name /\ method \in Methods(interface)
             /\ answer = "callback" <=> name = interface.name /\ method \in interfaces[name].callbacks
=============================================================================
