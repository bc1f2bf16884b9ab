----------------------------- MODULE Documents ------------------------------
(***************************************************************************)
(* What texts of interfaces say: whose comments are whose, and that what   *)
(* is written of an interface is read as the same.  Defined by recursion   *)
(* over types, as a reader of the text would, and without looking at how   *)
(* lib/interface.c does.                                                   *)
(***************************************************************************)
EXTENDS Interface

\* The comments of an interface: its own, and those of each member and field,
\* in the order of the text.
RECURSIVE FieldDocs(_)
FieldDocs(type) ==
    FlattenSeq([k \in DOMAIN type.fields |-> <<type.fields[k].docs>> \o FieldDocs(type.fields[k].type)])
MemberDocs(m) == <<m.docs>> \o FlattenSeq([k \in DOMAIN m.types |-> FieldDocs(m.types[k])])
AllDocs(i) ==
    <<i.docs>> \o FlattenSeq([k \in DOMAIN i.members |-> MemberDocs(i.members[k])])

\* A comment describes one thing at most, and what it describes stands after the
\* comments of what stands before it; a description is made of lines that follow
\* each other, with no other line and no token between them.
CommentsInOrder ==
    Accepted => LET docs == AllDocs(interface)
                    all  == FlattenSeq(docs)
                IN /\ \A j, k \in DOMAIN all : j < k => all[j] < all[k]
                   /\ \A d \in DOMAIN docs : \A k \in 1..Len(docs[d]) - 1 : docs[d][k + 1] = docs[d][k] + 1

\* The interface without the comments of fields.
RECURSIVE Bare(_)
Bare(type) ==
    [type EXCEPT !.fields = [k \in DOMAIN type.fields |->
        [type.fields[k] EXCEPT !.docs = <<>>, !.type = Bare(@)]]]
WithoutFieldDocs(i) ==
    [i EXCEPT !.members = [k \in DOMAIN i.members |->
        [i.members[k] EXCEPT !.types = [j \in DOMAIN @ |-> Bare(@[j])]]]]

\* varlink format keeps the interface, comments and all.  A client reads of a
\* description what the service has, the comments of fields excepted.
RoundTrip ==
    /\ text.from # "other" => ~Refused
    /\ Accepted /\ text.from = "format" => interface = written
    /\ Accepted /\ text.from = "client" => interface = WithoutFieldDocs(written)
=============================================================================
