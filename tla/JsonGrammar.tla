---------------------------- MODULE JsonGrammar -----------------------------
(***************************************************************************)
(* JSON by the grammar of RFC 8259, which knows nothing of the reader, and *)
(* the texts that the reader of JsonText accepts.  It is the grammar of    *)
(* objects and arrays; the tokens are those of lib/scanner.c, which are    *)
(* more than RFC 8259 has.                                                 *)
(***************************************************************************)
EXTENDS JsonText

\* "loose" is a number that strtol or strtod takes and RFC 8259 does not, as +1,
\* 01 or 2.e3, which tests-json/y_number_*.json ask for.  Strings too are those of
\* scanner_expect_string, with control characters in them but for tabs and ends of
\* lines.
IsScalar(t) == t.token \in {"string", "number", "keyword"}

RECURSIVE IsJson(_), AreMembers(_), AreElements(_)
IsJson(s) ==
    \/ Len(s) = 1 /\ IsScalar(s[1])
    \/ /\ Len(s) > 1 /\ s[1] = Op("{") /\ Last(s) = Op("}")
       /\ Len(s) = 2 \/ AreMembers(SubSeq(s, 2, Len(s) - 1))
    \/ /\ Len(s) > 1 /\ s[1] = Op("[") /\ Last(s) = Op("]")
       /\ Len(s) = 2 \/ AreElements(SubSeq(s, 2, Len(s) - 1))
AreMembers(s) ==
    /\ Len(s) > 2 /\ s[1].token = "string" /\ s[2] = Op(":")
    /\ \/ IsJson(SubSeq(s, 3, Len(s)))
       \/ \E i \in 4..Len(s) - 1 : /\ s[i] = Op(",") /\ IsJson(SubSeq(s, 3, i - 1))
                                   /\ AreMembers(SubSeq(s, i + 1, Len(s)))
AreElements(s) ==
    \/ IsJson(s)
    \/ \E i \in 2..Len(s) - 1 : /\ s[i] = Op(",") /\ IsJson(SubSeq(s, 1, i - 1))
                                /\ AreElements(SubSeq(s, i + 1, Len(s)))

\* What is accepted is an object of the grammar, but for numbers and strings that
\* only the scanner takes for one, and nothing follows it: the checks of
\* varlink_object_new_from_json and those below it leave no other.
AcceptsOnlyJson ==
    Accepted => /\ Last(reader.source) = End
                /\ Head(reader.source) = Op("{") /\ IsJson(Front(reader.source))
=============================================================================
