----------------------------- MODULE MCJsonText ------------------------------
\* Scalars, names, and tokens of texts of others.
EXTENDS JsonGrammar

MCScalars == {[kind |-> "int", of |-> "extreme"]}
MCTokens  == {Op(o) : o \in {"{", "}", "[", "]", ",", ":"}}
               \cup {Number(n) : n \in {"wide", "huge", "loose"}}
               \cup {String("method"), Keyword("null"), Broken, Other}

\* The names are plain.
MCInQuotes(name) == <<String(name)>>

\* Nothing depends on which address is free.
AnyAddress == Permutations(Nodes)
=============================================================================
