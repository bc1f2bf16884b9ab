-------------------------- MODULE InterfaceProofs ---------------------------
(***************************************************************************)
(* Proofs about Interface, for any names and texts of any length: what is  *)
(* accepted is an interface, at every depth of its types.                  *)
(***************************************************************************)
EXTENDS Interface, FiniteSetTheorems, SequenceTheorems, TLAPS

-----------------------------------------------------------------------------
(* The inductive invariant.                                                *)

IsSeq(s) == \E S : s \in Seq(S)

\* A set of types that are proper, and so are those in them.
Sound(P) == /\ NoType \in P
            /\ \A t \in P : IsType(t) /\ Within(t) \subseteq P

Wraps == {"array", "map", "maybe"}

\* An object or enum that is half read, or the place of the type of a member.
IsFrame(f, P) ==
    /\ f = [kind |-> f.kind, fields |-> f.fields, field |-> f.field, wraps |-> f.wraps]
    /\ f.kind \in {"member", "object", "enum"}
    /\ IsSeq(f.fields) /\ Unique(f.fields)
    /\ \A k \in DOMAIN f.fields : /\ f.fields[k].type \in P
                                  /\ f.fields[k].type = NoType <=> f.kind = "enum"
    /\ f.kind = "enum" => f.fields # <<>>
    /\ f.field = [name |-> f.field.name, docs |-> f.field.docs, type |-> NoType]
    /\ f.wraps \in Seq(Wraps)

\* Objects are in objects, and the outermost in a member; enums contain nothing.
Frames(P, open) ==
    /\ IsSeq(open) /\ open # <<>>
    /\ \A i \in 1..Len(open) : /\ IsFrame(open[i], P)
                               /\ open[i].kind = "member" <=> i = 1
                               /\ open[i].kind = "enum" => i = Len(open)

Typing == {"type", "bracket", "map"}
Inside == Typing \cup {"open", "fields", "field", "colon"}

\* What the place in the text says of the innermost.
Opens(P, at, open) ==
    /\ Frames(P, open)
    /\ at \in Typing => Last(open).kind # "enum"
    /\ at \notin Typing => Last(open).wraps = <<>> /\ Last(open).kind # "member"
    /\ at \in {"open", "colon"} => Last(open).kind = "object"

\* The last member, as far as it was read.
Begun(m, P) ==
    /\ m = [kind |-> m.kind, name |-> m.name, docs |-> m.docs, types |-> m.types]
    /\ IsSeq(m.types) /\ \A j \in DOMAIN m.types : m.types[j] \in P

Awaits(m) == m.kind \in Keywords /\ (m.types = <<>> \/ (m.kind = "method" /\ Len(m.types) = 1))

IsRead(i, P) ==
    /\ i = [name |-> i.name, docs |-> i.docs, members |-> i.members]
    /\ IsSeq(i.members) /\ Unique(i.members)
    /\ \A k \in DOMAIN i.members : /\ IsMember(i.members[k])
                                   /\ \A j \in DOMAIN i.members[k].types : i.members[k].types[j] \in P

Places == {"interface", "name", "member", "member name", "arrow", "done"} \cup Inside

Reads(P, p, i, m) ==
    /\ p = [at |-> p.at, open |-> p.open, failed |-> p.failed]
    /\ p.at \in Places /\ (p.failed => p.at = "done")
    /\ IsRead(i, P) /\ Begun(m, P)
    /\ p.at \notin {"interface", "name"} /\ ~p.failed => i.name \in InterfaceNames
    /\ m.kind = "" <=> p.at \in {"interface", "name", "member", "done"}
    /\ p.at = "member name" => m.kind \in Keywords /\ m.types = <<>>
    /\ p.at = "arrow" => m.kind = "method" /\ Len(m.types) = 1
    /\ p.at \in Inside => Opens(P, p.at, p.open) /\ Awaits(m)
    /\ p.at \notin Inside => p.open = <<>>

IsText(x, p) ==
    /\ x = [from |-> x.from, given |-> x.given, left |-> x.left,
            layout |-> x.layout]
    /\ x.from \in {"other", "format", "client"}
    /\ x.left \in -1..MaxTokens /\ (x.from = "other" /\ p.at # "done" => x.left >= 0)
    /\ x.layout \in 0..MaxLayout

IsComment(c) ==
    /\ c = [lines |-> c.lines, cut |-> c.cut]
    /\ IsSeq(c.lines) /\ (c.cut => c.lines # <<>>)

IInv ==
    /\ IsText(text, parser) /\ IsComment(comment)
    /\ \E P : Sound(P) /\ Reads(P, parser, interface, member)


-----------------------------------------------------------------------------
(* Sequences, whatever is in them.                                         *)

LEMMA SeqFacts ==
    ASSUME NEW s, IsSeq(s)
    PROVE  /\ Len(s) \in Nat /\ DOMAIN s = 1..Len(s) /\ (s = <<>> <=> Len(s) = 0)
           /\ s # <<>> => Len(s) \in 1..Len(s) /\ Last(s) = s[Len(s)]
  <1>1. PICK S : s \in Seq(S)
    BY DEF IsSeq
  <1>2. Len(s) \in Nat /\ DOMAIN s = 1..Len(s) /\ (s = <<>> <=> Len(s) = 0)
    BY <1>1, LenProperties, EmptySeq
  <1>3. s # <<>> => Len(s) \in 1..Len(s)
    BY <1>2
  <1> QED
    BY <1>2, <1>3 DEF Last

LEMMA EmptyIsSeq == IsSeq(<<>>) /\ DOMAIN <<>> = {} /\ Len(<<>>) = 0
  <1>1. <<>> \in Seq({})
    OBVIOUS
  <1> QED
    BY <1>1 DEF IsSeq

LEMMA AppendFacts ==
    ASSUME NEW s, IsSeq(s), NEW x
    PROVE  /\ IsSeq(Append(s, x)) /\ Append(s, x) # <<>> /\ Len(Append(s, x)) = Len(s) + 1
           /\ DOMAIN Append(s, x) = 1..(Len(s) + 1)
           /\ Append(s, x)[Len(s) + 1] = x /\ Last(Append(s, x)) = x
           /\ \A i \in 1..Len(s) : Append(s, x)[i] = s[i]
  <1>1. PICK S : s \in Seq(S)
    BY DEF IsSeq
  <1>2. s \in Seq(S \cup {x}) /\ x \in S \cup {x}
    <2>1. Seq(S) \subseteq Seq(S \cup {x})
      OBVIOUS
    <2> QED
      BY <1>1, <2>1
  <1>3. /\ Append(s, x) \in Seq(S \cup {x}) /\ Append(s, x) # <<>> /\ Len(Append(s, x)) = Len(s) + 1
        /\ Append(s, x)[Len(s) + 1] = x
        /\ \A i \in 1..Len(s) : Append(s, x)[i] = s[i]
    BY <1>2, AppendProperties
  <1>4. IsSeq(Append(s, x))
    BY <1>3 DEF IsSeq
  <1> QED
    BY <1>3, <1>4, SeqFacts

LEMMA FrontFacts ==
    ASSUME NEW s, IsSeq(s), s # <<>>
    PROVE  /\ IsSeq(Front(s)) /\ Len(Front(s)) = Len(s) - 1
           /\ \A i \in 1..(Len(s) - 1) : Front(s)[i] = s[i]
  <1>1. PICK S : s \in Seq(S)
    BY DEF IsSeq
  <1>2. Len(s) \in Nat /\ Len(s) # 0
    BY SeqFacts
  <1>3. /\ Front(s) \in Seq(S) /\ Len(Front(s)) = Len(s) - 1
        /\ \A i \in 1..(Len(s) - 1) : Front(s)[i] = s[i]
    <2>1. Front(s) = [i \in 1..(Len(s) - 1) |-> s[i]]
      BY <1>1, <1>2 DEF Front
    <2>2. \A i \in 1..(Len(s) - 1) : s[i] \in S
      BY <1>1, <1>2, ElementOfSeq
    <2>3. Len(s) - 1 \in Nat
      BY <1>2
    <2> QED
      BY <2>1, <2>2, <2>3, IsASeq
  <1> QED
    BY <1>3 DEF IsSeq

LEMMA SetTopFacts ==
    ASSUME NEW s, IsSeq(s), s # <<>>, NEW x
    PROVE  /\ IsSeq(SetTop(s, x)) /\ Len(SetTop(s, x)) = Len(s)
           /\ SetTop(s, x) # <<>> /\ Last(SetTop(s, x)) = x
           /\ \A i \in 1..Len(s) : SetTop(s, x)[i] = IF i = Len(s) THEN x ELSE s[i]
  <1>1. PICK S : s \in Seq(S)
    BY DEF IsSeq
  <1>2. Len(s) \in Nat /\ Len(s) # 0 /\ DOMAIN s = 1..Len(s)
    BY SeqFacts
  <1>3. s \in Seq(S \cup {x}) /\ x \in S \cup {x}
    <2>1. Seq(S) \subseteq Seq(S \cup {x})
      OBVIOUS
    <2> QED
      BY <1>1, <2>1
  <1>4. SetTop(s, x) \in Seq(S \cup {x}) /\ Len(SetTop(s, x)) = Len(s)
    BY <1>2, <1>3, ExceptSeq DEF SetTop
  <1>5. \A i \in 1..Len(s) : SetTop(s, x)[i] = IF i = Len(s) THEN x ELSE s[i]
    BY <1>2, <1>3 DEF SetTop
  <1>6. IsSeq(SetTop(s, x))
    BY <1>4 DEF IsSeq
  <1>7. SetTop(s, x) # <<>> /\ Last(SetTop(s, x)) = SetTop(s, x)[Len(s)]
    BY <1>2, <1>4, <1>6, SeqFacts
  <1>8. SetTop(s, x)[Len(s)] = x
    <2>1. Len(s) \in 1..Len(s)
      BY <1>2
    <2> QED
      BY <1>5, <2>1, Zenon
  <1>9. Last(SetTop(s, x)) = x
    BY <1>7, <1>8, Zenon
  <1> QED
    BY <1>4, <1>5, <1>6, <1>7, <1>9

-----------------------------------------------------------------------------
(* Induction, and the functions that types are defined with.               *)

\* Every nonempty set of natural numbers has a least one.
LEMMA LeastNumber ==
    ASSUME NEW T, T \subseteq Nat, T # {}
    PROVE  \E n \in T : \A m \in T : n <= m
  <1> DEFINE F == {1..n : n \in T}
  <1>1. IsWellFoundedOn(StrictSubsetOrdering(Nat), FiniteSubsetsOf(Nat))
    BY FS_StrictSubsetOrderingWellFounded
  <1>2. \A n \in Nat : 1..n \in SUBSET Nat /\ IsFiniteSet(1..n)
    BY FS_Interval
  <1>3. F \subseteq FiniteSubsetsOf(Nat) /\ F # {}
    BY <1>2 DEF FiniteSubsetsOf
  <1> HIDE DEF F
  <1>4. PICK x \in F : \A y \in F : ~(<<y, x>> \in StrictSubsetOrdering(Nat))
    BY <1>1, <1>3, WFMin
  <1>5. PICK n \in T : x = 1..n
    BY DEF F
  <1>6. ASSUME NEW m \in T, ~(n <= m) PROVE FALSE
    <2>1. m \in Nat /\ n \in Nat /\ m < n
      BY <1>6
    <2>2. 1..m \in F
      BY DEF F
    <2>3. 1..m \subseteq 1..n /\ 1..m # 1..n
      <3>1. n \in 1..n /\ n \notin 1..m
        BY <2>1
      <3>2. \A i \in 1..m : i \in 1..n
        BY <2>1
      <3> QED
        BY <3>1, <3>2
    <2>4. <<1..m, x>> \in StrictSubsetOrdering(Nat)
      <3>1. 1..m \in SUBSET Nat /\ 1..n \in SUBSET Nat
        BY <1>2, <2>1
      <3>2. IsFiniteSet(1..m) /\ IsFiniteSet(1..n)
        BY <1>2, <2>1
      <3> QED
        BY <1>5, <2>3, <3>1, <3>2 DEF StrictSubsetOrdering, FiniteSubsetsOf
    <2> QED
      BY <1>4, <2>2, <2>4
  <1> QED
    BY <1>6

\* A set that holds 0 and with every number the next one holds them all.
LEMMA NumbersIn ==
    ASSUME NEW T, 0 \in T, \A n \in Nat : n \in T => n + 1 \in T
    PROVE  \A n \in Nat : n \in T
  <1> DEFINE U == Nat \ T
  <1> SUFFICES ASSUME U # {} PROVE FALSE
    OBVIOUS
  <1>1. PICK n \in U : \A m \in U : n <= m
    BY LeastNumber
  <1>2. n # 0 /\ n \in Nat
    OBVIOUS
  <1>3. n - 1 \in Nat /\ n - 1 \in T
    BY <1>1, <1>2
  <1> QED
    BY <1>2, <1>3

LEMMA LevelsExist ==
    ASSUME NEW x, NEW n \in Nat
    PROVE  \E g : g = [d \in 0..n |-> IF d = 0 THEN x ELSE WithinAll(g[d - 1])]
  <1> DEFINE Solves(g, m) ==
               g = [d \in 0..m |-> IF d = 0 THEN x ELSE WithinAll(g[d - 1])]
             T == {m \in Nat : \E g : Solves(g, m)}
  <1>1. 0 \in T
    <2>1. Solves([d \in 0..0 |-> x], 0)
      OBVIOUS
    <2> QED
      BY <2>1
  <1>2. ASSUME NEW m \in Nat, m \in T PROVE m + 1 \in T
    <2>1. PICK g : Solves(g, m)
      BY <1>2
    <2> DEFINE e == [d \in 0..(m + 1) |-> IF d = 0 THEN x ELSE WithinAll(g[d - 1])]
    <2>2. \A d \in 0..m : e[d] = g[d]
      BY <2>1
    <2>3. \A d \in 0..(m + 1) : d # 0 => d - 1 \in 0..m
      OBVIOUS
    <2>4. e = [d \in 0..(m + 1) |-> IF d = 0 THEN x ELSE WithinAll(e[d - 1])]
      BY <2>2, <2>3
    <2>5. Solves(e, m + 1)
      BY <2>4
    <2> HIDE DEF e, Solves
    <2> QED
      BY <2>5
  <1>3. n \in T
    <2> HIDE DEF T
    <2> QED
      BY <1>1, <1>2, NumbersIn
  <1> QED
    BY <1>3

\* The parts of a type are in every set that has it and, of its members, what
\* is in them.
LEMMA PartsWithin ==
    ASSUME NEW P, NEW type \in P, \A t \in P : Within(t) \subseteq P
    PROVE  Parts(type) \subseteq P
  <1> DEFINE level == CHOOSE g : g = [d \in 0..MaxTokens |->
                         IF d = 0 THEN {type} ELSE WithinAll(g[d - 1])]
             T == {d \in Nat : d \in 0..MaxTokens => level[d] \subseteq P}
  <1>1. MaxTokens \in Nat
    BY InterfaceAssumption
  <1>2. Parts(type) = UNION {level[d] : d \in 0..MaxTokens}
    BY DEF Parts
  <1>3. level = [d \in 0..MaxTokens |->
                   IF d = 0 THEN {type} ELSE WithinAll(level[d - 1])]
    <2> DEFINE base == {type}
    <2>1. \E g : g = [d \in 0..MaxTokens |-> IF d = 0 THEN base ELSE WithinAll(g[d - 1])]
      <3> HIDE DEF base
      <3> QED
        BY <1>1, LevelsExist
    <2> QED
      BY <2>1, Zenon
  <1> HIDE DEF level
  <1>4. \A d \in 0..MaxTokens :
           level[d] = IF d = 0 THEN {type} ELSE WithinAll(level[d - 1])
    BY <1>3
  <1>5. 0 \in T
    BY <1>1, <1>4
  <1>6. ASSUME NEW d \in Nat, d \in T PROVE d + 1 \in T
    <2> SUFFICES ASSUME d + 1 \in 0..MaxTokens PROVE level[d + 1] \subseteq P
      OBVIOUS
    <2>1. d \in 0..MaxTokens /\ level[d] \subseteq P
      BY <1>1, <1>6
    <2>2. level[d + 1] = WithinAll(level[d])
      BY <1>4
    <2> QED
      BY <2>1, <2>2 DEF WithinAll
  <1>7. \A d \in Nat : d \in T
    <2> HIDE DEF T
    <2> QED
      BY <1>5, <1>6, NumbersIn
  <1> QED
    BY <1>1, <1>2, <1>7

Wrapping(x, w, g) ==
    g = [i \in 0..Len(w) |-> IF i = 0 THEN x ELSE Of(w[Len(w) + 1 - i], g[i - 1])]

LEMMA WrapsExist ==
    ASSUME NEW x, NEW w, Len(w) \in Nat
    PROVE  \E g : Wrapping(x, w, g)
  <1> DEFINE n == Len(w)
             Solves(g, m) == g = [i \in 0..m |-> IF i = 0 THEN x ELSE Of(w[n + 1 - i], g[i - 1])]
             T == {m \in Nat : \E g : Solves(g, m)}
  <1>1. 0 \in T
    <2>1. Solves([i \in 0..0 |-> x], 0)
      OBVIOUS
    <2> QED
      BY <2>1
  <1>2. ASSUME NEW m \in Nat, m \in T PROVE m + 1 \in T
    <2>1. PICK g : Solves(g, m)
      BY <1>2
    <2> DEFINE e == [i \in 0..(m + 1) |-> IF i = 0 THEN x ELSE Of(w[n + 1 - i], g[i - 1])]
    <2>2. \A i \in 0..m : e[i] = g[i]
      BY <2>1
    <2>3. \A i \in 0..(m + 1) : i # 0 => i - 1 \in 0..m
      OBVIOUS
    <2>4. e = [i \in 0..(m + 1) |-> IF i = 0 THEN x ELSE Of(w[n + 1 - i], e[i - 1])]
      BY <2>2, <2>3
    <2>5. Solves(e, m + 1)
      BY <2>4
    <2> HIDE DEF e, Solves
    <2> QED
      BY <2>5
  <1>3. n \in T
    <2> HIDE DEF T
    <2> QED
      BY <1>1, <1>2, NumbersIn
  <1> QED
    BY <1>3 DEF Wrapping

-----------------------------------------------------------------------------
(* Types.                                                                  *)

LEMMA SoundWith ==
    ASSUME NEW P, Sound(P), NEW t, IsType(t), Within(t) \subseteq P
    PROVE  Sound(P \cup {t})
  BY DEF Sound

LEMMA OfFacts ==
    ASSUME NEW kind, NEW type
    PROVE  LET t == Of(kind, type)
           IN /\ t.kind = kind /\ DOMAIN t.fields = {1} /\ t.fields[1].type = type
              /\ Element(t) = type /\ Within(t) = {type}
  <1> DEFINE t == Of(kind, type)
  <1>1. t.kind = kind /\ t.fields = <<Field("", <<>>, type)>>
    BY DEF Of, Type
  <1>2. Field("", <<>>, type).type = type
    BY DEF Field
  <1>3. DOMAIN t.fields = {1} /\ t.fields[1] = Field("", <<>>, type)
    <2> DEFINE f == Field("", <<>>, type)
    <2>1. t.fields = <<f>>
      BY <1>1
    <2> HIDE DEF t, f
    <2>2. DOMAIN t.fields = {1} /\ t.fields[1] = f
      BY <2>1
    <2> QED
      BY <2>2 DEF f
  <1> HIDE DEF t
  <1>4. t.fields[1].type = type
    BY <1>2, <1>3, Zenon
  <1>5. Within(t) = {type}
    BY <1>3, <1>4 DEF Within
  <1>6. Element(t) = type
    BY <1>4 DEF Element
  <1> QED
    BY <1>1, <1>3, <1>4, <1>5, <1>6 DEF t

LEMMA OfSound ==
    ASSUME NEW P, Sound(P), NEW kind \in Wraps, NEW type \in P,
           type.kind # "none", kind = "maybe" => type.kind # "maybe"
    PROVE  Sound(P \cup {Of(kind, type)})
  <1> DEFINE t == Of(kind, type)
  <1>1. /\ t.kind = kind /\ DOMAIN t.fields = {1} /\ t.fields[1].type = type
        /\ Element(t) = type /\ Within(t) = {type}
    BY OfFacts
  <1> HIDE DEF t
  <1>2. NoType.kind = "none"
    BY DEF NoType, Type
  <1>3. type # NoType
    BY <1>2, Zenon
  <1>4. {k \in DOMAIN t.fields : t.fields[k].type # NoType} = {1}
    BY <1>1, <1>3
  <1>5. IsType(t)
    BY <1>1, <1>4 DEF IsType, Wraps
  <1> QED
    BY <1>1, <1>5, SoundWith DEF t

LEMMA WrappedSound ==
    ASSUME NEW P, Sound(P), NEW w \in Seq(Wraps), NEW type \in P,
           type.kind # "none", ~Nested(w, type)
    PROVE  \E Q : /\ Sound(Q) /\ P \subseteq Q /\ Wrapped(w, type) \in Q
                  /\ Wrapped(w, type).kind # "none"
  <1> DEFINE n == Len(w)
             g == CHOOSE g : g = [i \in 0..n |-> IF i = 0 THEN type ELSE Of(w[n + 1 - i], g[i - 1])]
             Kind(i) == IF i = 0 THEN type.kind ELSE w[n + 1 - i]
             Goes(i) == \E Q : Sound(Q) /\ P \subseteq Q /\ g[i] \in Q /\ g[i].kind = Kind(i)
             T == {i \in Nat : i \in 0..n => Goes(i)}
  <1>1. n \in Nat /\ \A i \in 1..n : w[i] \in Wraps
    BY LenProperties, ElementOfSeq
  <1>2. Wrapped(w, type) = g[n]
    BY DEF Wrapped
  <1>3. g = [i \in 0..n |-> IF i = 0 THEN type ELSE Of(w[n + 1 - i], g[i - 1])]
    <2>1. \E f : f = [i \in 0..n |-> IF i = 0 THEN type ELSE Of(w[n + 1 - i], f[i - 1])]
      <3>1. \E f : Wrapping(type, w, f)
        BY <1>1, WrapsExist
      <3> QED
        BY <3>1 DEF Wrapping
    <2> QED
      BY <2>1, Zenon
  <1> HIDE DEF g
  <1>4. \A i \in 0..n : g[i] = IF i = 0 THEN type ELSE Of(w[n + 1 - i], g[i - 1])
    BY <1>3
  <1>5. \A i \in 1..n : Kind(i) # "none"
    BY <1>1 DEF Wraps
  <1>6. ASSUME NEW i \in Nat, i + 1 \in 0..n PROVE Kind(i + 1) = "maybe" => Kind(i) # "maybe"
    <2> SUFFICES ASSUME Kind(i + 1) = "maybe", Kind(i) = "maybe" PROVE FALSE
      OBVIOUS
    <2> DEFINE kinds == Append(w, type.kind)
               j == n + 1 - (i + 1)
    <2>1. j \in 1..n /\ w[j] = "maybe"
      BY <1>1, <1>6
    <2>2. w \in Seq(Wraps \cup {type.kind})
      BY SeqMonotonic
    <2>3. kinds[n + 1] = type.kind /\ \A k \in 1..n : kinds[k] = w[k]
      BY <2>2, AppendProperties
    <2> HIDE DEF kinds
    <2>4. kinds[j] = "maybe"
      BY <2>1, <2>3
    <2>5. kinds[j + 1] = "maybe"
      <3>1. CASE i = 0
        BY <1>1, <2>3, <3>1
      <3>2. CASE i # 0
        <4>1. j + 1 = n + 1 - i /\ j + 1 \in 1..n
          BY <1>1, <1>6, <3>2
        <4> QED
          BY <2>3, <3>2, <4>1
      <3> QED
        BY <3>1, <3>2
    <2>6. \E k \in 1..Len(w) : kinds[k] = "maybe" /\ kinds[k + 1] = "maybe"
      <3> HIDE DEF j
      <3> QED
        BY <2>1, <2>4, <2>5
    <2> QED
      BY <2>6 DEF Nested, kinds
  <1>7. 0 \in T
    BY <1>1, <1>4
  <1>8. ASSUME NEW i \in Nat, i \in T PROVE i + 1 \in T
    <2> SUFFICES ASSUME i + 1 \in 0..n PROVE Goes(i + 1)
      OBVIOUS
    <2>1. i \in 0..n
      BY <1>1
    <2>2. PICK Q : Sound(Q) /\ P \subseteq Q /\ g[i] \in Q /\ g[i].kind = Kind(i)
      BY <1>8, <2>1
    <2>3. g[i + 1] = Of(w[n + 1 - (i + 1)], g[i]) /\ w[n + 1 - (i + 1)] \in Wraps
          /\ Kind(i + 1) = w[n + 1 - (i + 1)]
      BY <1>1, <1>4
    <2>4. Kind(i) # "none" /\ (Kind(i + 1) = "maybe" => Kind(i) # "maybe")
      <3>1. i = 0 => Kind(i) = type.kind
        OBVIOUS
      <3> HIDE DEF Kind
      <3> QED
        BY <1>5, <1>6, <2>1, <3>1
    <2> DEFINE k == w[n + 1 - (i + 1)]
               R == Q \cup {g[i + 1]}
    <2> HIDE DEF Kind, k
    <2>5. k \in Wraps /\ g[i + 1] = Of(k, g[i]) /\ Kind(i + 1) = k
      BY <2>3 DEF k
    <2>6. Sound(R)
      BY <2>2, <2>4, <2>5, OfSound
    <2>7. g[i + 1].kind = k
      BY <2>5, OfFacts
    <2> QED
      BY <2>2, <2>5, <2>6, <2>7
  <1>9. n \in T
    <2> HIDE DEF T
    <2> QED
      BY <1>1, <1>7, <1>8, NumbersIn
  <1>10. PICK Q : Sound(Q) /\ P \subseteq Q /\ g[n] \in Q /\ g[n].kind = Kind(n)
    BY <1>1, <1>9
  <1>11. Kind(n) # "none"
    <2>1. n = 0 => Kind(n) = type.kind
      OBVIOUS
    <2> HIDE DEF Kind, n
    <2> QED
      BY <1>1, <1>5, <2>1
  <1> QED
    BY <1>2, <1>10, <1>11

\* The name without a type of an enum stays one.
LEMMA WrappedNone ==
    ASSUME NEW type
    PROVE  Wrapped(<<>>, type) = type /\ ~Nested(<<>>, type)
  <1> DEFINE n == Len(<<>>)
             g == CHOOSE g : g = [i \in 0..n |-> IF i = 0 THEN type ELSE Of(<<>>[n + 1 - i], g[i - 1])]
  <1>1. n = 0
    BY EmptyIsSeq
  <1>2. Wrapped(<<>>, type) = g[n]
    BY DEF Wrapped
  <1>3. g = [i \in 0..n |-> IF i = 0 THEN type ELSE Of(<<>>[n + 1 - i], g[i - 1])]
    <2>1. \E f : f = [i \in 0..n |-> IF i = 0 THEN type ELSE Of(<<>>[n + 1 - i], f[i - 1])]
      <3>1. Len(<<>>) \in Nat
        BY <1>1
      <3>2. \E f : Wrapping(type, <<>>, f)
        BY <3>1, WrapsExist
      <3> QED
        BY <3>2 DEF Wrapping
    <2> QED
      BY <2>1, Zenon
  <1> HIDE DEF g
  <1>4. g[0] = type
    BY <1>1, <1>3
  <1> QED
    BY <1>1, <1>2, <1>4 DEF Nested

-----------------------------------------------------------------------------
(* More types are proper: what was is still.                               *)

LEMMA FrameGrows ==
    ASSUME NEW P, NEW Q, P \subseteq Q, NEW f, IsFrame(f, P)
    PROVE  IsFrame(f, Q)
  BY DEF IsFrame

LEMMA FramesGrow ==
    ASSUME NEW P, NEW Q, P \subseteq Q, NEW open, Frames(P, open)
    PROVE  Frames(Q, open)
  BY FrameGrows DEF Frames

LEMMA RestGrows ==
    ASSUME NEW P, NEW Q, P \subseteq Q, NEW i, NEW m
    PROVE  (IsRead(i, P) => IsRead(i, Q)) /\ (Begun(m, P) => Begun(m, Q))
  BY DEF IsRead, Begun

-----------------------------------------------------------------------------
(* What is open.                                                           *)

LEMMA FramesTop ==
    ASSUME NEW P, NEW open, Frames(P, open)
    PROVE  /\ Len(open) \in Nat /\ Len(open) > 0 /\ open # <<>> /\ IsSeq(open)
           /\ Last(open) = open[Len(open)] /\ IsFrame(Last(open), P)
           /\ Last(open).kind = "member" <=> Len(open) = 1
  <1>1. IsSeq(open) /\ open # <<>>
    BY DEF Frames
  <1>2. Len(open) \in Nat /\ Len(open) > 0 /\ Len(open) \in 1..Len(open) /\ Last(open) = open[Len(open)]
    BY <1>1, SeqFacts
  <1>3. IsFrame(open[Len(open)], P) /\ (open[Len(open)].kind = "member" <=> Len(open) = 1)
    BY <1>2 DEF Frames
  <1> QED
    BY <1>1, <1>2, <1>3

LEMMA FramesSet ==
    ASSUME NEW P, NEW open, Frames(P, open), NEW f, IsFrame(f, P),
           f.kind = "member" <=> Last(open).kind = "member"
    PROVE  Frames(P, SetTop(open, f)) /\ Last(SetTop(open, f)) = f
  <1> DEFINE all == SetTop(open, f)
  <1>1. /\ Len(open) \in Nat /\ Len(open) > 0 /\ open # <<>> /\ IsSeq(open)
        /\ Last(open).kind = "member" <=> Len(open) = 1
    BY FramesTop
  <1>2. /\ IsSeq(all) /\ Len(all) = Len(open) /\ all # <<>> /\ Last(all) = f
        /\ \A i \in 1..Len(open) : all[i] = IF i = Len(open) THEN f ELSE open[i]
    BY <1>1, SetTopFacts
  <1> HIDE DEF all
  <1>3. ASSUME NEW i \in 1..Len(all)
        PROVE  /\ IsFrame(all[i], P) /\ (all[i].kind = "member" <=> i = 1)
               /\ all[i].kind = "enum" => i = Len(all)
    <2>1. CASE i = Len(open)
      <3>1. all[i] = f
        BY <1>2, <2>1
      <3> QED
        BY <1>1, <1>2, <2>1, <3>1
    <2>2. CASE i # Len(open)
      <3>1. all[i] = open[i] /\ i \in 1..Len(open)
        BY <1>2, <2>2
      <3> QED
        BY <1>2, <2>2, <3>1 DEF Frames
    <2> QED
      BY <2>1, <2>2
  <1>4. Frames(P, all)
    BY <1>2, <1>3 DEF Frames
  <1> QED
    BY <1>2, <1>4 DEF all

LEMMA FramesPush ==
    ASSUME NEW P, NEW open, Frames(P, open), Last(open).kind # "enum",
           NEW f, IsFrame(f, P), f.kind = "object"
    PROVE  Frames(P, Append(open, f)) /\ Last(Append(open, f)) = f
  <1> DEFINE all == Append(open, f)
  <1>1. /\ Len(open) \in Nat /\ Len(open) > 0 /\ open # <<>> /\ IsSeq(open)
        /\ Last(open) = open[Len(open)]
    BY FramesTop
  <1>2. /\ IsSeq(all) /\ Len(all) = Len(open) + 1 /\ all # <<>> /\ Last(all) = f
        /\ all[Len(open) + 1] = f /\ \A i \in 1..Len(open) : all[i] = open[i]
    BY <1>1, AppendFacts
  <1> HIDE DEF all
  <1>3. ASSUME NEW i \in 1..Len(all)
        PROVE  /\ IsFrame(all[i], P) /\ (all[i].kind = "member" <=> i = 1)
               /\ all[i].kind = "enum" => i = Len(all)
    <2>1. CASE i = Len(open) + 1
      <3>1. all[i] = f
        BY <1>2, <2>1
      <3> QED
        BY <1>1, <2>1, <3>1
    <2>2. CASE i # Len(open) + 1
      <3>1. i \in 1..Len(open) /\ all[i] = open[i]
        BY <1>1, <1>2, <2>2
      <3>2. IsFrame(open[i], P) /\ (open[i].kind = "member" <=> i = 1)
            /\ (open[i].kind = "enum" => i = Len(open))
        BY <3>1 DEF Frames
      <3>3. open[i].kind # "enum"
        BY <1>1, <3>2
      <3> QED
        BY <3>1, <3>2, <3>3
    <2> QED
      BY <2>1, <2>2
  <1>4. Frames(P, all)
    BY <1>2, <1>3 DEF Frames
  <1> QED
    BY <1>2, <1>4 DEF all

LEMMA FramesPop ==
    ASSUME NEW P, NEW open, Frames(P, open), Last(open).kind # "member"
    PROVE  Frames(P, Front(open)) /\ Last(Front(open)).kind # "enum"
  <1> DEFINE all == Front(open)
  <1>1. Len(open) \in Nat /\ Len(open) > 1 /\ open # <<>> /\ IsSeq(open)
    <2>1. /\ Len(open) \in Nat /\ Len(open) > 0 /\ open # <<>> /\ IsSeq(open)
          /\ Last(open).kind = "member" <=> Len(open) = 1
      BY FramesTop
    <2>2. Len(open) # 1
      BY <2>1, Zenon
    <2>3. Len(open) > 1
      <3>1. Len(open) \in Nat /\ Len(open) > 0
        BY <2>1, Zenon
      <3>2. \A n \in Nat : n > 0 /\ n # 1 => n > 1
        OBVIOUS
      <3> QED
        BY <2>2, <3>1, <3>2, Zenon
    <2> QED
      BY <2>1, <2>3, Zenon
  <1>2. IsSeq(all) /\ Len(all) = Len(open) - 1 /\ \A i \in 1..(Len(open) - 1) : all[i] = open[i]
    BY <1>1, FrontFacts
  <1> HIDE DEF all
  <1>3. ASSUME NEW i \in 1..Len(all)
        PROVE  /\ IsFrame(all[i], P) /\ (all[i].kind = "member" <=> i = 1)
               /\ all[i].kind # "enum"
    <2>1. i \in 1..Len(open) /\ i # Len(open) /\ all[i] = open[i]
      BY <1>1, <1>2
    <2> QED
      BY <2>1 DEF Frames
  <1>4. all # <<>> /\ Len(all) \in 1..Len(all) /\ Last(all) = all[Len(all)]
    BY <1>1, <1>2, SeqFacts
  <1>5. Frames(P, all)
    BY <1>2, <1>3, <1>4 DEF Frames
  <1> QED
    BY <1>3, <1>4, <1>5 DEF all

-----------------------------------------------------------------------------
(* Members, fields, and the end of a type.                                 *)

LEMMA FailHolds ==
    ASSUME NEW P, Fail
    PROVE  Reads(P, parser', interface', member')
  <1>1. parser' = [at |-> "done", open |-> <<>>, failed |-> TRUE]
    BY DEF Fail
  <1>2. IsRead(NoInterface, P) /\ Begun(NoMember, P) /\ NoMember.kind = ""
    BY EmptyIsSeq DEF IsRead, Begun, NoInterface, NoMember, Unique
  <1>3. interface' = NoInterface /\ member' = NoMember
    BY DEF Fail
  <1> QED
    BY <1>1, <1>2, <1>3 DEF Reads, Places, Inside, Typing

\* A name that is new, behind others.
LEMMA UniqueAppend ==
    ASSUME NEW s, IsSeq(s), Unique(s), NEW x, IsNew(x.name, s)
    PROVE  Unique(Append(s, x))
  <1>1. /\ DOMAIN s = 1..Len(s) /\ Len(s) \in Nat
        /\ DOMAIN Append(s, x) = 1..(Len(s) + 1) /\ Append(s, x)[Len(s) + 1] = x
        /\ \A i \in 1..Len(s) : Append(s, x)[i] = s[i]
    BY SeqFacts, AppendFacts
  <1> DEFINE all == Append(s, x)
  <1> HIDE DEF all
  <1>2. ASSUME NEW j \in DOMAIN all, NEW k \in DOMAIN all, all[j].name = all[k].name
        PROVE  j = k
    <2>1. \A i \in DOMAIN all : i = Len(s) + 1 \/ (i \in DOMAIN s /\ i # Len(s) + 1)
      BY <1>1 DEF all
    <2>2. all[Len(s) + 1] = x /\ \A i \in DOMAIN s : all[i] = s[i]
      BY <1>1 DEF all
    <2>3. CASE j = Len(s) + 1 /\ k \in DOMAIN s
      <3>1. s[k].name = x.name
        BY <1>2, <2>2, <2>3, Zenon
      <3> QED
        BY <2>3, <3>1 DEF IsNew
    <2>4. CASE j \in DOMAIN s /\ k = Len(s) + 1
      <3>1. s[j].name = x.name
        BY <1>2, <2>2, <2>4, Zenon
      <3> QED
        BY <2>4, <3>1 DEF IsNew
    <2>5. CASE j \in DOMAIN s /\ k \in DOMAIN s
      <3>1. s[j].name = s[k].name
        BY <1>2, <2>2, <2>5, Zenon
      <3> QED
        BY <2>5, <3>1 DEF Unique
    <2> QED
      BY <2>1, <2>3, <2>4, <2>5
  <1> QED
    BY <1>2 DEF Unique, all

LEMMA MemberFits ==
    ASSUME NEW P, NEW m, Begun(m, P), m.kind \in Keywords, KindsFit(m),
           Len(m.types) = (IF m.kind = "method" THEN 2 ELSE 1)
    PROVE  IsMember(m)
  <1> DEFINE kinds == [j \in DOMAIN m.types |-> m.types[j].kind]
  <1>1. IsSeq(m.types)
    BY DEF Begun
  <1>2. DOMAIN m.types = 1..Len(m.types)
    BY <1>1, SeqFacts
  <1>3. CASE m.kind = "method"
    <2>1. DOMAIN m.types = {1, 2}
      BY <1>2, <1>3
    <2>2. m.types[1].kind = "object" /\ m.types[2].kind = "object"
      BY <1>3 DEF KindsFit
    <2>3. kinds = [j \in {1, 2} |-> "object"]
      BY <2>1, <2>2
    <2>4. [j \in {1, 2} |-> "object"] = <<"object", "object">>
      <3>1. 1..2 = {1, 2}
        OBVIOUS
      <3> QED
        BY <3>1
    <2> QED
      BY <1>3, <2>3, <2>4 DEF IsMember
  <1>4. CASE m.kind \in {"type", "error"}
    <2>1. DOMAIN m.types = {1}
      BY <1>2, <1>4
    <2> DEFINE k == m.types[1].kind
    <2>2. kinds = [j \in {1} |-> k]
      BY <2>1
    <2>3. [j \in {1} |-> k] = <<k>>
      <3>1. 1..1 = {1}
        OBVIOUS
      <3> HIDE DEF k
      <3> QED
        BY <3>1
    <2>4. kinds = <<k>>
      BY <2>2, <2>3, Zenon
    <2>5. m.kind = "type" => k \in {"object", "enum"}
      BY DEF KindsFit
    <2>6. m.kind = "error" => k = "object"
      BY DEF KindsFit
    <2> HIDE DEF k, kinds
    <2>7. m.kind = "type" => kinds \in {<<"object">>, <<"enum">>}
      BY <2>4, <2>5
    <2>8. m.kind = "error" => kinds = <<"object">>
      BY <2>4, <2>6
    <2>9. m.kind = "type" \/ m.kind = "error"
      BY <1>4
    <2> QED
      BY <2>7, <2>8, <2>9 DEF IsMember, kinds
  <1> QED
    BY <1>3, <1>4 DEF Keywords

LEMMA AddMemberHolds ==
    ASSUME NEW P, IsRead(interface, P), interface.name \in InterfaceNames,
           NEW m, Begun(m, P), m.kind \in Keywords,
           Len(m.types) = 1 \/ (m.kind = "method" /\ Len(m.types) = 2),
           AddMember(m)
    PROVE  Reads(P, parser', interface', member')
  <1>1. CASE m.kind = "method" /\ Len(m.types) = 1
    <2>1. /\ parser' = [at |-> "arrow", open |-> <<>>, failed |-> FALSE]
          /\ member' = m /\ interface' = interface
      BY <1>1 DEF AddMember, Go
    <2> QED
      BY <1>1, <2>1 DEF Reads, Places, Inside, Typing
  <1>2. CASE ~(m.kind = "method" /\ Len(m.types) = 1)
    <2>1. CASE ~KindsFit(m) \/ ~IsNew(m.name, interface.members)
      <3>1. Fail
        BY <1>2, <2>1 DEF AddMember
      <3> QED
        BY <3>1, FailHolds
    <2>2. CASE KindsFit(m) /\ IsNew(m.name, interface.members)
      <3>1. /\ parser' = [at |-> "member", open |-> <<>>, failed |-> FALSE]
            /\ interface' = [interface EXCEPT !.members = Append(@, m)]
            /\ member' = NoMember
        BY <1>2, <2>2 DEF AddMember, Go
      <3>2. Begun(NoMember, P) /\ NoMember.kind = ""
        BY EmptyIsSeq DEF Begun, NoMember
      <3>3. IsMember(m)
        BY <1>2, <2>2, MemberFits
      <3> DEFINE old == interface.members
                 all == Append(old, m)
                 new == [interface EXCEPT !.members = Append(@, m)]
      <3>4. /\ interface = [name |-> interface.name, docs |-> interface.docs,
                            members |-> interface.members]
            /\ IsSeq(old) /\ Unique(old)
            /\ \A k \in DOMAIN old : /\ IsMember(old[k])
                                     /\ \A j \in DOMAIN old[k].types : old[k].types[j] \in P
        BY DEF IsRead
      <3>5. new = [name |-> interface.name, docs |-> interface.docs, members |-> all]
        BY <3>4, SMTT(30)
      <3>6. IsSeq(all) /\ DOMAIN all = 1..(Len(old) + 1) /\ all[Len(old) + 1] = m
            /\ (\A i \in 1..Len(old) : all[i] = old[i])
            /\ DOMAIN old = 1..Len(old) /\ Len(old) \in Nat
        BY <3>4, AppendFacts, SeqFacts
      <3>7. Unique(all)
        BY <2>2, <3>4, UniqueAppend
      <3>8. \A j \in DOMAIN m.types : m.types[j] \in P
        BY DEF Begun
      <3> HIDE DEF old, all
      <3>9. ASSUME NEW k \in DOMAIN all
            PROVE  IsMember(all[k]) /\ \A j \in DOMAIN all[k].types : all[k].types[j] \in P
        <4>1. CASE k = Len(old) + 1
          <5>1. all[k] = m
            BY <3>6, <4>1
          <5> QED
            BY <3>3, <3>8, <5>1
        <4>2. CASE k # Len(old) + 1
          <5>1. k \in DOMAIN old /\ all[k] = old[k]
            BY <3>6, <4>2
          <5> QED
            BY <3>4, <5>1
        <4> QED
          BY <4>1, <4>2
      <3>10. IsRead(new, P) /\ new.name = interface.name
        <4>1. new.name = interface.name /\ new.docs = interface.docs /\ new.members = all
          BY <3>5
        <4>2. new = [name |-> new.name, docs |-> new.docs, members |-> new.members]
          BY <3>5, <4>1
        <4> HIDE DEF new
        <4> QED
          BY <3>6, <3>7, <3>9, <4>1, <4>2 DEF IsRead
      <3> HIDE DEF new
      <3>11. interface' = new
        BY <3>1 DEF new
      <3> QED
        BY <3>1, <3>2, <3>10, <3>11 DEF Reads, Places, Inside, Typing
    <2> QED
      BY <2>1, <2>2
  <1> QED
    BY <1>1, <1>2

\* What a type may be where it is complete.
MayEnd(open, type) ==
    IF Last(open).kind = "enum" THEN type = NoType /\ Last(open).wraps = <<>>
                                ELSE type.kind # "none"

LEMMA WrappedHolds ==
    ASSUME NEW P, Sound(P), NEW open, Frames(P, open), NEW type \in P, MayEnd(open, type),
           ~Nested(Last(open).wraps, type)
    PROVE  \E Q : /\ Sound(Q) /\ P \subseteq Q /\ Wrapped(Last(open).wraps, type) \in Q
                  /\ Wrapped(Last(open).wraps, type) = NoType <=> Last(open).kind = "enum"
  <1> DEFINE w == Last(open).wraps
  <1>1. w \in Seq(Wraps)
    BY FramesTop DEF IsFrame
  <1>2. CASE Last(open).kind = "enum"
    <2>1. type = NoType /\ w = <<>>
      BY <1>2 DEF MayEnd
    <2>2. Wrapped(<<>>, type) = type
      BY WrappedNone
    <2>3. Wrapped(w, type) = NoType
      BY <2>1, <2>2, Zenon
    <2>4. Wrapped(w, type) \in P
      BY <2>1, <2>3, Zenon
    <2> HIDE DEF w
    <2> QED
      BY <1>2, <2>3, <2>4 DEF w
  <1>3. CASE Last(open).kind # "enum"
    <2>1. type.kind # "none"
      BY <1>3 DEF MayEnd
    <2>2. ~Nested(w, type)
      OBVIOUS
    <2> HIDE DEF w
    <2>3. PICK Q : /\ Sound(Q) /\ P \subseteq Q /\ Wrapped(w, type) \in Q
                   /\ Wrapped(w, type).kind # "none"
      BY <1>1, <2>1, <2>2, WrappedSound
    <2>4. NoType.kind = "none"
      BY DEF NoType, Type
    <2>5. Wrapped(w, type) # NoType
      BY <2>3, <2>4, Zenon
    <2> QED
      BY <1>3, <2>3, <2>5 DEF w
  <1> QED
    BY <1>2, <1>3

\* The frame after its field got its type.
Fielded(f, all) ==
    LET field == [f.field EXCEPT !.type = all]
    IN [f EXCEPT !.fields = Append(@, field), !.wraps = <<>>]

LEMMA FieldAdded ==
    ASSUME NEW P, NEW f, IsFrame(f, P), NEW all \in P, all = NoType <=> f.kind = "enum",
           IsNew(f.field.name, f.fields)
    PROVE  LET new == Fielded(f, all)
           IN IsFrame(new, P) /\ new.kind = f.kind /\ new.wraps = <<>>
  <1> DEFINE field == [f.field EXCEPT !.type = all]
             fields == Append(f.fields, field)
             new == [f EXCEPT !.fields = Append(@, field), !.wraps = <<>>]
  <1>1. /\ f = [kind |-> f.kind, fields |-> f.fields, field |-> f.field, wraps |-> f.wraps]
        /\ f.kind \in {"member", "object", "enum"}
        /\ IsSeq(f.fields) /\ Unique(f.fields)
        /\ \A k \in DOMAIN f.fields : /\ f.fields[k].type \in P
                                      /\ f.fields[k].type = NoType <=> f.kind = "enum"
        /\ f.field = [name |-> f.field.name, docs |-> f.field.docs, type |-> NoType]
    BY DEF IsFrame
  <1>2. field.type = all /\ field.name = f.field.name
    BY <1>1
  <1> HIDE DEF field
  <1>3. new = [kind |-> f.kind, fields |-> fields, field |-> f.field, wraps |-> <<>>]
    <2> DEFINE more == [f EXCEPT !.fields = Append(@, field)]
    <2>1. new = [more EXCEPT !.wraps = <<>>]
      BY <1>1
    <2>2. more = [kind |-> f.kind, fields |-> fields, field |-> f.field, wraps |-> f.wraps]
      BY <1>1, SMTT(30)
    <2> HIDE DEF new, more, fields
    <2> QED
      BY <2>1, <2>2
  <1>4. IsSeq(fields) /\ fields # <<>> /\ DOMAIN fields = 1..(Len(f.fields) + 1)
        /\ fields[Len(f.fields) + 1] = field
        /\ (\A i \in 1..Len(f.fields) : fields[i] = f.fields[i])
        /\ DOMAIN f.fields = 1..Len(f.fields) /\ Len(f.fields) \in Nat
    BY <1>1, AppendFacts, SeqFacts
  <1>5. Unique(fields)
    <2>1. IsNew(field.name, f.fields)
      BY <1>2
    <2> QED
      BY <1>1, <2>1, UniqueAppend
  <1> HIDE DEF fields
  <1>6. ASSUME NEW k \in DOMAIN fields
        PROVE  fields[k].type \in P /\ (fields[k].type = NoType <=> f.kind = "enum")
    <2>1. CASE k = Len(f.fields) + 1
      <3>1. fields[k].type = all
        BY <1>2, <1>4, <2>1
      <3> QED
        BY <3>1
    <2>2. CASE k # Len(f.fields) + 1
      <3>1. k \in DOMAIN f.fields /\ fields[k] = f.fields[k]
        BY <1>4, <2>2
      <3> QED
        BY <1>1, <3>1
    <2> QED
      BY <2>1, <2>2
  <1>7. <<>> \in Seq(Wraps)
    OBVIOUS
  <1> HIDE DEF new
  <1>8. new.kind = f.kind /\ new.fields = fields /\ new.field = f.field /\ new.wraps = <<>>
    BY <1>3
  <1>9. IsFrame(new, P)
    BY <1>1, <1>3, <1>4, <1>5, <1>6, <1>7, <1>8 DEF IsFrame
  <1> QED
    BY <1>8, <1>9, Zenon DEF new, field, Fielded

\* What of the rest is needed to go on inside a member.
Inner(P) == /\ IsRead(interface, P) /\ interface.name \in InterfaceNames
            /\ Begun(member, P) /\ Awaits(member)

LEMMA GoesOn ==
    ASSUME NEW P, Inner(P), NEW at \in Inside, NEW open, Opens(P, at, open),
           Go(at, open), UNCHANGED <<interface, member>>
    PROVE  Reads(P, parser', interface', member')
  <1>1. /\ parser' = [at |-> at, open |-> open, failed |-> FALSE]
        /\ interface' = interface /\ member' = member
    BY DEF Go
  <1>2. at \in Places /\ at \notin {"interface", "name", "member", "done", "member name", "arrow"}
    BY DEF Places, Inside, Typing
  <1>3. member.kind # ""
    BY DEF Inner, Awaits, Keywords
  <1> QED
    BY <1>1, <1>2, <1>3 DEF Reads, Inner

LEMMA CompleteHolds ==
    ASSUME NEW P, Sound(P), Inner(P), NEW open, Frames(P, open),
           NEW type \in P, MayEnd(open, type), Complete(open, type)
    PROVE  \E Q : Sound(Q) /\ Reads(Q, parser', interface', member')
  <1> DEFINE top == Last(open)
             all == Wrapped(top.wraps, type)
             field == [top.field EXCEPT !.type = all]
             new == [top EXCEPT !.fields = Append(@, field), !.wraps = <<>>]
             m == [member EXCEPT !.types = Append(@, all)]
  <1>1. CASE Fail
    BY <1>1, FailHolds
  <1>2. CASE ~Fail
    <2>1. ~Nested(top.wraps, type)
      BY <1>2 DEF Complete
    <2>2. PICK Q : /\ Sound(Q) /\ P \subseteq Q /\ all \in Q
                   /\ all = NoType <=> top.kind = "enum"
      BY <2>1, WrappedHolds
    <2>3. Inner(Q) /\ Frames(Q, open)
      BY <2>2, RestGrows, FramesGrow DEF Inner
    <2>4. CASE top.kind = "member"
      <3>1. AddMember(m)
        BY <2>1, <2>4 DEF Complete
      <3> HIDE DEF all
      <3>2. /\ member = [kind |-> member.kind, name |-> member.name, docs |-> member.docs,
                         types |-> member.types]
            /\ IsSeq(member.types) /\ \A j \in DOMAIN member.types : member.types[j] \in Q
        BY <2>3 DEF Inner, Begun
      <3> DEFINE types == Append(member.types, all)
      <3>3. m = [kind |-> member.kind, name |-> member.name, docs |-> member.docs, types |-> types]
        BY <3>2
      <3>4. IsSeq(types) /\ Len(types) = Len(member.types) + 1
            /\ DOMAIN types = 1..(Len(member.types) + 1) /\ types[Len(member.types) + 1] = all
            /\ (\A i \in 1..Len(member.types) : types[i] = member.types[i])
            /\ DOMAIN member.types = 1..Len(member.types) /\ Len(member.types) \in Nat
        BY <3>2, AppendFacts, SeqFacts
      <3> HIDE DEF types
      <3>5. \A j \in DOMAIN types : types[j] \in Q
        <4> TAKE j \in DOMAIN types
        <4>1. CASE j = Len(member.types) + 1
          BY <2>2, <3>4, <4>1
        <4>2. CASE j # Len(member.types) + 1
          <5>1. j \in DOMAIN member.types /\ types[j] = member.types[j]
            BY <3>4, <4>2
          <5> QED
            BY <3>2, <5>1
        <4> QED
          BY <4>1, <4>2
      <3> HIDE DEF m
      <3>6. Begun(m, Q) /\ m.kind = member.kind /\ m.types = types
        BY <3>3, <3>4, <3>5 DEF Begun
      <3>7. m.kind \in Keywords /\ (Len(m.types) = 1 \/ (m.kind = "method" /\ Len(m.types) = 2))
        <4>1. CASE member.types = <<>>
          BY <2>3, <3>4, <3>6, <4>1, EmptyIsSeq DEF Inner, Awaits
        <4>2. CASE member.kind = "method" /\ Len(member.types) = 1
          BY <2>3, <3>4, <3>6, <4>2 DEF Inner, Awaits
        <4> QED
          BY <2>3, <4>1, <4>2 DEF Inner, Awaits
      <3>8. Reads(Q, parser', interface', member')
        BY <2>3, <3>1, <3>6, <3>7, AddMemberHolds DEF Inner
      <3> QED
        BY <2>2, <3>8
    <2>5. CASE top.kind # "member"
      <3>1. /\ IsNew(field.name, top.fields)
            /\ Go("fields", SetTop(open, new)) /\ UNCHANGED <<interface, member>>
        BY <1>2, <2>1, <2>5 DEF Complete
      <3> HIDE DEF all
      <3>2. IsFrame(top, Q)
        BY <2>3, FramesTop
      <3>3. field.name = top.field.name
        BY <3>2 DEF IsFrame
      <3>4. IsFrame(new, Q) /\ new.kind = top.kind /\ new.wraps = <<>>
        <4>1. IsNew(top.field.name, top.fields)
          BY <3>1, <3>3, Zenon
        <4>2. all \in Q /\ (all = NoType <=> top.kind = "enum")
          BY <2>2
        <4>3. new = Fielded(top, all)
          BY Zenon DEF Fielded
        <4> HIDE DEF top, field, new
        <4>4. IsFrame(Fielded(top, all), Q) /\ Fielded(top, all).kind = top.kind
              /\ Fielded(top, all).wraps = <<>>
          BY <3>2, <4>1, <4>2, FieldAdded
        <4> QED
          BY <4>3, <4>4, Zenon
      <3> HIDE DEF new
      <3>5. Frames(Q, SetTop(open, new)) /\ Last(SetTop(open, new)) = new
        BY <2>3, <3>4, FramesSet
      <3>6. Opens(Q, "fields", SetTop(open, new))
        BY <2>5, <3>4, <3>5 DEF Opens, Typing
      <3>7. "fields" \in Inside
        BY DEF Inside
      <3>8. Reads(Q, parser', interface', member')
        BY <2>3, <3>1, <3>6, <3>7, GoesOn
      <3> QED
        BY <2>2, <3>8
    <2> QED
      BY <2>4, <2>5
  <1> QED
    BY <1>1, <1>2

LEMMA ClosedSound ==
    ASSUME NEW P, Sound(P), NEW f, IsFrame(f, P), f.kind \in {"object", "enum"}
    PROVE  LET type == Type(f.kind, "", f.fields)
           IN Sound(P \cup {type}) /\ type.kind # "none"
  <1> DEFINE type == Type(f.kind, "", f.fields)
             typed == {k \in DOMAIN type.fields : type.fields[k].type # NoType}
  <1>1. type.kind = f.kind /\ type.fields = f.fields
    BY DEF Type
  <1> HIDE DEF type
  <1>2. /\ Unique(f.fields) /\ (f.kind = "enum" => f.fields # <<>>)
        /\ \A k \in DOMAIN f.fields : /\ f.fields[k].type \in P
                                      /\ f.fields[k].type = NoType <=> f.kind = "enum"
    BY DEF IsFrame
  <1>3. Within(type) \subseteq P
    BY <1>1, <1>2 DEF Within
  <1>4. (f.kind = "object" => typed = DOMAIN type.fields) /\ (f.kind = "enum" => typed = {})
    BY <1>1, <1>2
  <1>5. IsType(type)
    <2> HIDE DEF typed
    <2>1. typed = {k \in DOMAIN type.fields : type.fields[k].type # NoType}
      BY DEF typed
    <2>2. CASE f.kind = "object"
      BY <1>1, <1>2, <1>4, <2>1, <2>2 DEF IsType
    <2>3. CASE f.kind = "enum"
      BY <1>1, <1>2, <1>4, <2>1, <2>3 DEF IsType
    <2> QED
      BY <2>2, <2>3
  <1> QED
    BY <1>1, <1>3, <1>5, SoundWith DEF type

LEMMA MoreFieldsHolds ==
    ASSUME NEW P, Sound(P), Inner(P), NEW open, Frames(P, open),
           Last(open).kind # "member", Last(open).wraps = <<>>,
           NEW t, MoreFields(open, t)
    PROVE  \E Q : Sound(Q) /\ Reads(Q, parser', interface', member')
  <1> DEFINE top == Last(open)
             type == Type(top.kind, "", top.fields)
  <1>1. CASE t.text = ")"
    <2>1. Complete(Front(open), type)
      BY <1>1 DEF MoreFields
    <2>2. IsFrame(top, P) /\ top.kind \in {"object", "enum"}
      BY FramesTop DEF IsFrame
    <2>3. Sound(P \cup {type}) /\ type.kind # "none"
      <3> HIDE DEF top
      <3> QED
        BY <2>2, ClosedSound
    <2> HIDE DEF type
    <2>4. Frames(P, Front(open)) /\ Last(Front(open)).kind # "enum"
      BY FramesPop
    <2> DEFINE Q == P \cup {type}
    <2>5. Frames(Q, Front(open)) /\ Inner(Q) /\ type \in Q
      BY <2>4, FramesGrow, RestGrows DEF Inner
    <2>6. MayEnd(Front(open), type)
      BY <2>3, <2>4 DEF MayEnd
    <2> HIDE DEF Q
    <2>7. Sound(Q)
      BY <2>3 DEF Q
    <2> QED
      BY <2>1, <2>5, <2>6, <2>7, CompleteHolds
  <1>2. CASE t.text = ","
    <2>1. Go("field", open) /\ UNCHANGED <<interface, member>>
      BY <1>2 DEF MoreFields
    <2>2. Opens(P, "field", open) /\ "field" \in Inside
      BY DEF Opens, Inside, Typing
    <2> QED
      BY <2>1, <2>2, GoesOn
  <1>3. CASE t.text \notin {")", ","}
    <2>1. Fail
      BY <1>3 DEF MoreFields
    <2> QED
      BY <2>1, FailHolds
  <1> QED
    BY <1>1, <1>2, <1>3

-----------------------------------------------------------------------------
(* varlink_type_new_from_scanner.                                          *)

LEMMA InnerHolds ==
    ASSUME NEW P, Reads(P, parser, interface, member), parser.at \in Inside
    PROVE  Inner(P) /\ Opens(P, parser.at, parser.open) /\ Frames(P, parser.open)
  <1>1. parser.at \notin {"interface", "name", "done"}
    BY DEF Inside, Typing
  <1> QED
    BY <1>1 DEF Reads, Inner, Opens

\* A type that has nothing in it.
LEMMA PlainHolds ==
    ASSUME NEW P, Sound(P), Inner(P), NEW open, Frames(P, open), Last(open).kind # "enum",
           NEW kind, NEW name,
           kind \notin {"none", "array", "map", "maybe", "object", "enum"},
           Complete(open, Type(kind, name, <<>>))
    PROVE  \E Q : Sound(Q) /\ Reads(Q, parser', interface', member')
  <1> DEFINE type == Type(kind, name, <<>>)
             Q == P \cup {type}
  <1>1. type.kind = kind /\ type.fields = <<>>
    BY DEF Type
  <1>2. Complete(open, type)
    OBVIOUS
  <1> HIDE DEF type
  <1>3. IsType(type) /\ Within(type) = {}
    BY <1>1, EmptyIsSeq DEF IsType, Within
  <1>4. Sound(Q)
    BY <1>3, SoundWith
  <1>5. Frames(Q, open) /\ Inner(Q) /\ type \in Q
    BY FramesGrow, RestGrows DEF Inner
  <1>6. MayEnd(open, type)
    BY <1>1 DEF MayEnd
  <1> HIDE DEF Q
  <1> QED
    BY <1>2, <1>4, <1>5, <1>6, CompleteHolds

LEMMA WrapHolds ==
    ASSUME NEW P, Sound(P), Inner(P), Opens(P, parser.at, parser.open), parser.at \in Typing,
           NEW kind \in Wraps, NEW at \in Typing, Wrap(kind, at)
    PROVE  Reads(P, parser', interface', member')
  <1> DEFINE open == parser.open
             top == Last(open)
             new == [top EXCEPT !.wraps = Append(@, kind)]
  <1>1. Frames(P, open) /\ top.kind # "enum" /\ IsFrame(top, P)
    BY FramesTop DEF Opens
  <1>2. Go(at, SetTop(open, new)) /\ UNCHANGED <<interface, member>>
    BY DEF Wrap, Top
  <1> HIDE DEF open, top
  <1>3. /\ top = [kind |-> top.kind, fields |-> top.fields, field |-> top.field, wraps |-> top.wraps]
        /\ top.wraps \in Seq(Wraps)
    BY <1>1 DEF IsFrame
  <1> DEFINE wraps == Append(top.wraps, kind)
  <1>4. wraps \in Seq(Wraps)
    BY <1>3
  <1>5. new = [kind |-> top.kind, fields |-> top.fields, field |-> top.field, wraps |-> wraps]
    BY <1>3
  <1> HIDE DEF wraps, new
  <1>6. new.kind = top.kind /\ new.fields = top.fields /\ new.field = top.field /\ new.wraps = wraps
    BY <1>5
  <1>7. IsFrame(new, P)
    BY <1>1, <1>4, <1>5, <1>6 DEF IsFrame
  <1>8. Frames(P, SetTop(open, new)) /\ Last(SetTop(open, new)) = new
    BY <1>1, <1>6, <1>7, FramesSet DEF top
  <1>9. Opens(P, at, SetTop(open, new))
    BY <1>1, <1>6, <1>8 DEF Opens, Typing
  <1>10. at \in Inside
    BY DEF Inside
  <1> QED
    BY <1>2, <1>9, <1>10, GoesOn

LEMMA OnHolds ==
    ASSUME NEW P, Inner(P), NEW at \in Inside, Opens(P, at, parser.open), On(at)
    PROVE  Reads(P, parser', interface', member')
  BY GoesOn DEF On

LEMMA BaseFrame ==
    ASSUME NEW P, NEW kind \in {"member", "object"}
    PROVE  LET f == [Base EXCEPT !.kind = kind]
           IN IsFrame(f, P) /\ f.kind = kind /\ f.fields = <<>> /\ f.wraps = <<>>
  <1> DEFINE f == [Base EXCEPT !.kind = kind]
             field == Field("", <<>>, NoType)
  <1>1. f = [kind |-> kind, fields |-> <<>>, field |-> field, wraps |-> <<>>]
    <2>1. Base = [kind |-> "member", fields |-> <<>>, field |-> field, wraps |-> <<>>]
      BY DEF Base
    <2> HIDE DEF field
    <2> QED
      BY <2>1
  <1>2. field = [name |-> field.name, docs |-> field.docs, type |-> NoType]
    BY DEF Field
  <1> HIDE DEF field, f
  <1>3. f.kind = kind /\ f.fields = <<>> /\ f.field = field /\ f.wraps = <<>>
    BY <1>1
  <1>4. <<>> \in Seq(Wraps)
    OBVIOUS
  <1>5. IsFrame(f, P)
    BY <1>1, <1>2, <1>3, <1>4, EmptyIsSeq DEF IsFrame, Unique
  <1> QED
    BY <1>3, <1>5 DEF f

LEMMA ReadTypeHolds ==
    ASSUME NEW P, Sound(P), Reads(P, parser, interface, member), NEW t, ReadType(t)
    PROVE  \E Q : Sound(Q) /\ Reads(Q, parser', interface', member')
  <1>1. parser.at = "type" /\ parser.at \in Inside /\ parser.at \in Typing
    BY DEF ReadType, Inside, Typing
  <1>2. Inner(P) /\ Opens(P, parser.at, parser.open) /\ Frames(P, parser.open)
    BY <1>1, InnerHolds
  <1>3. Last(parser.open).kind # "enum"
    BY <1>1, <1>2 DEF Opens
  <1>0. t.text \in MemberNames \cup QualifiedNames
            => t.text \notin {"[", "?", "(", "object"} \cup Basic
    BY InterfaceAssumption DEF Operators, Basic
  <1>4. CASE t.text = "["
    <2>1. On("bracket")
      BY <1>4, <1>0 DEF ReadType, Basic
    <2>2. Opens(P, "bracket", parser.open) /\ "bracket" \in Inside
      BY <1>2, <1>3 DEF Opens, Typing, Inside
    <2> QED
      BY <1>2, <2>1, <2>2, OnHolds
  <1>5. CASE t.text = "?"
    <2>1. Wrap("maybe", "type")
      BY <1>5, <1>0 DEF ReadType, Basic
    <2>2. "maybe" \in Wraps /\ "type" \in Typing
      BY DEF Wraps, Typing
    <2> QED
      BY <1>1, <1>2, <2>1, <2>2, WrapHolds
  <1>6. CASE t.text \in Basic
    <2>1. Complete(parser.open, Type(t.text, "", <<>>))
      BY <1>6, <1>0 DEF ReadType, Basic
    <2>2. t.text \notin {"none", "array", "map", "maybe", "object", "enum"}
      BY <1>6 DEF Basic
    <2> QED
      BY <1>2, <1>3, <2>1, <2>2, PlainHolds
  <1>7. CASE t.text = "object"
    <2>1. Complete(parser.open, Type("foreign object", "", <<>>))
      BY <1>7, <1>0 DEF ReadType, Basic
    <2> QED
      BY <1>2, <1>3, <2>1, PlainHolds
  <1>8. CASE t.text = "("
    <2> DEFINE f == [Base EXCEPT !.kind = "object"]
    <2>1. Go("open", Append(parser.open, f)) /\ UNCHANGED <<interface, member>>
      BY <1>8, <1>0 DEF ReadType, Basic
    <2>2. IsFrame(f, P) /\ f.kind = "object" /\ f.fields = <<>> /\ f.wraps = <<>>
      BY BaseFrame
    <2> HIDE DEF f
    <2>3. Frames(P, Append(parser.open, f)) /\ Last(Append(parser.open, f)) = f
      BY <1>2, <1>3, <2>2, FramesPush
    <2>4. Opens(P, "open", Append(parser.open, f)) /\ "open" \in Inside
      BY <2>2, <2>3 DEF Opens, Typing, Inside
    <2> QED
      BY <1>2, <2>1, <2>4, GoesOn
  <1>9. CASE /\ t.text \in MemberNames \cup QualifiedNames
             /\ t.text \notin Basic \cup {"[", "?", "object", "("}
    <2>1. Complete(parser.open, Type("alias", t.text, <<>>))
      BY <1>9 DEF ReadType
    <2> QED
      BY <1>2, <1>3, <2>1, PlainHolds
  <1>10. CASE t.text \notin MemberNames \cup QualifiedNames \cup Basic \cup {"[", "?", "object", "("}
    <2>1. Fail
      BY <1>10 DEF ReadType
    <2> QED
      BY <2>1, FailHolds
  <1> QED
    BY <1>4, <1>5, <1>6, <1>7, <1>8, <1>9, <1>10

LEMMA ReadBracketHolds ==
    ASSUME NEW P, Sound(P), Reads(P, parser, interface, member), NEW t, ReadBracket(t)
    PROVE  \E Q : Sound(Q) /\ Reads(Q, parser', interface', member')
  <1>1. parser.at \in {"bracket", "map"} /\ parser.at \in Inside /\ parser.at \in Typing
    BY DEF ReadBracket, Inside, Typing
  <1>2. Inner(P) /\ Opens(P, parser.at, parser.open)
    BY <1>1, InnerHolds
  <1>3. CASE On("map")
    <2>1. Opens(P, "map", parser.open) /\ "map" \in Inside
      BY <1>1, <1>2 DEF Opens, Typing, Inside
    <2> QED
      BY <1>2, <1>3, <2>1, OnHolds
  <1>4. CASE Wrap("array", "type") \/ Wrap("map", "type")
    <2>1. "array" \in Wraps /\ "map" \in Wraps /\ "type" \in Typing
      BY DEF Wraps, Typing
    <2> QED
      BY <1>1, <1>2, <1>4, <2>1, WrapHolds
  <1>5. CASE Fail
    BY <1>5, FailHolds
  <1> QED
    BY <1>3, <1>4, <1>5 DEF ReadBracket

LEMMA ReadFieldsHolds ==
    ASSUME NEW P, Sound(P), Reads(P, parser, interface, member), NEW t, ReadFields(t)
    PROVE  \E Q : Sound(Q) /\ Reads(Q, parser', interface', member')
  <1>1. parser.at \in {"fields", "open"} /\ parser.at \in Inside /\ parser.at \notin Typing
    BY DEF ReadFields, Inside, Typing
  <1>2. Inner(P) /\ Opens(P, parser.at, parser.open) /\ Frames(P, parser.open)
    BY <1>1, InnerHolds
  <1>3. Last(parser.open).kind # "member" /\ Last(parser.open).wraps = <<>>
    BY <1>1, <1>2 DEF Opens
  <1>4. MoreFields(parser.open, t)
    BY DEF ReadFields
  <1> QED
    BY <1>2, <1>3, <1>4, MoreFieldsHolds

LEMMA NamedFrame ==
    ASSUME NEW P, NEW f, IsFrame(f, P), NEW name, NEW docs
    PROVE  LET g == [f EXCEPT !.field = Field(name, docs, NoType)]
           IN IsFrame(g, P) /\ g.kind = f.kind /\ g.wraps = f.wraps
  <1> DEFINE field == Field(name, docs, NoType)
             g == [f EXCEPT !.field = field]
  <1>1. f = [kind |-> f.kind, fields |-> f.fields, field |-> f.field, wraps |-> f.wraps]
    BY DEF IsFrame
  <1>2. field = [name |-> field.name, docs |-> field.docs, type |-> NoType]
    BY DEF Field
  <1> HIDE DEF field
  <1>3. g = [kind |-> f.kind, fields |-> f.fields, field |-> field, wraps |-> f.wraps]
    BY <1>1
  <1> HIDE DEF g
  <1>4. g.kind = f.kind /\ g.fields = f.fields /\ g.field = field /\ g.wraps = f.wraps
    BY <1>3
  <1>5. IsFrame(g, P)
    BY <1>2, <1>3, <1>4 DEF IsFrame
  <1> QED
    BY <1>4, <1>5 DEF g, field

LEMMA ReadFieldHolds ==
    ASSUME NEW P, Sound(P), Reads(P, parser, interface, member), NEW t, ReadField(t)
    PROVE  \E Q : Sound(Q) /\ Reads(Q, parser', interface', member')
  <1> DEFINE top == Last(parser.open)
             named == [top EXCEPT !.field = Field(t.text, Docs, NoType)]
             open == SetTop(parser.open, named)
  <1>1. parser.at \in {"field", "open"} /\ parser.at \in Inside /\ parser.at \notin Typing
    BY DEF ReadField, Inside, Typing
  <1>2. Inner(P) /\ Opens(P, parser.at, parser.open) /\ Frames(P, parser.open)
    BY <1>1, InnerHolds
  <1>3. top.kind # "member" /\ top.wraps = <<>> /\ IsFrame(top, P)
    BY <1>1, <1>2, FramesTop DEF Opens
  <1>4. CASE Fail
    BY <1>4, FailHolds
  <1>5. CASE ~Fail
    <2>1. IF top.kind = "enum" THEN Complete(open, NoType)
          ELSE Go("colon", open) /\ UNCHANGED <<interface, member>>
      BY <1>5 DEF ReadField, Top
    <2>2. IsFrame(named, P) /\ named.kind = top.kind /\ named.wraps = <<>>
      <3> HIDE DEF top
      <3>1. IsFrame(named, P) /\ named.kind = top.kind /\ named.wraps = top.wraps
        BY <1>3, NamedFrame
      <3> HIDE DEF named
      <3> QED
        BY <1>3, <3>1
    <2> HIDE DEF named
    <2>3. Frames(P, open) /\ Last(open) = named
      BY <1>2, <2>2, FramesSet
    <2> HIDE DEF open
    <2>4. CASE top.kind = "enum"
      <3>1. Complete(open, NoType)
        BY <2>1, <2>4
      <3>2. MayEnd(open, NoType) /\ NoType \in P
        BY <2>2, <2>3, <2>4 DEF MayEnd, Sound
      <3> QED
        BY <1>2, <2>3, <3>1, <3>2, CompleteHolds
    <2>5. CASE top.kind # "enum"
      <3>1. Go("colon", open) /\ UNCHANGED <<interface, member>>
        BY <2>1, <2>5
      <3>2. named.kind = "object"
        BY <1>3, <2>2, <2>5 DEF IsFrame
      <3>3. Opens(P, "colon", open) /\ "colon" \in Inside
        BY <2>2, <2>3, <3>2 DEF Opens, Typing, Inside
      <3> QED
        BY <1>2, <3>1, <3>3, GoesOn
    <2> QED
      BY <2>4, <2>5
  <1> QED
    BY <1>4, <1>5

\* The first name without a type makes an enum of what began like an object.
LEMMA EnumFrame ==
    ASSUME NEW P, Sound(P), NEW f, IsFrame(f, P)
    PROVE  LET g == [f EXCEPT !.kind = "enum", !.fields = <<f.field>>]
           IN IsFrame(g, P) /\ g.kind = "enum" /\ g.wraps = f.wraps
  <1> DEFINE fields == <<f.field>>
             h == [f EXCEPT !.kind = "enum"]
             g == [f EXCEPT !.kind = "enum", !.fields = fields]
  <1>1. /\ f = [kind |-> f.kind, fields |-> f.fields, field |-> f.field, wraps |-> f.wraps]
        /\ f.field = [name |-> f.field.name, docs |-> f.field.docs, type |-> NoType]
        /\ f.wraps \in Seq(Wraps)
    BY DEF IsFrame
  <1>2. fields \in Seq({f.field}) /\ fields # <<>> /\ DOMAIN fields = {1} /\ fields[1] = f.field
    OBVIOUS
  <1> HIDE DEF fields
  <1>3. h = [kind |-> "enum", fields |-> f.fields, field |-> f.field, wraps |-> f.wraps]
    BY <1>1
  <1>4. g = [h EXCEPT !.fields = fields]
    BY <1>1
  <1> HIDE DEF g, h
  <1>5. g = [kind |-> "enum", fields |-> fields, field |-> f.field, wraps |-> f.wraps]
    BY <1>3, <1>4
  <1>6. g.kind = "enum" /\ g.fields = fields /\ g.field = f.field /\ g.wraps = f.wraps
    BY <1>5
  <1>7. IsSeq(fields) /\ Unique(fields)
    BY <1>2 DEF IsSeq, Unique
  <1>8. \A k \in DOMAIN fields : fields[k].type = NoType /\ fields[k].type \in P
    <2>1. f.field.type = NoType
      BY <1>1
    <2> QED
      BY <1>2, <2>1 DEF Sound
  <1>9. IsFrame(g, P)
    BY <1>1, <1>2, <1>5, <1>6, <1>7, <1>8 DEF IsFrame
  <1> QED
    BY <1>6, <1>9 DEF g, fields

LEMMA ReadColonHolds ==
    ASSUME NEW P, Sound(P), Reads(P, parser, interface, member), NEW t, ReadColon(t)
    PROVE  \E Q : Sound(Q) /\ Reads(Q, parser', interface', member')
  <1> DEFINE top == Last(parser.open)
             enum == [top EXCEPT !.kind = "enum", !.fields = <<top.field>>]
             open == SetTop(parser.open, enum)
  <1>1. parser.at = "colon" /\ parser.at \in Inside /\ parser.at \notin Typing
    BY DEF ReadColon, Inside, Typing
  <1>2. Inner(P) /\ Opens(P, parser.at, parser.open) /\ Frames(P, parser.open)
    BY <1>1, InnerHolds
  <1>3. top.kind = "object" /\ top.wraps = <<>> /\ IsFrame(top, P)
    BY <1>1, <1>2, FramesTop DEF Opens
  <1>4. CASE t.text = ":"
    <2>1. On("type")
      BY <1>4 DEF ReadColon
    <2>2. Opens(P, "type", parser.open) /\ "type" \in Inside
      BY <1>2, <1>3 DEF Opens, Typing, Inside
    <2> QED
      BY <1>2, <2>1, <2>2, OnHolds
  <1>5. CASE t.text # ":" /\ top.fields # <<>>
    <2>1. Fail
      BY <1>5 DEF ReadColon, Top
    <2> QED
      BY <2>1, FailHolds
  <1>6. CASE t.text # ":" /\ top.fields = <<>>
    <2>1. MoreFields(open, t)
      BY <1>6 DEF ReadColon, Top
    <2>2. IsFrame(enum, P) /\ enum.kind = "enum" /\ enum.wraps = <<>>
      <3> HIDE DEF top
      <3>1. IsFrame(enum, P) /\ enum.kind = "enum" /\ enum.wraps = top.wraps
        BY <1>3, EnumFrame
      <3> HIDE DEF enum
      <3> QED
        BY <1>3, <3>1
    <2> HIDE DEF enum
    <2>3. Frames(P, open) /\ Last(open) = enum
      BY <1>2, <1>3, <2>2, FramesSet
    <2> HIDE DEF open
    <2> QED
      BY <1>2, <2>1, <2>2, <2>3, MoreFieldsHolds
  <1> QED
    BY <1>4, <1>5, <1>6

-----------------------------------------------------------------------------
(* varlink_interface_new_from_scanner.                                     *)

LEMMA BaseOpens ==
    ASSUME NEW P
    PROVE  Opens(P, "type", <<Base>>)
  <1> DEFINE f == [Base EXCEPT !.kind = "member"]
  <1>1. IsFrame(f, P) /\ f.kind = "member"
    BY BaseFrame
  <1>2. Base = f
    <2> DEFINE field == Field("", <<>>, NoType)
    <2>1. Base = [kind |-> "member", fields |-> <<>>, field |-> field, wraps |-> <<>>]
      BY DEF Base
    <2> HIDE DEF field
    <2> QED
      BY <2>1
  <1>3. IsFrame(Base, P) /\ Base.kind = "member"
    <2> HIDE DEF f
    <2> QED
      BY <1>1, <1>2
  <1> DEFINE open == <<Base>>
  <1>4. IsSeq(open) /\ open # <<>> /\ Len(open) = 1 /\ open[1] = Base
    <2>1. <<Base>> \in Seq({Base})
      OBVIOUS
    <2> QED
      BY <2>1 DEF IsSeq
  <1> HIDE DEF open
  <1>5. Last(open) = Base
    BY <1>4, SeqFacts
  <1>6. Frames(P, open)
    BY <1>3, <1>4 DEF Frames
  <1>7. Opens(P, "type", open)
    BY <1>3, <1>5, <1>6 DEF Opens, Typing
  <1> QED
    BY <1>7 DEF open

LEMMA ReadInterfaceHolds ==
    ASSUME NEW P, Sound(P), Reads(P, parser, interface, member), NEW t, ReadInterface(t)
    PROVE  \E Q : Sound(Q) /\ Reads(Q, parser', interface', member')
  <1>1. CASE t.text # "interface"
    <2>1. Fail
      BY <1>1 DEF ReadInterface
    <2> QED
      BY <2>1, FailHolds
  <1>2. CASE t.text = "interface"
    <2> DEFINE i == [NoInterface EXCEPT !.docs = Docs]
    <2>1. /\ parser' = [at |-> "name", open |-> <<>>, failed |-> FALSE]
          /\ interface' = i /\ member' = member
      BY <1>2 DEF ReadInterface, Go
    <2>2. i = [name |-> "", docs |-> Docs, members |-> <<>>]
      <3> DEFINE name == ""
                 none == <<>>
      <3>1. NoInterface = [name |-> name, docs |-> none, members |-> none]
        BY DEF NoInterface
      <3> HIDE DEF name, none
      <3>2. i = [name |-> name, docs |-> Docs, members |-> none]
        BY <3>1
      <3> QED
        BY <3>2 DEF name, none
    <2> HIDE DEF i
    <2>3. IsRead(i, P)
      BY <2>2, EmptyIsSeq DEF IsRead, Unique
    <2>4. parser.at = "interface"
      BY DEF ReadInterface
    <2>5. Begun(member, P) /\ member.kind = ""
      BY <2>4 DEF Reads
    <2>6. Reads(P, parser', interface', member')
      BY <2>1, <2>3, <2>5 DEF Reads, Places, Inside, Typing
    <2> QED
      BY <2>6
  <1> QED
    BY <1>1, <1>2

LEMMA ReadNameHolds ==
    ASSUME NEW P, Sound(P), Reads(P, parser, interface, member), NEW t, ReadName(t)
    PROVE  \E Q : Sound(Q) /\ Reads(Q, parser', interface', member')
  <1>1. CASE t.text \notin InterfaceNames
    <2>1. Fail
      BY <1>1 DEF ReadName
    <2> QED
      BY <2>1, FailHolds
  <1>2. CASE t.text \in InterfaceNames
    <2> DEFINE i == [interface EXCEPT !.name = t.text]
    <2>1. /\ parser' = [at |-> "member", open |-> <<>>, failed |-> FALSE]
          /\ interface' = i /\ member' = member
      BY <1>2 DEF ReadName, Go
    <2>2. /\ interface = [name |-> interface.name, docs |-> interface.docs, members |-> interface.members]
          /\ IsRead(interface, P)
      BY DEF Reads, IsRead
    <2>3. i = [name |-> t.text, docs |-> interface.docs, members |-> interface.members]
      BY <2>2
    <2> HIDE DEF i
    <2>4. IsRead(i, P) /\ i.name = t.text
      BY <2>2, <2>3 DEF IsRead
    <2>5. parser.at = "name"
      BY DEF ReadName
    <2>6. Begun(member, P) /\ member.kind = ""
      BY <2>5 DEF Reads
    <2>7. Reads(P, parser', interface', member')
      BY <1>2, <2>1, <2>4, <2>6 DEF Reads, Places, Inside, Typing
    <2> QED
      BY <2>7
  <1> QED
    BY <1>1, <1>2

LEMMA ReadMemberHolds ==
    ASSUME NEW P, Sound(P), Reads(P, parser, interface, member), NEW t, ReadMember(t)
    PROVE  \E Q : Sound(Q) /\ Reads(Q, parser', interface', member')
  <1>1. parser.at = "member"
    BY DEF ReadMember
  <1>2. /\ IsRead(interface, P) /\ interface.name \in InterfaceNames
        /\ Begun(member, P) /\ member.kind = ""
    BY <1>1 DEF Reads
  <1>3. CASE t = End /\ AllResolved(interface)
    <2>1. /\ parser' = [at |-> "done", open |-> <<>>, failed |-> FALSE]
          /\ interface' = interface /\ member' = member
      BY <1>3 DEF ReadMember, Go
    <2>2. Reads(P, parser', interface', member')
      BY <1>2, <2>1 DEF Reads, Places, Inside, Typing
    <2> QED
      BY <2>2
  <1>4. CASE ~(t = End /\ AllResolved(interface)) /\ t.text \notin Keywords
    <2>1. Fail
      BY <1>4 DEF ReadMember
    <2> QED
      BY <2>1, FailHolds
  <1>5. CASE ~(t = End /\ AllResolved(interface)) /\ t.text \in Keywords
    <2> DEFINE m == [NoMember EXCEPT !.kind = t.text]
    <2>1. /\ parser' = [at |-> "member name", open |-> <<>>, failed |-> FALSE]
          /\ interface' = interface /\ member' = m
      BY <1>5 DEF ReadMember, Go
    <2>2. m = [kind |-> t.text, name |-> "", docs |-> <<>>, types |-> <<>>]
      <3> DEFINE name == ""
                 none == <<>>
      <3>1. NoMember = [kind |-> name, name |-> name, docs |-> none, types |-> none]
        BY DEF NoMember
      <3> HIDE DEF name, none
      <3>2. m = [kind |-> t.text, name |-> name, docs |-> none, types |-> none]
        BY <3>1
      <3> QED
        BY <3>2 DEF name, none
    <2> HIDE DEF m
    <2>3. Begun(m, P) /\ m.kind \in Keywords /\ m.types = <<>> /\ m.kind # ""
      BY <1>5, <2>2, EmptyIsSeq DEF Begun, Keywords
    <2>4. Reads(P, parser', interface', member')
      BY <1>2, <2>1, <2>3 DEF Reads, Places, Inside, Typing
    <2> QED
      BY <2>4
  <1> QED
    BY <1>3, <1>4, <1>5

LEMMA ReadMemberNameHolds ==
    ASSUME NEW P, Sound(P), Reads(P, parser, interface, member), NEW t, ReadMemberName(t)
    PROVE  \E Q : Sound(Q) /\ Reads(Q, parser', interface', member')
  <1>1. parser.at = "member name"
    BY DEF ReadMemberName
  <1>2. /\ IsRead(interface, P) /\ interface.name \in InterfaceNames
        /\ Begun(member, P) /\ member.kind \in Keywords /\ member.types = <<>>
    BY <1>1 DEF Reads
  <1>3. CASE t.text \notin MemberNames
    <2>1. Fail
      BY <1>3 DEF ReadMemberName
    <2> QED
      BY <2>1, FailHolds
  <1>4. CASE t.text \in MemberNames
    <2> DEFINE n == [member EXCEPT !.name = t.text]
               m == [member EXCEPT !.name = t.text, !.docs = Docs]
    <2>1. /\ parser' = [at |-> "type", open |-> <<Base>>, failed |-> FALSE]
          /\ interface' = interface /\ member' = m
      BY <1>4 DEF ReadMemberName, Go
    <2>2. member = [kind |-> member.kind, name |-> member.name, docs |-> member.docs,
                    types |-> member.types]
      BY <1>2 DEF Begun
    <2>3. n = [kind |-> member.kind, name |-> t.text, docs |-> member.docs, types |-> member.types]
      BY <2>2
    <2>4. m = [n EXCEPT !.docs = Docs]
      BY <2>2
    <2> HIDE DEF n, m
    <2>5. m = [kind |-> member.kind, name |-> t.text, docs |-> Docs, types |-> member.types]
      BY <2>3, <2>4
    <2>6. m.kind = member.kind /\ m.types = member.types
      BY <2>5
    <2>7. Begun(m, P)
      BY <1>2, <2>5, <2>6 DEF Begun
    <2>8. Awaits(m) /\ m.kind # ""
      BY <1>2, <2>6 DEF Awaits, Keywords
    <2>9. Opens(P, "type", <<Base>>)
      BY BaseOpens
    <2>10. Reads(P, parser', interface', member')
      BY <1>2, <2>1, <2>7, <2>8, <2>9 DEF Reads, Places, Inside, Typing
    <2> QED
      BY <2>10
  <1> QED
    BY <1>3, <1>4

LEMMA ReadArrowHolds ==
    ASSUME NEW P, Sound(P), Reads(P, parser, interface, member), NEW t, ReadArrow(t)
    PROVE  \E Q : Sound(Q) /\ Reads(Q, parser', interface', member')
  <1>1. CASE t.text # "->"
    <2>1. Fail
      BY <1>1 DEF ReadArrow
    <2> QED
      BY <2>1, FailHolds
  <1>2. CASE t.text = "->"
    <2>1. Go("type", <<Base>>) /\ UNCHANGED <<interface, member>>
      BY <1>2 DEF ReadArrow
    <2>2. parser.at = "arrow"
      BY DEF ReadArrow
    <2>3. Inner(P)
      BY <2>2 DEF Reads, Inner, Awaits, Keywords
    <2>4. Opens(P, "type", <<Base>>) /\ "type" \in Inside
      BY BaseOpens DEF Inside, Typing
    <2> QED
      BY <2>1, <2>3, <2>4, GoesOn
  <1> QED
    BY <1>1, <1>2

-----------------------------------------------------------------------------
(* The text: whose it is, what is left of it, and its comments.            *)

LEMMA InitReads ==
    ASSUME NEW P
    PROVE  Reads(P, Start, NoInterface, NoMember)
  <1>1. Start = [at |-> "interface", open |-> <<>>, failed |-> FALSE]
    BY DEF Start
  <1>2. IsRead(NoInterface, P) /\ Begun(NoMember, P) /\ NoMember.kind = ""
    BY EmptyIsSeq DEF IsRead, Begun, NoInterface, NoMember, Unique
  <1> QED
    BY <1>1, <1>2 DEF Reads, Places, Inside, Typing

LEMMA EndStops ==
    ASSUME NEW t, t.text = End.text,
           \/ ReadInterface(t) \/ ReadName(t) \/ ReadMember(t) \/ ReadMemberName(t) \/ ReadArrow(t)
           \/ ReadType(t) \/ ReadBracket(t) \/ ReadFields(t) \/ ReadField(t) \/ ReadColon(t)
    PROVE  parser'.at = "done"
  <1>1. t.text = "end of text"
    BY DEF End, Token
  <1>2. t.text \notin MemberNames \cup QualifiedNames \cup FieldNames \cup InterfaceNames
    BY InterfaceAssumption
  <1>3. t.text \notin Keywords \cup Basic \cup Operators \cup Lines \cup {"object", "interface"}
    BY <1>1 DEF Keywords, Basic, Operators, Lines
  <1>4. Fail => parser'.at = "done"
    BY DEF Fail
  <1>5. ASSUME NEW open PROVE MoreFields(open, t) => Fail
    BY <1>1 DEF MoreFields
  <1>6. ReadInterface(t) => Fail
    BY <1>3 DEF ReadInterface
  <1>7. ReadName(t) => Fail
    BY <1>2 DEF ReadName
  <1>8. ReadMember(t) => Fail \/ Go("done", <<>>)
    BY <1>3 DEF ReadMember
  <1>9. ReadMemberName(t) => Fail
    BY <1>2 DEF ReadMemberName
  <1>10. ReadArrow(t) => Fail
    BY <1>1 DEF ReadArrow
  <1>11. ReadType(t) => Fail
    BY <1>1, <1>2, <1>3 DEF ReadType
  <1>12. ReadBracket(t) => Fail
    BY <1>1 DEF ReadBracket
  <1>13. ReadFields(t) => Fail
    BY <1>5 DEF ReadFields
  <1>14. ReadField(t) => Fail
    BY <1>2, <1>3 DEF ReadField, AllWords
  <1>15. ReadColon(t) => Fail
    BY <1>1, <1>5 DEF ReadColon
  <1>16. Go("done", <<>>) => parser'.at = "done"
    BY DEF Go
  <1> QED
    BY <1>4, <1>6, <1>7, <1>8, <1>9, <1>10, <1>11, <1>12, <1>13, <1>14, <1>15, <1>16

\* The text loses a token: the last one that is free is the end.
LEMMA TakeHolds ==
    ASSUME IsText(text, parser), Reading, NEW t \in Ahead, Take(t),
           t.text = End.text => parser'.at = "done"
    PROVE  IsText(text', parser')
  <1>1. /\ text = [from |-> text.from, given |-> text.given, left |-> text.left,
                   layout |-> text.layout]
        /\ text.from \in {"other", "format", "client"}
        /\ text.left \in -1..MaxTokens /\ (text.from = "other" => text.left >= 0)
        /\ text.layout \in 0..MaxLayout
        /\ MaxTokens \in Nat
    BY InterfaceAssumption DEF IsText, Reading
  <1>2. CASE text.from # "other"
    <2> DEFINE given == IF text.given = <<>> THEN text.given ELSE Tail(text.given)
    <2>1. text' = [text EXCEPT !.given = given]
      BY <1>2 DEF Take, After
    <2> HIDE DEF given
    <2>2. text' = [from |-> text.from, given |-> given, left |-> text.left,
                   layout |-> text.layout]
      BY <1>1, <2>1
    <2> QED
      BY <1>1, <1>2, <2>2 DEF IsText
  <1>3. CASE text.from = "other"
    <2> DEFINE left == text.left - 1
    <2>1. text' = [text EXCEPT !.left = left]
      BY <1>3 DEF Take, After
    <2>2. left \in -1..MaxTokens
      BY <1>1, <1>3
    <2>3. left >= 0 \/ parser'.at = "done"
      <3>1. CASE text.left > 0
        BY <1>1, <3>1
      <3>2. CASE ~(text.left > 0)
        <4>1. t = End
          BY <1>3, <3>2 DEF Ahead
        <4> QED
          BY <4>1
      <3> QED
        BY <3>1, <3>2
    <2> HIDE DEF left
    <2>4. text' = [from |-> text.from, given |-> text.given, left |-> left,
                   layout |-> text.layout]
      BY <1>1, <2>1
    <2> QED
      BY <1>1, <2>2, <2>3, <2>4 DEF IsText
  <1> QED
    BY <1>2, <1>3

LEMMA CommentHolds ==
    ASSUME IsComment(comment)
    PROVE  IsComment(NoComment) /\ IsComment(CommentAside) /\ IsComment(CommentRead)
  <1>1. IsComment(NoComment)
    BY EmptyIsSeq DEF IsComment, NoComment
  <1>2. IsComment(CommentAside)
    <2> DEFINE c == CommentAside
               cut == comment.lines # <<>>
    <2>1. comment = [lines |-> comment.lines, cut |-> comment.cut] /\ IsSeq(comment.lines)
      BY DEF IsComment
    <2>2. c = [comment EXCEPT !.cut = cut]
      BY DEF CommentAside
    <2> HIDE DEF c, cut
    <2>3. c = [lines |-> comment.lines, cut |-> cut]
      BY <2>1, <2>2
    <2>4. c.lines = comment.lines /\ c.cut = cut
      BY <2>3
    <2>5. cut => comment.lines # <<>>
      BY DEF cut
    <2>6. IsComment(c)
      BY <2>1, <2>3, <2>4, <2>5 DEF IsComment
    <2> QED
      BY <2>6 DEF c
  <1> QED
    BY <1>1, <1>2 DEF CommentRead

LEMMA LineHolds ==
    ASSUME IsComment(comment), NEW line
    PROVE  IsComment(CommentAfter(line))
  <1>1. comment = [lines |-> comment.lines, cut |-> comment.cut] /\ IsSeq(comment.lines)
    BY DEF IsComment
  <1>2. CASE line.text = "empty"
    BY <1>2, CommentHolds DEF CommentAfter
  <1>3. CASE line.text = "spaces"
    <2>1. CommentAfter(line) = CommentAside
      BY <1>3 DEF CommentAfter, CommentAside
    <2> QED
      BY <2>1, CommentHolds
  <1>4. CASE line.text \notin {"empty", "spaces"} /\ comment.cut
    <2>1. CommentAfter(line) = comment
      BY <1>4 DEF CommentAfter
    <2> QED
      BY <2>1
  <1>5. CASE line.text \notin {"empty", "spaces"} /\ ~comment.cut
    <2> DEFINE lines == Append(comment.lines, line.n)
               c == [comment EXCEPT !.lines = lines]
    <2>1. CommentAfter(line) = c
      BY <1>5 DEF CommentAfter
    <2>2. IsSeq(lines)
      BY <1>1, AppendFacts
    <2> HIDE DEF lines
    <2>3. c = [lines |-> lines, cut |-> comment.cut]
      BY <1>1
    <2> HIDE DEF c
    <2>4. c.lines = lines /\ c.cut = comment.cut
      BY <2>3
    <2>5. IsComment(c)
      BY <1>5, <2>2, <2>3, <2>4 DEF IsComment
    <2> QED
      BY <2>1, <2>5
  <1> QED
    BY <1>2, <1>3, <1>4, <1>5

-----------------------------------------------------------------------------
(* Every step keeps the invariant.                                         *)

LEMMA AdvanceHolds ==
    ASSUME IInv, Advance
    PROVE  IInv'
  <1>1. IsText(text, parser) /\ IsComment(comment) /\ Reading
    BY DEF IInv, Advance
  <1>2. UNCHANGED <<parser, interface, member>>
    BY DEF Advance
  <1>3. PICK line \in Layout :
          /\ comment' = CommentAfter(line)
          /\ text' = IF text.from # "other" THEN After
                     ELSE [text EXCEPT !.left = @ - 1, !.layout = @ + 1]
    BY DEF Advance
  <1>4. IsComment(comment')
    BY <1>1, <1>3, LineHolds
  <1>5. /\ text = [from |-> text.from, given |-> text.given, left |-> text.left,
                   layout |-> text.layout]
        /\ text.from \in {"other", "format", "client"}
        /\ text.left \in -1..MaxTokens /\ (text.from = "other" => text.left >= 0)
        /\ text.layout \in 0..MaxLayout
        /\ MaxTokens \in Nat /\ MaxLayout \in Nat
    BY <1>1, InterfaceAssumption DEF IsText, Reading
  <1>6. IsText(text', parser)
    <2>1. CASE text.from # "other"
      <3> DEFINE given == IF text.given = <<>> THEN text.given ELSE Tail(text.given)
      <3>1. text' = [text EXCEPT !.given = given]
        BY <1>3, <2>1 DEF After
      <3> HIDE DEF given
      <3>2. text' = [from |-> text.from, given |-> given, left |-> text.left,
                     layout |-> text.layout]
        BY <1>5, <3>1
      <3> QED
        BY <1>5, <2>1, <3>2 DEF IsText
    <2>2. CASE text.from = "other"
      <3> DEFINE left   == text.left - 1
                 layout == text.layout + 1
      <3>1. text.left # 0 /\ text.layout # MaxLayout
        BY <1>3, <2>2 DEF Layout
      <3>2. layout \in 0..MaxLayout
        BY <1>5, <3>1
      <3>3. left \in -1..MaxTokens /\ left >= 0
        BY <1>5, <2>2, <3>1
      <3>4. text' = [text EXCEPT !.left = left, !.layout = layout]
        BY <1>3, <1>5, <2>2
      <3> HIDE DEF left, layout
      <3>5. text' = [from |-> text.from, given |-> text.given, left |-> left,
                     layout |-> layout]
        BY <1>5, <3>4
      <3> QED
        BY <1>5, <3>2, <3>3, <3>5 DEF IsText
    <2> QED
      BY <2>1, <2>2
  <1> QED
    BY <1>2, <1>4, <1>6 DEF IInv

LEMMA ReadHolds ==
    ASSUME IInv, Read
    PROVE  IInv'
  <1>1. PICK t \in Ahead :
          \/ ReadInterface(t) \/ ReadName(t) \/ ReadMember(t) \/ ReadMemberName(t) \/ ReadArrow(t)
          \/ ReadType(t) \/ ReadBracket(t) \/ ReadFields(t) \/ ReadField(t) \/ ReadColon(t)
    BY DEF Read
  <1>2. PICK P : Sound(P) /\ Reads(P, parser, interface, member)
    BY DEF IInv
  <1>3. \E Q : Sound(Q) /\ Reads(Q, parser', interface', member')
    BY <1>1, <1>2, ReadInterfaceHolds, ReadNameHolds, ReadMemberHolds, ReadMemberNameHolds,
       ReadArrowHolds, ReadTypeHolds, ReadBracketHolds, ReadFieldsHolds, ReadFieldHolds, ReadColonHolds
  <1>4. Take(t) /\ Reading
    BY <1>1 DEF ReadInterface, ReadName, ReadMember, ReadMemberName, ReadArrow, ReadType,
                ReadBracket, ReadFields, ReadField, ReadColon, Reading
  <1>5. t.text = End.text => parser'.at = "done"
    BY <1>1, EndStops
  <1>6. IsText(text', parser')
    BY <1>4, <1>5, TakeHolds DEF IInv
  <1>7. comment' = CommentAside \/ comment' = CommentRead
    BY <1>1 DEF ReadInterface, ReadName, ReadMember, ReadMemberName, ReadArrow, ReadType,
                ReadBracket, ReadFields, ReadField, ReadColon
  <1>8. IsComment(comment')
    BY <1>7, CommentHolds DEF IInv
  <1> QED
    BY <1>3, <1>6, <1>8 DEF IInv

LEMMA ParseHolds ==
    ASSUME IInv, NEW from \in {"format", "client"}, NEW tokens, Parse(from, tokens)
    PROVE  IInv'
  <1>1. /\ text = [from |-> text.from, given |-> text.given, left |-> text.left,
                   layout |-> text.layout]
        /\ text.left \in -1..MaxTokens
        /\ text.layout \in 0..MaxLayout
    BY DEF IInv, IsText
  <1> DEFINE x == [text EXCEPT !.from = from]
  <1>2. text' = [x EXCEPT !.given = tokens]
    BY <1>1 DEF Parse
  <1>3. x = [from |-> from, given |-> text.given, left |-> text.left,
             layout |-> text.layout]
    BY <1>1
  <1> HIDE DEF x
  <1>4. text' = [from |-> from, given |-> tokens, left |-> text.left,
                 layout |-> text.layout]
    BY <1>2, <1>3
  <1>5. IsText(text', parser')
    BY <1>1, <1>4 DEF IsText
  <1>6. comment' = NoComment /\ parser' = Start /\ interface' = NoInterface /\ member' = NoMember
    BY DEF Parse
  <1>7. IsComment(comment')
    BY <1>6, CommentHolds DEF IInv
  <1>8. PICK P : Sound(P)
    BY DEF IInv
  <1>9. Reads(P, parser', interface', member')
    BY <1>6, InitReads
  <1> QED
    BY <1>5, <1>7, <1>8, <1>9 DEF IInv

\* A service that refuses the interface frees it.
LEMMA RefusalHolds ==
    ASSUME IInv, parser.at = "done", parser' = [parser EXCEPT !.failed = TRUE],
           interface' = NoInterface, UNCHANGED <<text, comment, member>>
    PROVE  IInv'
  <1>1. PICK P : Sound(P) /\ Reads(P, parser, interface, member)
    BY DEF IInv
  <1>2. parser = [at |-> parser.at, open |-> parser.open, failed |-> parser.failed]
        /\ parser.open = <<>> /\ member.kind = "" /\ Begun(member, P)
    BY <1>1 DEF Reads, Inside, Typing
  <1>3. parser' = [at |-> parser.at, open |-> parser.open, failed |-> TRUE]
    BY <1>2
  <1>4. parser'.at = "done" /\ parser'.open = <<>> /\ parser'.failed = TRUE
        /\ parser' = [at |-> parser'.at, open |-> parser'.open, failed |-> parser'.failed]
    BY <1>2, <1>3
  <1>5. IsRead(NoInterface, P)
    BY InitReads DEF Reads
  <1>6. Reads(P, parser', interface', member')
    BY <1>2, <1>4, <1>5 DEF Reads, Places, Inside, Typing
  <1>7. IsText(text', parser') /\ IsComment(comment')
    BY <1>4 DEF IInv, IsText
  <1> QED
    BY <1>1, <1>6, <1>7 DEF IInv

LEMMA StartHolds ==
    ASSUME text' = Text, comment' = NoComment, parser' = Start,
           interface' = NoInterface, member' = NoMember
    PROVE  IInv'
  <1>1. IsText(Text, Start)
    <2>1. MaxTokens \in Nat /\ MaxLayout \in Nat
      BY InterfaceAssumption
    <2>2. Text.from = "other" /\ Text.left = MaxTokens /\ Text.layout = 0
      BY DEF Text
    <2>3. 0 \in 0..MaxLayout /\ MaxTokens \in -1..MaxTokens /\ MaxTokens >= 0
      BY <2>1
    <2>4. Text = [from |-> Text.from, given |-> Text.given, left |-> Text.left,
                  layout |-> Text.layout]
      BY DEF Text
    <2> QED
      BY <2>2, <2>3, <2>4 DEF IsText
  <1>2. IsComment(NoComment)
    BY EmptyIsSeq DEF IsComment, NoComment
  <1> DEFINE P == {NoType}
  <1>3. Sound(P)
    <2>1. NoType.kind = "none" /\ NoType.fields = <<>>
      BY DEF NoType, Type
    <2>2. IsType(NoType) /\ Within(NoType) = {}
      BY <2>1, EmptyIsSeq DEF IsType, Within
    <2> QED
      BY <2>2 DEF Sound
  <1>4. Reads(P, Start, NoInterface, NoMember)
    BY InitReads
  <1> QED
    BY <1>1, <1>2, <1>3, <1>4 DEF IInv

LEMMA InitHolds ==
    ASSUME Init
    PROVE  IInv
  <1>1. IsText(Text, Start)
    <2>1. MaxTokens \in Nat /\ MaxLayout \in Nat
      BY InterfaceAssumption
    <2>2. Text.from = "other" /\ Text.left = MaxTokens /\ Text.layout = 0
      BY DEF Text
    <2>3. 0 \in 0..MaxLayout /\ MaxTokens \in -1..MaxTokens /\ MaxTokens >= 0
      BY <2>1
    <2>4. Text = [from |-> Text.from, given |-> Text.given, left |-> Text.left,
                  layout |-> Text.layout]
      BY DEF Text
    <2> QED
      BY <2>2, <2>3, <2>4 DEF IsText
  <1>2. IsComment(NoComment)
    BY EmptyIsSeq DEF IsComment, NoComment
  <1> DEFINE P == {NoType}
  <1>3. Sound(P)
    <2>1. NoType.kind = "none" /\ NoType.fields = <<>>
      BY DEF NoType, Type
    <2>2. IsType(NoType) /\ Within(NoType) = {}
      BY <2>1, EmptyIsSeq DEF IsType, Within
    <2> QED
      BY <2>2 DEF Sound
  <1>4. Reads(P, Start, NoInterface, NoMember)
    BY InitReads
  <1> QED
    BY <1>1, <1>2, <1>3, <1>4 DEF IInv, Init

LEMMA StepHolds ==
    ASSUME IInv, [Next]_vars
    PROVE  IInv'
  <1>1. CASE Advance
    BY <1>1, AdvanceHolds
  <1>2. CASE Read
    BY <1>2, ReadHolds
  <1>3. CASE Format
    BY <1>3, ParseHolds DEF Format
  <1>4. ASSUME NEW before, NEW names, AddInterface(before, names) PROVE IInv'
    <2>1. CASE (\A n \in names : HasMethod(interface, n)) /\ interface.name \notin DOMAIN before
      <3>1. Parse("client", Description(interface, FALSE))
        BY <1>4, <2>1 DEF AddInterface
      <3> QED
        BY <3>1, ParseHolds
    <2>2. CASE ~((\A n \in names : HasMethod(interface, n)) /\ interface.name \notin DOMAIN before)
      <3>1. /\ parser.at = "done" /\ parser' = [parser EXCEPT !.failed = TRUE]
            /\ interface' = NoInterface /\ UNCHANGED <<text, comment, member>>
        BY <1>4, <2>2 DEF AddInterface, Accepted
      <3> QED
        BY <3>1, RefusalHolds
    <2> QED
      BY <2>1, <2>2
  <1>5. CASE Again
    BY <1>5, StartHolds DEF Again
  <1>6. CASE UNCHANGED vars
    BY <1>6 DEF vars, IInv
  <1> QED
    BY <1>1, <1>2, <1>3, <1>4, <1>5, <1>6 DEF Next

-----------------------------------------------------------------------------
(* What it gives.                                                          *)

LEMMA Typed ==
    ASSUME IInv
    PROVE  TypeOK
  <1>1. PICK P : Sound(P) /\ Reads(P, parser, interface, member)
    BY DEF IInv
  <1>2. /\ text.from \in {"other", "format", "client"}
        /\ text.left \in -1..MaxTokens /\ text.layout \in 0..MaxLayout
    BY DEF IInv, IsText
  <1>3. parser.at \in Places
    BY <1>1 DEF Reads
  <1>4. parser.at \in Inside => parser.open # <<>>
    BY <1>1 DEF Reads, Opens, Frames
  <1>5. parser.at \notin Inside => parser.open = <<>>
    BY <1>1 DEF Reads
  <1>6. parser.at \in {"interface", "name", "member", "member name", "arrow", "type", "bracket",
                       "map", "open", "fields", "field", "colon", "done"}
    BY <1>3 DEF Places, Inside, Typing
  <1>7. Reading => (parser.open # <<>> <=>
                     parser.at \in {"type", "bracket", "map", "open", "fields", "field", "colon"})
    BY <1>4, <1>5 DEF Inside, Typing
  <1>8. comment.cut => comment.lines # <<>>
    BY DEF IInv, IsComment
  <1>9. member.kind = "" <=> parser.at \in {"interface", "name", "member"} \/ Accepted \/ Refused
    BY <1>1 DEF Reads, Accepted, Refused
  <1> QED
    BY <1>2, <1>6, <1>7, <1>8, <1>9 DEF TypeOK

LEMMA Proper ==
    ASSUME IInv
    PROVE  AcceptsInterfaces
  <1> SUFFICES ASSUME Accepted
               PROVE  /\ interface.name \in InterfaceNames /\ Unique(interface.members)
                      /\ \A k \in DOMAIN interface.members : IsMember(interface.members[k])
                      /\ \A type \in AllParts(interface) : IsType(type)
    BY DEF AcceptsInterfaces
  <1>1. PICK P : Sound(P) /\ Reads(P, parser, interface, member)
    BY DEF IInv
  <1>2. IsRead(interface, P)
    BY <1>1 DEF Reads
  <1>3. interface.name \in InterfaceNames
    BY <1>1 DEF Reads, Accepted
  <1>4. Unique(interface.members) /\ \A k \in DOMAIN interface.members : IsMember(interface.members[k])
    BY <1>2 DEF IsRead
  <1>5. ASSUME NEW type \in TypesOf(interface) PROVE type \in P
    <2>1. PICK k \in DOMAIN interface.members : type \in ToSet(interface.members[k].types)
      BY DEF TypesOf
    <2>2. PICK j \in DOMAIN interface.members[k].types : type = interface.members[k].types[j]
      BY <2>1 DEF ToSet
    <2> QED
      BY <1>2, <2>2 DEF IsRead
  <1>6. \A type \in P : Parts(type) \subseteq P
    BY <1>1, PartsWithin DEF Sound
  <1>7. AllParts(interface) \subseteq P
    BY <1>5, <1>6 DEF AllParts
  <1>8. \A type \in AllParts(interface) : IsType(type)
    BY <1>1, <1>7 DEF Sound
  <1> QED
    BY <1>3, <1>4, <1>8

\* What varlink_interface_new_from_scanner and varlink_type_new_from_scanner have
\* built at each token: proper types in objects that are open, in one member.
THEOREM InterfaceKept == Spec => []IInv
  <1>1. Init => IInv
    BY InitHolds
  <1>2. IInv /\ [Next]_vars => IInv'
    BY StepHolds
  <1> QED
    BY <1>1, <1>2, PTL DEF Spec

\* The reader has open types only inside a member, and a member that is not
\* complete only between its keyword and the end of its last type; a comment that
\* scanner_advance has cut off has lines.
THEOREM InterfaceTyped == Spec => []TypeOK
  <1>1. IInv => TypeOK
    BY Typed
  <1> QED
    BY <1>1, InterfaceKept, PTL

\* What varlink_interface_new_from_scanner returns is an interface: it has a name,
\* no two members and no two fields of a type have one, a method has two objects
\* and an error has one, an enum has names alone, and no maybe is in a maybe, at
\* whatever depth of the types.
THEOREM InterfacesAccepted == Spec => []AcceptsInterfaces
  <1>1. IInv => AcceptsInterfaces
    BY Proper
  <1> QED
    BY <1>1, InterfaceKept, PTL
=============================================================================
