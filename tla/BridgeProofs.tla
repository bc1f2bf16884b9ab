---------------------------- MODULE BridgeProofs ----------------------------
(***************************************************************************)
(* Proofs about Bridge, for any number of messages and replies, and pipes, *)
(* sockets and buffers of any size, whatever the resolver, the services    *)
(* and the client do: types, what the direct bridge copies, what the exit  *)
(* code tells, and that a bridge implements Sessions for its client.       *)
(***************************************************************************)
EXTENDS Bridge, SequenceTheorems, FiniteSetTheorems, TLAPS

-----------------------------------------------------------------------------
(* The inductive invariant.                                                *)

\* What an event holds is of the side that it reads.
HoldsSide ==
    pc = "push" => /\ copy.events # <<>>
                   /\ \/ /\ Head(copy.events).side = "client"
                         /\ copy.holding \in Seq(Requests)
                      \/ /\ Head(copy.events).side = "server"
                         /\ copy.holding \in Seq(Outputs)

\* The copy holds something only between a read and a write.
HoldsWhilePushing == pc \in {"begin", "copy"} => copy.holding = <<>>

\* An event is as true as it was when epoll_wait returned it.
EventHolds(i) ==
    /\ copy.events[i].side = "signal" => signals # {}
    /\ copy.events[i].side = "server" /\ (pc # "push" \/ i > 1)
         => server.down # <<>> \/ server.gone
    /\ copy.events[i].hup => copy.events[i].side # "signal" /\ HungUp(copy.events[i].side)

EventsHold == \A i \in 1..Len(copy.events) : EventHolds(i)
EventsDiffer == \A i, j \in 1..Len(copy.events) :
                   copy.events[i].side = copy.events[j].side => i = j

\* One read follows a hang-up.
LastRead ==
    /\ pc = "push" /\ Head(copy.events).side = "client" /\ Head(copy.events).hup
    /\ Len(asked) <= CopySize
    => stdin.pipe = <<>>

\* The messages of the client, and those of the service, are in one place each.
Counted(a, b, c, d, n) == Len(a) + Len(b) + Len(c) + Len(d) = n

\* The field f counts them from one window to the next.
From(s, f, k) == \A i \in 1..Len(s) : s[i][f] = k + i
Chained(f, a, b, c, d) ==
    /\ From(a, f, 0) /\ From(b, f, Len(a)) /\ From(c, f, Len(a) + Len(b))
    /\ From(d, f, Len(a) + Len(b) + Len(c))

Copied(f, a, b, c, d, n) == Counted(a, b, c, d, n) /\ (~ShortWrites => Chained(f, a, b, c, d))

CopiedUp   == Copied("no", server.got, server.up, HeldFrom("client"), stdin.pipe, Len(asked))
CopiedDown == Copied("n", answers, <<>>, HeldFrom("server"), server.down, server.sent)

Copying == /\ HoldsSide /\ HoldsWhilePushing /\ EventsHold /\ EventsDiffer /\ LastRead
           /\ CopiedUp /\ CopiedDown

\* Only the direct bridge copies, and it does nothing else.
DirectInv == /\ pc \in {"begin", "copy", "push", "exit"}
             /\ pc # "exit" => Copying
             /\ HangUpIsDrained

Copies == /\ TypeOK
          /\ pc \in {"copy", "push"} => command = "direct"
          /\ command = "direct" => DirectInv

-----------------------------------------------------------------------------
(* Windows whose cells are counted.                                        *)

\* A cell that comes next is appended.
LEMMA FromAppend ==
    ASSUME NEW S, NEW s \in Seq(S), NEW x \in S, NEW f, NEW k \in Nat,
           From(s, f, k), x[f] = k + Len(s) + 1
    PROVE  From(Append(s, x), f, k)
  <1> DEFINE t == Append(s, x)
  <1>1. /\ Len(s) \in Nat /\ Len(t) = Len(s) + 1
        /\ \A i \in 1..Len(s) : t[i] = s[i]
        /\ t[Len(s) + 1] = x
    BY AppendProperties, LenProperties
  <1> HIDE DEF t
  <1>2. ASSUME NEW i \in 1..Len(t) PROVE t[i][f] = k + i
    <2>1. CASE i = Len(s) + 1
      BY <1>1, <2>1
    <2>2. CASE i # Len(s) + 1
      <3>1. i \in 1..Len(s)
        BY <1>1, <2>2
      <3> QED
        BY <1>1, <3>1 DEF From
    <2> QED
      BY <2>1, <2>2
  <1> QED
    BY <1>2 DEF From, t

\* The head of a window is the next one; its tail counts from there.
LEMMA FromTail ==
    ASSUME NEW S, NEW s \in Seq(S), s # <<>>, NEW f, NEW k \in Nat
    PROVE  /\ Head(s) \in S /\ Tail(s) \in Seq(S) /\ Len(Tail(s)) = Len(s) - 1
           /\ Len(s) \in Nat /\ Len(s) > 0
           /\ From(s, f, k) => From(Tail(s), f, k + 1) /\ Head(s)[f] = k + 1
  <1> DEFINE t == Tail(s)
             h == Head(s)
  <1>1. /\ Len(s) \in Nat /\ Len(s) > 0 /\ h \in S /\ t \in Seq(S) /\ Len(t) = Len(s) - 1
        /\ \A i \in 1..Len(t) : t[i] = s[i + 1]
        /\ h = s[1]
    BY HeadTailProperties, LenProperties, EmptySeq
  <1> HIDE DEF t, h
  <1>2. ASSUME From(s, f, k) PROVE From(t, f, k + 1) /\ h[f] = k + 1
    <2>1. ASSUME NEW i \in 1..Len(t) PROVE t[i][f] = (k + 1) + i
      <3>1. i + 1 \in 1..Len(s) /\ k + (i + 1) = (k + 1) + i
        BY <1>1
      <3> QED
        BY <1>1, <1>2, <3>1 DEF From
    <2>2. 1 \in 1..Len(s)
      BY <1>1
    <2> QED
      BY <1>1, <1>2, <2>1, <2>2 DEF From
  <1> QED
    BY <1>1, <1>2 DEF t, h

\* A window is cut after its first n cells.
LEMMA FromCut ==
    ASSUME NEW S, NEW s \in Seq(S), NEW n \in 0..Len(s), NEW f, NEW k \in Nat
    PROVE  /\ SubSeq(s, 1, n) \in Seq(S) /\ Len(SubSeq(s, 1, n)) = n
           /\ SubSeq(s, n + 1, Len(s)) \in Seq(S)
           /\ Len(SubSeq(s, n + 1, Len(s))) = Len(s) - n
           /\ From(s, f, k) => /\ From(SubSeq(s, 1, n), f, k)
                               /\ From(SubSeq(s, n + 1, Len(s)), f, k + n)
  <1> DEFINE t == SubSeq(s, 1, n)
             u == SubSeq(s, n + 1, Len(s))
  <1>1. n \in Int /\ n + 1 \in Int /\ 1 \in Int /\ Len(s) \in Nat
    BY LenProperties
  <1>2. (\A i \in 1..n : s[i] \in S) /\ (\A i \in (n + 1)..Len(s) : s[i] \in S)
    BY <1>1, ElementOfSeq
  <1>3. t \in Seq(S) /\ Len(t) = n /\ \A i \in 1..n : t[i] = s[i]
    BY <1>1, <1>2, SubSeqProperties
  <1>4. /\ u \in Seq(S)
        /\ Len(u) = IF n + 1 <= Len(s) THEN Len(s) - (n + 1) + 1 ELSE 0
        /\ \A i \in 1..(Len(s) - (n + 1) + 1) : u[i] = s[(n + 1) + i - 1]
    BY <1>1, <1>2, SubSeqProperties
  <1> HIDE DEF t, u
  <1>5. Len(u) = Len(s) - n /\ \A i \in 1..Len(u) : u[i] = s[n + i]
    BY <1>1, <1>4
  <1>6. ASSUME From(s, f, k) PROVE From(t, f, k)
    <2>1. \A i \in 1..n : i \in 1..Len(s)
      BY <1>1
    <2> QED
      BY <1>3, <1>6, <2>1 DEF From
  <1>7. ASSUME From(s, f, k) PROVE From(u, f, k + n)
    <2>1. ASSUME NEW i \in 1..Len(u) PROVE u[i][f] = (k + n) + i
      <3>1. n + i \in 1..Len(s) /\ k + (n + i) = (k + n) + i
        BY <1>1, <1>5
      <3> QED
        BY <1>5, <1>7, <3>1 DEF From
    <2> QED
      BY <2>1 DEF From
  <1> QED
    BY <1>3, <1>4, <1>5, <1>6, <1>7 DEF t, u

\* Two windows, of which the second goes on where the first ends.
LEMMA FromConcat ==
    ASSUME NEW S, NEW s \in Seq(S), NEW t \in Seq(S), NEW f, NEW k \in Nat
    PROVE  /\ s \o t \in Seq(S) /\ Len(s \o t) = Len(s) + Len(t)
           /\ From(s, f, k) /\ From(t, f, k + Len(s)) => From(s \o t, f, k)
  <1> DEFINE u == s \o t
  <1>1. /\ Len(s) \in Nat /\ Len(t) \in Nat /\ u \in Seq(S) /\ Len(u) = Len(s) + Len(t)
        /\ \A i \in 1..(Len(s) + Len(t)) : u[i] = IF i <= Len(s) THEN s[i] ELSE t[i - Len(s)]
    BY ConcatProperties, LenProperties
  <1> HIDE DEF u
  <1>2. ASSUME From(s, f, k), From(t, f, k + Len(s)), NEW i \in 1..Len(u)
        PROVE  u[i][f] = k + i
    <2>1. CASE i <= Len(s)
      <3>1. i \in 1..Len(s) /\ u[i] = s[i]
        BY <1>1, <2>1
      <3> QED
        BY <1>2, <3>1 DEF From
    <2>2. CASE ~(i <= Len(s))
      <3> DEFINE j == i - Len(s)
      <3>1. j \in 1..Len(t) /\ u[i] = t[j] /\ k + i = (k + Len(s)) + j
        BY <1>1, <2>2
      <3> HIDE DEF j
      <3> QED
        BY <1>2, <3>1 DEF From
    <2> QED
      BY <2>1, <2>2
  <1> QED
    BY <1>1, <1>2 DEF From, u

-----------------------------------------------------------------------------
(* What is copied is in one place, in its order.                           *)

\* A message is sent.
LEMMA CopiedSent ==
    ASSUME NEW S, NEW a \in Seq(S), NEW b \in Seq(S), NEW c \in Seq(S), NEW d \in Seq(S),
           NEW f, NEW n \in Nat, Copied(f, a, b, c, d, n), NEW x \in S, x[f] = n + 1
    PROVE  Copied(f, a, b, c, Append(d, x), n + 1)
  <1>1. Len(a) \in Nat /\ Len(b) \in Nat /\ Len(c) \in Nat /\ Len(d) \in Nat
    BY LenProperties
  <1>2. Len(Append(d, x)) = Len(d) + 1
    BY AppendProperties
  <1> DEFINE k == Len(a) + Len(b) + Len(c)
  <1>3. k \in Nat /\ k + Len(d) = n
    BY <1>1 DEF Copied, Counted
  <1>4. Counted(a, b, c, Append(d, x), n + 1)
    <2> DEFINE t == Append(d, x)
    <2>1. Len(t) = Len(d) + 1 /\ Len(a) + Len(b) + Len(c) + Len(d) = n
      BY <1>2 DEF Copied, Counted
    <2> HIDE DEF t
    <2> DEFINE o == Len(a)
               p == Len(b)
               q == Len(c)
               r == Len(d)
    <2>2. /\ o \in Nat /\ p \in Nat /\ q \in Nat /\ r \in Nat
          /\ Len(t) = r + 1 /\ o + p + q + r = n
      BY <1>1, <2>1
    <2> HIDE DEF o, p, q, r
    <2>3. o + p + q + Len(t) = n + 1
      BY <2>2
    <2> QED
      BY <2>3 DEF Counted, t, o, p, q
  <1>5. From(d, f, k) => From(Append(d, x), f, k)
    <2> HIDE DEF k
    <2>1. x[f] = k + Len(d) + 1
      BY <1>3
    <2> QED
      BY <1>3, <2>1, FromAppend
  <1> QED
    BY <1>4, <1>5 DEF Copied, Chained

\* The other end reads a message.
LEMMA CopiedTaken ==
    ASSUME NEW S, NEW a \in Seq(S), NEW b \in Seq(S), NEW c \in Seq(S), NEW d \in Seq(S),
           NEW f, NEW n, Copied(f, a, b, c, d, n), b # <<>>
    PROVE  Copied(f, Append(a, Head(b)), Tail(b), c, d, n)
  <1>1. Len(a) \in Nat /\ Len(b) \in Nat /\ Len(c) \in Nat /\ Len(d) \in Nat
    BY LenProperties
  <1> DEFINE k == Len(a)
             h == Head(b)
             t == Tail(b)
  <1>2. /\ h \in S /\ t \in Seq(S) /\ Len(t) = Len(b) - 1 /\ Len(b) > 0
        /\ From(b, f, k) => From(t, f, k + 1) /\ h[f] = k + 1
    BY <1>1, FromTail
  <1> HIDE DEF h, t
  <1>3. Len(Append(a, h)) = Len(a) + 1
    BY <1>2, AppendProperties
  <1>4. Counted(Append(a, h), t, c, d, n)
    BY <1>1, <1>2, <1>3 DEF Copied, Counted
  <1>5. ASSUME From(a, f, 0), h[f] = k + 1 PROVE From(Append(a, h), f, 0)
    <2>1. h[f] = 0 + Len(a) + 1
      BY <1>1, <1>5
    <2> QED
      BY <1>2, <1>5, <2>1, FromAppend
  <1>6. ASSUME Chained(f, a, b, c, d) PROVE Chained(f, Append(a, h), t, c, d)
    <2>1. /\ Len(Append(a, h)) = k + 1 /\ Len(Append(a, h)) + Len(t) = Len(a) + Len(b)
      BY <1>1, <1>2, <1>3
    <2> QED
      BY <1>2, <1>5, <1>6, <2>1 DEF Chained
  <1> QED
    BY <1>4, <1>6 DEF Copied, h, t

\* The copy reads the first m messages.
LEMMA CopiedRead ==
    ASSUME NEW S, NEW a \in Seq(S), NEW b \in Seq(S), NEW d \in Seq(S), NEW f, NEW n,
           NEW m \in 0..Len(d), Copied(f, a, b, <<>>, d, n)
    PROVE  Copied(f, a, b, SubSeq(d, 1, m), SubSeq(d, m + 1, Len(d)), n)
  <1>1. Len(a) \in Nat /\ Len(b) \in Nat /\ Len(d) \in Nat /\ Len(<<>>) = 0
    BY LenProperties, EmptySeq
  <1> DEFINE k == Len(a) + Len(b)
             t == SubSeq(d, 1, m)
             u == SubSeq(d, m + 1, Len(d))
  <1>2. k \in Nat
    BY <1>1
  <1>3. /\ Len(t) = m /\ Len(u) = Len(d) - m
        /\ From(d, f, k) => From(t, f, k) /\ From(u, f, k + m)
    <2> HIDE DEF k
    <2> QED
      BY <1>2, FromCut
  <1> HIDE DEF t, u
  <1>4. Counted(a, b, t, u, n)
    BY <1>1, <1>3 DEF Copied, Counted
  <1>5. ASSUME Chained(f, a, b, <<>>, d) PROVE Chained(f, a, b, t, u)
    <2>1. From(d, f, k)
      BY <1>1, <1>5 DEF Chained
    <2> QED
      BY <1>1, <1>3, <1>5, <2>1 DEF Chained
  <1> QED
    BY <1>4, <1>5 DEF Copied, t, u

\* What a write leaves is shorter by what it took.
LEMMA AfterWriteType ==
    ASSUME NEW S, NEW c \in Seq(S), NEW m \in 0..Len(c)
    PROVE  AfterWrite(c, m) \in Seq(S) /\ Len(AfterWrite(c, m)) = Len(c) - m
  <1> DEFINE k == Len(c) - m
  <1>1. k \in 0..Len(c) /\ Len(c) \in Nat
    BY LenProperties
  <1>2. SubSeq(c, m + 1, Len(c)) \in Seq(S) /\ Len(SubSeq(c, m + 1, Len(c))) = Len(c) - m
    BY FromCut
  <1>3. SubSeq(c, 1, k) \in Seq(S) /\ Len(SubSeq(c, 1, k)) = k
    <2> HIDE DEF k
    <2> QED
      BY <1>1, FromCut
  <1> QED
    BY <1>2, <1>3 DEF AfterWrite

\* The copy writes the first m messages it holds to the service,
LEMMA CopiedUpwards ==
    ASSUME NEW S, NEW a \in Seq(S), NEW b \in Seq(S), NEW c \in Seq(S), NEW d \in Seq(S),
           NEW f, NEW n, NEW m \in 0..Len(c), Copied(f, a, b, c, d, n)
    PROVE  Copied(f, a, b \o SubSeq(c, 1, m), AfterWrite(c, m), d, n)
  <1>1. Len(a) \in Nat /\ Len(b) \in Nat /\ Len(c) \in Nat /\ Len(d) \in Nat
    BY LenProperties
  <1> DEFINE k == Len(a) + Len(b)
             t == SubSeq(c, 1, m)
             u == SubSeq(c, m + 1, Len(c))
             v == b \o t
             w == AfterWrite(c, m)
  <1>2. k \in Nat
    BY <1>1
  <1>3. /\ t \in Seq(S) /\ Len(t) = m /\ u \in Seq(S) /\ Len(u) = Len(c) - m
        /\ From(c, f, k) => From(t, f, k) /\ From(u, f, k + m)
    <2> HIDE DEF k
    <2> QED
      BY <1>2, FromCut
  <1>4. Len(w) = Len(c) - m /\ (~ShortWrites => w = u)
    BY AfterWriteType DEF AfterWrite
  <1> HIDE DEF t, u, w
  <1>5. /\ Len(v) = Len(b) + m
        /\ From(b, f, Len(a)) /\ From(t, f, Len(a) + Len(b)) => From(v, f, Len(a))
    BY <1>1, <1>3, FromConcat
  <1> HIDE DEF v
  <1>6. Counted(a, v, w, d, n)
    BY <1>1, <1>3, <1>4, <1>5 DEF Copied, Counted
  <1>7. ASSUME ~ShortWrites, Chained(f, a, b, c, d) PROVE Chained(f, a, v, w, d)
    <2>1. /\ Len(a) + Len(v) = k + m
          /\ Len(a) + Len(v) + Len(w) = Len(a) + Len(b) + Len(c)
      BY <1>1, <1>3, <1>4, <1>5
    <2> QED
      BY <1>3, <1>4, <1>5, <1>7, <2>1 DEF Chained
  <1> QED
    BY <1>6, <1>7 DEF Copied, t, v, w

\* and to standard out.
LEMMA CopiedDownwards ==
    ASSUME NEW S, NEW a \in Seq(S), NEW c \in Seq(S), NEW d \in Seq(S),
           NEW f, NEW n, NEW m \in 0..Len(c), Copied(f, a, <<>>, c, d, n)
    PROVE  Copied(f, a \o SubSeq(c, 1, m), <<>>, AfterWrite(c, m), d, n)
  <1>1. /\ Len(a) \in Nat /\ Len(c) \in Nat /\ Len(d) \in Nat
        /\ Len(<<>>) = 0 /\ <<>> \in Seq(S)
    BY LenProperties, EmptySeq
  <1> DEFINE k == Len(a)
             t == SubSeq(c, 1, m)
             u == SubSeq(c, m + 1, Len(c))
             v == a \o t
             w == AfterWrite(c, m)
  <1>3. /\ t \in Seq(S) /\ Len(t) = m /\ u \in Seq(S) /\ Len(u) = Len(c) - m
        /\ From(c, f, k) => From(t, f, k) /\ From(u, f, k + m)
    BY <1>1, FromCut
  <1>4. Len(w) = Len(c) - m /\ (~ShortWrites => w = u)
    BY AfterWriteType DEF AfterWrite
  <1> HIDE DEF t, u, w
  <1>5. Len(v) = Len(a) + m /\ (From(a, f, 0) /\ From(t, f, 0 + Len(a)) => From(v, f, 0))
    BY <1>1, <1>3, FromConcat
  <1> HIDE DEF v
  <1>6. Counted(v, <<>>, w, d, n)
    BY <1>1, <1>3, <1>4, <1>5 DEF Copied, Counted
  <1>7. ASSUME ~ShortWrites, Chained(f, a, <<>>, c, d) PROVE Chained(f, v, <<>>, w, d)
    <2>1. /\ 0 + Len(a) = Len(a) /\ Len(a) + Len(<<>>) = Len(a)
          /\ Len(v) + Len(<<>>) = k + m
          /\ Len(v) + Len(<<>>) + Len(w) = Len(a) + Len(<<>>) + Len(c)
      BY <1>1, <1>3, <1>4, <1>5
    <2>2. From(<<>>, f, Len(v))
      BY <1>1 DEF From
    <2> QED
      BY <1>3, <1>4, <1>5, <1>7, <2>1, <2>2 DEF Chained
  <1> QED
    BY <1>6, <1>7 DEF Copied, t, v, w

\* Put together, they are what was sent.
LEMMA CopiedConcat ==
    ASSUME NEW S, NEW a \in Seq(S), NEW b \in Seq(S), NEW c \in Seq(S), NEW d \in Seq(S),
           NEW f, NEW n, Copied(f, a, b, c, d, n), ~ShortWrites
    PROVE  /\ Len(a \o b \o c \o d) = n
           /\ \A i \in 1..n : (a \o b \o c \o d)[i][f] = i
  <1>1. Len(a) \in Nat /\ Len(b) \in Nat /\ Len(c) \in Nat /\ Len(d) \in Nat
    BY LenProperties
  <1> DEFINE u == a \o b
             v == u \o c
             w == v \o d
  <1>2. u \in Seq(S) /\ Len(u) = Len(a) + Len(b) /\ From(u, f, 0)
    <2>1. From(a, f, 0) /\ From(b, f, 0 + Len(a))
      BY <1>1 DEF Copied, Chained
    <2> QED
      BY <2>1, FromConcat
  <1> HIDE DEF u
  <1>3. v \in Seq(S) /\ Len(v) = Len(u) + Len(c) /\ From(v, f, 0)
    <2>1. From(c, f, 0 + Len(u))
      BY <1>1, <1>2 DEF Copied, Chained
    <2> QED
      BY <1>2, <2>1, FromConcat
  <1> HIDE DEF v
  <1>4. w \in Seq(S) /\ Len(w) = Len(v) + Len(d) /\ From(w, f, 0)
    <2>1. From(d, f, 0 + Len(v))
      BY <1>1, <1>2, <1>3 DEF Copied, Chained
    <2> QED
      BY <1>3, <2>1, FromConcat
  <1> HIDE DEF w
  <1>5. Len(w) = n
    BY <1>1, <1>2, <1>3, <1>4 DEF Copied, Counted
  <1>6. n \in Nat
    BY <1>1 DEF Copied, Counted
  <1>7. \A i \in 1..n : w[i][f] = i
    BY <1>4, <1>5, <1>6 DEF From
  <1> QED
    BY <1>5, <1>7 DEF u, v, w

-----------------------------------------------------------------------------
(* Types.                                                                  *)

Links   == [open : BOOLEAN, pending : BOOLEAN, events : SUBSET {"IN", "OUT"}]
Peers   == [asked : BOOLEAN, room : BOOLEAN, replies : Seq(ReplyKinds \cup Noise),
            given : Nat, over : BOOLEAN, gone : BOOLEAN]
Readers == [unread : 0..PipeSize, gone : BOOLEAN]

\* The types of the variables of Cli, and of those of the bridges.
CliTypes ==
    /\ command \in Commands
    /\ pc \in {"begin", "connect", "write", "loop", "handle", "return", "exit", "read",
               "wait", "refuse", "refused", "copy", "push"}
    /\ goal \in {"resolve", "call"} /\ status \in Codes
    /\ task \in Requests \cup {NoTask}
    /\ link \in Links
    /\ reply \in ReplyKinds \cup {"none"}
    /\ signals \subseteq {"TERM", "PIPE"}
    /\ peer \in Peers
    /\ faults \in 0..MaxFaults
    /\ client \in Readers
    /\ answers \in Seq(Answers)

OwnTypes ==
    /\ asked \in Seq(AllCallKinds \cup Garbage) /\ Len(asked) <= MaxCalls
    /\ stdin \in [pipe : Seq(Requests), buffer : Seq(Requests), closed : BOOLEAN]
    /\ copy \in [events : Seq(Events), holding : Seq(Requests) \cup Seq(Outputs)]
    /\ server \in [up : Seq(Requests), got : Seq(Requests), sent : 0..MaxReplies,
                   down : Seq(Outputs), gone : BOOLEAN]
    /\ Len(server.up) <= SocketSize /\ Len(server.down) <= SocketSize
    /\ Len(copy.holding) <= CopySize

\* The two are TypeOK.
LEMMA TypeHalves == TypeOK <=> CliTypes /\ OwnTypes
  BY DEF TypeOK, CliTypes, OwnTypes, Links, Peers, Readers

\* The same after a step.
LEMMA TypeHalvesNext == TypeOK' <=> CliTypes' /\ OwnTypes'
  BY DEF TypeOK, CliTypes, OwnTypes, Links, Peers, Readers

\* What a copy changes keeps its types: the types of the rest are as before.
LEMMA CopyTypes ==
    ASSUME TypeOK, UNCHANGED <<command, goal, task, link, reply, signals, peer, faults, asked>>,
           pc' \in {"copy", "push", "exit"}, status' \in Codes,
           client' \in Readers, answers' \in Seq(Answers),
           stdin' \in [pipe : Seq(Requests), buffer : Seq(Requests), closed : BOOLEAN],
           copy' \in [events : Seq(Events), holding : Seq(Requests) \cup Seq(Outputs)],
           server' \in [up : Seq(Requests), got : Seq(Requests), sent : 0..MaxReplies,
                        down : Seq(Outputs), gone : BOOLEAN],
           Len(server'.up) <= SocketSize, Len(server'.down) <= SocketSize,
           Len(copy'.holding) <= CopySize
    PROVE  TypeOK'
  <1>1. CliTypes /\ OwnTypes
    BY TypeHalves
  <1>2. CliTypes'
    BY <1>1 DEF CliTypes
  <1>3. OwnTypes'
    BY <1>1 DEF OwnTypes
  <1> QED
    BY <1>2, <1>3, TypeHalvesNext

\* What TypeOK says of the state that a copy may change.
LEMMA CopyTyped ==
    ASSUME TypeOK
    PROVE  /\ status \in Codes /\ client \in Readers /\ answers \in Seq(Answers)
           /\ stdin \in [pipe : Seq(Requests), buffer : Seq(Requests), closed : BOOLEAN]
           /\ copy \in [events : Seq(Events), holding : Seq(Requests) \cup Seq(Outputs)]
           /\ server \in [up : Seq(Requests), got : Seq(Requests), sent : 0..MaxReplies,
                          down : Seq(Outputs), gone : BOOLEAN]
           /\ Len(server.up) <= SocketSize /\ Len(server.down) <= SocketSize
           /\ Len(copy.holding) <= CopySize
  BY TypeHalves DEF CliTypes, OwnTypes

\* The constants are numbers and flags.
LEMMA ConstantTypes ==
    /\ MaxCalls \in Nat /\ MaxCalls > 0 /\ CopySize \in Nat /\ CopySize > 0
    /\ SocketSize \in Nat /\ SocketSize > 0 /\ ShortWrites \in BOOLEAN
    /\ MaxReplies \in Nat /\ MaxFaults \in Nat /\ PipeSize \in Nat /\ PipeSize > 0
    /\ CallKinds \subseteq AllCallKinds /\ Garbage \subseteq {"badjson", "badcall"}
    /\ Methods \subseteq AllMethods /\ Noise \subseteq AllNoise
  BY CliAssumption, BridgeAssumption

\* The number of replies that a call got is a number.
LEMMA GivenType == ASSUME CliTypes, NEW i PROVE Given(i) \in Nat
  <1>1. DOMAIN answers = 1..Len(answers) /\ Len(answers) \in Nat
    BY LenProperties DEF CliTypes
  <1>2. IsFiniteSet(1..Len(answers))
    BY <1>1, FS_Interval
  <1>3. {j \in DOMAIN answers : answers[j].call = i} \subseteq 1..Len(answers)
    BY <1>1
  <1>4. IsFiniteSet({j \in DOMAIN answers : answers[j].call = i})
    BY <1>2, <1>3, FS_Subset
  <1> QED
    BY <1>4, FS_CardinalityType DEF Given

\* A task is known by the number of a message, or by none.
LEMMA TaskType == ASSUME CliTypes PROVE task.no \in 0..MaxCalls
  BY ConstantTypes DEF CliTypes, Requests, NoTask

\* A reply is printed.
LEMMA PrintType ==
    ASSUME CliTypes, NEW kind \in ReplyKinds, Print_(kind)
    PROVE  /\ client' \in Readers
           /\ answers' \in Seq(Answers)
           /\ signals' \subseteq {"TERM", "PIPE"}
           /\ client'.gone = client.gone
  <1>1. CASE client.gone
    BY <1>1 DEF CliTypes, Print_
  <1>2. CASE ~client.gone
    <2> DEFINE a == [call |-> task.no, n |-> Given(task.no) + 1, kind |-> kind]
    <2>1. /\ client.unread < PipeSize /\ client' = [client EXCEPT !.unread = @ + 1]
          /\ answers' = Append(answers, a) /\ signals' = signals
      BY <1>2 DEF Print_, MayPrint
    <2>2. a \in Answers
      BY GivenType, TaskType DEF Answers
    <2> HIDE DEF a
    <2>3. answers' \in Seq(Answers)
      BY <2>1, <2>2, AppendProperties DEF CliTypes
    <2>4. client' \in Readers /\ client'.gone = client.gone
      <3>1. client.unread + 1 \in 0..PipeSize /\ client \in Readers
        BY <2>1, ConstantTypes DEF CliTypes, Readers
      <3> QED
        BY <2>1, <3>1 DEF Readers
    <2> QED
      BY <2>1, <2>3, <2>4 DEF CliTypes
  <1> QED
    BY <1>1, <1>2

\* A connection that is not open, and an end that is not there.
LEMMA NothingTypes ==
    /\ NoLink \in Links
    /\ NoPeer \in Peers
    /\ NoTask \in Requests \cup {NoTask}
  BY EmptySeq DEF NoLink, NoPeer, Links, Peers

\* The steps of the tool that make a call keep the types.
LEMMA CallTypes ==
    ASSUME CliTypes, Begin \/ ConnectFails \/ Connect \/ WriteCall \/ WriteNothing
    PROVE  CliTypes'
  <1>1. CASE Begin
    BY <1>1 DEF CliTypes, Begin, FirstGoal
  <1>2. CASE ConnectFails
    BY <1>2 DEF CliTypes, ConnectFails, Refuse, Exit, ConnectCode, Codes
  <1>3. CASE Connect
    <2>1. link' \in Links
      BY <1>3, NothingTypes DEF Connect, Links
    <2>2. peer' \in Peers
      BY <1>3, NothingTypes DEF Connect, Peers
    <2> QED
      BY <1>3, <2>1, <2>2 DEF CliTypes, Connect
  <1>4. CASE WriteCall
    <2>1. link' \in Links
      <3>1. link \in Links
        BY DEF CliTypes
      <3>2. \E waits \in BOOLEAN, polls \in SUBSET {"IN", "OUT"} :
              link' = [link EXCEPT !.pending = waits, !.events = polls]
        <4>1. link' = [link EXCEPT !.pending = Kind # "oneway",
                                   !.events = (IF Kind # "oneway" THEN {"IN"} ELSE {})
                                         \cup (IF peer.gone \/ ~peer.room THEN {"OUT"} ELSE {})]
          BY <1>4 DEF WriteCall
        <4> DEFINE waits == Kind # "oneway"
                   polls == (IF Kind # "oneway" THEN {"IN"} ELSE {})
                              \cup (IF peer.gone \/ ~peer.room THEN {"OUT"} ELSE {})
        <4>2. waits \in BOOLEAN /\ polls \in SUBSET {"IN", "OUT"}
          OBVIOUS
        <4>3. link' = [link EXCEPT !.pending = waits, !.events = polls]
          BY <4>1
        <4> HIDE DEF waits, polls
        <4> QED
          BY <4>2, <4>3
      <3>3. PICK waits \in BOOLEAN, polls \in SUBSET {"IN", "OUT"} :
              link' = [link EXCEPT !.pending = waits, !.events = polls]
        BY <3>2
      <3> QED
        BY <3>1, <3>3 DEF Links
    <2>2. peer' \in Peers
      <3>1. peer \in Peers /\ \E was \in BOOLEAN : peer' = [peer EXCEPT !.asked = was]
        <4> DEFINE was == ~peer.gone /\ peer.room
        <4>1. was \in BOOLEAN /\ peer' = [peer EXCEPT !.asked = was]
          BY <1>4 DEF WriteCall
        <4> HIDE DEF was
        <4> QED
          BY <4>1 DEF CliTypes
      <3> QED
        BY <3>1 DEF Peers
    <2>3. signals' \subseteq {"TERM", "PIPE"} /\ reply' = "none"
      BY <1>4 DEF WriteCall, CliTypes
    <2>4. pc' \in {"return", "loop"} /\ status' \in Codes
      BY <1>4 DEF WriteCall, CliTypes, Codes
    <2>5. UNCHANGED <<command, goal, task, faults, client, answers>>
      BY <1>4 DEF WriteCall
    <2> QED
      BY <2>1, <2>2, <2>3, <2>4, <2>5 DEF CliTypes
  <1>5. CASE WriteNothing
    BY <1>5, NothingTypes DEF CliTypes, WriteNothing, Exit, Codes
  <1> QED
    BY <1>1, <1>2, <1>3, <1>4, <1>5

\* The steps of its event loop keep the types.
LEMMA LoopTypes ==
    ASSUME CliTypes,
           LoopSignal \/ LoopTimeout \/ LoopEvent \/ HandleReply \/ HandleNoise \/ HandleNothing
    PROVE  CliTypes'
  <1>1. CASE LoopSignal
    <2>1. PICK s \in signals : signals' = signals \ {s} /\ OnSignal(s)
      BY <1>1 DEF LoopSignal
    <2>2. pc' = "return" /\ status' \in Codes
      BY <2>1 DEF OnSignal, Returns, Codes
    <2> QED
      BY <1>1, <2>1, <2>2 DEF CliTypes, LoopSignal
  <1>2. CASE LoopTimeout
    BY <1>2 DEF CliTypes, LoopTimeout, Returns, Codes
  <1>3. CASE LoopEvent
    <2>1. link' \in Links
      BY <1>3 DEF CliTypes, LoopEvent, Links
    <2>2. peer' \in Peers
      BY <1>3 DEF CliTypes, LoopEvent, Peers
    <2>3. signals' \subseteq {"TERM", "PIPE"}
      BY <1>3 DEF CliTypes, LoopEvent
    <2>4. pc' \in {"handle", "return"} /\ status' \in Codes
      BY <1>3 DEF CliTypes, LoopEvent, Returns, Codes
    <2>5. UNCHANGED <<command, goal, task, reply, faults, client, answers>>
      BY <1>3 DEF LoopEvent
    <2> QED
      BY <2>1, <2>2, <2>3, <2>4, <2>5 DEF CliTypes
  <1>4. CASE HandleReply
    <2> DEFINE kind == Head(peer.replies)
    <2>1. peer.replies \in Seq(ReplyKinds \cup Noise) /\ peer.replies # <<>>
      BY <1>4 DEF CliTypes, HandleReply, Peers
    <2>2. Tail(peer.replies) \in Seq(ReplyKinds \cup Noise)
      BY <2>1, HeadTailProperties
    <2>3. /\ kind \in ReplyKinds /\ Callback(kind)
          /\ peer' = [peer EXCEPT !.replies = Tail(@)]
          /\ (pc' = pc /\ status' = status) \/ (pc' = "return" /\ status' = "ok")
          /\ UNCHANGED <<command, goal, task, faults>>
      BY <1>4 DEF HandleReply, Expected, Returns
    <2> HIDE DEF kind
    <2>4. peer' \in Peers
      BY <2>2, <2>3 DEF CliTypes, Peers
    <2>5. /\ reply' \in ReplyKinds \cup {"none"}
          /\ link' \in Links
      BY <2>3 DEF CliTypes, Callback, Closed, Links
    <2>6. /\ client' \in Readers
          /\ answers' \in Seq(Answers) /\ signals' \subseteq {"TERM", "PIPE"}
      <3>1. CASE Print_(kind)
        BY <2>3, <3>1, PrintType
      <3>2. CASE UNCHANGED <<signals, client, answers>>
        BY <3>2 DEF CliTypes
      <3> QED
        BY <2>3, <3>1, <3>2 DEF Callback
    <2> QED
      BY <2>3, <2>4, <2>5, <2>6 DEF CliTypes, Codes
  <1>5. CASE HandleNoise
    BY <1>5 DEF CliTypes, HandleNoise, Returns, Codes
  <1>6. CASE HandleNothing
    BY <1>6 DEF CliTypes, HandleNothing, Returns, Codes, Links
  <1> QED
    BY <1>1, <1>2, <1>3, <1>4, <1>5, <1>6

\* The steps behind the loop keep the types.
LEMMA ReturnTypes ==
    ASSUME CliTypes, ResolveReturn \/ CallReturn \/ HelpReturn
    PROVE  CliTypes'
  <1>1. CASE ResolveReturn
    <2>1. link' = NoLink /\ peer' = NoPeer
      BY <1>1 DEF ResolveReturn, FreeConnection
    <2>2. pc' \in {"exit", "connect", "refuse"} /\ status' \in Codes /\ goal' \in {"resolve", "call"}
      BY <1>1 DEF CliTypes, ResolveReturn, Refuse, Exit, ConnectCode, Codes
    <2> QED
      BY <1>1, <2>1, <2>2, NothingTypes DEF CliTypes, ResolveReturn
  <1>2. CASE CallReturn
    BY <1>2, NothingTypes DEF CliTypes, CallReturn, FreeConnection, Exit, Codes
  <1>3. CASE HelpReturn
    BY <1>3, NothingTypes DEF CliTypes, HelpReturn, FreeConnection, Exit, Codes
  <1> QED
    BY <1>1, <1>2, <1>3

\* The other end of a connection, and a signal, keep the types.
LEMMA PeerTypes ==
    ASSUME CliTypes, PeerSteps \/ SendSignal
    PROVE  CliTypes'
  <1>0. /\ peer \in Peers /\ peer.given + 1 \in Nat
        /\ peer.replies \in Seq(ReplyKinds \cup Noise) /\ <<>> \in Seq(ReplyKinds \cup Noise)
    BY EmptySeq DEF CliTypes, Peers
  <1>1. ASSUME peer' \in Peers, faults' \in 0..MaxFaults,
               UNCHANGED <<command, pc, goal, status, task, link, reply, signals,
                           client, answers>>
        PROVE  CliTypes'
    BY <1>1 DEF CliTypes
  <1>2. Fault => faults' \in 0..MaxFaults
    BY ConstantTypes DEF CliTypes, Fault
  <1>3. CASE PeerReads
    BY <1>0, <1>1, <1>3 DEF CliTypes, PeerReads, Peers
  <1>4. ASSUME NEW kind \in ReplyKinds, PeerReplies(kind) PROVE CliTypes'
    <2>1. Append(peer.replies, kind) \in Seq(ReplyKinds \cup Noise)
      BY <1>0, AppendProperties
    <2>2. peer' \in Peers
      BY <1>0, <1>4, <2>1 DEF PeerReplies, Peers
    <2> QED
      BY <1>1, <1>4, <2>2 DEF CliTypes, PeerReplies
  <1>5. ASSUME NEW kind \in Noise, PeerErrs(kind) PROVE CliTypes'
    <2>1. Append(peer.replies, kind) \in Seq(ReplyKinds \cup Noise)
      BY <1>0, AppendProperties
    <2>2. peer' \in Peers
      BY <1>0, <1>5, <2>1 DEF PeerErrs, Peers
    <2> QED
      BY <1>1, <1>2, <1>5, <2>2 DEF PeerErrs
  <1>6. CASE PeerCloses
    <2>1. peer' \in Peers
      BY <1>0, <1>6 DEF PeerCloses, Peers
    <2> QED
      BY <1>1, <1>2, <1>6, <2>1 DEF PeerCloses
  <1>7. CASE SendSignal
    BY <1>2, <1>7 DEF CliTypes, SendSignal
  <1> QED
    BY <1>3, <1>4, <1>5, <1>6, <1>7 DEF PeerSteps, PeerAnswers

\* What the bridge takes from standard in, and what it answers by itself, keeps
\* the types.
LEMMA BridgeTypes ==
    ASSUME TypeOK, BridgeSteps \/ BridgeSignal
    PROVE  TypeOK'
  <1>1. CliTypes /\ OwnTypes
    BY TypeHalves
  <1>2. /\ stdin \in [pipe : Seq(Requests), buffer : Seq(Requests), closed : BOOLEAN]
        /\ stdin.pipe \in Seq(Requests) /\ stdin.buffer \in Seq(Requests)
    BY <1>1 DEF OwnTypes
  <1>3. ASSUME UNCHANGED <<asked, directOnly>>,
               stdin' \in [pipe : Seq(Requests), buffer : Seq(Requests), closed : BOOLEAN]
        PROVE  OwnTypes'
    BY <1>1, <1>3 DEF OwnTypes, directOnly
  <1>4. CASE BridgeRead
    <2>1. stdin' \in [pipe : Seq(Requests), buffer : Seq(Requests), closed : BOOLEAN]
      <3>1. CASE UNCHANGED stdin
        BY <1>2, <3>1
      <3>2. CASE stdin.pipe # <<>>
        <4>1. PICK n \in DOMAIN stdin.pipe :
                stdin' = [stdin EXCEPT !.buffer = SubSeq(stdin.pipe, 1, n),
                                       !.pipe = SubSeq(@, n + 1, Len(@))]
          BY <1>4, <3>2 DEF BridgeRead, AtEnd
        <4> DEFINE t == SubSeq(stdin.pipe, 1, n)
                   u == SubSeq(stdin.pipe, n + 1, Len(stdin.pipe))
        <4>2. n \in 0..Len(stdin.pipe)
          BY <1>2, LenProperties
        <4>3. t \in Seq(Requests) /\ u \in Seq(Requests)
          BY <1>2, <4>2, FromCut
        <4>4. stdin' = [stdin EXCEPT !.buffer = t, !.pipe = u]
          BY <4>1
        <4> HIDE DEF t, u
        <4> QED
          BY <1>2, <4>3, <4>4
      <3> QED
        BY <1>4, <3>1, <3>2 DEF BridgeRead
    <2>2. CliTypes'
      BY <1>1, <1>4 DEF CliTypes, BridgeRead, Exit, Codes
    <2> QED
      BY <1>3, <1>4, <2>1, <2>2, TypeHalvesNext DEF BridgeRead
  <1>5. CASE BridgeWake \/ BridgeSignal \/ BridgeGivesUp
    <2>1. CliTypes' /\ UNCHANGED <<asked, stdin, directOnly>>
      BY <1>1, <1>5 DEF CliTypes, BridgeWake, BridgeSignal, BridgeGivesUp, Exit, Codes
    <2> QED
      BY <1>2, <1>3, <2>1, TypeHalvesNext
  <1>6. CASE BridgeTake
    <2> DEFINE m == Head(stdin.buffer)
               t == Tail(stdin.buffer)
    <2>1. m \in Requests /\ t \in Seq(Requests)
      BY <1>2, <1>6, HeadTailProperties DEF BridgeTake
    <2>2. stdin' = [stdin EXCEPT !.buffer = t]
      BY <1>6 DEF BridgeTake
    <2>3. /\ UNCHANGED <<command, link, reply, signals, peer, faults, client, answers,
                         asked, directOnly>>
          /\ \/ Exit(IF m.kind = "badjson" THEN "panic" ELSE "invalid") /\ UNCHANGED <<task, goal>>
             \/ task' = m /\ goal' = FirstGoal(m) /\ Forward(m)
      BY <1>6 DEF BridgeTake
    <2> HIDE DEF m, t
    <2>4. stdin' \in [pipe : Seq(Requests), buffer : Seq(Requests), closed : BOOLEAN]
      BY <1>2, <2>1, <2>2
    <2>5. CliTypes'
      <3>1. pc' \in {"exit", "refuse", "connect"} /\ status' \in Codes
        BY <1>1, <2>3 DEF CliTypes, Exit, Forward, Codes
      <3>2. task' \in Requests \cup {NoTask} /\ goal' \in {"resolve", "call"}
        BY <1>1, <2>1, <2>3 DEF CliTypes, FirstGoal
      <3> QED
        BY <1>1, <2>3, <3>1, <3>2 DEF CliTypes
    <2> QED
      BY <1>3, <2>3, <2>4, <2>5, TypeHalvesNext
  <1>7. CASE BridgeRefuse
    <2>1. /\ client' \in Readers /\ answers' \in Seq(Answers) /\ signals' \subseteq {"TERM", "PIPE"}
      BY <1>1, <1>7, PrintType DEF BridgeRefuse, ReplyKinds
    <2>2. CliTypes'
      BY <1>1, <1>7, <2>1 DEF CliTypes, BridgeRefuse
    <2> QED
      BY <1>2, <1>3, <1>7, <2>2, TypeHalvesNext DEF BridgeRefuse
  <1>8. CASE BridgeReturn
    <2>1. link' = NoLink /\ peer' = NoPeer /\ task' \in {task, NoTask} /\ pc' \in {"read", "exit"}
      BY <1>8 DEF BridgeReturn, FreeConnection
    <2>2. UNCHANGED <<command, goal, status, reply, signals, faults, client, answers,
                      asked, stdin, directOnly>>
      BY <1>8 DEF BridgeReturn
    <2>3. CliTypes'
      BY <1>1, <2>1, <2>2, NothingTypes DEF CliTypes
    <2> QED
      BY <1>2, <1>3, <2>2, <2>3, TypeHalvesNext
  <1> QED
    BY <1>4, <1>5, <1>6, <1>7, <1>8 DEF BridgeSteps

\* What the client does keeps the types.
LEMMA ClientTypes ==
    ASSUME TypeOK, Client
    PROVE  TypeOK'
  <1>1. CliTypes /\ OwnTypes
    BY TypeHalves
  <1>2. /\ stdin \in [pipe : Seq(Requests), buffer : Seq(Requests), closed : BOOLEAN]
        /\ stdin.pipe \in Seq(Requests) /\ asked \in Seq(AllCallKinds \cup Garbage)
        /\ Len(asked) \in Nat
    BY <1>1, LenProperties DEF OwnTypes
  <1>3. ASSUME NEW kind \in AllCallKinds \cup Garbage, NEW method \in AllMethods \cup {"none"},
               Ask(kind, method)
        PROVE  TypeOK'
    <2> DEFINE m == [no |-> Len(asked) + 1, kind |-> kind, method |-> method]
               t == Append(stdin.pipe, m)
    <2>1. m \in Requests
      BY <1>2, <1>3, ConstantTypes DEF Ask, Requests
    <2>2. t \in Seq(Requests)
      BY <1>2, <2>1, AppendProperties
    <2>3. /\ asked' = Append(asked, kind) /\ stdin' = [stdin EXCEPT !.pipe = t]
          /\ UNCHANGED <<command, pc, goal, status, task, link, reply, signals, peer,
                         faults, client, answers, directOnly>>
      BY <1>3 DEF Ask
    <2> HIDE DEF t
    <2>4. asked' \in Seq(AllCallKinds \cup Garbage) /\ Len(asked') <= MaxCalls
      BY <1>2, <1>3, <2>3, AppendProperties, ConstantTypes DEF Ask
    <2>5. stdin' \in [pipe : Seq(Requests), buffer : Seq(Requests), closed : BOOLEAN]
      BY <1>2, <2>2, <2>3
    <2>6. CliTypes'
      BY <1>1, <2>3 DEF CliTypes
    <2>7. OwnTypes'
      BY <1>1, <2>3, <2>4, <2>5 DEF OwnTypes, directOnly
    <2> QED
      BY <2>6, <2>7, TypeHalvesNext
  <1>4. CASE CloseIn
    BY <1>1, <1>2, <1>4, TypeHalvesNext DEF CloseIn, CliTypes, OwnTypes, directOnly
  <1>5. CASE Leave
    <2>1. faults' \in 0..MaxFaults
      BY <1>1, <1>5, ConstantTypes DEF Leave, Fault, CliTypes
    <2>2. client' \in Readers
      BY <1>1, <1>5 DEF Leave, CliTypes, Readers
    <2>3. CliTypes'
      BY <1>1, <1>5, <2>1, <2>2 DEF Leave, CliTypes
    <2>4. OwnTypes'
      BY <1>1, <1>2, <1>5 DEF Leave, OwnTypes, directOnly
    <2> QED
      BY <2>3, <2>4, TypeHalvesNext
  <1>6. CASE ReadOut
    <2>1. client' \in Readers
      <3>1. client \in Readers /\ client.unread - 1 \in 0..PipeSize
        BY <1>1, <1>6, ConstantTypes DEF ReadOut, CliTypes, Readers
      <3> QED
        BY <1>6, <3>1 DEF ReadOut, Readers
    <2>2. CliTypes'
      BY <1>1, <1>6, <2>1 DEF ReadOut, CliTypes
    <2>3. OwnTypes'
      BY <1>1, <1>6 DEF ReadOut, OwnTypes, directOnly
    <2> QED
      BY <2>2, <2>3, TypeHalvesNext
  <1>7. \A kind \in CallKinds, method \in Methods : Ask(kind, method) => TypeOK'
    BY <1>3, ConstantTypes
  <1>8. \A kind \in Garbage : Ask(kind, "none") => TypeOK'
    BY <1>3, ConstantTypes
  <1>9. Ask("plain", "near") => TypeOK'
    BY <1>3 DEF AllCallKinds, AllMethods
  <1> QED
    BY <1>4, <1>5, <1>6, <1>7, <1>8, <1>9 DEF Client

\* The service at the other end of the direct bridge keeps the types.
LEMMA ServerTypes ==
    ASSUME TypeOK, ServerReads \/ ServerSends \/ ServerCloses
    PROVE  TypeOK'
  <1>1. CliTypes /\ OwnTypes
    BY TypeHalves
  <1> DEFINE T == [up : Seq(Requests), got : Seq(Requests), sent : 0..MaxReplies,
                   down : Seq(Outputs), gone : BOOLEAN]
  <1>2. /\ server \in T /\ server.up \in Seq(Requests) /\ server.got \in Seq(Requests)
        /\ server.down \in Seq(Outputs) /\ server.sent \in 0..MaxReplies
        /\ Len(server.up) <= SocketSize /\ Len(server.down) <= SocketSize
        /\ Len(server.up) \in Nat /\ Len(server.down) \in Nat
    BY <1>1, LenProperties DEF OwnTypes
  <1>3. CliTypes' /\ UNCHANGED <<asked, stdin, copy>>
    BY <1>1 DEF CliTypes, ServerReads, ServerSends, ServerCloses
  <1>4. ASSUME server' \in T, Len(server'.up) <= SocketSize, Len(server'.down) <= SocketSize
        PROVE  TypeOK'
    BY <1>1, <1>3, <1>4, TypeHalvesNext DEF OwnTypes
  <1>5. CASE ServerReads
    <2> DEFINE h == Head(server.up)
               t == Tail(server.up)
               a == Append(server.got, h)
    <2>1. h \in Requests /\ t \in Seq(Requests) /\ Len(t) = Len(server.up) - 1
      BY <1>2, <1>5, HeadTailProperties DEF ServerReads
    <2>2. a \in Seq(Requests)
      BY <1>2, <2>1, AppendProperties
    <2>3. server' = [server EXCEPT !.up = t, !.got = a]
      BY <1>5 DEF ServerReads
    <2> HIDE DEF h, t, a
    <2>4. server' \in T /\ server'.up = t /\ server'.down = server.down
      BY <1>2, <2>1, <2>2, <2>3
    <2> HIDE DEF T
    <2> QED
      BY <1>2, <1>4, <2>1, <2>4, ConstantTypes
  <1>6. CASE ServerSends
    <2> DEFINE x == Output(server.sent + 1)
               d == Append(server.down, x)
               n == server.sent + 1
    <2>1. n \in 1..MaxReplies /\ n \in 0..MaxReplies /\ x \in Outputs
      BY <1>2, <1>6, ConstantTypes DEF ServerSends, Output, Outputs
    <2>2. d \in Seq(Outputs) /\ Len(d) = Len(server.down) + 1 /\ Len(server.down) < SocketSize
      BY <1>2, <1>6, <2>1, AppendProperties DEF ServerSends
    <2>3. server' = [server EXCEPT !.sent = n, !.down = d]
      BY <1>6 DEF ServerSends
    <2> HIDE DEF x, d, n
    <2>4. server' \in T /\ server'.up = server.up /\ server'.down = d
      BY <1>2, <2>1, <2>2, <2>3
    <2> HIDE DEF T
    <2> QED
      BY <1>2, <1>4, <2>2, <2>4, ConstantTypes
  <1>7. CASE ServerCloses
    <2>1. server' = [server EXCEPT !.gone = TRUE]
      BY <1>7 DEF ServerCloses
    <2>2. server' \in T /\ server'.up = server.up /\ server'.down = server.down
      BY <1>2, <2>1
    <2> HIDE DEF T
    <2> QED
      BY <1>2, <1>4, <2>2
  <1> QED
    BY <1>5, <1>6, <1>7

\* What epoll_wait returns: each side that is ready, once.
LEMMA EventsMade ==
    ASSUME NEW order \in SetToSeqs(CopyReady), NEW hups \in SUBSET {"client", "server"}, NEW ev,
           ev = [i \in DOMAIN order |-> [side |-> order[i], hup |-> order[i] \in hups]]
    PROVE  /\ ev \in Seq(Events) /\ Len(ev) \in Nat
           /\ \A i \in 1..Len(ev) : ev[i].side \in CopyReady /\ (ev[i].hup => ev[i].side \in hups)
           /\ \A i, j \in 1..Len(ev) : ev[i].side = ev[j].side => i = j
  <1> DEFINE n == Cardinality(CopyReady)
  <1>1. CopyReady \subseteq {"client", "server", "signal"}
    BY DEF CopyReady
  <1>2. IsFiniteSet({"client", "server", "signal"})
    <2>1. IsFiniteSet({} \cup {"client"})
      BY FS_EmptySet, FS_AddElement
    <2>2. IsFiniteSet(({} \cup {"client"}) \cup {"server"})
      BY <2>1, FS_AddElement
    <2>3. IsFiniteSet((({} \cup {"client"}) \cup {"server"}) \cup {"signal"})
      BY <2>2, FS_AddElement
    <2>4. {"client", "server", "signal"} = (({} \cup {"client"}) \cup {"server"}) \cup {"signal"}
      OBVIOUS
    <2> QED
      BY <2>3, <2>4
  <1>3. n \in Nat
    BY <1>1, <1>2, FS_Subset, FS_CardinalityType
  <1>4. order \in [1..n -> CopyReady] /\ \A i, j \in 1..n : i # j => order[i] # order[j]
    BY DEF SetToSeqs
  <1> HIDE DEF n
  <1>5. /\ ev = [i \in 1..n |-> [side |-> order[i], hup |-> order[i] \in hups]]
        /\ \A i \in 1..n : ev[i] = [side |-> order[i], hup |-> order[i] \in hups]
        /\ \A i \in 1..n : [side |-> order[i], hup |-> order[i] \in hups] \in Events
    <2>1. DOMAIN order = 1..n
      BY <1>4
    <2>2. ev = [i \in 1..n |-> [side |-> order[i], hup |-> order[i] \in hups]]
      BY <2>1
    <2>3. \A i \in 1..n : ev[i] = [side |-> order[i], hup |-> order[i] \in hups]
      BY <2>2
    <2>4. \A i \in 1..n : order[i] \in {"client", "server", "signal"}
      BY <1>1, <1>4
    <2>5. \A i \in 1..n : (order[i] \in hups) \in BOOLEAN
      OBVIOUS
    <2>6. \A i \in 1..n : [side |-> order[i], hup |-> order[i] \in hups] \in Events
      BY <2>4, <2>5 DEF Events
    <2> QED
      BY <2>2, <2>3, <2>6
  <1>6. ev \in Seq(Events) /\ Len(ev) = n
    BY <1>3, <1>5, IsASeq
  <1>7. ASSUME NEW i \in 1..n
        PROVE  ev[i].side = order[i] /\ (ev[i].hup => order[i] \in hups) /\ order[i] \in CopyReady
    <2>1. ev[i] = [side |-> order[i], hup |-> order[i] \in hups]
      BY <1>5
    <2>2. ev[i].side = order[i]
      BY <2>1
    <2>3. ev[i].hup = (order[i] \in hups)
      BY ONLY <2>1
    <2>4. order[i] \in CopyReady
      BY <1>4
    <2> QED
      BY <2>2, <2>3, <2>4
  <1> QED
    BY <1>3, <1>4, <1>6, <1>7

\* The windows of a copy have their types.
LEMMA WindowTypes ==
    ASSUME TypeOK
    PROVE  /\ server.got \in Seq(Requests) /\ server.up \in Seq(Requests)
           /\ server.down \in Seq(Outputs) /\ server.sent \in 0..MaxReplies
           /\ stdin.pipe \in Seq(Requests) /\ answers \in Seq(Answers)
           /\ asked \in Seq(AllCallKinds \cup Garbage) /\ Len(asked) \in Nat
           /\ copy.events \in Seq(Events) /\ Len(copy.events) \in Nat
           /\ server.gone \in BOOLEAN /\ stdin.closed \in BOOLEAN
           /\ <<>> \in Seq(Requests) /\ <<>> \in Seq(Answers) /\ Len(<<>>) = 0
           /\ Outputs \subseteq Answers /\ \A s \in Seq(Outputs) : s \in Seq(Answers)
  <1>1. CliTypes /\ OwnTypes
    BY TypeHalves
  <1>2. Outputs \subseteq Answers
    BY ConstantTypes DEF Outputs, Answers
  <1>3. \A s \in Seq(Outputs) : s \in Seq(Answers)
    BY <1>2, SeqMonotonic
  <1>4. Len(asked) \in Nat /\ Len(copy.events) \in Nat
    BY <1>1, LenProperties DEF OwnTypes
  <1> QED
    BY <1>1, <1>2, <1>3, <1>4, EmptySeq DEF CliTypes, OwnTypes

-----------------------------------------------------------------------------
(* What a step does to a copy.                                             *)

\* Ends and signals do not disturb a copy.
LEMMA CopyUndisturbed ==
    ASSUME Copies, TypeOK', UNCHANGED <<command, pc, status, asked, copy, answers>>,
           stdin'.pipe = stdin.pipe, stdin.closed => stdin'.closed,
           server'.up = server.up, server'.got = server.got, server'.down = server.down,
           server'.sent = server.sent, server.gone => server'.gone,
           client.gone => client'.gone, signals \subseteq signals'
    PROVE  Copies'
  <1>1. /\ pc' = pc /\ copy' = copy /\ command' = command /\ asked' = asked
        /\ answers' = answers /\ status' = status
    OBVIOUS
  <1>2. HangUpIsDrained => HangUpIsDrained'
    <2>1. signals' = {} => signals = {}
      OBVIOUS
    <2> QED
      BY <1>1, <2>1 DEF HangUpIsDrained
  <1>3. ASSUME Copying PROVE Copying'
    <2>1. HoldsSide' /\ HoldsWhilePushing' /\ EventsDiffer' /\ LastRead'
      BY <1>1, <1>3 DEF Copying, HoldsSide, HoldsWhilePushing, EventsDiffer, LastRead
    <2>2. \A side : HungUp(side) => HungUp(side)'
      BY DEF HungUp
    <2>3. \A i : EventHolds(i) => EventHolds(i)'
      BY <1>1, <2>2 DEF EventHolds
    <2>4. EventsHold'
      BY <1>1, <1>3, <2>3 DEF Copying, EventsHold
    <2>5. HeldFrom("client")' = HeldFrom("client") /\ HeldFrom("server")' = HeldFrom("server")
      BY <1>1 DEF HeldFrom
    <2>6. CopiedUp' /\ CopiedDown'
      BY <1>1, <1>3, <2>5 DEF Copying, CopiedUp, CopiedDown
    <2> QED
      BY <2>1, <2>4, <2>6 DEF Copying
  <1> QED
    BY <1>1, <1>2, <1>3 DEF Copies, DirectInv

\* What the tool does otherwise is no copy.
LEMMA NoCopyElsewhere ==
    ASSUME Copies, TypeOK', command' = command, command # "direct", pc' \notin {"copy", "push"}
    PROVE  Copies'
  BY DEF Copies

\* The steps of a command, and of the bridge to every service.
LEMMA ToolKeepsCopies ==
    ASSUME Copies, TypeOK', CliSteps \/ LoopSignal \/ LoopTimeout \/ BridgeSteps \/ BridgeSignal
    PROVE  Copies'
  <1>1. command = "direct" => pc \in {"begin", "copy", "push", "exit"}
    BY DEF Copies, DirectInv
  <1>2. ASSUME Begin \/ ConnectFails \/ Connect \/ WriteCall \/ WriteNothing
        PROVE  command' = command /\ command # "direct" /\ pc' \notin {"copy", "push"}
    BY <1>1, <1>2 DEF Begin, ConnectFails, Connect, WriteCall, WriteNothing, Refuse, Exit
  <1>3. ASSUME LoopSignal \/ LoopTimeout \/ LoopEvent
        PROVE  command' = command /\ command # "direct" /\ pc' \notin {"copy", "push"}
    BY <1>1, <1>3 DEF LoopSignal, OnSignal, LoopTimeout, LoopEvent, Returns
  <1>4. ASSUME HandleReply \/ HandleNoise \/ HandleNothing
        PROVE  command' = command /\ command # "direct" /\ pc' \notin {"copy", "push"}
    BY <1>1, <1>4 DEF HandleReply, HandleNoise, HandleNothing, Returns
  <1>5. ASSUME ResolveReturn \/ CallReturn \/ HelpReturn
        PROVE  command' = command /\ command # "direct" /\ pc' \notin {"copy", "push"}
    BY <1>1, <1>5 DEF ResolveReturn, CallReturn, HelpReturn, Refuse, Exit
  <1>6. ASSUME BridgeSteps \/ BridgeSignal
        PROVE  command' = command /\ command # "direct" /\ pc' \notin {"copy", "push"}
    BY <1>1, <1>6 DEF BridgeSteps, BridgeSignal, BridgeRead, BridgeWake, BridgeTake, Forward,
                      BridgeRefuse, BridgeGivesUp, BridgeReturn, Exit
  <1> QED
    BY <1>2, <1>3, <1>4, <1>5, <1>6, NoCopyElsewhere DEF CliSteps

\* A message of the client is the last one.
LEMMA AskCopies ==
    ASSUME Copies, TypeOK', NEW kind, NEW method, Ask(kind, method)
    PROVE  Copies'
  <1> DEFINE m == [no |-> Len(asked) + 1, kind |-> kind, method |-> method]
             n == Len(asked)
             pipe == stdin.pipe
  <1>0. TypeOK
    BY DEF Copies
  <1>1. /\ asked' = Append(asked, kind) /\ stdin' = [stdin EXCEPT !.pipe = Append(@, m)]
        /\ UNCHANGED <<command, pc, signals, client, answers, copy, server>>
        /\ pc \in {"read", "wait", "copy"} /\ n < MaxCalls /\ ~stdin.closed
    BY DEF Ask, Looks, directOnly
  <1>2. CASE command # "direct"
    BY <1>1, <1>2, NoCopyElsewhere DEF Copies
  <1>3. CASE command = "direct"
    <2>1. pc = "copy" /\ Copying
      BY <1>1, <1>3 DEF Copies, DirectInv
    <2>2. /\ stdin' = [stdin EXCEPT !.pipe = Append(pipe, m)]
          /\ stdin'.closed = stdin.closed /\ stdin'.pipe = Append(pipe, m)
      BY <1>0, <1>1 DEF TypeOK
    <2>3. m \in Requests /\ Len(asked') = n + 1 /\ n \in Nat
      <3>1. n \in Nat /\ asked \in Seq(AllCallKinds \cup Garbage) /\ asked' \in Seq(AllCallKinds \cup Garbage)
        BY <1>0, WindowTypes DEF TypeOK
      <3>2. n + 1 \in 1..MaxCalls
        BY <1>1, <3>1, ConstantTypes
      <3>3. stdin'.pipe \in Seq(Requests) /\ pipe \in Seq(Requests)
        BY <1>0 DEF TypeOK
      <3>4. Append(pipe, m)[Len(pipe) + 1] = m /\ Len(Append(pipe, m)) = Len(pipe) + 1 /\ Len(pipe) \in Nat
        BY <3>3, LenProperties, AppendProperties
      <3>5. Len(pipe) + 1 \in 1..Len(Append(pipe, m))
        BY <3>4
      <3>6. m \in Requests
        BY <2>2, <3>3, <3>4, <3>5, ElementOfSeq
      <3>7. Len(Append(asked, kind)) = Len(asked) + 1
        BY <3>1, AppendProperties
      <3> QED
        BY <1>1, <3>1, <3>6, <3>7
    <2>4. HeldFrom("client")' = HeldFrom("client") /\ HeldFrom("server")' = HeldFrom("server")
      BY <1>1 DEF HeldFrom
    <2>5. HeldFrom("client") = <<>>
      BY <2>1 DEF HeldFrom, Copying, HoldsWhilePushing
    <2>6. Copied("no", server.got, server.up, <<>>, Append(pipe, m), n + 1)
      <3>1. m["no"] = n + 1
        OBVIOUS
      <3>2. Copied("no", server.got, server.up, <<>>, pipe, n)
        BY <2>1, <2>5 DEF Copying, CopiedUp
      <3> HIDE DEF m, n, pipe
      <3>3. pipe \in Seq(Requests)
        BY <1>0 DEF TypeOK, pipe
      <3> QED
        BY <1>0, <2>3, <3>1, <3>2, <3>3, WindowTypes, CopiedSent
    <2>7. CopiedUp' /\ CopiedDown'
      BY <1>1, <2>1, <2>2, <2>3, <2>4, <2>5, <2>6 DEF Copying, CopiedUp, CopiedDown
    <2>8. EventsHold'
      <3>1. \A side : HungUp(side)' <=> HungUp(side)
        BY <1>1, <2>2 DEF HungUp
      <3>2. \A i : EventHolds(i) => EventHolds(i)'
        BY <1>1, <3>1 DEF EventHolds
      <3> QED
        BY <1>1, <2>1, <3>2 DEF Copying, EventsHold
    <2>9. HoldsSide' /\ HoldsWhilePushing' /\ EventsDiffer' /\ LastRead' /\ HangUpIsDrained'
      BY <1>1, <2>1 DEF Copying, HoldsSide, HoldsWhilePushing, EventsDiffer, LastRead,
                        HangUpIsDrained
    <2> QED
      BY <1>1, <2>1, <2>7, <2>8, <2>9 DEF Copies, DirectInv, Copying
  <1> QED
    BY <1>2, <1>3

\* The service reads what was written to it, and sends something.
LEMMA ServerCopies ==
    ASSUME Copies, TypeOK', pc # "exit", ServerReads \/ ServerSends
    PROVE  Copies'
  <1>0. TypeOK
    BY DEF Copies
  <1>1. UNCHANGED <<command, pc, status, signals, client, answers, asked, stdin, copy>>
    BY DEF ServerReads, ServerSends
  <1>2. CASE command # "direct"
    BY <1>1, <1>2 DEF Copies
  <1>3. CASE command = "direct"
    <2>1. Copying
      BY <1>3 DEF Copies, DirectInv
    <2>2. HeldFrom("client")' = HeldFrom("client") /\ HeldFrom("server")' = HeldFrom("server")
      BY <1>1 DEF HeldFrom
    <2>3. HeldFrom("client") \in Seq(Requests) /\ HeldFrom("server") \in Seq(Answers)
      <3>1. /\ HeldFrom("client") \in {<<>>, copy.holding} /\ HeldFrom("server") \in {<<>>, copy.holding}
        BY DEF HeldFrom
      <3>2. CASE pc = "push"
        BY <1>0, <2>1, <3>1, <3>2, WindowTypes DEF HeldFrom, Copying, HoldsSide
      <3>3. CASE pc # "push"
        <4>1. pc \in {"begin", "copy"}
          BY <1>3, <3>3 DEF Copies, DirectInv
        <4>2. copy.holding = <<>>
          BY <2>1, <4>1 DEF Copying, HoldsWhilePushing
        <4> QED
          BY <1>0, <3>1, <4>2, WindowTypes
      <3> QED
        BY <3>2, <3>3
    <2>4. CopiedUp' /\ CopiedDown' /\ (server.down # <<>> => server'.down # <<>>) /\ server'.gone = server.gone
      <3>1. CASE ServerReads
        <4> DEFINE h == Head(server.up)
                   t == Tail(server.up)
                   a == Append(server.got, h)
        <4>1. server' = [server EXCEPT !.up = t, !.got = a] /\ server.up # <<>>
          BY <3>1 DEF ServerReads
        <4>2. Copied("no", a, t, HeldFrom("client"), stdin.pipe, Len(asked))
          <5>1. Copied("no", server.got, server.up, HeldFrom("client"), stdin.pipe, Len(asked))
            BY <2>1 DEF Copying, CopiedUp
          <5> QED
            BY <1>0, <2>3, <4>1, <5>1, WindowTypes, CopiedTaken
        <4> HIDE DEF h, t, a
        <4>3. server'.up = t /\ server'.got = a /\ server'.down = server.down
              /\ server'.sent = server.sent /\ server'.gone = server.gone
          BY <1>0, <4>1 DEF TypeOK
        <4> QED
          BY <1>1, <2>1, <2>2, <4>2, <4>3 DEF Copying, CopiedUp, CopiedDown
      <3>2. CASE ServerSends
        <4> DEFINE n == server.sent
                   x == Output(n + 1)
                   d == Append(server.down, x)
        <4>1. server' = [server EXCEPT !.sent = n + 1, !.down = d] /\ n < MaxReplies
          BY <3>2 DEF ServerSends
        <4>2. x \in Outputs /\ x["n"] = n + 1 /\ n \in Nat
          BY SMTT(30), <1>0, <4>1, ConstantTypes, WindowTypes DEF Output, Outputs
        <4>3. Copied("n", answers, <<>>, HeldFrom("server"), d, n + 1) /\ d # <<>>
          <5>1. Copied("n", answers, <<>>, HeldFrom("server"), server.down, n)
            BY <2>1 DEF Copying, CopiedDown
          <5>2. x \in Answers
            BY <1>0, <4>2, WindowTypes
          <5> HIDE DEF x, n
          <5>3. Copied("n", answers, <<>>, HeldFrom("server"), Append(server.down, x), n + 1)
            BY <1>0, <2>3, <4>2, <5>1, <5>2, WindowTypes, CopiedSent
          <5>4. Append(server.down, x) # <<>>
            <6>1. Len(Append(server.down, x)) = Len(server.down) + 1 /\ Len(server.down) \in Nat
              BY <1>0, <4>2, WindowTypes, AppendProperties, LenProperties
            <6>2. Len(<<>>) = 0
              BY <1>0, WindowTypes
            <6> QED
              BY <6>1, <6>2
          <5> QED
            BY <5>3, <5>4
        <4> HIDE DEF x, d
        <4>4. server'.up = server.up /\ server'.got = server.got /\ server'.down = d
              /\ server'.sent = n + 1 /\ server'.gone = server.gone
          BY <1>0, <4>1 DEF TypeOK
        <4> QED
          BY <1>1, <2>1, <2>2, <4>3, <4>4 DEF Copying, CopiedUp, CopiedDown
      <3> QED
        BY <3>1, <3>2
    <2>5. EventsHold'
      <3>1. \A side : HungUp(side) => HungUp(side)'
        BY <1>1, <2>4 DEF HungUp
      <3>2. \A i : EventHolds(i) => EventHolds(i)'
        BY <1>1, <2>4, <3>1 DEF EventHolds
      <3> QED
        BY <1>1, <2>1, <3>2 DEF Copying, EventsHold
    <2>6. HoldsSide' /\ HoldsWhilePushing' /\ EventsDiffer' /\ LastRead' /\ HangUpIsDrained'
      BY <1>1, <2>1 DEF Copying, HoldsSide, HoldsWhilePushing, EventsDiffer, LastRead,
                        HangUpIsDrained
    <2> QED
      BY <1>1, <1>3, <2>4, <2>5, <2>6 DEF Copies, DirectInv, Copying
  <1> QED
    BY <1>2, <1>3

\* A copy begins, if there is a connection.
LEMMA BeginCopies ==
    ASSUME Copies, CopyBegin
    PROVE  Copies'
  <1>1. /\ UNCHANGED <<command, goal, task, link, reply, signals, peer, faults, client,
                       answers, asked, stdin, copy, server>>
        /\ pc = "begin" /\ command = "direct"
        /\ (pc' = "copy" /\ status' = status) \/ (pc' = "exit" /\ status' = "connect")
    BY DEF CopyBegin, Exit, directOnly
  <1>2. TypeOK'
    BY <1>1 DEF Copies, TypeOK, Codes
  <1>3. Copying /\ HangUpIsDrained
    BY <1>1 DEF Copies, DirectInv
  <1>4. CASE pc' = "exit"
    BY <1>1, <1>2, <1>4 DEF Copies, DirectInv, HangUpIsDrained
  <1>5. CASE pc' = "copy"
    <2>1. \A i : EventHolds(i) => EventHolds(i)'
      BY <1>1, <1>5 DEF EventHolds, HungUp
    <2>2. CopiedUp' /\ CopiedDown'
      BY <1>1, <1>3 DEF Copying, CopiedUp, CopiedDown, HeldFrom
    <2>3. EventsHold' /\ EventsDiffer'
      BY <1>1, <1>3, <2>1 DEF Copying, EventsHold, EventsDiffer
    <2>4. HoldsSide' /\ HoldsWhilePushing' /\ LastRead' /\ HangUpIsDrained'
      BY <1>1, <1>3, <1>5 DEF Copying, HoldsSide, HoldsWhilePushing, LastRead, HangUpIsDrained
    <2> QED
      BY <1>1, <1>2, <1>5, <2>2, <2>3, <2>4 DEF Copies, DirectInv, Copying
  <1> QED
    BY <1>1, <1>4, <1>5

\* epoll_wait returns.
LEMMA WaitCopies ==
    ASSUME Copies, CopyWait
    PROVE  Copies'
  <1>1. /\ UNCHANGED <<command, pc, goal, status, task, link, reply, signals, peer,
                       faults, client, answers, asked, stdin, server>>
        /\ pc = "copy" /\ copy.events = <<>>
    BY DEF CopyWait
  <1>2. command = "direct" /\ Copying /\ TypeOK
    BY <1>1 DEF Copies, DirectInv
  <1>3. PICK order \in SetToSeqs(CopyReady), hups \in SUBSET {"client", "server"} :
          /\ \A side \in hups : HungUp(side)
          /\ copy' = [copy EXCEPT !.events =
                        [i \in DOMAIN order |-> [side |-> order[i], hup |-> order[i] \in hups]]]
    BY DEF CopyWait
  <1> DEFINE ev == [i \in DOMAIN order |-> [side |-> order[i], hup |-> order[i] \in hups]]
  <1>4. /\ ev \in Seq(Events) /\ Len(ev) \in Nat
        /\ \A i \in 1..Len(ev) : ev[i].side \in CopyReady /\ (ev[i].hup => ev[i].side \in hups)
        /\ \A i, j \in 1..Len(ev) : ev[i].side = ev[j].side => i = j
    BY EventsMade
  <1>5. copy' = [copy EXCEPT !.events = ev]
    BY <1>3
  <1> HIDE DEF ev
  <1>6. copy'.events = ev /\ copy'.holding = copy.holding /\ copy.holding = <<>>
        /\ copy' \in [events : Seq(Events), holding : Seq(Requests) \cup Seq(Outputs)]
    BY <1>1, <1>2, <1>4, <1>5 DEF TypeOK, Copying, HoldsWhilePushing
  <1>7. TypeOK'
    BY <1>1, <1>2, <1>6 DEF TypeOK
  <1>8. EventsHold' /\ EventsDiffer'
    <2>1. ASSUME NEW i \in 1..Len(ev) PROVE EventHolds(i)'
      <3>1. ev[i].side \in CopyReady /\ (ev[i].hup => ev[i].side \in hups)
        BY <1>4
      <3>2. ev[i].side = "signal" => signals # {}
        BY <3>1 DEF CopyReady
      <3>3. ev[i].side = "server" => server.down # <<>> \/ server.gone
        BY <3>1 DEF CopyReady, Source, HungUp
      <3>4. ev[i].hup => ev[i].side # "signal" /\ HungUp(ev[i].side)
        BY <1>3, <3>1
      <3> QED
        BY <1>1, <1>6, <3>2, <3>3, <3>4 DEF EventHolds, HungUp
    <2> QED
      BY <1>4, <1>6, <2>1 DEF EventsHold, EventsDiffer
  <1>9. CopiedUp' /\ CopiedDown'
    <2>1. /\ HeldFrom("client")' = HeldFrom("client") /\ HeldFrom("server")' = HeldFrom("server")
      BY <1>6 DEF HeldFrom
    <2> QED
      BY <1>1, <1>2, <2>1 DEF Copying, CopiedUp, CopiedDown
  <1>10. HoldsSide' /\ HoldsWhilePushing' /\ LastRead' /\ HangUpIsDrained'
    BY <1>1, <1>6 DEF HoldsSide, HoldsWhilePushing, LastRead, HangUpIsDrained
  <1> QED
    BY <1>1, <1>2, <1>7, <1>8, <1>9, <1>10 DEF Copies, DirectInv, Copying

\* A copy ends with a signal, or when there is nothing more to read.
LEMMA EndCopies ==
    ASSUME Copies, CopyEnd
    PROVE  Copies'
  <1>1. /\ UNCHANGED <<command, goal, task, link, reply, signals, peer, faults, client,
                       answers, asked, stdin, copy, server>>
        /\ pc = "copy" /\ copy.events # <<>> /\ Ends(Head(copy.events))
        /\ pc' = "exit" /\ status' = "ok"
    BY DEF CopyEnd, Exit, directOnly
  <1>2. command = "direct" /\ Copying /\ TypeOK
    BY <1>1 DEF Copies, DirectInv
  <1>3. TypeOK'
    BY <1>1, <1>2 DEF TypeOK, Codes
  <1>4. HangUpIsDrained'
    <2> SUFFICES ASSUME signals = {}, ~server.gone
                 PROVE  Len(server.got) + Len(server.up) = Len(asked)
      BY <1>1 DEF HangUpIsDrained
    <2> DEFINE e == Head(copy.events)
    <2>1. e = copy.events[1] /\ 1 \in 1..Len(copy.events) /\ e \in Events
      BY <1>1, <1>2, WindowTypes, HeadTailProperties
    <2>2. EventHolds(1)
      BY <1>2, <2>1 DEF Copying, EventsHold
    <2>3. e.side = "client"
      <3>1. e.side # "signal"
        BY <2>1, <2>2 DEF EventHolds
      <3>2. e.side # "server"
        BY <1>1, <2>1, <2>2 DEF EventHolds, Ends, Source
      <3> QED
        BY <2>1, <3>1, <3>2 DEF Events
    <2>4. stdin.pipe = <<>>
      BY <1>1, <2>3 DEF Ends, Source
    <2>5. HeldFrom("client") = <<>>
      BY <1>1, <1>2 DEF Copying, HoldsWhilePushing, HeldFrom
    <2>6. Len(server.got) + Len(server.up) + Len(<<>>) + Len(<<>>) = Len(asked)
      BY <1>2, <2>4, <2>5 DEF Copying, CopiedUp, Copied, Counted
    <2> DEFINE k == Len(server.got)
               l == Len(server.up)
               z == Len(<<>>)
    <2>7. k \in Nat /\ l \in Nat /\ z = 0
      BY <1>2, WindowTypes, LenProperties
    <2>8. k + l + z + z = Len(asked)
      BY <2>6
    <2> HIDE DEF k, l, z
    <2>9. k + l = Len(asked)
      BY <2>7, <2>8
    <2> QED
      BY <2>9 DEF k, l
  <1> QED
    BY <1>1, <1>2, <1>3, <1>4 DEF Copies, DirectInv

\* A read takes what fits in the buffer, and all of a few messages.
LEMMA CopyLengthType ==
    ASSUME NEW n \in Nat
    PROVE  /\ CopyLength(n) \in 0..n /\ CopyLength(n) <= CopySize
           /\ n <= CopySize => CopyLength(n) = n
  BY ConstantTypes DEF CopyLength

\* The copy reads.
LEMMA ReadCopies ==
    ASSUME Copies, CopyRead
    PROVE  Copies'
  <1> DEFINE e == Head(copy.events)
             from == Source(e.side)
             n == CopyLength(Len(from))
             t == SubSeq(from, 1, n)
             u == SubSeq(from, n + 1, Len(from))
  <1>1. /\ UNCHANGED <<command, goal, status, task, link, reply, signals, peer, faults,
                       client, answers, asked>>
        /\ pc = "copy" /\ copy.events # <<>> /\ pc' = "push"
        /\ e.side # "signal" /\ from # <<>>
        /\ copy' = [copy EXCEPT !.holding = t]
        /\ IF e.side = "client"
           THEN stdin' = [stdin EXCEPT !.pipe = u] /\ server' = server
           ELSE server' = [server EXCEPT !.down = u] /\ stdin' = stdin
    BY DEF CopyRead
  <1>2. command = "direct" /\ Copying /\ TypeOK
    BY <1>1 DEF Copies, DirectInv
  <1>3. /\ e = copy.events[1] /\ 1 \in 1..Len(copy.events) /\ e \in Events
        /\ e.side \in {"client", "server"}
    <2>1. e = copy.events[1] /\ 1 \in 1..Len(copy.events) /\ e \in Events
      BY <1>1, <1>2, WindowTypes, HeadTailProperties
    <2> HIDE DEF e
    <2> QED
      BY <1>1, <2>1 DEF Events
  <1>4. copy.holding = <<>>
    BY <1>1, <1>2 DEF Copying, HoldsWhilePushing
  <1>5. ASSUME NEW S, from \in Seq(S)
        PROVE  /\ n \in 0..Len(from) /\ n <= CopySize /\ (Len(from) <= CopySize => u = <<>>)
               /\ t \in Seq(S) /\ u \in Seq(S) /\ Len(t) = n /\ Len(u) = Len(from) - n
               /\ Len(u) <= Len(from)
    <2> DEFINE k == Len(from)
    <2>1. k \in Nat
      BY <1>5, LenProperties
    <2>2. n \in 0..k /\ n <= CopySize /\ (k <= CopySize => n = k)
      <3> HIDE DEF from
      <3> QED
        BY <2>1, CopyLengthType
    <2>3. t \in Seq(S) /\ u \in Seq(S) /\ Len(t) = n /\ Len(u) = k - n
      <3> HIDE DEF n, from
      <3> QED
        BY <1>5, <2>2, FromCut
    <2>4. n = k => u = <<>>
      <3> HIDE DEF u, n, k
      <3> QED
        BY <2>1, <2>2, <2>3, EmptySeq
    <2>5. Len(u) <= k
      <3> HIDE DEF u, n, k
      <3> QED
        BY <2>1, <2>2, <2>3
    <2> QED
      BY <2>2, <2>3, <2>4, <2>5
  <1>6. copy'.events = copy.events /\ copy'.holding = t
    BY <1>1, <1>2 DEF TypeOK
  <1>7. CASE e.side = "client"
    <2>1. from = stdin.pipe /\ from \in Seq(Requests)
      BY <1>2, <1>7, WindowTypes DEF Source
    <2>2. stdin' = [stdin EXCEPT !.pipe = u] /\ server' = server
      BY <1>1, <1>7
    <2>3. /\ n \in 0..Len(stdin.pipe) /\ n <= CopySize /\ (Len(stdin.pipe) <= CopySize => u = <<>>)
          /\ t \in Seq(Requests) /\ u \in Seq(Requests) /\ Len(t) = n
      BY <1>5, <2>1
    <2>4. Copied("no", server.got, server.up, t, u, Len(asked))
      <3>1. HeldFrom("client") = <<>>
        BY <1>4 DEF HeldFrom
      <3>2. Copied("no", server.got, server.up, <<>>, stdin.pipe, Len(asked))
        BY <1>2, <3>1 DEF Copying, CopiedUp
      <3>3. t = SubSeq(stdin.pipe, 1, n) /\ u = SubSeq(stdin.pipe, n + 1, Len(stdin.pipe))
        BY <2>1
      <3> HIDE DEF n, t, u
      <3>4. Copied("no", server.got, server.up, SubSeq(stdin.pipe, 1, n),
                   SubSeq(stdin.pipe, n + 1, Len(stdin.pipe)), Len(asked))
        BY <1>2, <2>3, <3>2, WindowTypes, CopiedRead
      <3> QED
        BY <3>3, <3>4
    <2> HIDE DEF t, u, n, from
    <2>5. stdin'.pipe = u /\ stdin'.closed = stdin.closed
      BY <1>2, <2>2 DEF TypeOK
    <2>6. HeldFrom("client")' = t /\ HeldFrom("server")' = <<>>
      BY <1>1, <1>6, <1>7 DEF HeldFrom
    <2>7. CopiedUp' /\ CopiedDown'
      <3>1. HeldFrom("server") = <<>>
        BY <1>4 DEF HeldFrom
      <3> QED
        BY <1>1, <1>2, <2>2, <2>4, <2>5, <2>6, <3>1 DEF Copying, CopiedUp, CopiedDown
    <2>8. EventsHold'
      <3>1. \A side : HungUp(side)' <=> HungUp(side)
        BY <2>2, <2>5 DEF HungUp
      <3>2. \A i : EventHolds(i) => EventHolds(i)'
        BY <1>1, <1>6, <2>2, <3>1 DEF EventHolds
      <3> QED
        BY <1>2, <1>6, <3>2 DEF Copying, EventsHold
    <2>9. LastRead'
      <3> SUFFICES ASSUME Len(asked) <= CopySize PROVE u = <<>>
        BY <1>1, <2>5 DEF LastRead
      <3> DEFINE a == Len(server.got)
                 b == Len(server.up)
                 c == Len(<<>>)
                 d == Len(stdin.pipe)
      <3>1. a \in Nat /\ b \in Nat /\ c = 0 /\ d \in Nat /\ Len(asked) \in Nat
        BY <1>2, WindowTypes, LenProperties
      <3>2. a + b + c + d = Len(asked)
        <4>1. HeldFrom("client") = <<>>
          BY <1>4 DEF HeldFrom
        <4> QED
          BY <1>2, <4>1 DEF Copying, CopiedUp, Copied, Counted
      <3>3. d <= CopySize => u = <<>>
        BY <2>3
      <3> HIDE DEF a, b, c, d
      <3> QED
        BY <3>1, <3>2, <3>3, ConstantTypes
    <2>10. TypeOK'
      <3>1. Len(t) <= CopySize
        BY <2>3
      <3>2. copy' \in [events : Seq(Events), holding : Seq(Requests) \cup Seq(Outputs)]
        BY <1>1, <1>2, <2>3 DEF TypeOK
      <3>3. stdin' \in [pipe : Seq(Requests), buffer : Seq(Requests), closed : BOOLEAN]
        BY <1>2, <2>2, <2>3 DEF TypeOK
      <3>4. /\ pc' = "push" /\ status' = status /\ client' = client /\ answers' = answers
            /\ server' = server /\ Len(copy'.holding) <= CopySize
        BY <1>1, <1>6, <2>2, <3>1
      <3> QED
        BY <1>1, <1>2, <3>2, <3>3, <3>4, CopyTyped, CopyTypes
    <2>11. HoldsSide'
      BY <1>1, <1>6, <1>7, <2>3 DEF HoldsSide
    <2> QED
      BY <1>1, <1>2, <1>6, <2>7, <2>8, <2>9, <2>10, <2>11
      DEF Copies, DirectInv, Copying, HoldsWhilePushing, EventsDiffer, HangUpIsDrained
  <1>8. CASE e.side = "server"
    <2>1. from = server.down /\ from \in Seq(Outputs) /\ from \in Seq(Answers)
      BY <1>2, <1>8, WindowTypes DEF Source
    <2>2. server' = [server EXCEPT !.down = u] /\ stdin' = stdin
      BY <1>1, <1>8
    <2>3. /\ n \in 0..Len(server.down) /\ n <= CopySize
          /\ t \in Seq(Outputs) /\ u \in Seq(Outputs) /\ Len(t) = n /\ Len(u) <= Len(server.down)
      BY <1>5, <2>1
    <2>4. Copied("n", answers, <<>>, t, u, server.sent)
      <3>1. HeldFrom("server") = <<>>
        BY <1>4 DEF HeldFrom
      <3>2. Copied("n", answers, <<>>, <<>>, server.down, server.sent)
        BY <1>2, <3>1 DEF Copying, CopiedDown
      <3>3. t = SubSeq(server.down, 1, n) /\ u = SubSeq(server.down, n + 1, Len(server.down))
        BY <2>1
      <3>4. server.down \in Seq(Answers)
        BY <2>1
      <3> HIDE DEF n, t, u, from
      <3>5. Copied("n", answers, <<>>, SubSeq(server.down, 1, n),
                   SubSeq(server.down, n + 1, Len(server.down)), server.sent)
        BY <1>2, <2>3, <3>2, <3>4, WindowTypes, CopiedRead
      <3> QED
        BY <3>3, <3>5
    <2> HIDE DEF t, u, n, from
    <2>5. /\ server'.down = u /\ server'.gone = server.gone /\ server'.up = server.up
          /\ server'.got = server.got /\ server'.sent = server.sent
      BY <1>2, <2>2 DEF TypeOK
    <2>6. HeldFrom("server")' = t /\ HeldFrom("client")' = <<>>
      BY <1>1, <1>6, <1>8 DEF HeldFrom
    <2>7. CopiedUp' /\ CopiedDown'
      <3>1. HeldFrom("client") = <<>>
        BY <1>4 DEF HeldFrom
      <3> QED
        BY <1>1, <1>2, <2>2, <2>4, <2>5, <2>6, <3>1 DEF Copying, CopiedUp, CopiedDown
    <2>8. EventsHold'
      <3>1. \A side : HungUp(side)' <=> HungUp(side)
        BY <2>2, <2>5 DEF HungUp
      <3>2. ASSUME NEW i \in 1..Len(copy.events) PROVE EventHolds(i)'
        <4>1. EventHolds(i)
          BY <1>2 DEF Copying, EventsHold
        <4>2. copy.events[i].side = "server" => i = 1
          BY <1>2, <1>3, <1>8 DEF Copying, EventsDiffer
        <4> QED
          BY <1>1, <1>6, <3>1, <4>1, <4>2 DEF EventHolds
      <3> QED
        BY <1>6, <3>2 DEF EventsHold
    <2>9. LastRead'
      BY <1>1, <1>6, <1>8 DEF LastRead
    <2>10. TypeOK'
      <3>1. Len(t) <= CopySize /\ Len(u) <= SocketSize
        <4>1. Len(server.down) \in Nat /\ Len(u) \in Nat /\ Len(server.down) <= SocketSize
          BY <1>2, <2>3, LenProperties DEF TypeOK
        <4> QED
          BY <2>3, <4>1, ConstantTypes
      <3>2. copy' \in [events : Seq(Events), holding : Seq(Requests) \cup Seq(Outputs)]
        BY <1>1, <1>2, <2>3 DEF TypeOK
      <3>3. server' \in [up : Seq(Requests), got : Seq(Requests), sent : 0..MaxReplies,
                         down : Seq(Outputs), gone : BOOLEAN]
        BY <1>2, <2>2, <2>3 DEF TypeOK
      <3>4. /\ pc' = "push" /\ status' = status /\ client' = client /\ answers' = answers
            /\ stdin' = stdin /\ Len(copy'.holding) <= CopySize
        BY <1>1, <1>6, <2>2, <3>1
      <3>5. Len(server'.up) <= SocketSize /\ Len(server'.down) <= SocketSize
        BY <1>2, <2>5, <3>1, CopyTyped
      <3> QED
        BY <1>1, <1>2, <3>2, <3>3, <3>4, <3>5, CopyTyped, CopyTypes
    <2>11. HoldsSide'
      BY <1>1, <1>6, <1>8, <2>3 DEF HoldsSide
    <2> QED
      BY <1>1, <1>2, <1>6, <2>7, <2>8, <2>9, <2>10, <2>11
      DEF Copies, DirectInv, Copying, HoldsWhilePushing, EventsDiffer, HangUpIsDrained
  <1> QED
    BY <1>3, <1>7, <1>8

\* The copy writes, as much as there is room for.
LEMMA WriteCopies ==
    ASSUME Copies, CopyWrite
    PROVE  Copies'
  <1> DEFINE e == Head(copy.events)
             held == copy.holding
  <1>1. PICK m \in 1..Minimum(Room, Len(held)) :
          /\ Put(SubSeq(held, 1, m))
          /\ copy' = [copy EXCEPT !.holding = AfterWrite(held, m)]
    BY DEF CopyWrite
  <1> DEFINE t == SubSeq(held, 1, m)
             w == AfterWrite(held, m)
  <1>2. /\ UNCHANGED <<command, pc, goal, status, task, link, reply, signals, peer,
                       faults, asked, stdin>>
        /\ pc = "push"
    BY DEF CopyWrite
  <1>3. command = "direct" /\ Copying /\ TypeOK
    BY <1>2 DEF Copies, DirectInv
  <1>4. copy.events # <<>> /\ e = copy.events[1] /\ 1 \in 1..Len(copy.events)
    BY <1>2, <1>3, WindowTypes, HeadTailProperties DEF Copying, HoldsSide
  <1>5. Room \in Int /\ Len(held) \in Nat /\ m \in 0..Len(held) /\ m <= Room /\ Len(held) <= CopySize
    <2>1. Len(held) \in Nat /\ Len(held) <= CopySize
      BY <1>3, LenProperties DEF TypeOK
    <2>2. Room \in Int
      <3>1. Len(server.up) \in Nat /\ client.unread \in Nat
        BY <1>3, WindowTypes, LenProperties, ConstantTypes DEF TypeOK
      <3> QED
        BY <3>1, ConstantTypes DEF Room
    <2> DEFINE k == Len(held)
    <2>3. m \in 1..Minimum(Room, k) /\ k \in Nat
      BY <2>1
    <2> HIDE DEF k
    <2>4. m \in 0..k /\ m <= Room
      BY <2>2, <2>3 DEF Minimum
    <2> QED
      BY <2>1, <2>2, <2>4 DEF k
  <1>6. ASSUME NEW S, held \in Seq(S)
        PROVE  t \in Seq(S) /\ Len(t) = m /\ w \in Seq(S) /\ Len(w) = Len(held) - m /\ Len(w) <= CopySize
    <2>1. t \in Seq(S) /\ Len(t) = m
      <3> HIDE DEF held
      <3> QED
        BY <1>5, <1>6, FromCut
    <2>2. w \in Seq(S) /\ Len(w) = Len(held) - m
      <3> HIDE DEF held
      <3> QED
        BY <1>5, <1>6, AfterWriteType
    <2>3. Len(w) <= CopySize
      <3> HIDE DEF held, w
      <3> QED
        BY <1>5, <2>2, ConstantTypes
    <2> QED
      BY <2>1, <2>2, <2>3
  <1>7. copy'.events = copy.events /\ copy'.holding = w
    BY <1>1, <1>3 DEF TypeOK
  <1>8. CASE e.side = "client"
    <2>1. held \in Seq(Requests)
      BY <1>2, <1>3, <1>8 DEF Copying, HoldsSide
    <2> DEFINE up == server.up \o t
    <2>2. server' = [server EXCEPT !.up = up] /\ client' = client /\ answers' = answers
      BY <1>1, <1>8 DEF Put
    <2>3. t \in Seq(Requests) /\ Len(t) = m /\ w \in Seq(Requests) /\ Len(w) <= CopySize
      BY <1>6, <2>1
    <2>4. Copied("no", server.got, up, w, stdin.pipe, Len(asked))
      <3>1. HeldFrom("client") = held
        BY <1>4, <1>8 DEF HeldFrom
      <3>2. Copied("no", server.got, server.up, held, stdin.pipe, Len(asked))
        BY <1>3, <3>1 DEF Copying, CopiedUp
      <3> HIDE DEF held
      <3> QED
        BY <1>3, <1>5, <2>1, <3>2, WindowTypes, CopiedUpwards
    <2> HIDE DEF held, w
    <2>5. up \in Seq(Requests) /\ Len(up) <= SocketSize
      <3> HIDE DEF t
      <3>1. up \in Seq(Requests) /\ Len(up) = Len(server.up) + Len(t)
        BY <1>3, <2>3, WindowTypes, ConcatProperties
      <3>2. m <= SocketSize - Len(server.up)
        BY <1>5, <1>8 DEF Room
      <3>3. Len(server.up) \in Nat /\ m \in Nat
        BY <1>3, <1>5, WindowTypes, LenProperties
      <3> HIDE DEF up
      <3> QED
        BY <2>3, <3>1, <3>2, <3>3, ConstantTypes
    <2> HIDE DEF up, t
    <2>6. /\ server'.up = up /\ server'.gone = server.gone /\ server'.down = server.down
          /\ server'.got = server.got /\ server'.sent = server.sent
      BY <1>3, <2>2 DEF TypeOK
    <2>7. HeldFrom("client")' = w /\ HeldFrom("server")' = <<>> /\ HeldFrom("server") = <<>>
      BY <1>4, <1>7, <1>8 DEF HeldFrom
    <2>8. CopiedUp' /\ CopiedDown'
      BY <1>2, <1>3, <2>2, <2>4, <2>6, <2>7 DEF Copying, CopiedUp, CopiedDown
    <2>9. EventsHold'
      <3>1. \A side : HungUp(side)' <=> HungUp(side)
        BY <1>2, <2>6 DEF HungUp
      <3>2. \A i : EventHolds(i) => EventHolds(i)'
        BY <1>2, <1>7, <2>6, <3>1 DEF EventHolds
      <3> QED
        BY <1>3, <1>7, <3>2 DEF Copying, EventsHold
    <2>10. TypeOK'
      <3>1. copy' \in [events : Seq(Events), holding : Seq(Requests) \cup Seq(Outputs)]
        BY <1>1, <1>3, <2>3 DEF TypeOK, w, held
      <3>2. server' \in [up : Seq(Requests), got : Seq(Requests), sent : 0..MaxReplies,
                         down : Seq(Outputs), gone : BOOLEAN]
        BY <1>3, <2>2, <2>5 DEF TypeOK
      <3>3. /\ pc' = "push" /\ status' = status /\ client' = client /\ answers' = answers
            /\ stdin' = stdin /\ Len(copy'.holding) <= CopySize
        BY <1>2, <1>7, <2>2, <2>3
      <3>4. Len(server'.up) <= SocketSize /\ Len(server'.down) <= SocketSize
        BY <1>3, <2>5, <2>6, CopyTyped
      <3> QED
        BY <1>2, <1>3, <3>1, <3>2, <3>3, <3>4, CopyTyped, CopyTypes
    <2>11. HoldsSide'
      BY <1>4, <1>7, <1>8, <2>3 DEF HoldsSide
    <2>12. LastRead'
      BY <1>2, <1>3, <1>7 DEF Copying, LastRead
    <2> QED
      BY <1>2, <1>3, <1>7, <2>8, <2>9, <2>10, <2>11, <2>12
      DEF Copies, DirectInv, Copying, HoldsWhilePushing, EventsDiffer, HangUpIsDrained
  <1>9. CASE e.side # "client"
    <2>0. e.side = "server" /\ held \in Seq(Outputs)
      BY <1>2, <1>3, <1>9 DEF Copying, HoldsSide
    <2> DEFINE out == answers \o t
    <2>2. /\ client' = [client EXCEPT !.unread = @ + Len(t)]
          /\ answers' = out /\ server' = server
      BY <1>1, <1>9 DEF Put
    <2>3. /\ t \in Seq(Outputs) /\ Len(t) = m /\ w \in Seq(Outputs) /\ Len(w) <= CopySize
          /\ t \in Seq(Answers)
      <3>1. t \in Seq(Outputs) /\ Len(t) = m /\ w \in Seq(Outputs) /\ Len(w) <= CopySize
        BY <1>6, <2>0
      <3> HIDE DEF t
      <3> QED
        BY <1>3, <3>1, WindowTypes
    <2>4. Copied("n", out, <<>>, w, server.down, server.sent)
      <3>1. HeldFrom("server") = held
        BY <1>4, <2>0 DEF HeldFrom
      <3>2. Copied("n", answers, <<>>, held, server.down, server.sent)
        BY <1>3, <3>1 DEF Copying, CopiedDown
      <3> HIDE DEF held
      <3>3. held \in Seq(Answers) /\ server.down \in Seq(Answers)
        BY <1>3, <2>0, WindowTypes
      <3> QED
        BY <1>3, <1>5, <3>2, <3>3, WindowTypes, CopiedDownwards
    <2> HIDE DEF held, w
    <2>5. out \in Seq(Answers)
      <3> HIDE DEF t
      <3> QED
        BY <1>3, <2>3, WindowTypes, ConcatProperties
    <2> HIDE DEF out, t
    <2>6. client' \in [unread : 0..PipeSize, gone : BOOLEAN] /\ client'.gone = client.gone
      <3>1. client.unread \in Nat /\ m <= PipeSize - client.unread /\ m \in Nat
        BY <1>3, <1>5, <1>9, ConstantTypes DEF TypeOK, Room
      <3>2. client.unread + m \in 0..PipeSize
        BY <3>1, ConstantTypes
      <3>3. client' = [client EXCEPT !.unread = client.unread + m]
        BY <2>2, <2>3
      <3> QED
        BY <1>3, <3>2, <3>3 DEF TypeOK
    <2>7. HeldFrom("server")' = w /\ HeldFrom("client")' = <<>> /\ HeldFrom("client") = <<>>
      BY <1>4, <1>7, <2>0 DEF HeldFrom
    <2>8. CopiedUp' /\ CopiedDown'
      BY <1>2, <1>3, <2>2, <2>4, <2>7 DEF Copying, CopiedUp, CopiedDown
    <2>9. EventsHold'
      <3>1. \A side : HungUp(side)' <=> HungUp(side)
        BY <1>2, <2>2 DEF HungUp
      <3>2. \A i : EventHolds(i) => EventHolds(i)'
        BY <1>2, <1>7, <2>2, <3>1 DEF EventHolds
      <3> QED
        BY <1>3, <1>7, <3>2 DEF Copying, EventsHold
    <2>10. TypeOK'
      <3>1. copy' \in [events : Seq(Events), holding : Seq(Requests) \cup Seq(Outputs)]
        BY <1>1, <1>3, <2>3 DEF TypeOK, w, held
      <3>2. /\ pc' = "push" /\ status' = status /\ stdin' = stdin /\ server' = server
            /\ client' \in Readers /\ answers' \in Seq(Answers) /\ Len(copy'.holding) <= CopySize
        BY <1>2, <1>7, <2>2, <2>3, <2>5, <2>6 DEF Readers
      <3> QED
        BY <1>2, <1>3, <3>1, <3>2, CopyTyped, CopyTypes
    <2>11. HoldsSide'
      BY <1>4, <1>7, <2>0, <2>3 DEF HoldsSide
    <2>12. LastRead'
      BY <1>2, <1>3, <1>7 DEF Copying, LastRead
    <2> QED
      BY <1>2, <1>3, <1>7, <2>8, <2>9, <2>10, <2>11, <2>12
      DEF Copies, DirectInv, Copying, HoldsWhilePushing, EventsDiffer, HangUpIsDrained
  <1> QED
    BY <1>8, <1>9

\* What was read is written, or cannot be.
LEMMA WrittenCopies ==
    ASSUME Copies, CopyWritten
    PROVE  Copies'
  <1> DEFINE e == Head(copy.events)
             ev == Tail(copy.events)
  <1>1. /\ UNCHANGED <<command, goal, task, link, reply, signals, peer, faults, client,
                       answers, asked, stdin, server>>
        /\ pc = "push" /\ (copy.holding = <<>> \/ Broken)
        /\ \/ /\ copy.holding # <<>> \/ e.hup
              /\ pc' = "exit" /\ status' = "ok" /\ copy' = copy
           \/ /\ copy.holding = <<>> /\ ~e.hup
              /\ pc' = "copy" /\ status' = status
              /\ copy' = [copy EXCEPT !.events = ev]
    BY DEF CopyWritten, Exit
  <1>2. command = "direct" /\ Copying /\ TypeOK
    BY <1>1 DEF Copies, DirectInv
  <1>3. /\ copy.events # <<>> /\ e = copy.events[1] /\ 1 \in 1..Len(copy.events) /\ e \in Events
        /\ Len(copy.events) \in Nat /\ ev \in Seq(Events) /\ Len(ev) = Len(copy.events) - 1
        /\ \A i \in 1..Len(ev) : ev[i] = copy.events[i + 1]
    <2>1. copy.events # <<>>
      BY <1>1, <1>2 DEF Copying, HoldsSide
    <2> QED
      BY <1>2, <2>1, WindowTypes, HeadTailProperties
  <1>4. EventHolds(1)
    BY <1>2, <1>3 DEF Copying, EventsHold
  <1>5. CASE pc' = "exit"
    <2>1. copy.holding # <<>> \/ e.hup
      BY <1>1, <1>5
    <2>2. TypeOK'
      <3>1. status' \in Codes
        BY <1>1, <1>5 DEF Codes
      <3> QED
        BY <1>1, <1>2, <1>5, <3>1, CopyTyped, CopyTypes
    <2>3. HangUpIsDrained'
      <3> SUFFICES ASSUME ~server.gone, ~client.gone, Len(asked) <= CopySize
                   PROVE  Len(server.got) + Len(server.up) = Len(asked)
        BY <1>1 DEF HangUpIsDrained
      <3>1. copy.holding = <<>> /\ e.hup
        BY <1>1, <2>1 DEF Broken
      <3>2. e.side = "client"
        BY <1>2, <1>3, <1>4, <3>1 DEF EventHolds, HungUp, Events
      <3>3. stdin.pipe = <<>>
        BY <1>1, <1>2, <3>1, <3>2 DEF Copying, LastRead
      <3>4. HeldFrom("client") = <<>>
        BY <3>1 DEF HeldFrom
      <3> DEFINE k == Len(server.got)
                 l == Len(server.up)
                 z == Len(<<>>)
      <3>5. k \in Nat /\ l \in Nat /\ z = 0
        BY <1>2, WindowTypes, LenProperties
      <3>6. k + l + z + z = Len(asked)
        BY <1>2, <3>3, <3>4 DEF Copying, CopiedUp, Copied, Counted
      <3> HIDE DEF k, l, z
      <3>7. k + l = Len(asked)
        BY <3>5, <3>6
      <3> QED
        BY <3>7 DEF k, l
    <2> QED
      BY <1>1, <1>2, <1>5, <2>2, <2>3 DEF Copies, DirectInv
  <1>6. CASE pc' = "copy"
    <2>1. copy.holding = <<>> /\ copy' = [copy EXCEPT !.events = ev] /\ status' = status
      BY <1>1, <1>6
    <2> HIDE DEF ev
    <2>2. copy'.events = ev /\ copy'.holding = <<>>
          /\ copy' \in [events : Seq(Events), holding : Seq(Requests) \cup Seq(Outputs)]
      BY <1>2, <1>3, <2>1 DEF TypeOK
    <2>3. TypeOK'
      <3>1. Len(copy'.holding) <= CopySize
        BY <1>2, <2>1, <2>2, CopyTyped
      <3> QED
        BY <1>1, <1>2, <1>6, <2>1, <2>2, <3>1, CopyTyped, CopyTypes
    <2>4. \A i \in 1..Len(ev) : i + 1 \in 1..Len(copy.events) /\ i + 1 > 1 /\ ev[i] = copy.events[i + 1]
      BY <1>3
    <2>5. EventsHold'
      <3>1. ASSUME NEW i \in 1..Len(ev) PROVE EventHolds(i)'
        <4>1. EventHolds(i + 1)
          BY <1>2, <2>4 DEF Copying, EventsHold
        <4> QED
          BY <1>1, <2>2, <2>4, <4>1 DEF EventHolds, HungUp
      <3> QED
        BY <2>2, <3>1 DEF EventsHold
    <2>6. EventsDiffer'
      <3>1. ASSUME NEW i \in 1..Len(ev), NEW j \in 1..Len(ev), ev[i].side = ev[j].side
            PROVE  i = j
        <4>1. i + 1 = j + 1
          BY <1>2, <2>4, <3>1 DEF Copying, EventsDiffer
        <4> QED
          BY <4>1
      <3> QED
        BY <2>2, <3>1 DEF EventsDiffer
    <2>7. /\ HeldFrom("client")' = <<>> /\ HeldFrom("server")' = <<>>
          /\ HeldFrom("client") = <<>> /\ HeldFrom("server") = <<>>
      BY <2>1, <2>2 DEF HeldFrom
    <2>8. CopiedUp' /\ CopiedDown'
      BY <1>1, <1>2, <2>7 DEF Copying, CopiedUp, CopiedDown
    <2>9. HoldsSide' /\ HoldsWhilePushing' /\ LastRead' /\ HangUpIsDrained'
      BY <1>6, <2>2 DEF HoldsSide, HoldsWhilePushing, LastRead, HangUpIsDrained
    <2> QED
      BY <1>1, <1>2, <1>6, <2>3, <2>5, <2>6, <2>8, <2>9 DEF Copies, DirectInv, Copying
  <1> QED
    BY <1>1, <1>5, <1>6

-----------------------------------------------------------------------------
(* The theorems.                                                           *)

\* The tool starts with nothing.
LEMMA InitCopies == Init => Copies
  <1> SUFFICES ASSUME Init PROVE Copies
    OBVIOUS
  <1>1. /\ command \in Commands /\ pc \in {"read", "begin"}
        /\ copy = [events |-> <<>>, holding |-> <<>>]
        /\ server = [up |-> <<>>, got |-> <<>>, sent |-> 0, down |-> <<>>, gone |-> FALSE]
        /\ stdin = [pipe |-> <<>>, buffer |-> <<>>, closed |-> FALSE]
        /\ asked = <<>> /\ answers = <<>> /\ status = "ok"
    BY DEF Init, NoCopy, NoServer
  <1>2. /\ \A S : <<>> \in Seq(S)
        /\ Len(<<>>) = 0 /\ \A i \in 1..Len(<<>>) : FALSE
    <2>1. \A S : <<>> \in Seq(S)
      BY EmptySeq
    <2>2. Len(<<>>) = 0
      BY EmptySeq
    <2> QED
      BY <2>1, <2>2
  <1>3. TypeOK
    <2>1. task \in Requests \cup {NoTask}
      BY ConstantTypes DEF Init, Requests, AllCallKinds, AllMethods
    <2>2. client \in Readers /\ faults \in 0..MaxFaults /\ answers \in Seq(Answers)
      BY <1>1, <1>2, ConstantTypes DEF Init, Readers
    <2>3. link \in Links /\ peer \in Peers
      BY NothingTypes DEF Init
    <2>4. CliTypes
      BY <1>1, <2>1, <2>2, <2>3 DEF Init, CliTypes, Codes
    <2>5. /\ asked \in Seq(AllCallKinds \cup Garbage)
          /\ stdin \in [pipe : Seq(Requests), buffer : Seq(Requests), closed : BOOLEAN]
      BY <1>1, <1>2
    <2>6. copy \in [events : Seq(Events), holding : Seq(Requests) \cup Seq(Outputs)]
      BY <1>1, <1>2
    <2>7. server \in [up : Seq(Requests), got : Seq(Requests), sent : 0..MaxReplies,
                      down : Seq(Outputs), gone : BOOLEAN]
      BY <1>1, <1>2, ConstantTypes
    <2>8. /\ Len(asked) <= MaxCalls /\ Len(server.up) <= SocketSize
          /\ Len(server.down) <= SocketSize /\ Len(copy.holding) <= CopySize
      BY <1>1, <1>2, ConstantTypes
    <2>9. OwnTypes
      BY <2>5, <2>6, <2>7, <2>8 DEF OwnTypes
    <2> QED
      BY <2>4, <2>9, TypeHalves
  <1>4. HeldFrom("client") = <<>> /\ HeldFrom("server") = <<>>
    BY <1>1 DEF HeldFrom
  <1>5. \A f : Copied(f, <<>>, <<>>, <<>>, <<>>, 0)
    BY <1>2 DEF Copied, Counted, Chained, From
  <1>6. CopiedUp /\ CopiedDown
    <2>1. Len(asked) = 0
      BY <1>1, <1>2
    <2> QED
      BY <1>1, <1>4, <1>5, <2>1 DEF CopiedUp, CopiedDown
  <1>7. EventsHold /\ EventsDiffer
    BY <1>1, <1>2 DEF EventsHold, EventsDiffer
  <1>8. HoldsSide /\ HoldsWhilePushing /\ LastRead /\ HangUpIsDrained
    BY <1>1 DEF HoldsSide, HoldsWhilePushing, LastRead, HangUpIsDrained
  <1>9. command = "direct" => pc = "begin"
    BY DEF Init
  <1> QED
    BY <1>1, <1>3, <1>6, <1>7, <1>8, <1>9 DEF Copies, DirectInv, Copying

\* The tool's own steps keep the types of what belongs to the bridges.
LEMMA OwnUntouched ==
    ASSUME TypeOK, CliTypes', UNCHANGED cliOnly
    PROVE  TypeOK'
  BY TypeHalves, TypeHalvesNext DEF OwnTypes, cliOnly

\* Every step keeps Copies: one case for each part of Next.
LEMMA NextCopies == Copies /\ [Next]_vars => Copies'
  <1> SUFFICES ASSUME Copies, [Next]_vars PROVE Copies'
    OBVIOUS
  <1>0. TypeOK /\ CliTypes
    BY TypeHalves DEF Copies
  <1>1. CASE (CliSteps \/ LoopSignal \/ LoopTimeout) /\ UNCHANGED cliOnly
    <2>1. CliTypes'
      BY <1>0, <1>1, CallTypes, LoopTypes, ReturnTypes DEF CliSteps
    <2> QED
      BY <1>0, <1>1, <2>1, OwnUntouched, ToolKeepsCopies
  <1>2. CASE BridgeSteps \/ BridgeSignal
    BY <1>0, <1>2, BridgeTypes, ToolKeepsCopies
  <1>3. CASE CopySteps
    BY <1>3, BeginCopies, WaitCopies, EndCopies, ReadCopies, WriteCopies, WrittenCopies
    DEF CopySteps
  <1>4. CASE (PeerSteps \/ SendSignal) /\ UNCHANGED cliOnly
    <2>1. TypeOK'
      BY <1>0, <1>4, PeerTypes, OwnUntouched
    <2>2. UNCHANGED <<command, pc, status, client, answers>> /\ signals \subseteq signals'
      <3>1. CASE PeerSteps
        BY <3>1 DEF PeerSteps, PeerReads, PeerAnswers, PeerReplies, PeerCloses, PeerErrs
      <3>2. CASE SendSignal
        BY <3>2 DEF SendSignal
      <3> QED
        BY <1>4, <3>1, <3>2
    <2> QED
      BY <1>4, <2>1, <2>2, CopyUndisturbed DEF cliOnly
  <1>5. CASE Client
    <2>1. TypeOK'
      BY <1>0, <1>5, ClientTypes
    <2>2. ASSUME NEW kind, NEW method, Ask(kind, method) PROVE Copies'
      BY <2>1, <2>2, AskCopies
    <2>3. CASE CloseIn \/ Leave \/ ReadOut
      <3>1. /\ UNCHANGED <<command, pc, status, asked, copy, answers, server, signals>>
            /\ stdin'.pipe = stdin.pipe /\ (stdin.closed => stdin'.closed)
            /\ client.gone => client'.gone
        BY <1>0, <2>3 DEF CloseIn, Leave, ReadOut, directOnly, TypeOK
      <3> QED
        BY <2>1, <3>1, CopyUndisturbed
    <2> QED
      BY <1>5, <2>2, <2>3 DEF Client
  <1>6. CASE DirectEnv
    <2>1. TypeOK'
      BY <1>0, <1>6, ServerTypes DEF DirectEnv
    <2>2. CASE ServerReads \/ ServerSends
      BY <1>6, <2>1, <2>2, ServerCopies DEF DirectEnv, ToolRuns
    <2>3. CASE ServerCloses
      <3>1. /\ UNCHANGED <<command, pc, status, asked, copy, answers, stdin, client, signals>>
            /\ server'.up = server.up /\ server'.got = server.got /\ server'.down = server.down
            /\ server'.sent = server.sent /\ server'.gone
        BY <1>0, <2>3 DEF ServerCloses, TypeOK
      <3> QED
        BY <2>1, <3>1, CopyUndisturbed
    <2> QED
      BY <1>6, <2>2, <2>3 DEF DirectEnv
  <1>7. CASE UNCHANGED vars
    <2>1. /\ UNCHANGED <<command, pc, goal, status, task, link, reply, signals, peer, faults,
                         client, answers, asked, stdin, copy, server>>
      BY <1>7 DEF vars
    <2>2. TypeOK'
      BY <1>0, <2>1 DEF TypeOK
    <2> QED
      BY <2>1, <2>2, CopyUndisturbed
  <1> QED
    BY <1>1, <1>2, <1>3, <1>4, <1>5, <1>6, <1>7 DEF Next, Program, Signaled, Services

\* The invariant of the copies holds.
THEOREM CopiesAlways == Spec => []Copies
  BY InitCopies, NextCopies, PTL DEF Spec

\* Every variable of the tool and of the bridges has its type; no socket, pipe
\* or buffer holds more than its size.
THEOREM BridgeIsTyped == Spec => []TypeOK
  <1>1. Copies => TypeOK
    BY DEF Copies
  <1> QED
    BY <1>1, CopiesAlways, PTL

\* varlink_stream_bridge neither loses, nor repeats, nor reorders what it copies,
\* if write(2) to a blocking descriptor takes everything it is given.
THEOREM BridgeCopiesAll ==
    ASSUME ~ShortWrites
    PROVE  Spec => []CopyKeepsAll
  <1>1. Copies => CopyKeepsAll
    <2> SUFFICES ASSUME Copies, command = "direct", pc # "exit"
                 PROVE  LET up   == server.got \o server.up \o HeldFrom("client") \o stdin.pipe
                            down == answers \o HeldFrom("server") \o server.down
                        IN  /\ Len(up) = Len(asked) /\ \A i \in DOMAIN up : up[i].no = i
                            /\ Len(down) = server.sent /\ \A i \in DOMAIN down : down[i].n = i
      BY DEF CopyKeepsAll
    <2>1. TypeOK /\ Copying /\ pc \in {"begin", "copy", "push"}
      BY DEF Copies, DirectInv
    <2> DEFINE hc == HeldFrom("client")
               hs == HeldFrom("server")
               up == server.got \o server.up \o hc \o stdin.pipe
               down == answers \o hs \o server.down
               full == answers \o <<>> \o hs \o server.down
    <2>2. hc \in Seq(Requests) /\ hs \in Seq(Answers)
      <3>1. CASE pc = "push"
        BY <2>1, <3>1, WindowTypes DEF HeldFrom, Copying, HoldsSide
      <3>2. CASE pc # "push"
        BY <2>1, <3>2, WindowTypes DEF HeldFrom, Copying, HoldsWhilePushing
      <3> QED
        BY <3>1, <3>2
    <2>3. Len(up) = Len(asked) /\ \A i \in 1..Len(asked) : up[i]["no"] = i
      <3>1. Copied("no", server.got, server.up, hc, stdin.pipe, Len(asked))
        BY <2>1 DEF Copying, CopiedUp
      <3>2. /\ server.got \in Seq(Requests) /\ server.up \in Seq(Requests)
            /\ stdin.pipe \in Seq(Requests)
        BY <2>1, WindowTypes
      <3> HIDE DEF hc
      <3> QED
        BY <2>2, <3>1, <3>2, CopiedConcat
    <2>4. Len(full) = server.sent /\ \A i \in 1..server.sent : full[i]["n"] = i
      <3>1. Copied("n", answers, <<>>, hs, server.down, server.sent)
        BY <2>1 DEF Copying, CopiedDown
      <3>2. server.down \in Seq(Answers) /\ <<>> \in Seq(Answers) /\ answers \in Seq(Answers)
        BY <2>1, WindowTypes
      <3> HIDE DEF hs
      <3> QED
        BY <2>2, <3>1, <3>2, CopiedConcat
    <2>5. full = down
      <3>1. answers \o <<>> = answers
        BY <2>1, WindowTypes, ConcatEmptySeq
      <3> QED
        BY <3>1
    <2>6. DOMAIN up = 1..Len(up) /\ DOMAIN down = 1..Len(down)
      <3>1. up \in Seq(Requests)
        <4> HIDE DEF hc
        <4> QED
          BY <2>1, <2>2, WindowTypes, ConcatProperties
      <3>2. down \in Seq(Answers)
        <4> HIDE DEF hs
        <4> QED
          BY <2>1, <2>2, WindowTypes, ConcatProperties
      <3> HIDE DEF up, down
      <3> QED
        BY <3>1, <3>2, LenProperties
    <2> HIDE DEF up, down, full
    <2>7. /\ Len(up) = Len(asked) /\ \A i \in DOMAIN up : up[i].no = i
          /\ Len(down) = server.sent /\ \A i \in DOMAIN down : down[i].n = i
      BY <2>3, <2>4, <2>5, <2>6
    <2> QED
      BY <2>7 DEF up, down, hc, hs
  <1> QED
    BY <1>1, CopiesAlways, PTL

\* When the client of a direct bridge shuts down standard in, everything that it
\* sent reaches the socket of the service, if it fits in the buffer of the copy.
THEOREM BridgeDrains == Spec => []HangUpIsDrained
  <1>1. Copies => HangUpIsDrained
    BY DEF Copies, DirectInv, HangUpIsDrained
  <1> QED
    BY <1>1, CopiesAlways, PTL

-----------------------------------------------------------------------------
(* The inductive invariant of the calls and of the exit code.              *)

\* The messages in a window are the ones behind the first k.
Known(s, k) == \A i \in 1..Len(s) : s[i].no = k + i /\ s[i].kind = asked[k + i]

\* Nothing that the client sent is lost before it is taken, and nothing is
\* answered before.
InboxKnown ==
    /\ Taken \in Nat
    /\ Known(stdin.buffer, Taken) /\ Known(stdin.pipe, Taken + Len(stdin.buffer))
    /\ \A j \in 1..Len(answers) : answers[j].call \in 1..Taken

Looking == {"read", "wait"}
Working == {"connect", "write", "loop", "handle", "return", "refuse", "refused"}

\* The call that the bridge works on is the one that it took last.
TaskIsLast ==
    /\ pc \in Looking => task = NoTask /\ status = "ok"
    /\ pc \in Working => /\ Taken > 0 /\ task.no = Taken /\ task.kind = asked[Taken]
                        /\ task.kind \in CallKinds
    /\ pc \in {"refuse", "refused"} => status \in {"panic", "invalid"}

Done(i) == asked[i] \in {"plain", "more", "both"} => Answered(i)

\* The bridge looks at its client again only when it is done with what it took.
OthersAreDone ==
    ~client.gone =>
       /\ pc \in Looking => \A i \in 1..Taken : Done(i)
       /\ pc \in Working => \A i \in 1..(Taken - 1) : Done(i)
       /\ pc = "return" /\ goal = "call" /\ status = "ok" => Done(Taken)

BridgeInv ==
    pc # "exit" => pc \in Looking \cup Working /\ InboxKnown /\ TaskIsLast /\ OthersAreDone

\* The last reply to a call is what ends it.
Calling == \/ pc \in {"begin", "connect", "write", "loop", "handle", "refuse"}
           \/ pc = "return" /\ (status # "ok" \/ goal = "resolve")
CallInv == Calling => ~Answered(task.no)

\* There is a connection while the tool waits for something on it, and none
\* before and after.
LinkIsOpen == pc \in {"write", "loop", "handle"} => link.open
LinkIsFree == pc \notin {"write", "loop", "handle", "return"}
                => link = NoLink /\ peer.replies = <<>>

\* What is in its socket was sent to it for this call, and is waited for only
\* when there can be a reply.
KnownReplies == LastReplies \cup {"continues"} \cup Noise
RepliesKnown == \A i \in 1..Len(peer.replies) : peer.replies[i] \in KnownReplies
WaitsForReply == link.pending => Kind # "oneway"

LinkInv == LinkIsOpen /\ LinkIsFree /\ RepliesKnown /\ WaitsForReply

\* The client takes standard in with it.
GoneIsClosed == client.gone => stdin.closed

\* Only a bridge looks for calls and refuses them.
OnlyBridges == pc \in Looking \cup {"refuse", "refused"} => command = "bridge"

\* What help got for a reply is what was sent to it in this call.
HelpInv ==
    pc # "exit" =>
       /\ pc \in {"begin", "connect", "write", "loop", "handle", "return"}
       /\ pc \in {"begin", "connect", "write"} => reply \in {"none", "address"}
       /\ pc \in {"loop", "handle"} => reply = "none"
       /\ pc = "return" => IF status = "ok" THEN reply \in LastReplies ELSE reply = "none"
       /\ status # "remote"

Outcome == /\ Copies /\ LinkInv /\ OnlyBridges /\ GoneIsClosed
           /\ command = "bridge" => BridgeInv
           /\ command \in {"bridge", "call"} => CallInv
           /\ command = "help" => HelpInv
           /\ ExitTellsOutcome

-----------------------------------------------------------------------------
(* Answers.                                                                *)

\* What is answered depends on the answers only.
LEMMA AnsweredSame ==
    ASSUME answers' = answers
    PROVE  \A i : Answered(i)' <=> Answered(i)
  BY DEF Answered

\* A last reply answers the call that it is for, if there is somebody to read it.
LEMMA AnsweredByPrint ==
    ASSUME TypeOK, NEW kind \in ReplyKinds, Print_(kind)
    PROVE  /\ \A i : Answered(i)' <=> \/ Answered(i)
                                      \/ ~client.gone /\ kind # "continues" /\ i = task.no
           /\ \A j \in 1..Len(answers') : \/ answers'[j].call = task.no
                                          \/ \E l \in 1..Len(answers) : answers'[j].call = answers[l].call
           /\ client'.gone = client.gone
  <1>0. CliTypes
    BY TypeHalves
  <1>1. CASE client.gone
    <2>1. answers' = answers /\ client' = client
      BY <1>1 DEF Print_
    <2> QED
      BY <1>1, <2>1, AnsweredSame
  <1>2. CASE ~client.gone
    <2> DEFINE a == [call |-> task.no, n |-> Given(task.no) + 1, kind |-> kind]
               n == Len(answers)
               out == Append(answers, a)
    <2>1. answers' = out /\ client'.gone = client.gone
      BY <1>0, <1>2, PrintType DEF Print_
    <2>2. a \in Answers
      BY <1>0, GivenType, TaskType DEF Answers
    <2>3. a.call = task.no /\ a.kind = kind
      OBVIOUS
    <2> HIDE DEF a
    <2>4. /\ answers \in Seq(Answers) /\ n \in Nat /\ DOMAIN answers = 1..n
          /\ out \in Seq(Answers) /\ Len(out) = n + 1 /\ DOMAIN out = 1..(n + 1)
          /\ out[n + 1] = a /\ \A j \in 1..n : out[j] = answers[j]
      <3>1. answers \in Seq(Answers)
        BY <1>0 DEF CliTypes
      <3>2. out \in Seq(Answers) /\ Len(out) = n + 1
        BY <2>2, <3>1, AppendProperties
      <3>3. out[n + 1] = a /\ \A j \in 1..n : out[j] = answers[j]
        BY <2>2, <3>1, AppendProperties
      <3> HIDE DEF out
      <3> QED
        BY <3>1, <3>2, <3>3, LenProperties
    <2> HIDE DEF out, n
    <2>5. \A j \in 1..(n + 1) : j \in 1..n \/ j = n + 1
      BY <2>4
    <2>6. n + 1 \in 1..(n + 1) /\ \A j \in 1..n : j \in 1..(n + 1)
      BY <2>4
    <2>7. ASSUME NEW i
          PROVE  Answered(i)' <=> Answered(i) \/ (kind # "continues" /\ i = task.no)
      <3>1. Answered(i)' <=> \E j \in 1..(n + 1) : out[j].call = i /\ out[j].kind # "continues"
        BY <2>1, <2>4 DEF Answered
      <3>2. Answered(i) <=> \E j \in 1..n : answers[j].call = i /\ answers[j].kind # "continues"
        BY <2>4 DEF Answered
      <3> QED
        BY <2>3, <2>4, <2>5, <2>6, <3>1, <3>2
    <2>8. ASSUME NEW j \in 1..Len(answers')
          PROVE  \/ answers'[j].call = task.no
                 \/ \E l \in 1..Len(answers) : answers'[j].call = answers[l].call
      <3>1. answers'[j] = out[j] /\ j \in 1..(n + 1)
        BY <2>1, <2>4
      <3>2. CASE j = n + 1
        BY <2>3, <2>4, <3>1, <3>2
      <3>3. CASE j \in 1..n
        BY <2>4, <3>1, <3>3 DEF n
      <3> QED
        BY <2>5, <3>1, <3>2, <3>3
    <2> QED
      BY <1>2, <2>1, <2>7, <2>8
  <1> QED
    BY <1>1, <1>2

-----------------------------------------------------------------------------
(* The connection.                                                         *)

\* A tool that waits has a connection.
LEMMA ToolKeepsLink ==
    ASSUME TypeOK, LinkIsOpen,
           CliSteps \/ LoopSignal \/ LoopTimeout \/ BridgeSteps \/ BridgeSignal \/ CopySteps
    PROVE  LinkIsOpen'
  <1>0. link \in Links
    BY TypeHalves DEF CliTypes
  <1>1. ASSUME pc' \notin {"write", "loop", "handle"} PROVE LinkIsOpen'
    BY <1>1 DEF LinkIsOpen
  <1>2. CASE Begin \/ ConnectFails \/ WriteNothing \/ LoopTimeout \/ HandleNoise
             \/ ResolveReturn \/ CallReturn \/ HelpReturn
    BY <1>1, <1>2 DEF Begin, ConnectFails, WriteNothing, LoopTimeout, HandleNoise, ResolveReturn,
                      CallReturn, HelpReturn, Refuse, Exit, Returns
  <1>3. CASE Connect
    BY <1>3 DEF Connect, LinkIsOpen, NoLink
  <1>4. CASE WriteCall
    <2>1. link.open /\ link'.open = link.open
      BY <1>0, <1>4 DEF WriteCall, LinkIsOpen, Links
    <2> QED
      BY <2>1 DEF LinkIsOpen
  <1>5. CASE LoopSignal
    BY <1>1, <1>5 DEF LoopSignal, OnSignal, Returns
  <1>6. CASE LoopEvent
    <2>1. pc = "loop" /\ link'.open = link.open
      BY <1>0, <1>6 DEF LoopEvent, Links
    <2> QED
      BY <2>1 DEF LinkIsOpen
  <1>7. CASE HandleReply
    <2>1. pc = "handle" /\ (link'.open \/ pc' = "return")
      BY <1>7 DEF HandleReply, Returns
    <2> QED
      BY <2>1 DEF LinkIsOpen
  <1>8. CASE HandleNothing
    <2>1. pc = "handle" /\ link'.open = link.open
      BY <1>0, <1>8 DEF HandleNothing, Links
    <2> QED
      BY <2>1 DEF LinkIsOpen
  <1>9. CASE BridgeSteps \/ BridgeSignal
    BY <1>1, <1>9 DEF BridgeSteps, BridgeSignal, BridgeRead, BridgeWake, BridgeTake, Forward,
                      BridgeRefuse, BridgeGivesUp, BridgeReturn, Exit
  <1>10. CASE CopySteps
    BY <1>1, <1>10 DEF CopySteps, CopyBegin, CopyWait, CopyEnd, CopyRead, CopyWrite, CopyWritten, Exit
  <1> QED
    BY <1>2, <1>3, <1>4, <1>5, <1>6, <1>7, <1>8, <1>9, <1>10 DEF CliSteps

\* Another message is one of them, too.
LEMMA ReplyKnown ==
    ASSUME TypeOK, TypeOK', RepliesKnown, UNCHANGED <<goal, command>>,
           NEW kind \in KnownReplies, peer'.replies = Append(peer.replies, kind)
    PROVE  RepliesKnown'
  <1> DEFINE s == peer.replies
             t == Append(s, kind)
             R == ReplyKinds \cup Noise
  <1>1. s \in Seq(R) /\ Len(s) \in Nat
    BY LenProperties DEF TypeOK
  <1>2. kind \in R
    BY DEF KnownReplies, LastReplies, ReplyKinds
  <1> HIDE DEF R
  <1>3. Len(t) = Len(s) + 1 /\ t[Len(s) + 1] = kind
    BY <1>1, <1>2, AppendProperties
  <1>4. \A i \in 1..Len(s) : t[i] = s[i]
    BY <1>1, <1>2, AppendProperties
  <1>5. \A i \in 1..Len(s) : s[i] \in KnownReplies
    BY DEF RepliesKnown
  <1>6. peer'.replies = t /\ KnownReplies' = KnownReplies
    BY DEF KnownReplies, LastReplies
  <1> HIDE DEF s, t
  <1>7. \A i \in 1..Len(t) : i = Len(s) + 1 \/ i \in 1..Len(s)
    BY <1>1, <1>3
  <1> QED
    BY <1>3, <1>4, <1>5, <1>6, <1>7 DEF RepliesKnown

\* What is left of them after one is read is known, and so is that one.
LEMMA ReplyTaken ==
    ASSUME TypeOK, RepliesKnown, peer.replies # <<>>
    PROVE  /\ Head(peer.replies) \in KnownReplies
           /\ \A i \in 1..Len(Tail(peer.replies)) : Tail(peer.replies)[i] \in KnownReplies
  <1> DEFINE s == peer.replies
             t == Tail(s)
             h == Head(s)
  <1>1. s \in Seq(ReplyKinds \cup Noise) /\ Len(s) \in Nat
    BY LenProperties DEF TypeOK
  <1>2. /\ Len(s) > 0 /\ h = s[1] /\ Len(t) = Len(s) - 1
        /\ \A i \in 1..Len(t) : t[i] = s[i + 1]
    BY <1>1, HeadTailProperties, EmptySeq
  <1>3. \A i \in 1..Len(s) : s[i] \in KnownReplies
    BY DEF RepliesKnown
  <1> HIDE DEF s, t, h
  <1>4. 1 \in 1..Len(s) /\ \A i \in 1..Len(t) : i + 1 \in 1..Len(s)
    BY <1>1, <1>2
  <1> QED
    BY <1>2, <1>3, <1>4 DEF s, t, h

\* Every step keeps what is known of the connection.
LEMMA NextLinkInv ==
    ASSUME TypeOK, TypeOK', LinkInv, command' = command, Next
    PROVE  LinkInv'
  <1> DEFINE Used == {"write", "loop", "handle", "return"}
             Rest == LinkIsFree /\ RepliesKnown /\ WaitsForReply
  <1>0. /\ LinkIsOpen /\ LinkIsFree /\ RepliesKnown /\ WaitsForReply
        /\ NoLink.open = FALSE /\ NoLink.pending = FALSE /\ NoPeer.replies = <<>> /\ Len(<<>>) = 0
        /\ link \in Links /\ peer \in Peers
    BY EmptySeq, TypeHalves DEF LinkInv, NoLink, NoPeer, CliTypes
  <1>open. LinkIsOpen'
    <2>1. CASE CliSteps \/ LoopSignal \/ LoopTimeout \/ BridgeSteps \/ BridgeSignal \/ CopySteps
      BY <1>0, <2>1, ToolKeepsLink
    <2>2. CASE PeerSteps \/ SendSignal \/ Client \/ DirectEnv
      <3>1. UNCHANGED <<pc, link>>
        BY <2>2 DEF PeerSteps, PeerReads, PeerAnswers, PeerReplies, PeerErrs, PeerCloses,
                    SendSignal, Client, Ask, CloseIn, Leave, ReadOut, DirectEnv, ServerReads,
                    ServerSends, ServerCloses
      <3> QED
        BY <1>0, <3>1 DEF LinkIsOpen
    <2> QED
      BY <2>1, <2>2 DEF Next, Program, Signaled, Services
  <1> SUFFICES Rest'
    BY <1>open DEF LinkInv
  <1>1. ASSUME link' = NoLink, peer'.replies = <<>> PROVE Rest'
    BY <1>0, <1>1 DEF LinkIsFree, RepliesKnown, WaitsForReply
  <1>2. ASSUME pc \notin Used, UNCHANGED <<link, peer>> PROVE Rest'
    BY <1>0, <1>1, <1>2 DEF LinkIsFree
  <1>3. UNCHANGED <<goal, task>> => Kind' = Kind
    BY DEF Kind
  <1>4. UNCHANGED goal /\ peer'.replies = peer.replies => RepliesKnown'
    BY <1>0 DEF RepliesKnown, KnownReplies, LastReplies
  <1>5. ASSUME pc' \in Used, UNCHANGED <<goal, task>>, peer'.replies = peer.replies,
               link'.pending => Kind # "oneway"
        PROVE  Rest'
    BY <1>3, <1>4, <1>5 DEF LinkIsFree, WaitsForReply
  <1>6. CASE Begin \/ ConnectFails
    BY <1>2, <1>6 DEF Begin, ConnectFails
  <1>7. CASE Connect
    <2>1. /\ pc' = "write" /\ link'.pending = FALSE /\ peer'.replies = <<>>
      BY <1>7 DEF Connect, NoLink, NoPeer
    <2> QED
      BY <1>0, <2>1 DEF LinkIsFree, RepliesKnown, WaitsForReply
  <1>8. CASE WriteCall
    <2>1. pc' \in Used /\ UNCHANGED <<goal, task>>
      BY <1>8 DEF WriteCall
    <2>2. peer'.replies = peer.replies
      BY <1>0, <1>8 DEF WriteCall, Peers
    <2>3. link'.pending => Kind # "oneway"
      BY <1>0, <1>8 DEF WriteCall, Links
    <2> QED
      BY <1>5, <2>1, <2>2, <2>3
  <1>9. CASE LoopSignal \/ LoopTimeout \/ HandleNoise
    BY <1>0, <1>5, <1>9 DEF LoopSignal, OnSignal, LoopTimeout, HandleNoise, Returns, WaitsForReply
  <1>10. CASE LoopEvent \/ HandleNothing
    <2>1. pc' \in Used /\ UNCHANGED <<goal, task>>
      BY <1>10 DEF LoopEvent, HandleNothing, Returns
    <2>2. peer'.replies = peer.replies /\ link'.pending = link.pending
      BY <1>0, <1>10 DEF LoopEvent, HandleNothing, Peers, Links
    <2> QED
      BY <1>0, <1>5, <2>1, <2>2 DEF WaitsForReply
  <1>11. CASE HandleReply
    <2>1. /\ peer.replies # <<>> /\ UNCHANGED <<goal, task>> /\ pc' \in Used
      BY <1>11 DEF HandleReply, Returns
    <2>2. peer'.replies = Tail(peer.replies)
      BY <1>0, <1>11 DEF HandleReply, Peers
    <2>3. link'.pending => link.pending
      BY <1>0, <1>11 DEF HandleReply, Callback, Closed, Links
    <2>4. RepliesKnown'
      BY <1>0, <2>1, <2>2, ReplyTaken DEF RepliesKnown, KnownReplies, LastReplies
    <2> QED
      BY <1>0, <1>3, <2>1, <2>3, <2>4 DEF LinkIsFree, WaitsForReply
  <1>12. CASE WriteNothing \/ ResolveReturn \/ CallReturn \/ HelpReturn \/ BridgeReturn
    BY <1>0, <1>1, <1>12 DEF WriteNothing, ResolveReturn, CallReturn, HelpReturn, BridgeReturn,
                             FreeConnection
  <1>13. CASE BridgeRead \/ BridgeWake \/ BridgeTake \/ BridgeRefuse \/ BridgeGivesUp \/ BridgeSignal
    BY <1>2, <1>13 DEF BridgeRead, BridgeWake, BridgeTake, BridgeRefuse, BridgeGivesUp, BridgeSignal
  <1>14. CASE CopySteps
    BY <1>2, <1>14 DEF CopySteps, CopyBegin, CopyWait, CopyEnd, CopyRead, CopyWrite, CopyWritten
  <1>15. ASSUME UNCHANGED <<pc, goal, task, link>>, RepliesKnown', pc \notin Used => UNCHANGED peer
         PROVE  Rest'
    BY <1>0, <1>3, <1>15 DEF LinkIsFree, WaitsForReply
  <1>16. CASE SendSignal \/ Client \/ DirectEnv
    <2>1. UNCHANGED <<pc, goal, task, link, peer>>
      BY <1>16 DEF SendSignal, Client, Ask, CloseIn, Leave, ReadOut, DirectEnv, ServerReads,
                   ServerSends, ServerCloses
    <2> QED
      BY <1>4, <1>15, <2>1
  <1>17. CASE PeerSteps
    <2>1. UNCHANGED <<pc, goal, task, link>> /\ link.open
      BY <1>17 DEF PeerSteps, PeerReads, PeerAnswers, PeerReplies, PeerErrs, PeerCloses
    <2>2. pc \in Used
      BY <1>0, <2>1 DEF LinkIsFree
    <2>3. ASSUME NEW kind \in KnownReplies, peer'.replies = Append(peer.replies, kind)
          PROVE  RepliesKnown'
      BY <1>0, <2>1, <2>3, ReplyKnown
    <2>4. RepliesKnown'
      <3>1. CASE PeerReads
        <4>1. peer'.replies = peer.replies
          BY <1>0, <3>1 DEF PeerReads, Peers
        <4> QED
          BY <1>4, <2>1, <4>1
      <3>2. CASE PeerAnswers
        <4>1. PICK kind \in ReplyKinds : PeerReplies(kind)
          BY <3>2 DEF PeerAnswers
        <4>2. kind \in KnownReplies
          BY <4>1 DEF PeerReplies, KnownReplies
        <4>3. peer'.replies = Append(peer.replies, kind)
          BY <1>0, <4>1 DEF PeerReplies, Peers
        <4> QED
          BY <2>3, <4>2, <4>3
      <3>3. CASE \E kind \in Noise : PeerErrs(kind)
        <4>1. PICK kind \in Noise : PeerErrs(kind)
          BY <3>3
        <4>2. kind \in KnownReplies
          BY DEF KnownReplies
        <4>3. peer'.replies = Append(peer.replies, kind)
          BY <1>0, <4>1 DEF PeerErrs, Peers
        <4> QED
          BY <2>3, <4>2, <4>3
      <3>4. CASE PeerCloses
        <4>1. peer'.replies = peer.replies \/ peer'.replies = <<>>
          BY <1>0, <3>4 DEF PeerCloses, Peers
        <4> QED
          BY <1>0, <1>4, <2>1, <4>1 DEF RepliesKnown
      <3> QED
        BY <1>17, <3>1, <3>2, <3>3, <3>4 DEF PeerSteps
    <2> QED
      BY <1>15, <2>1, <2>2, <2>4
  <1> QED
    BY <1>6, <1>7, <1>8, <1>9, <1>10, <1>11, <1>12, <1>13, <1>14, <1>16, <1>17
    DEF Next, Program, Signaled, Services, CliSteps, BridgeSteps

\* Standard in stays closed, and the client stays away.
LEMMA GoneStaysClosed ==
    ASSUME TypeOK, GoneIsClosed, Next
    PROVE  GoneIsClosed' /\ (client.gone => client'.gone)
  <1>0. client \in Readers /\ stdin.closed \in BOOLEAN
    BY TypeHalves DEF CliTypes, TypeOK
  <1>1. CASE CliSteps /\ UNCHANGED cliOnly
    <2>1. CASE HandleReply
      <3>1. client'.gone = client.gone
        BY <2>1, <1>0, PrintType, TypeHalves DEF HandleReply, Callback, Expected
      <3> QED
        BY <1>1, <3>1 DEF GoneIsClosed, cliOnly
    <2>2. CASE ~HandleReply
      <3>1. UNCHANGED client
        BY <1>1, <2>2 DEF CliSteps, Begin, ConnectFails, Connect, WriteCall, WriteNothing, LoopEvent,
                    HandleNoise, HandleNothing, ResolveReturn, CallReturn, HelpReturn
      <3> QED
        BY <1>1, <3>1 DEF GoneIsClosed, cliOnly
    <2> QED
      BY <2>1, <2>2
  <1>2. CASE (LoopSignal \/ LoopTimeout \/ PeerSteps \/ SendSignal) /\ UNCHANGED cliOnly
    <2>1. UNCHANGED client
      BY <1>2 DEF LoopSignal, LoopTimeout, PeerSteps, PeerReads, PeerAnswers, PeerReplies, PeerErrs,
                  PeerCloses, SendSignal
    <2> QED
      BY <1>2, <2>1 DEF GoneIsClosed, cliOnly
  <1>3. ASSUME stdin'.closed = stdin.closed, client'.gone = client.gone
        PROVE  GoneIsClosed' /\ (client.gone => client'.gone)
    BY <1>3 DEF GoneIsClosed
  <1>4. CASE BridgeSteps \/ BridgeSignal \/ DirectEnv
    <2>1. client'.gone = client.gone
      <3>1. CASE BridgeRefuse
        BY <3>1, PrintType, TypeHalves DEF BridgeRefuse, ReplyKinds
      <3>2. CASE ~BridgeRefuse
        BY <1>4, <3>2 DEF BridgeSteps, BridgeRead, BridgeWake, BridgeTake, BridgeGivesUp, BridgeReturn,
                    BridgeSignal, DirectEnv, ServerReads, ServerSends, ServerCloses
      <3> QED
        BY <3>1, <3>2
    <2>2. stdin'.closed = stdin.closed
      BY <1>4 DEF TypeOK, BridgeSteps, BridgeRead, BridgeWake, BridgeTake, BridgeRefuse, BridgeGivesUp,
                  BridgeReturn, BridgeSignal, DirectEnv, ServerReads, ServerSends, ServerCloses
    <2> QED
      BY <1>3, <2>1, <2>2
  <1>5. CASE CopySteps
    <2>1. client'.gone = client.gone
      BY <1>0, <1>5 DEF CopySteps, CopyBegin, CopyWait, CopyEnd, CopyRead, CopyWrite, Put, CopyWritten,
                  Readers
    <2>2. stdin'.closed = stdin.closed
      BY <1>5 DEF TypeOK, CopySteps, CopyBegin, CopyWait, CopyEnd, CopyRead, CopyWrite, CopyWritten
    <2> QED
      BY <1>3, <2>1, <2>2
  <1>6. CASE Client
    <2>1. CASE CloseIn \/ Leave
      BY <2>1 DEF CloseIn, Leave, GoneIsClosed, TypeOK
    <2>2. CASE ReadOut
      BY <1>0, <1>3, <2>2 DEF ReadOut, Readers
    <2>3. CASE \E kind, method : Ask(kind, method)
      BY <1>3, <2>3 DEF Ask, TypeOK
    <2> QED
      BY <1>6, <2>1, <2>2, <2>3 DEF Client
  <1> QED
    BY <1>1, <1>2, <1>4, <1>5, <1>6 DEF Next, Program, Signaled, Services

-----------------------------------------------------------------------------
(* The bridge.                                                             *)

\* A step that takes nothing and prints nothing.
LEMMA BridgeUntouched ==
    ASSUME BridgeInv, pc \in Working, pc' \in Working \cup {"exit"},
           UNCHANGED <<task, asked, stdin, answers>>, client'.gone = client.gone,
           pc' \in {"refuse", "refused"} => status' \in {"panic", "invalid"},
           pc' = "return" /\ goal' = "call" /\ status' = "ok"
             => task.kind \notin {"plain", "more", "both"}
    PROVE  BridgeInv'
  <1> SUFFICES ASSUME pc' # "exit"
               PROVE  InboxKnown' /\ TaskIsLast' /\ OthersAreDone' /\ pc' \in Looking \cup Working
    BY DEF BridgeInv
  <1>1. InboxKnown /\ TaskIsLast /\ OthersAreDone
    BY DEF BridgeInv, Working
  <1>2. pc' \in Working /\ pc' \notin Looking
    BY DEF Working, Looking
  <1>3. Taken' = Taken
    BY DEF Taken
  <1>4. InboxKnown'
    BY <1>1, <1>3 DEF InboxKnown, Known
  <1>5. TaskIsLast'
    BY <1>1, <1>2, <1>3 DEF TaskIsLast
  <1>6. \A i : Done(i)' <=> Done(i)
    BY AnsweredSame DEF Done
  <1>7. pc' = "return" /\ goal' = "call" /\ status' = "ok" => Done(Taken)
    BY <1>1 DEF TaskIsLast, Done
  <1>8. OthersAreDone'
    BY <1>1, <1>2, <1>3, <1>6, <1>7 DEF OthersAreDone
  <1> QED
    BY <1>2, <1>4, <1>5, <1>8

\* A step that prints a reply to the call.
LEMMA BridgePrints ==
    ASSUME TypeOK, BridgeInv, pc \in Working, pc' \in Working,
           UNCHANGED <<task, asked, stdin>>, NEW kind \in ReplyKinds, Print_(kind),
           pc' \in {"refuse", "refused"} => status' \in {"panic", "invalid"},
           pc' = "return" /\ goal' = "call" /\ status' = "ok" => kind # "continues"
    PROVE  BridgeInv'
  <1>1. InboxKnown /\ TaskIsLast /\ OthersAreDone
    BY DEF BridgeInv, Working
  <1>2. pc' \in Working /\ pc' \notin Looking
    BY DEF Working, Looking
  <1>3. Taken' = Taken /\ Taken \in Nat /\ Taken > 0 /\ task.no = Taken
    BY <1>1 DEF Taken, InboxKnown, TaskIsLast
  <1>4. InboxKnown'
    <2>1. \A j \in 1..Len(answers') : answers'[j].call \in 1..Taken
      BY <1>1, <1>3, AnsweredByPrint DEF InboxKnown
    <2> QED
      BY <1>1, <1>3, <2>1 DEF InboxKnown, Known
  <1>5. TaskIsLast'
    BY <1>1, <1>2, <1>3 DEF TaskIsLast
  <1>6. /\ \A i : Answered(i) => Answered(i)'
        /\ ~client.gone /\ kind # "continues" => Answered(task.no)'
        /\ client'.gone = client.gone
    BY AnsweredByPrint
  <1>7. \A i : Done(i) => Done(i)'
    BY <1>6 DEF Done
  <1>8. ~client.gone /\ pc' = "return" /\ goal' = "call" /\ status' = "ok" => Done(Taken)'
    BY <1>3, <1>6 DEF Done
  <1>9. OthersAreDone'
    BY <1>1, <1>2, <1>3, <1>6, <1>7, <1>8 DEF OthersAreDone
  <1> QED
    BY <1>2, <1>4, <1>5, <1>9 DEF BridgeInv

\* The sizes of the windows of standard in.
LEMMA InboxTypes ==
    ASSUME TypeOK
    PROVE  /\ stdin.pipe \in Seq(Requests) /\ stdin.buffer \in Seq(Requests)
           /\ Len(stdin.pipe) \in Nat /\ Len(stdin.buffer) \in Nat
           /\ asked \in Seq(AllCallKinds \cup Garbage) /\ Len(asked) \in Nat
           /\ answers \in Seq(Answers) /\ DOMAIN answers = 1..Len(answers)
           /\ Taken \in Int /\ Taken = Len(asked) - Len(stdin.pipe) - Len(stdin.buffer)
  <1>1. /\ stdin.pipe \in Seq(Requests) /\ stdin.buffer \in Seq(Requests)
        /\ asked \in Seq(AllCallKinds \cup Garbage) /\ answers \in Seq(Answers)
    BY DEF TypeOK
  <1>2. /\ Len(stdin.pipe) \in Nat /\ Len(stdin.buffer) \in Nat /\ Len(asked) \in Nat
        /\ DOMAIN answers = 1..Len(answers)
    BY <1>1, LenProperties
  <1> QED
    BY <1>1, <1>2 DEF Taken

\* varlink_stream_read moves the messages, and takes none.
LEMMA BridgeReads ==
    ASSUME TypeOK, TypeOK', BridgeInv, BridgeRead
    PROVE  BridgeInv' /\ (pc' # "exit" => Taken' = Taken)
  <1>1. /\ UNCHANGED <<command, goal, task, answers, asked, client>>
        /\ pc = "read" /\ stdin.buffer = <<>>
    BY DEF BridgeRead
  <1>2. InboxKnown /\ TaskIsLast /\ OthersAreDone /\ task = NoTask /\ status = "ok"
        /\ (~client.gone => \A i \in 1..Taken : Done(i))
    BY <1>1 DEF BridgeInv, TaskIsLast, OthersAreDone, Looking
  <1>3. \A i : Done(i)' <=> Done(i)
    BY <1>1, AnsweredSame DEF Done
  <1>4. ASSUME Taken' = Taken, pc' \in Looking, status' = status, InboxKnown'
        PROVE  BridgeInv' /\ Taken' = Taken
    <2>1. pc' \notin Working /\ pc' \notin {"refuse", "refused", "return"}
      BY <1>4 DEF Working, Looking
    <2>2. TaskIsLast'
      BY <1>1, <1>2, <1>4, <2>1 DEF TaskIsLast
    <2>3. OthersAreDone'
      BY <1>1, <1>2, <1>3, <1>4, <2>1 DEF OthersAreDone
    <2> QED
      BY <1>4, <2>2, <2>3 DEF BridgeInv
  <1>5. CASE UNCHANGED stdin
    <2>1. (pc' = "wait" /\ status' = status) \/ pc' = "exit" \/ stdin.pipe # <<>>
      BY DEF BridgeRead, Exit
    <2>2. CASE pc' = "exit"
      BY <2>2 DEF BridgeInv
    <2>3. CASE pc' # "exit"
      <3>1. Taken' = Taken
        BY <1>1, <1>5 DEF Taken
      <3>2. pc' \in Looking /\ status' = status
        BY <1>1, <2>3 DEF BridgeRead, Exit, Looking
      <3>3. InboxKnown'
        BY <1>1, <1>2, <1>5, <3>1 DEF InboxKnown, Known
      <3> QED
        BY <1>4, <3>1, <3>2, <3>3
    <2> QED
      BY <2>2, <2>3
  <1>6. CASE ~UNCHANGED stdin
    <2>1. PICK n \in DOMAIN stdin.pipe :
            /\ stdin' = [stdin EXCEPT !.buffer = SubSeq(stdin.pipe, 1, n),
                                      !.pipe = SubSeq(@, n + 1, Len(@))]
            /\ UNCHANGED <<pc, status>>
      BY <1>6 DEF BridgeRead
    <2> DEFINE s == stdin.pipe
               t == SubSeq(s, 1, n)
               u == SubSeq(s, n + 1, Len(s))
               k == Taken
    <2>2. s \in Seq(Requests) /\ Len(s) \in Nat /\ Len(stdin.buffer) = 0 /\ k \in Nat
          /\ k = Len(asked) - Len(s) /\ Len(asked) \in Nat
      <3>1. Len(<<>>) = 0
        BY EmptySeq
      <3> QED
        BY <1>1, <1>2, <3>1, InboxTypes DEF InboxKnown
    <2>3. n \in 0..Len(s) /\ n \in Nat
      BY <2>2, LenProperties
    <2>4. stdin'.buffer = t /\ stdin'.pipe = u
      BY <2>1 DEF TypeOK
    <2>5. Len(t) = n /\ Len(u) = Len(s) - n
          /\ (\A i \in 1..n : t[i] = s[i]) /\ (\A i \in 1..(Len(s) - n) : u[i] = s[n + i])
      <3>1. n \in Int /\ n + 1 \in Int /\ 1 \in Int
        BY <2>3
      <3>2. (\A i \in 1..n : s[i] \in Requests) /\ (\A i \in (n + 1)..Len(s) : s[i] \in Requests)
        BY <2>2, <2>3, ElementOfSeq
      <3> HIDE DEF s
      <3>3. Len(t) = n /\ \A i \in 1..n : t[i] = s[i]
        BY <2>2, <2>3, <3>1, <3>2, SubSeqProperties
      <3>4. s \in Seq(Requests) /\ n + 1 \in Int /\ Len(s) \in Int
        BY <2>2, <3>1
      <3>5. Len(u) = IF n + 1 <= Len(s) THEN Len(s) - (n + 1) + 1 ELSE 0
        BY <3>2, <3>4, SubSeqProperties
      <3>6. \A i \in 1..(Len(s) - (n + 1) + 1) : u[i] = s[(n + 1) + i - 1]
        BY <3>2, <3>4, SubSeqProperties
      <3> HIDE DEF t, u
      <3> QED
        BY <2>2, <2>3, <3>3, <3>5, <3>6
    <2>6. \A i \in 1..Len(s) : s[i].no = k + i /\ s[i].kind = asked[k + i]
      <3>1. Taken + Len(stdin.buffer) = Taken
        BY <2>2
      <3>2. Known(stdin.pipe, Taken)
        BY <1>2, <3>1 DEF InboxKnown
      <3> QED
        BY <3>2 DEF Known
    <2>7. Taken' = Len(asked) - Len(u) - Len(t)
      BY <1>1, <2>4 DEF Taken
    <2> HIDE DEF s, t, u, k
    <2>8. Taken' = k
      BY <2>2, <2>3, <2>5, <2>7
    <2>9. \A i \in 1..n : t[i].no = k + i /\ t[i].kind = asked[k + i]
      <3>1. \A i \in 1..n : i \in 1..Len(s)
        BY <2>2, <2>3
      <3> QED
        BY <2>5, <2>6, <3>1
    <2>10. ASSUME NEW i \in 1..Len(u) PROVE u[i].no = (k + n) + i /\ u[i].kind = asked[(k + n) + i]
      <3>1. n + i \in 1..Len(s) /\ u[i] = s[n + i] /\ k + (n + i) = (k + n) + i
        BY <2>2, <2>3, <2>5
      <3> QED
        BY <2>6, <3>1
    <2>11. InboxKnown'
      <3>1. \A j \in 1..Len(answers) : answers[j].call \in 1..k
        BY <1>2 DEF InboxKnown, k
      <3> QED
        BY <1>1, <2>2, <2>4, <2>5, <2>8, <2>9, <2>10, <3>1 DEF InboxKnown, Known
    <2>12. pc' \in Looking /\ status' = status
      BY <1>1, <2>1 DEF Looking
    <2> QED
      BY <1>4, <2>8, <2>11, <2>12 DEF k
  <1> QED
    BY <1>5, <1>6

\* A message is taken: it is the task, and nobody has answered it.
LEMMA BridgeTakes ==
    ASSUME TypeOK, TypeOK', BridgeInv, BridgeTake
    PROVE  /\ BridgeInv'
           /\ pc' # "exit" => ~Answered(task.no)' /\ Taken' = Taken + 1
  <1> DEFINE m == Head(stdin.buffer)
             s == stdin.buffer
             t == Tail(stdin.buffer)
             k == Taken
  <1>1. /\ UNCHANGED <<answers, asked, client>>
        /\ pc = "read" /\ s # <<>> /\ stdin' = [stdin EXCEPT !.buffer = t]
        /\ pc' # "exit" => /\ task' = m /\ pc' \in {"refuse", "connect"} /\ m.kind \in CallKinds
                           /\ pc' = "refuse" => status' = "invalid"
    BY DEF BridgeTake, Exit, Forward
  <1>2. InboxKnown /\ OthersAreDone /\ (~client.gone => \A i \in 1..Taken : Done(i))
    BY <1>1 DEF BridgeInv, OthersAreDone, Looking
  <1> SUFFICES ASSUME pc' # "exit" PROVE BridgeInv' /\ ~Answered(task.no)' /\ Taken' = Taken + 1
    BY DEF BridgeInv
  <1>3. /\ s \in Seq(Requests) /\ Len(s) \in Nat /\ Len(stdin.pipe) \in Nat /\ Len(asked) \in Nat
        /\ k \in Nat /\ k = Len(asked) - Len(stdin.pipe) - Len(s)
    BY <1>2, InboxTypes DEF InboxKnown
  <1>4. /\ Len(s) > 0 /\ m = s[1] /\ Len(t) = Len(s) - 1
        /\ \A i \in 1..(Len(s) - 1) : t[i] = s[i + 1]
    <2>1. m = s[1] /\ Len(t) = Len(s) - 1 /\ \A i \in 1..Len(t) : t[i] = s[i + 1]
      BY <1>1, <1>3, HeadTailProperties
    <2>2. Len(s) > 0
      BY <1>1, <1>3, EmptySeq
    <2> HIDE DEF m, t
    <2> QED
      BY <2>1, <2>2
  <1>5. stdin'.buffer = t /\ stdin'.pipe = stdin.pipe
    BY <1>1 DEF TypeOK
  <1>6. /\ \A i \in 1..Len(s) : s[i].no = k + i /\ s[i].kind = asked[k + i]
        /\ \A i \in 1..Len(stdin.pipe) : /\ stdin.pipe[i].no = (k + Len(s)) + i
                                         /\ stdin.pipe[i].kind = asked[(k + Len(s)) + i]
        /\ \A j \in 1..Len(answers) : answers[j].call \in 1..k
    BY <1>2 DEF InboxKnown, Known
  <1>7. Taken' = Len(asked) - Len(stdin.pipe) - Len(t)
    BY <1>1, <1>5 DEF Taken
  <1> HIDE DEF m, s, t, k
  <1>8. Taken' = k + 1 /\ k + 1 \in Nat /\ k + 1 > 0 /\ (k + 1) - 1 = k /\ k + 1 \notin 1..k
        /\ \A j \in 1..k : j \in 1..(k + 1)
    <2>1. Taken' = k + 1 /\ k \in Nat
      BY <1>3, <1>4, <1>7
    <2>2. \A x \in Nat : /\ x + 1 \in Nat /\ x + 1 > 0 /\ (x + 1) - 1 = x /\ x + 1 \notin 1..x
                          /\ \A j \in 1..x : j \in 1..(x + 1)
      OBVIOUS
    <2> QED
      BY <2>1, <2>2
  <1>9. m.no = k + 1 /\ m.kind = asked[k + 1]
    <2>1. 1 \in 1..Len(s)
      BY <1>3, <1>4
    <2> QED
      BY <1>4, <1>6, <2>1
  <1>10. InboxKnown'
    <2>1. ASSUME NEW i \in 1..Len(t) PROVE t[i].no = (k + 1) + i /\ t[i].kind = asked[(k + 1) + i]
      <3>1. i + 1 \in 1..Len(s) /\ t[i] = s[i + 1] /\ k + (i + 1) = (k + 1) + i
        BY <1>3, <1>4
      <3> QED
        BY <1>6, <3>1
    <2>2. (k + 1) + Len(t) = k + Len(s)
      <3>1. \A x, y \in Nat : y > 0 => (x + 1) + (y - 1) = x + y
        OBVIOUS
      <3>2. k \in Nat /\ Len(s) \in Nat
        BY <1>3
      <3> QED
        BY <1>4, <3>1, <3>2
    <2>3. \A j \in 1..Len(answers) : answers[j].call \in 1..(k + 1)
      BY <1>6, <1>8
    <2> QED
      BY <1>1, <1>5, <1>6, <1>8, <2>1, <2>2, <2>3 DEF InboxKnown, Known
  <1>11. pc' \in Working /\ pc' \notin Looking /\ pc' # "return" /\ pc' # "refused"
    BY <1>1 DEF Working, Looking
  <1>12. TaskIsLast'
    BY <1>1, <1>8, <1>9, <1>11 DEF TaskIsLast
  <1>13. OthersAreDone'
    <2>1. \A i : Done(i)' <=> Done(i)
      BY <1>1, AnsweredSame DEF Done
    <2>2. Taken' - 1 = k
      BY <1>8
    <2> QED
      BY <1>1, <1>2, <1>11, <2>1, <2>2 DEF OthersAreDone, k
  <1>14. ~Answered(task.no)'
    <2>1. task'.no = k + 1 /\ k + 1 \notin 1..k
      BY <1>1, <1>8, <1>9
    <2> QED
      BY <1>1, <1>6, <2>1, InboxTypes DEF Answered
  <1> QED
    BY <1>8, <1>10, <1>11, <1>12, <1>13, <1>14 DEF BridgeInv, k

\* What the client, the services and signals do leaves the call alone.
LEMMA BridgeStands ==
    ASSUME BridgeInv, UNCHANGED <<pc, goal, status, task, answers>>, Taken' = Taken, InboxKnown',
           client.gone => client'.gone, \A i \in 1..Taken : asked'[i] = asked[i],
           Taken \in Nat
    PROVE  BridgeInv'
  <1> SUFFICES ASSUME pc # "exit"
               PROVE  TaskIsLast' /\ OthersAreDone' /\ pc \in Looking \cup Working
    BY DEF BridgeInv
  <1>1. TaskIsLast /\ OthersAreDone /\ pc \in Looking \cup Working
    BY DEF BridgeInv
  <1>2. \A i \in 1..Taken : Done(i)' <=> Done(i)
    BY AnsweredSame DEF Done
  <1>3. Taken > 0 => Taken \in 1..Taken
    OBVIOUS
  <1>4. \A i \in 1..(Taken - 1) : i \in 1..Taken
    OBVIOUS
  <1>5. TaskIsLast'
    BY <1>1, <1>3 DEF TaskIsLast
  <1>6. pc = "return" => Taken > 0
    BY <1>1 DEF TaskIsLast, Working
  <1>7. OthersAreDone'
    BY <1>1, <1>2, <1>3, <1>4, <1>6 DEF OthersAreDone
  <1> QED
    BY <1>1, <1>5, <1>7

\* What comes while the bridge is not looking at it yet is behind everything else.
LEMMA BridgeIsAsked ==
    ASSUME TypeOK, TypeOK', BridgeInv, pc # "exit", NEW kind \in AllCallKinds \cup Garbage,
           NEW method, Ask(kind, method)
    PROVE  BridgeInv' /\ Taken' = Taken /\ \A i \in 1..Taken : asked'[i] = asked[i]
  <1> DEFINE m == [no |-> Len(asked) + 1, kind |-> kind, method |-> method]
             s == stdin.pipe
             t == Append(s, m)
             a == Append(asked, kind)
             k == Taken
             b == Len(stdin.buffer)
             K == AllCallKinds \cup Garbage
  <1>1. /\ UNCHANGED <<pc, goal, status, task, answers, client>>
        /\ asked' = a /\ stdin'.pipe = t /\ stdin'.buffer = stdin.buffer
    BY DEF Ask, TypeOK
  <1>2. InboxKnown
    BY DEF BridgeInv
  <1>3. /\ s \in Seq(Requests) /\ Len(s) \in Nat /\ b \in Nat /\ Len(asked) \in Nat
        /\ asked \in Seq(K) /\ k \in Nat /\ k = Len(asked) - Len(s) - b
    BY <1>2, InboxTypes DEF InboxKnown
  <1>4. /\ Len(a) = Len(asked) + 1 /\ a[Len(asked) + 1] = kind
        /\ \A i \in 1..Len(asked) : a[i] = asked[i]
    <2>1. kind \in K
      OBVIOUS
    <2> HIDE DEF K
    <2>2. a \in Seq(K) /\ Len(a) = Len(asked) + 1 /\ a[Len(asked) + 1] = kind
      BY <1>3, <2>1, AppendProperties
    <2>3. \A i \in 1..Len(asked) : a[i] = asked[i]
      BY <1>3, <2>1, AppendProperties
    <2> QED
      BY <2>2, <2>3
  <1>5. m.no = Len(asked) + 1 /\ m.kind = kind
    OBVIOUS
  <1>6. Len(t) = Len(s) + 1 /\ t[Len(s) + 1] = m /\ \A i \in 1..Len(s) : t[i] = s[i]
    BY <1>3, AppendProperties
  <1>7. /\ \A i \in 1..b : stdin.buffer[i].no = k + i /\ stdin.buffer[i].kind = asked[k + i]
        /\ \A i \in 1..Len(s) : s[i].no = (k + b) + i /\ s[i].kind = asked[(k + b) + i]
        /\ \A j \in 1..Len(answers) : answers[j].call \in 1..k
    BY <1>2 DEF InboxKnown, Known
  <1>8. Taken' = Len(a) - Len(t) - b
    BY <1>1 DEF Taken
  <1> HIDE DEF m, s, t, a, k, b, K
  <1>9. Taken' = k
    BY <1>3, <1>4, <1>6, <1>8
  <1>10. ASSUME NEW i \in 1..b PROVE stdin.buffer[i].no = k + i /\ stdin.buffer[i].kind = a[k + i]
    <2>1. k + i \in 1..Len(asked)
      BY <1>3
    <2> QED
      BY <1>4, <1>7, <2>1
  <1>11. ASSUME NEW i \in 1..Len(t) PROVE t[i].no = (k + b) + i /\ t[i].kind = a[(k + b) + i]
    <2>1. CASE i \in 1..Len(s)
      <3>1. (k + b) + i \in 1..Len(asked)
        BY <1>3, <2>1
      <3> QED
        BY <1>4, <1>6, <1>7, <2>1, <3>1
    <2>2. CASE i = Len(s) + 1
      <3>1. (k + b) + i = Len(asked) + 1
        BY <1>3, <2>2
      <3> QED
        BY <1>4, <1>5, <1>6, <2>2, <3>1
    <2> QED
      BY <1>3, <1>6, <2>1, <2>2
  <1>12. InboxKnown'
    BY <1>1, <1>3, <1>7, <1>9, <1>10, <1>11 DEF InboxKnown, Known, b
  <1>13. \A i \in 1..k : asked'[i] = asked[i]
    <2>1. \A i \in 1..k : i \in 1..Len(asked)
      BY <1>3
    <2> QED
      BY <1>1, <1>4, <2>1
  <1> QED
    BY <1>1, <1>3, <1>9, <1>12, <1>13, BridgeStands DEF k

\* A step of the command line on behalf of the bridge.
LEMMA BridgeCalls ==
    ASSUME TypeOK, TypeOK', LinkIsOpen, BridgeInv, command = "bridge", pc # "exit",
           CliSteps \/ LoopSignal \/ LoopTimeout, UNCHANGED cliOnly
    PROVE  BridgeInv'
  <1>0. UNCHANGED <<asked, stdin>> /\ pc \in Looking \cup Working
    BY DEF cliOnly, BridgeInv
  <1>1. ASSUME pc \in Working, pc' \in Working \cup {"exit"},
               UNCHANGED <<task, answers, client>>,
               pc' \in {"refuse", "refused"} => status' \in {"panic", "invalid"},
               pc' = "return" /\ goal' = "call" /\ status' = "ok"
                 => task.kind \notin {"plain", "more", "both"}
        PROVE  BridgeInv'
    BY <1>0, <1>1, BridgeUntouched
  <1>2. CASE Begin \/ CallReturn \/ HelpReturn
    BY <1>2 DEF Begin, CallReturn, HelpReturn
  <1>3. CASE ConnectFails
    BY <1>1, <1>3 DEF ConnectFails, Refuse, Exit, Bridging, Working
  <1>4. CASE Connect
    BY <1>1, <1>4 DEF Connect, Working
  <1>5. CASE WriteCall
    <2>1. pc' = "loop" \/ (pc' = "return" /\ Kind = "oneway" /\ goal' = goal)
      BY <1>5 DEF WriteCall
    <2>2. pc' = "return" /\ goal' = "call" => task.kind = "oneway"
      BY <2>1 DEF Kind
    <2> QED
      BY <1>1, <1>5, <2>1, <2>2 DEF WriteCall, Working
  <1>6. CASE WriteNothing
    BY <1>1, <1>6 DEF WriteNothing, Exit, Working
  <1>7. CASE LoopSignal
    BY <1>1, <1>7 DEF LoopSignal, OnSignal, Returns, Working
  <1>8. CASE LoopTimeout
    BY <1>1, <1>8 DEF LoopTimeout, Returns, Working
  <1>9. CASE LoopEvent
    BY <1>1, <1>9 DEF LoopEvent, Returns, Working
  <1>10. CASE HandleNoise
    BY <1>1, <1>10 DEF HandleNoise, Returns, Working
  <1>11. CASE HandleNothing
    BY <1>1, <1>11 DEF HandleNothing, Returns, Working
  <1>12. CASE ResolveReturn
    BY <1>1, <1>12 DEF ResolveReturn, Refuse, Exit, Bridging, Working
  <1>13. CASE HandleReply
    <2> DEFINE kind == Head(peer.replies)
    <2>1. /\ pc = "handle" /\ kind \in ReplyKinds /\ Callback(kind)
          /\ UNCHANGED <<goal, task>>
          /\ pc' = "handle" \/ (pc' = "return" /\ ~link'.open)
      BY <1>13 DEF HandleReply, Expected, Returns
    <2>2. CASE goal = "resolve"
      BY <1>1, <2>1, <2>2 DEF Callback, Working
    <2>3. CASE goal # "resolve"
      <3>1. Print_(kind) /\ (kind = "continues" => link' = link)
        BY <2>1, <2>3 DEF Callback
      <3>2. pc' = "return" => kind # "continues"
        BY <2>1, <3>1 DEF LinkIsOpen
      <3> HIDE DEF kind
      <3> QED
        BY <1>0, <2>1, <3>1, <3>2, BridgePrints DEF Working
    <2> QED
      BY <2>2, <2>3
  <1> QED
    BY <1>2, <1>3, <1>4, <1>5, <1>6, <1>7, <1>8, <1>9, <1>10, <1>11, <1>12, <1>13 DEF CliSteps

\* The bridge goes on with the next call when it is done with this one.
LEMMA BridgeGoesOn ==
    ASSUME BridgeInv, BridgeReturn
    PROVE  BridgeInv'
  <1>1. /\ UNCHANGED <<answers, asked, stdin, client, status>>
        /\ pc = "return" /\ goal = "call"
        /\ (status = "ok" /\ pc' = "read" /\ task' = NoTask) \/ pc' = "exit"
    BY DEF BridgeReturn, MayGoOn
  <1> SUFFICES ASSUME pc' # "exit"
               PROVE  InboxKnown' /\ TaskIsLast' /\ OthersAreDone' /\ pc' \in Looking \cup Working
    BY DEF BridgeInv
  <1>2. InboxKnown /\ TaskIsLast /\ OthersAreDone
    BY <1>1 DEF BridgeInv
  <1>3. Taken' = Taken /\ Taken \in Nat
    BY <1>1, <1>2 DEF Taken, InboxKnown
  <1>4. pc' \in Looking /\ pc' \notin Working /\ pc' \notin {"refuse", "refused", "return"}
    BY <1>1 DEF Looking, Working
  <1>5. InboxKnown'
    BY <1>1, <1>2, <1>3 DEF InboxKnown, Known
  <1>6. TaskIsLast'
    BY <1>1, <1>4 DEF TaskIsLast
  <1>7. \A i : Done(i)' <=> Done(i)
    BY <1>1, AnsweredSame DEF Done
  <1>8. ~client.gone => \A i \in 1..Taken : Done(i)
    <2>1. \A i \in 1..Taken : i \in 1..(Taken - 1) \/ i = Taken
      BY <1>3
    <2>2. pc \in Working
      BY <1>1 DEF Working
    <2> QED
      BY <1>1, <1>2, <2>1, <2>2 DEF OthersAreDone
  <1>9. OthersAreDone'
    BY <1>1, <1>3, <1>4, <1>7, <1>8 DEF OthersAreDone
  <1> QED
    BY <1>4, <1>5, <1>6, <1>9

\* The command line stays what it was.
LEMMA CommandStays ==
    ASSUME Next
    PROVE  command' = command
  <1>1. CASE CliSteps \/ LoopSignal \/ LoopTimeout
    BY <1>1 DEF CliSteps, Begin, ConnectFails, Connect, WriteCall, WriteNothing, LoopEvent,
                HandleReply, HandleNoise, HandleNothing, ResolveReturn, CallReturn, HelpReturn,
                LoopSignal, LoopTimeout
  <1>2. CASE BridgeSteps \/ BridgeSignal \/ CopySteps
    BY <1>2 DEF BridgeSteps, BridgeRead, BridgeWake, BridgeTake, BridgeRefuse, BridgeGivesUp,
                BridgeReturn, BridgeSignal, CopySteps, CopyBegin, CopyWait, CopyEnd, CopyRead,
                CopyWrite, CopyWritten
  <1>3. CASE PeerSteps \/ SendSignal \/ Client \/ DirectEnv
    BY <1>3 DEF PeerSteps, PeerReads, PeerAnswers, PeerReplies, PeerErrs, PeerCloses, SendSignal,
                Client, Ask, CloseIn, Leave, ReadOut, DirectEnv, ServerReads, ServerSends,
                ServerCloses
  <1> QED
    BY <1>1, <1>2, <1>3 DEF Next, Program, Signaled, Services

\* A process that is over does nothing; what it printed may still be read, and
\* services may still write and go away.
LEMMA ExitIsFinal ==
    ASSUME TypeOK, pc = "exit", Next
    PROVE  /\ UNCHANGED <<command, pc, goal, status, task, reply, signals, answers, asked, stdin>>
           /\ client'.gone = client.gone
  <1>1. /\ ~CliSteps /\ ~LoopSignal /\ ~LoopTimeout /\ ~SendSignal
        /\ ~BridgeSteps /\ ~BridgeSignal /\ ~CopySteps /\ ~DirectEnv
    BY DEF CliSteps, Begin, ConnectFails, Connect, WriteCall, WriteNothing, LoopEvent,
           HandleReply, HandleNoise, HandleNothing, ResolveReturn, CallReturn, HelpReturn,
           LoopSignal, LoopTimeout, SendSignal,
           BridgeSteps, BridgeRead, BridgeWake, BridgeTake, BridgeRefuse, BridgeGivesUp,
           BridgeReturn, BridgeSignal, CopySteps, CopyBegin, CopyWait, CopyEnd, CopyRead,
           CopyWrite, CopyWritten, DirectEnv, ToolRuns
  <1>2. CASE Client
    <2>1. ReadOut
      BY <1>2 DEF Client, Ask, CloseIn, Leave, Looks, ToolRuns
    <2> QED
      BY <2>1 DEF ReadOut, TypeOK
  <1>3. CASE PeerSteps /\ UNCHANGED cliOnly
    BY <1>3 DEF PeerSteps, PeerReads, PeerAnswers, PeerReplies, PeerErrs, PeerCloses, cliOnly
  <1> QED
    BY <1>1, <1>2, <1>3 DEF Next, Program, Signaled, Services

\* Every step keeps what is known of the bridge.
LEMMA NextBridgeInv ==
    ASSUME Copies, TypeOK', LinkIsOpen, BridgeInv, command = "bridge", Next
    PROVE  BridgeInv'
  <1>0. TypeOK
    BY DEF Copies
  <1>1. CASE pc = "exit"
    BY <1>0, <1>1, ExitIsFinal DEF BridgeInv
  <1>2. CASE pc # "exit"
    <2>0. InboxKnown /\ TaskIsLast /\ OthersAreDone
      BY <1>2 DEF BridgeInv
    <2>1. CASE (CliSteps \/ LoopSignal \/ LoopTimeout) /\ UNCHANGED cliOnly
      BY <1>0, <1>2, <2>1, BridgeCalls
    <2>2. CASE BridgeRead
      BY <1>0, <2>2, BridgeReads
    <2>3. CASE BridgeWake
      <3>1. pc' \in Looking /\ pc \in Looking /\ pc' \notin Working /\ pc' \notin {"refuse", "refused", "return"}
        BY <2>3 DEF BridgeWake, Looking, Working
      <3>2. UNCHANGED <<task, status, answers, asked, stdin, client>>
        BY <2>3 DEF BridgeWake
      <3>3. Taken' = Taken
        BY <3>2 DEF Taken
      <3>4. InboxKnown'
        BY <2>0, <3>2, <3>3 DEF InboxKnown, Known
      <3>5. TaskIsLast'
        BY <2>0, <3>1, <3>2 DEF TaskIsLast
      <3>6. \A i : Done(i)' <=> Done(i)
        BY <3>2, AnsweredSame DEF Done
      <3>7. OthersAreDone'
        BY <2>0, <3>1, <3>2, <3>3, <3>6 DEF OthersAreDone
      <3> QED
        BY <3>1, <3>4, <3>5, <3>7 DEF BridgeInv
    <2>4. CASE BridgeTake
      BY <1>0, <2>4, BridgeTakes
    <2>5. CASE BridgeRefuse
      <3>1. /\ pc = "refuse" /\ pc' = "refused" /\ Print_("error") /\ "error" \in ReplyKinds
            /\ UNCHANGED <<task, asked, stdin, status>>
        BY <2>5 DEF BridgeRefuse, ReplyKinds
      <3>2. status' \in {"panic", "invalid"}
        BY <2>0, <3>1 DEF TaskIsLast
      <3>3. pc \in Working /\ pc' \in Working
        BY <3>1 DEF Working
      <3> QED
        BY <1>0, <3>1, <3>2, <3>3, BridgePrints
    <2>6. CASE BridgeGivesUp \/ BridgeSignal
      BY <2>6 DEF BridgeGivesUp, BridgeSignal, Exit, BridgeInv
    <2>7. CASE BridgeReturn
      BY <2>7, BridgeGoesOn
    <2>8. CASE CopySteps
      BY <2>8 DEF CopySteps, CopyBegin, CopyWait, CopyEnd, CopyRead, CopyWrite, CopyWritten, Copies
    <2>9. CASE Client
      <3>1. CASE \E kind \in CallKinds, method \in Methods : Ask(kind, method)
        BY <1>0, <1>2, <3>1, BridgeIsAsked, ConstantTypes
      <3>2. CASE \E kind \in Garbage : Ask(kind, "none")
        BY <1>0, <1>2, <3>2, BridgeIsAsked
      <3>3. CASE CloseIn \/ Leave \/ ReadOut
        <4>1. /\ UNCHANGED <<pc, goal, status, task, answers, asked>>
              /\ stdin'.pipe = stdin.pipe /\ stdin'.buffer = stdin.buffer
              /\ client.gone => client'.gone
          BY <1>0, <3>3 DEF CloseIn, Leave, ReadOut, TypeOK
        <4>2. Taken' = Taken /\ Taken \in Nat
          BY <2>0, <4>1 DEF InboxKnown, Taken
        <4>3. InboxKnown'
          BY <2>0, <4>1, <4>2 DEF InboxKnown, Known
        <4>4. \A i \in 1..Taken : asked'[i] = asked[i]
          BY <4>1
        <4> QED
          BY <2>0, <4>1, <4>2, <4>3, <4>4, BridgeStands
      <3> QED
        BY <2>9, <3>1, <3>2, <3>3 DEF Client
    <2>10. CASE (PeerSteps \/ SendSignal) /\ UNCHANGED cliOnly
      <3>1. UNCHANGED <<pc, goal, status, task, answers, asked, stdin, client>>
        BY <2>10 DEF PeerSteps, PeerReads, PeerAnswers, PeerReplies, PeerErrs, PeerCloses, SendSignal, cliOnly
      <3>2. BridgeInv'
        <4>1. Taken' = Taken /\ Taken \in Nat
          BY <2>0, <3>1 DEF InboxKnown, Taken
        <4>2. InboxKnown'
          BY <2>0, <3>1, <4>1 DEF InboxKnown, Known
        <4> QED
          BY <2>0, <3>1, <4>1, <4>2, BridgeStands
      <3> QED
        BY <3>2
    <2> QED
      BY <2>1, <2>2, <2>3, <2>4, <2>5, <2>6, <2>7, <2>8, <2>9, <2>10
      DEF Next, Program, Signaled, Services, DirectEnv, BridgeSteps
  <1> QED
    BY <1>1, <1>2

-----------------------------------------------------------------------------
(* The last reply.                                                         *)

\* Every step keeps it: the step that prints a last reply ends the call.
LEMMA NextCallInv ==
    ASSUME Copies, TypeOK', LinkIsOpen, OnlyBridges, command = "bridge" => BridgeInv,
           command \in {"bridge", "call"}, CallInv, Next
    PROVE  CallInv'
  <1>0. TypeOK
    BY DEF Copies
  <1>1. ASSUME UNCHANGED <<task, answers>>, Calling' => Calling PROVE CallInv'
    BY <1>1, AnsweredSame DEF CallInv
  <1>2. ASSUME ~Calling' PROVE CallInv'
    BY <1>2 DEF CallInv
  <1>3. CASE Begin \/ ConnectFails \/ Connect \/ WriteNothing
    BY <1>1, <1>3 DEF Begin, ConnectFails, Connect, WriteNothing, Calling
  <1>4. CASE WriteCall
    BY <1>1, <1>4 DEF WriteCall, Calling
  <1>5. CASE LoopSignal \/ LoopTimeout \/ LoopEvent \/ HandleNoise \/ HandleNothing
    BY <1>1, <1>5 DEF LoopSignal, LoopTimeout, LoopEvent, HandleNoise, HandleNothing, Calling
  <1>6. CASE HandleReply
    <2> DEFINE kind == Head(peer.replies)
    <2>1. /\ pc = "handle" /\ kind \in ReplyKinds /\ Callback(kind)
          /\ UNCHANGED <<goal, task>>
          /\ link'.open \/ (pc' = "return" /\ status' = "ok")
      BY <1>6 DEF HandleReply, Expected, Returns
    <2>2. CASE goal = "resolve"
      BY <1>1, <2>1, <2>2 DEF Callback, Calling
    <2>3. CASE goal # "resolve"
      <3>1. Print_(kind) /\ (kind # "continues" => link' = Closed(link))
        BY <2>1, <2>3 DEF Callback
      <3>2. CASE kind = "continues"
        <4>1. Answered(task.no)' <=> Answered(task.no)
          BY <1>0, <2>1, <3>1, <3>2, AnsweredByPrint
        <4> QED
          BY <2>1, <4>1 DEF CallInv, Calling
      <3>3. CASE kind # "continues"
        <4>1. ~link'.open
          BY <1>0, <3>1, <3>3 DEF Closed, TypeOK
        <4> QED
          BY <1>2, <2>1, <2>3, <4>1 DEF Calling
      <3> QED
        BY <3>2, <3>3
    <2> QED
      BY <2>2, <2>3
  <1>7. CASE ResolveReturn
    BY <1>1, <1>7 DEF ResolveReturn, Calling
  <1>8. CASE CallReturn \/ HelpReturn
    BY <1>2, <1>8 DEF CallReturn, HelpReturn, Exit, Calling
  <1>9. CASE BridgeTake
    <2>1. command = "bridge"
      BY <1>9 DEF BridgeTake, OnlyBridges, Looking
    <2> QED
      BY <1>0, <1>9, <2>1, BridgeTakes DEF CallInv, Calling
  <1>10. CASE BridgeRead \/ BridgeWake \/ BridgeRefuse \/ BridgeGivesUp \/ BridgeReturn \/ BridgeSignal
    BY <1>2, <1>10 DEF BridgeRead, BridgeWake, BridgeRefuse, BridgeGivesUp, BridgeReturn,
                       BridgeSignal, Exit, Calling
  <1>11. CASE CopySteps \/ DirectEnv
    BY <1>11 DEF CopySteps, CopyBegin, CopyWait, CopyEnd, CopyRead, CopyWrite, CopyWritten,
                 DirectEnv, Copies
  <1>12. CASE PeerSteps \/ SendSignal \/ Client
    BY <1>1, <1>12 DEF PeerSteps, PeerReads, PeerAnswers, PeerReplies, PeerErrs, PeerCloses,
                       SendSignal, Client, Ask, CloseIn, Leave, ReadOut, Calling
  <1> QED
    BY <1>3, <1>4, <1>5, <1>6, <1>7, <1>8, <1>9, <1>10, <1>11, <1>12
    DEF Next, Program, Signaled, Services, CliSteps, BridgeSteps

-----------------------------------------------------------------------------
(* Help.                                                                   *)

\* Every step keeps what is known of help.
LEMMA NextHelpInv ==
    ASSUME TypeOK, LinkInv, command = "help", command' = command, HelpInv, Next
    PROVE  HelpInv'
  <1>1. CASE pc = "exit"
    BY <1>1, ExitIsFinal DEF HelpInv
  <1> SUFFICES ASSUME pc # "exit", pc' # "exit" PROVE HelpInv'
    BY <1>1 DEF HelpInv
  <1>2. /\ pc \in {"begin", "connect", "write", "loop", "handle", "return"}
        /\ status # "remote"
    BY DEF HelpInv
  <1>3. Kind = "plain"
    BY DEF Kind
  <1>4. CASE Begin
    BY <1>2, <1>4 DEF Begin, HelpInv
  <1>5. CASE Connect
    BY <1>2, <1>5 DEF Connect, HelpInv
  <1>6. CASE WriteCall
    <2>1. link'.events # {}
      BY <1>3, <1>6 DEF WriteCall, TypeOK
    <2> QED
      BY <1>2, <1>6, <2>1 DEF WriteCall, HelpInv
  <1>7. CASE LoopSignal \/ LoopTimeout \/ LoopEvent \/ HandleNoise \/ HandleNothing
    <2>1. /\ reply' = reply /\ pc \in {"loop", "handle"}
          /\ \/ pc' = "return" /\ status' \notin {"ok", "remote"}
             \/ pc' \in {"loop", "handle"} /\ status' = status
      BY <1>7 DEF LoopSignal, OnSignal, LoopTimeout, LoopEvent, HandleNoise, HandleNothing, Returns
    <2> QED
      BY <1>2, <2>1 DEF HelpInv
  <1>8. CASE HandleReply
    <2> DEFINE kind == Head(peer.replies)
    <2>1. /\ peer.replies # <<>> /\ UNCHANGED goal
          /\ kind \in ReplyKinds /\ (kind = "continues" => Kind = "more")
          /\ reply' = kind /\ link' = Closed(link)
          /\ link'.open \/ (pc' = "return" /\ status' = "ok")
      BY <1>8 DEF HandleReply, Expected, Callback, Returns
    <2>2. pc' = "return" /\ status' = "ok"
      BY <2>1 DEF Closed, TypeOK
    <2>3. kind \in LastReplies
      <3>1. kind \in KnownReplies
        BY <2>1, ReplyTaken DEF LinkInv
      <3>2. kind \notin Noise
        BY <1>3, <2>1, ConstantTypes DEF AllNoise, ReplyKinds
      <3> QED
        BY <1>3, <2>1, <3>1, <3>2 DEF KnownReplies
    <2>4. LastReplies' = LastReplies
      BY <2>1 DEF LastReplies
    <2> QED
      BY <2>1, <2>2, <2>3, <2>4 DEF HelpInv
  <1>9. CASE ResolveReturn
    BY <1>2, <1>9 DEF ResolveReturn, Bridging, Exit, HelpInv
  <1>10. CASE ConnectFails \/ WriteNothing \/ CallReturn \/ HelpReturn
    BY <1>10 DEF ConnectFails, WriteNothing, CallReturn, HelpReturn, Bridging, Exit
  <1>11. CASE BridgeSteps \/ BridgeSignal \/ CopySteps \/ DirectEnv
    BY <1>2, <1>11 DEF BridgeSteps, BridgeRead, BridgeWake, BridgeTake, BridgeRefuse, BridgeGivesUp,
                       BridgeReturn, Bridging, BridgeSignal, CopySteps, CopyBegin, CopyWait, CopyEnd,
                       CopyRead, CopyWrite, CopyWritten, DirectEnv
  <1>12. CASE PeerSteps \/ SendSignal \/ Client
    <2>1. UNCHANGED <<pc, goal, status, reply>>
      BY <1>12 DEF PeerSteps, PeerReads, PeerAnswers, PeerReplies, PeerErrs, PeerCloses,
                   SendSignal, Client, Ask, CloseIn, Leave, ReadOut
    <2> QED
      BY <2>1 DEF HelpInv, LastReplies
  <1> QED
    BY <1>4, <1>5, <1>6, <1>7, <1>8, <1>9, <1>10, <1>11, <1>12
    DEF Next, Program, Signaled, Services, CliSteps

-----------------------------------------------------------------------------
(* The exit code.                                                          *)

\* What the exit code tells, as one statement for each kind of command.
LEMMA ExitParts ==
    ASSUME pc' = "exit",
           command' = "bridge" /\ status' = "ok" /\ ~client'.gone
             => \A i \in 1..Len(asked') : Done(i)',
           DOMAIN asked' = 1..Len(asked'),
           command' \in {"bridge", "call"}
             /\ status' \in {"timeout", "closed", "callfailed", "canceled"}
             => ~Answered(task.no)' \/ goal' = "resolve",
           command' = "help" => /\ status' = "ok" <=> reply' = "final" /\ goal' = "call"
                                /\ status' = "remote" => reply' = "error"
    PROVE  ExitTellsOutcome'
  BY DEF ExitTellsOutcome, Done

\* Each way out of the process has a code that says what happened.
LEMMA NextExits ==
    ASSUME Outcome, TypeOK', command' = command, Next, pc # "exit", pc' = "exit"
    PROVE  ExitTellsOutcome'
  <1>0. /\ TypeOK /\ DOMAIN asked' = 1..Len(asked')
        /\ command = "bridge" => BridgeInv /\ InboxKnown /\ TaskIsLast /\ OthersAreDone
        /\ command \in {"bridge", "call"} => CallInv
        /\ command = "help" => HelpInv
    <2>1. TypeOK /\ asked' \in Seq(AllCallKinds \cup Garbage)
      BY DEF Outcome, Copies, TypeOK
    <2>2. DOMAIN asked' = 1..Len(asked')
      BY <2>1, LenProperties
    <2> QED
      BY <2>1, <2>2 DEF Outcome, BridgeInv
  <1>1. ASSUME UNCHANGED <<task, answers>>, Calling, CallInv PROVE ~Answered(task.no)'
    BY <1>1, AnsweredSame DEF CallInv
  <1>2. CASE ConnectFails
    <2>1. /\ status' \in {"panic", "connect", "cannotresolve"}
          /\ UNCHANGED <<goal, reply>> /\ pc = "connect"
      BY <1>2 DEF ConnectFails, Exit, ConnectCode, Refuse
    <2>2. command = "help" => reply \in {"none", "address"}
      BY <1>0, <2>1 DEF HelpInv
    <2> QED
      BY <1>0, <2>1, <2>2, ExitParts
  <1>3. CASE WriteNothing
    <2>1. /\ status' \in {"panic", "callfailed"} /\ Kind = "both"
          /\ UNCHANGED <<task, answers>> /\ pc = "write"
      BY <1>3 DEF WriteNothing, Exit
    <2>2. command # "help"
      BY <2>1 DEF Kind
    <2> QED
      BY <1>0, <1>1, <2>1, <2>2, ExitParts DEF Calling
  <1>4. CASE ResolveReturn
    <2>1. /\ goal' = "resolve" /\ command # "bridge" /\ pc = "return"
          /\ status' # "remote" \/ status' = status
          /\ command # "resolve" => status' # "ok"
      BY <1>4 DEF ResolveReturn, Exit, Refuse, Bridging, ConnectCode
    <2>2. command = "help" => status' # "ok" /\ status' # "remote"
      BY <1>0, <2>1 DEF HelpInv
    <2> QED
      BY <1>0, <2>1, <2>2, ExitParts
  <1>5. CASE CallReturn
    <2>1. /\ command = "call" /\ UNCHANGED <<task, answers>> /\ pc = "return"
          /\ status' \in {"timeout", "closed", "callfailed", "canceled"} => status # "ok"
      BY <1>5 DEF CallReturn, Exit
    <2> QED
      BY <1>0, <1>1, <2>1, ExitParts DEF Calling
  <1>6. CASE HelpReturn
    <2> DEFINE code == CASE status # "ok"   -> status
                         [] reply = "error" -> "remote"
                         [] reply = "empty" -> "invalid"
                         [] OTHER           -> "ok"
    <2>1. /\ command \in {"help", "resolve"} /\ goal' = "call" /\ goal = "call" /\ reply' = reply
          /\ pc = "return"
          /\ command = "help" => status' = code
      BY <1>6 DEF HelpReturn, Exit
    <2>2. ASSUME command = "help"
          PROVE  /\ status' = "ok" <=> reply' = "final"
                 /\ status' = "remote" => reply' = "error"
      <3>1. /\ status # "remote"
            /\ IF status = "ok" THEN reply \in {"final", "error", "empty"} ELSE reply = "none"
        BY <1>0, <2>1, <2>2 DEF HelpInv, LastReplies
      <3>2. CASE status # "ok"
        <4>1. code = status
          BY <3>1, <3>2
        <4> HIDE DEF code
        <4> QED
          BY <2>1, <2>2, <3>1, <3>2, <4>1
      <3>3. CASE status = "ok"
        <4>1. /\ reply = "error" => code = "remote"
              /\ reply = "empty" => code = "invalid"
              /\ reply = "final" => code = "ok"
          BY <3>3
        <4> HIDE DEF code
        <4> QED
          BY <2>1, <2>2, <3>1, <3>3, <4>1
      <3> QED
        BY <3>2, <3>3
    <2> QED
      BY <1>0, <2>1, <2>2, ExitParts
  <1>7. CASE BridgeRead
    <2>1. /\ AtEnd /\ status' = "ok" /\ pc = "read" /\ stdin.buffer = <<>>
          /\ UNCHANGED <<answers, asked, client>>
      BY <1>7 DEF BridgeRead, Exit
    <2>2. command = "bridge"
      BY <2>1 DEF Outcome, OnlyBridges, Looking
    <2>3. Taken = Len(asked)
      <3>1. Len(<<>>) = 0
        BY EmptySeq
      <3> QED
        BY <1>0, <2>1, <3>1, InboxTypes DEF AtEnd
    <2>4. ~client.gone => \A i \in 1..Len(asked) : Done(i)
      BY <1>0, <2>1, <2>2, <2>3 DEF OthersAreDone, Looking
    <2>5. \A i : Done(i)' <=> Done(i)
      BY <2>1, AnsweredSame DEF Done
    <2> QED
      BY <1>0, <2>1, <2>2, <2>4, <2>5, ExitParts
  <1>8. CASE BridgeTake \/ BridgeGivesUp
    <2>1. command = "bridge"
      <3>1. pc \in {"read", "refused"}
        BY <1>8 DEF BridgeTake, BridgeGivesUp
      <3> QED
        BY <3>1 DEF Outcome, OnlyBridges, Looking
    <2>2. status' \in {"panic", "invalid", "missing"}
      <3>1. CASE BridgeTake
        BY <3>1 DEF BridgeTake, Forward, Exit
      <3>2. CASE BridgeGivesUp
        BY <1>0, <2>1, <3>2 DEF BridgeGivesUp, TaskIsLast
      <3> QED
        BY <1>8, <3>1, <3>2
    <2> QED
      BY <1>0, <2>1, <2>2, ExitParts
  <1>9. CASE BridgeReturn
    <2>1. /\ status # "ok" /\ status' = status /\ pc = "return" /\ command = "bridge"
          /\ UNCHANGED <<task, answers>>
      BY <1>9 DEF BridgeReturn, MayGoOn, Bridging
    <2> QED
      BY <1>0, <1>1, <2>1, ExitParts DEF Calling
  <1>10. CASE BridgeSignal
    <2>1. pc = "wait" /\ status' = "canceled" /\ UNCHANGED <<task, answers>>
      BY <1>10 DEF BridgeSignal, Exit
    <2>2. command = "bridge" /\ task = NoTask
      BY <1>0, <2>1 DEF Outcome, OnlyBridges, Looking, TaskIsLast
    <2>3. ~Answered(task.no)'
      <3>1. \A j \in DOMAIN answers : answers[j].call \in 1..Taken
        BY <1>0, <2>2, InboxTypes DEF InboxKnown
      <3>2. 0 \notin 1..Taken
        OBVIOUS
      <3> QED
        BY <2>1, <2>2, <3>1, <3>2, AnsweredSame DEF Answered, NoTask
    <2> QED
      BY <1>0, <2>1, <2>2, <2>3, ExitParts
  <1>11. CASE CopySteps
    <2>1. command = "direct"
      BY <1>11 DEF CopySteps, CopyBegin, CopyWait, CopyEnd, CopyRead, CopyWrite, CopyWritten,
                   Outcome, Copies
    <2> QED
      BY <1>0, <2>1, ExitParts
  <1>12. CASE \/ Begin \/ Connect \/ WriteCall \/ LoopSignal \/ LoopTimeout \/ LoopEvent
              \/ HandleReply \/ HandleNoise \/ HandleNothing \/ BridgeWake \/ BridgeRefuse
    BY <1>12 DEF Begin, Connect, WriteCall, LoopSignal, LoopTimeout, LoopEvent, OnSignal, Returns,
                 HandleReply, HandleNoise, HandleNothing, BridgeWake, BridgeRefuse
  <1>13. CASE PeerSteps \/ SendSignal \/ Client \/ DirectEnv
    BY <1>13 DEF PeerSteps, PeerReads, PeerAnswers, PeerReplies, PeerErrs, PeerCloses, SendSignal,
                 Client, Ask, CloseIn, Leave, ReadOut, DirectEnv, ServerReads, ServerSends, ServerCloses
  <1> QED
    BY <1>2, <1>3, <1>4, <1>5, <1>6, <1>7, <1>8, <1>9, <1>10, <1>11, <1>12, <1>13
    DEF Next, Program, Signaled, Services, CliSteps, BridgeSteps

-----------------------------------------------------------------------------
(* The theorems.                                                           *)

\* Nothing is connected, asked or answered at first.
LEMMA InitOutcome == Init => Outcome
  <1> SUFFICES ASSUME Init PROVE Outcome
    OBVIOUS
  <1>0. /\ Copies /\ pc \in {"read", "begin"} /\ (command = "bridge" => pc = "read")
        /\ command # "bridge" => pc = "begin"
        /\ task \in {NoTask} \cup [no : {1}, kind : {"plain", "more"}, method : {"near", "far"}]
        /\ status = "ok" /\ reply = "none" /\ answers = <<>> /\ asked = <<>>
        /\ stdin.pipe = <<>> /\ stdin.buffer = <<>> /\ link = NoLink /\ peer = NoPeer
        /\ command \notin {"call", "help", "resolve"} => task = NoTask
        /\ ~client.gone
    BY InitCopies DEF Init, Started
  <1>1. Len(<<>>) = 0 /\ DOMAIN <<>> = {} /\ 1..0 = {}
    BY EmptySeq
  <1>2. OnlyBridges /\ GoneIsClosed /\ ExitTellsOutcome
    BY <1>0 DEF OnlyBridges, GoneIsClosed, Looking, ExitTellsOutcome
  <1>6. LinkInv
    BY <1>0, <1>1 DEF LinkInv, LinkIsOpen, LinkIsFree, RepliesKnown, WaitsForReply, NoLink, NoPeer
  <1>3. CallInv
    BY <1>0, <1>1 DEF CallInv, Answered
  <1>4. ASSUME command = "bridge" PROVE BridgeInv
    <2>1. Taken = 0
      <3>1. Len(asked) = 0 /\ Len(stdin.pipe) = 0 /\ Len(stdin.buffer) = 0
        BY <1>0, <1>1
      <3> QED
        BY <3>1 DEF Taken
    <2>2. InboxKnown
      BY <1>0, <1>1, <2>1 DEF InboxKnown, Known
    <2>3. pc \in Looking /\ pc \notin Working /\ pc \notin {"refuse", "refused", "return"}
      BY <1>0, <1>4 DEF Looking, Working
    <2>4. TaskIsLast
      BY <1>0, <1>4, <2>3 DEF TaskIsLast
    <2>5. OthersAreDone
      BY <1>1, <2>1, <2>3 DEF OthersAreDone
    <2> QED
      BY <2>2, <2>3, <2>4, <2>5 DEF BridgeInv
  <1>5. ASSUME command = "help" PROVE HelpInv
    BY <1>0, <1>5 DEF HelpInv
  <1> QED
    BY <1>0, <1>2, <1>3, <1>4, <1>5, <1>6 DEF Outcome

\* Every step keeps Outcome.
LEMMA NextOutcome == Outcome /\ [Next]_vars => Outcome'
  <1> SUFFICES ASSUME Outcome, [Next]_vars PROVE Outcome'
    OBVIOUS
  <1>1. Copies /\ Copies' /\ TypeOK /\ TypeOK'
    BY NextCopies DEF Outcome, Copies
  <1>2. CASE UNCHANGED vars
    <2>1. LinkInv' /\ OnlyBridges' /\ GoneIsClosed'
      BY <1>2 DEF Outcome, vars, LinkInv, LinkIsOpen, LinkIsFree, RepliesKnown, KnownReplies,
                  LastReplies, WaitsForReply, Kind, OnlyBridges, GoneIsClosed
    <2>2. command = "bridge" => BridgeInv'
      BY <1>2 DEF Outcome, vars, BridgeInv, InboxKnown, Known, TaskIsLast, OthersAreDone, Done,
                  Answered, Taken
    <2>3. command \in {"bridge", "call"} => CallInv'
      BY <1>2 DEF Outcome, vars, CallInv, Calling, Answered
    <2>4. command = "help" => HelpInv'
      BY <1>2 DEF Outcome, vars, HelpInv, LastReplies
    <2>5. ExitTellsOutcome'
      BY <1>2 DEF Outcome, vars, ExitTellsOutcome, Answered
    <2>6. command' = command
      BY <1>2 DEF vars
    <2> QED
      BY <1>1, <2>1, <2>2, <2>3, <2>4, <2>5, <2>6 DEF Outcome
  <1>3. CASE Next
    <2>1. command' = command
      BY <1>3, CommandStays
    <2>2. LinkInv' /\ GoneIsClosed'
      <3>1. LinkInv'
        BY <1>1, <1>3, <2>1, NextLinkInv DEF Outcome
      <3>2. GoneIsClosed'
        BY <1>1, <1>3, GoneStaysClosed DEF Outcome
      <3> QED
        BY <3>1, <3>2
    <2>3. OnlyBridges'
      <3>1. CASE CliSteps \/ LoopSignal \/ LoopTimeout
        BY <2>1, <3>1 DEF CliSteps, Begin, ConnectFails, Connect, WriteCall, WriteNothing, LoopEvent,
                    HandleReply, HandleNoise, HandleNothing, ResolveReturn, CallReturn, HelpReturn,
                    LoopSignal, OnSignal, LoopTimeout, Returns, Exit, Refuse, Bridging, Looking,
                    OnlyBridges
      <3>2. CASE BridgeSteps \/ BridgeSignal
        BY <2>1, <3>2 DEF BridgeSteps, BridgeRead, BridgeWake, BridgeTake, BridgeRefuse,
                    BridgeGivesUp, BridgeReturn, BridgeSignal, Exit, Bridging, Looking, OnlyBridges,
                    Outcome
      <3>3. CASE CopySteps
        BY <3>3 DEF CopySteps, CopyBegin, CopyWait, CopyEnd, CopyRead, CopyWrite, CopyWritten, Exit,
                    Looking, OnlyBridges
      <3>4. CASE PeerSteps \/ SendSignal \/ Client \/ DirectEnv
        <4>1. pc' = pc
          BY <3>4 DEF PeerSteps, PeerReads, PeerAnswers, PeerReplies, PeerErrs, PeerCloses,
                      SendSignal, Client, Ask, CloseIn, Leave, ReadOut, DirectEnv, ServerReads,
                      ServerSends, ServerCloses
        <4> QED
          BY <2>1, <4>1 DEF Outcome, OnlyBridges
      <3> QED
        BY <1>3, <3>1, <3>2, <3>3, <3>4 DEF Next, Program, Signaled, Services
    <2>4. command = "bridge" => BridgeInv'
      BY <1>1, <1>3, NextBridgeInv DEF Outcome, LinkInv
    <2>5. command \in {"bridge", "call"} => CallInv'
      BY <1>1, <1>3, NextCallInv DEF Outcome, LinkInv
    <2>6. command = "help" => HelpInv'
      BY <1>1, <1>3, <2>1, NextHelpInv DEF Outcome
    <2>7. ExitTellsOutcome'
      <3>1. CASE pc = "exit"
        <4>1. /\ UNCHANGED <<command, pc, goal, status, task, reply, answers, asked>>
              /\ client'.gone = client.gone
          BY <1>1, <1>3, <3>1, ExitIsFinal
        <4> QED
          BY <4>1, AnsweredSame DEF Outcome, ExitTellsOutcome
      <3>2. CASE pc # "exit" /\ pc' = "exit"
        BY <1>1, <1>3, <2>1, <3>2, NextExits
      <3>3. CASE pc' # "exit"
        BY <3>3 DEF ExitTellsOutcome
      <3> QED
        BY <3>1, <3>2, <3>3
    <2> QED
      BY <1>1, <2>1, <2>2, <2>3, <2>4, <2>5, <2>6, <2>7 DEF Outcome
  <1> QED
    BY <1>2, <1>3

\* Whatever happens to the tool, what it knows of its calls agrees with what its
\* client sent and with what was printed.
THEOREM OutcomeAlways == Spec => []Outcome
  BY InitOutcome, NextOutcome, PTL DEF Spec

\* The exit code of bridge, call and help tells what became of the calls: a bridge
\* that ends well has answered all of them, a command that fails for the connection,
\* the time or a signal has not printed a last reply to the one it worked on, and
\* help tells an error of the service from one of the connection.
THEOREM ToolTellsOutcome == Spec => []ExitTellsOutcome
  <1>1. Outcome => ExitTellsOutcome
    BY DEF Outcome
  <1> QED
    BY <1>1, OutcomeAlways, PTL

-----------------------------------------------------------------------------
(* The bridge implements Sessions.                                         *)

\* The messages of the client, as Sessions sees them.
Messages(s) == [i \in DOMAIN s |-> Promised(s[i])]
Kinds == AllCallKinds \cup Garbage

\* One more is one more.
LEMMA MessagesAppend ==
    ASSUME NEW s \in Seq(Kinds), NEW kind \in Kinds
    PROVE  Messages(Append(s, kind)) = Append(Messages(s), Promised(kind))
  <1> DEFINE n == Len(s)
             x == Promised(kind)
             d == Append(s, kind)
             K == Kinds
  <1>1. /\ n \in Nat /\ DOMAIN s = 1..n
        /\ d \in Seq(K) /\ Len(d) = n + 1 /\ d[n + 1] = kind
        /\ \A i \in 1..n : d[i] = s[i]
    BY LenProperties, AppendProperties
  <1>2. DOMAIN d = 1..(n + 1)
    BY <1>1, LenProperties
  <1>3. ASSUME NEW t \in Seq(K) PROVE Messages(t) \in Seq(K) /\ Len(Messages(t)) = Len(t)
    <2>1. DOMAIN t = 1..Len(t) /\ Len(t) \in Nat
      BY LenProperties
    <2>2. \A i \in 1..Len(t) : t[i] \in K
      BY ElementOfSeq
    <2>3. \A i \in 1..Len(t) : Promised(t[i]) \in K
      BY <2>2 DEF Promised, Kinds, AllCallKinds
    <2>4. Messages(t) = [i \in 1..Len(t) |-> Promised(t[i])]
      BY <2>1 DEF Messages
    <2> HIDE DEF K
    <2> QED
      BY <2>1, <2>3, <2>4
  <1>4. x \in K
    BY DEF Promised, Kinds, AllCallKinds
  <1> HIDE DEF x, d, K
  <1> DEFINE a == Messages(s)
             b == Messages(d)
  <1>5. s \in Seq(K)
    BY DEF K
  <1>6. a \in Seq(K) /\ Len(a) = n /\ b \in Seq(K) /\ Len(b) = n + 1
    BY <1>1, <1>3, <1>5
  <1>7. b[n + 1] = x /\ \A i \in 1..n : b[i] = a[i]
    <2>1. n + 1 \in 1..(n + 1) /\ \A i \in 1..n : i \in 1..(n + 1)
      BY <1>1
    <2> QED
      BY <1>1, <1>2, <2>1 DEF Messages, x
  <1> HIDE DEF a, b
  <1>8. /\ Append(a, x) \in Seq(K) /\ Len(Append(a, x)) = n + 1 /\ Append(a, x)[n + 1] = x
        /\ \A i \in 1..n : Append(a, x)[i] = a[i]
    BY <1>4, <1>6, AppendProperties
  <1>9. \A i \in 1..Len(b) : b[i] = Append(a, x)[i]
    <2>1. \A i \in 1..(n + 1) : i \in 1..n \/ i = n + 1
      BY <1>1
    <2> QED
      BY <1>6, <1>7, <1>8, <2>1
  <1>10. b = Append(a, x)
    BY <1>6, <1>8, <1>9, SeqEqual
  <1> QED
    BY <1>10 DEF a, b, d, x

\* The calls that were taken.
Taking == IF Over THEN {} ELSE {i \in 1..Taken : asked[i] \in CallKinds}

\* What the variables of Sessions are, for the one client.
LEMMA Mapped ==
    /\ Requested  = [c \in {"client"} |-> IF command = "bridge" THEN Messages(asked) ELSE <<>>]
    /\ Phase      = [c \in {"client"} |-> IF command = "bridge" /\ Over THEN "over" ELSE "open"]
    /\ ActiveCall = [c \in {"client"} |-> IF command = "bridge" THEN Active ELSE 0]
    /\ Served     = [c \in {"client"} |-> IF command = "bridge" THEN Taking ELSE {}]
    /\ Printed    = [c \in {"client"} |-> IF command = "bridge" THEN answers ELSE <<>>]
  BY DEF Requested, Phase, ActiveCall, Served, Printed, OfBridge, Messages, Taking

\* The same after a step.
LEMMA MappedNext ==
    /\ Requested'  = [c \in {"client"} |-> IF command' = "bridge" THEN Messages(asked') ELSE <<>>]
    /\ Phase'      = [c \in {"client"} |-> IF command' = "bridge" /\ Over' THEN "over" ELSE "open"]
    /\ ActiveCall' = [c \in {"client"} |-> IF command' = "bridge" THEN Active' ELSE 0]
    /\ Served'     = [c \in {"client"} |-> IF command' = "bridge" THEN Taking' ELSE {}]
    /\ Printed'    = [c \in {"client"} |-> IF command' = "bridge" THEN answers' ELSE <<>>]
  BY DEF Requested, Phase, ActiveCall, Served, Printed, OfBridge, Messages, Taking

\* A step that the client of a bridge does not see.
LEMMA PromiseStands ==
    ASSUME command' = command,
           command = "bridge" => /\ asked' = asked /\ answers' = answers /\ Over' = Over
                                 /\ Active' = Active /\ Taking' = Taking
    PROVE  UNCHANGED Promise!vars
  BY Mapped, MappedNext DEF Promise!vars

\* The end of the bridge, or of its client.
LEMMA PromiseEnds ==
    ASSUME TypeOK, command' = command, command = "bridge", Over', asked' = asked, answers' = answers
    PROVE  Promise!End("client")
  <1>1. Active' = 0 /\ Taking' = {}
    BY DEF Active, Taking
  <1>2. /\ Requested' = Requested
        /\ Phase' = [Phase EXCEPT !["client"] = "over"]
        /\ ActiveCall' = [ActiveCall EXCEPT !["client"] = 0]
        /\ Served' = [Served EXCEPT !["client"] = {}]
        /\ Printed' = Printed /\ Printed["client"] = answers /\ DOMAIN Printed = {"client"}
    BY <1>1, Mapped, MappedNext
  <1>3. Printed' = [Printed EXCEPT !["client"] = SubSeq(@, 1, Len(answers))]
    <2>1. SubSeq(answers, 1, Len(answers)) = answers
      BY SubSeqFull DEF TypeOK
    <2>2. Printed = [c \in {"client"} |-> answers]
      BY Mapped
    <2> QED
      BY <1>2, <2>1, <2>2
  <1>4. Len(answers) \in 0..Len(Printed["client"])
    <2>1. Len(answers) \in Nat
      BY LenProperties DEF TypeOK
    <2> QED
      BY <1>2, <2>1
  <1> QED
    BY <1>2, <1>3, <1>4 DEF Promise!End

\* The client sends another message.
LEMMA PromiseAsks ==
    ASSUME TypeOK, TypeOK', BridgeInv, command' = command, command = "bridge", ~Over,
           NEW kind \in Kinds, NEW method, Ask(kind, method)
    PROVE  Promise!Ask("client")
  <1>1. /\ UNCHANGED <<pc, task, answers, client>> /\ asked' = Append(asked, kind)
        /\ pc # "exit" /\ kind \in AllCallKinds \cup Garbage
    BY DEF Ask, Over, Kinds
  <1>2. Taken' = Taken /\ \A i \in 1..Taken : asked'[i] = asked[i]
    BY <1>1, BridgeIsAsked
  <1>3. Over' = Over
    BY <1>1 DEF Over
  <1>4. Active' = Active
    BY <1>1, <1>3, AnsweredSame DEF Active
  <1>5. Taking' = Taking
    BY <1>2, <1>3 DEF Taking
  <1>6. Messages(asked') = Append(Messages(asked), Promised(kind))
    BY <1>1, MessagesAppend DEF TypeOK, Kinds
  <1> DEFINE m == Messages(asked)
             k == Promised(kind)
  <1>7. k \in AllCallKinds \cup Garbage
    BY <1>1 DEF Promised, AllCallKinds
  <1>8. /\ Requested = [c \in {"client"} |-> m]
        /\ Requested' = [c \in {"client"} |-> Append(m, k)]
    BY <1>6, Mapped, MappedNext
  <1> HIDE DEF m, k
  <1>9. Requested' = [Requested EXCEPT !["client"] = Append(@, k)]
    BY <1>8
  <1>10. Phase["client"] = "open" /\ UNCHANGED <<Phase, ActiveCall, Served, Printed>>
    BY <1>1, <1>3, <1>4, <1>5, Mapped, MappedNext
  <1> QED
    BY <1>7, <1>9, <1>10 DEF Promise!Ask

\* What was taken was asked.
LEMMA TakenIsAsked ==
    ASSUME TypeOK, Taken \in Nat, Taken > 0
    PROVE  Taken \in DOMAIN asked
  <1> DEFINE n == Len(asked)
             a == Len(stdin.pipe)
             b == Len(stdin.buffer)
             k == Taken
  <1>1. /\ n \in Nat /\ a \in Nat /\ b \in Nat /\ k = n - a - b /\ k \in Nat /\ k > 0
        /\ DOMAIN asked = 1..n
    <2>1. asked \in Seq(AllCallKinds \cup Garbage)
      BY InboxTypes
    <2>2. DOMAIN asked = 1..n
      BY <2>1, LenProperties
    <2> QED
      BY <2>2, InboxTypes
  <1> HIDE DEF n, a, b, k
  <1>2. k \in 1..n
    BY <1>1
  <1> QED
    BY <1>1, <1>2 DEF k

\* The bridge takes a call.
LEMMA PromiseTakes ==
    ASSUME TypeOK, TypeOK', BridgeInv, command' = command, command = "bridge", ~Over, ~Over',
           BridgeTake
    PROVE  Promise!Take("client")
  <1> DEFINE k == Taken
  <1>1. /\ UNCHANGED <<answers, asked, client>> /\ pc = "read" /\ pc' # "exit" /\ pc # "exit"
        /\ pc' \in Working
    BY DEF BridgeTake, Forward, Exit, Over, Working
  <1>2. BridgeInv' /\ ~Answered(task.no)' /\ Taken' = Taken + 1
    BY <1>1, BridgeTakes
  <1>3. /\ task = NoTask /\ Taken \in Nat /\ task'.no = Taken' /\ task'.kind = asked[Taken']
        /\ task'.kind \in CallKinds
    BY <1>1, <1>2 DEF BridgeInv, TaskIsLast, InboxKnown, Looking
  <1>4. Active = 0 /\ Active' = k + 1
    BY <1>2, <1>3, ConstantTypes DEF Active, NoTask, AllCallKinds
  <1>5. k \in Nat /\ k + 1 \in 1..Len(asked) /\ DOMAIN asked = 1..Len(asked)
    <2>1. Taken' \in DOMAIN asked'
      <3>1. Taken' \in Nat /\ Taken' > 0
        BY <1>2, <1>3
      <3> DEFINE n == Len(asked')
                 a == Len(stdin'.pipe)
                 b == Len(stdin'.buffer)
                 t == Taken'
      <3>2. /\ n \in Nat /\ a \in Nat /\ b \in Nat /\ DOMAIN asked' = 1..n
        <4>1. /\ stdin'.pipe \in Seq(Requests) /\ stdin'.buffer \in Seq(Requests)
              /\ asked' \in Seq(AllCallKinds \cup Garbage)
          BY DEF TypeOK
        <4> QED
          BY <4>1, LenProperties
      <3>3. t = n - a - b /\ t \in Nat /\ t > 0
        BY <3>1 DEF Taken
      <3> HIDE DEF n, a, b, t
      <3>4. t \in 1..n
        BY <3>2, <3>3
      <3> QED
        BY <3>2, <3>4 DEF t
    <2>2. DOMAIN asked = 1..Len(asked)
      <3>1. asked \in Seq(AllCallKinds \cup Garbage)
        BY DEF TypeOK
      <3> QED
        BY <3>1, LenProperties
    <2> QED
      BY <1>1, <1>2, <1>3, <2>1, <2>2
  <1>6. asked[k + 1] \in CallKinds
    BY <1>2, <1>3
  <1>7. Taking' = Taking \cup {k + 1} /\ \A j \in Taking : j < k + 1
    <2>1. Taking = {i \in 1..k : asked[i] \in CallKinds}
      BY DEF Taking
    <2>2. Taking' = {i \in 1..(k + 1) : asked[i] \in CallKinds}
      BY <1>1, <1>2 DEF Taking
    <2> HIDE DEF k
    <2>3. 1..(k + 1) = 1..k \cup {k + 1} /\ \A j \in 1..k : j < k + 1
      BY <1>5
    <2> QED
      BY <1>6, <2>1, <2>2, <2>3
  <1>8. /\ k + 1 \in DOMAIN Messages(asked)
        /\ Messages(asked)[k + 1] \in {"plain", "more", "oneway"}
    BY <1>5, <1>6, ConstantTypes DEF Messages, Promised, AllCallKinds
  <1> HIDE DEF k
  <1>9. /\ Phase["client"] = "open" /\ ActiveCall["client"] = 0
        /\ Requested["client"] = Messages(asked) /\ Served["client"] = Taking
        /\ ActiveCall' = [ActiveCall EXCEPT !["client"] = k + 1]
        /\ UNCHANGED <<Requested, Phase, Printed>>
    BY <1>1, <1>4, Mapped, MappedNext
  <1>10. Served' = [Served EXCEPT !["client"] = @ \cup {k + 1}]
    <2>1. Served = [c \in {"client"} |-> Taking] /\ Served' = [c \in {"client"} |-> Taking \cup {k + 1}]
      BY <1>7, Mapped, MappedNext
    <2> QED
      BY <2>1
  <1> QED
    BY <1>7, <1>8, <1>9, <1>10 DEF Promise!Take, Promise!Callable

\* The bridge passes on a reply, or answers by itself.
LEMMA PromisePrints ==
    ASSUME TypeOK, BridgeInv, pc \in Working, CallInv, Calling,
           command' = command, command = "bridge", ~Over, ~Over',
           UNCHANGED <<task, asked, stdin>>, NEW kind \in {"continues", "final", "error"},
           Print_(kind),
           kind = "continues" => task.kind = "more", kind = "final" => task.kind # "oneway"
    PROVE  Promise!Continue("client") \/ Promise!Answer("client")
  <1>0. kind \in ReplyKinds /\ ~client.gone
    BY DEF ReplyKinds, Over
  <1>1. /\ task.no = Taken /\ Taken > 0 /\ task.kind = asked[Taken] /\ task.kind \in CallKinds
        /\ Taken \in Nat /\ Taken' = Taken
    BY DEF BridgeInv, TaskIsLast, InboxKnown, Working, Taken
  <1>2. ~Answered(task.no) /\ (Answered(task.no)' <=> kind # "continues")
    BY <1>0, AnsweredByPrint DEF CallInv
  <1>3. Active = Taken /\ Active' = (IF kind = "continues" THEN Taken ELSE 0)
    BY <1>1, <1>2 DEF Active
  <1>4. Taking' = Taking
    BY <1>1 DEF Taking
  <1> DEFINE a == [call |-> Taken, n |-> Given(Taken) + 1, kind |-> kind]
  <1>5. answers' = Append(answers, a)
    BY <1>0, <1>1 DEF Print_
  <1>6. /\ ActiveCall = [c \in {"client"} |-> Taken]
        /\ ActiveCall' = [c \in {"client"} |-> IF kind = "continues" THEN Taken ELSE 0]
        /\ Printed = [c \in {"client"} |-> answers]
        /\ Printed' = [c \in {"client"} |-> Append(answers, a)]
        /\ Requested["client"] = Messages(asked)
        /\ UNCHANGED <<Requested, Phase, Served>>
    BY <1>3, <1>4, <1>5, Mapped, MappedNext
  <1>7. Promise!Given("client") = Given(Taken)
    <2>1. Printed["client"] = answers /\ ActiveCall["client"] = Taken
      BY <1>6
    <2> DEFINE theirs == {j \in DOMAIN Printed["client"] :
                            Printed["client"][j].call = ActiveCall["client"]}
               ours == {j \in DOMAIN answers : answers[j].call = Taken}
    <2>2. Promise!Given("client") = Cardinality(theirs) /\ Given(Taken) = Cardinality(ours)
      BY DEF Promise!Given, Given, Promise!Cardinality, Cardinality
    <2>3. theirs = ours
      BY <2>1
    <2> HIDE DEF theirs, ours
    <2> QED
      BY <2>2, <2>3
  <1>8. Promise!ActiveKind("client") = Promised(task.kind)
    <2>1. Taken \in DOMAIN asked
      BY <1>1, TakenIsAsked
    <2> QED
      BY <1>1, <1>6, <2>1 DEF Promise!ActiveKind, Messages
  <1> HIDE DEF a
  <1>9. Promise!Reply("client", kind)
    <2>1. Printed' = [Printed EXCEPT !["client"] = Append(@, a)]
      BY <1>6
    <2>2. a = [call |-> ActiveCall["client"], n |-> Promise!Given("client") + 1, kind |-> kind]
      BY <1>6, <1>7 DEF a
    <2> QED
      BY <2>1, <2>2 DEF Promise!Reply
  <1>10. ActiveCall["client"] # 0
    BY <1>1, <1>6
  <1>11. CASE kind = "continues"
    <2>1. Promise!ActiveKind("client") = "more"
      BY <1>8, <1>11 DEF Promised
    <2>2. ActiveCall' = ActiveCall
      BY <1>6, <1>11
    <2> QED
      BY <1>6, <1>9, <1>10, <1>11, <2>1, <2>2 DEF Promise!Continue
  <1>12. CASE kind # "continues"
    <2>1. ActiveCall' = [ActiveCall EXCEPT !["client"] = 0]
      BY <1>6, <1>12
    <2>2. kind = "error" \/ (kind = "final" /\ Promise!ActiveKind("client") # "oneway")
      BY <1>8, <1>12 DEF Promised
    <2> QED
      BY <1>6, <1>9, <1>10, <2>1, <2>2 DEF Promise!Answer
  <1> QED
    BY <1>11, <1>12

\* The bridge is done with a call.
LEMMA PromiseCompletes ==
    ASSUME TypeOK, BridgeInv, command' = command, command = "bridge", ~Over, ~Over', BridgeReturn
    PROVE  Promise!Complete("client") \/ UNCHANGED Promise!vars
  <1>1. /\ UNCHANGED <<answers, asked, stdin, client>> /\ status = "ok" /\ pc = "return"
        /\ goal = "call" /\ task' = NoTask /\ pc \in Working /\ pc # "exit" /\ ~client.gone
    BY DEF BridgeReturn, MayGoOn, Over, Working
  <1>2. /\ task.no = Taken /\ Taken > 0 /\ task.kind = asked[Taken] /\ task.kind \in CallKinds
        /\ Taken \in Nat /\ Done(Taken)
    BY <1>1 DEF BridgeInv, TaskIsLast, InboxKnown, OthersAreDone
  <1>3. Taken' = Taken /\ Taking' = Taking
    BY <1>1 DEF Taken, Taking, Over
  <1>4. Active' = 0
    BY <1>1, ConstantTypes DEF Active, NoTask, AllCallKinds
  <1>5. CASE Answered(task.no)
    <2>1. Active = 0
      BY <1>5 DEF Active
    <2> QED
      BY <1>1, <1>3, <1>4, <2>1, PromiseStands DEF Over
  <1>6. CASE ~Answered(task.no)
    <2>1. Active = Taken
      BY <1>2, <1>6 DEF Active
    <2>2. task.kind = "oneway"
      BY <1>2, <1>6, ConstantTypes DEF Done, AllCallKinds
    <2>3. Promise!ActiveKind("client") = "oneway" /\ ActiveCall["client"] # 0
      <3>1. Taken \in DOMAIN asked
        BY <1>2, TakenIsAsked
      <3>2. ActiveCall["client"] = Taken /\ Requested["client"] = Messages(asked)
        BY <2>1, Mapped
      <3>3. Messages(asked)[Taken] = "oneway"
        BY <1>2, <2>2, <3>1 DEF Messages, Promised
      <3> QED
        BY <1>2, <3>2, <3>3 DEF Promise!ActiveKind
    <2>4. ActiveCall' = [ActiveCall EXCEPT !["client"] = 0]
      BY <1>4, Mapped, MappedNext
    <2>5. UNCHANGED <<Requested, Phase, Served, Printed>>
      BY <1>1, <1>3, Mapped, MappedNext DEF Over
    <2> QED
      BY <2>3, <2>4, <2>5 DEF Promise!Complete
  <1> QED
    BY <1>5, <1>6

\* What a step of the bridge is to Sessions.
LEMMA BridgeMoves ==
    ASSUME Outcome, TypeOK', command = "bridge", pc # "exit", Next
    PROVE  \/ ~stdin.closed /\ \E kind \in Kinds : \E method : Ask(kind, method)
           \/ BridgeTake
           \/ BridgeReturn
           \/ /\ pc \in {"handle", "refuse"} /\ pc' # "exit" /\ UNCHANGED <<task, asked, stdin>>
              /\ \E kind \in {"continues", "final", "error"} :
                   /\ Print_(kind)
                   /\ kind = "continues" => task.kind = "more"
                   /\ kind = "final" => task.kind # "oneway"
           \/ /\ UNCHANGED <<asked, answers, task>>
              /\ pc' = "exit" \/ Taken' = Taken
  <1>0. TypeOK /\ BridgeInv /\ LinkInv
    BY DEF Outcome, Copies
  <1>1. UNCHANGED <<asked, stdin>> => Taken' = Taken
    BY DEF Taken
  <1>2. CASE (CliSteps \/ LoopSignal \/ LoopTimeout \/ PeerSteps \/ SendSignal) /\ UNCHANGED cliOnly
    <2>1. CASE HandleReply
      <3> DEFINE kind == Head(peer.replies)
      <3>1. /\ pc = "handle" /\ peer.replies # <<>> /\ UNCHANGED <<task, asked, stdin>> /\ pc' # "exit"
            /\ link.pending /\ kind \in ReplyKinds /\ (kind = "continues" => Kind = "more")
            /\ Callback(kind)
        BY <1>2, <2>1 DEF HandleReply, Expected, Returns, cliOnly
      <3>2. CASE goal = "resolve"
        BY <1>1, <3>1, <3>2 DEF Callback
      <3>3. CASE goal # "resolve"
        <4>1. Print_(kind) /\ Kind = task.kind
          BY <3>1, <3>3 DEF Callback, Kind
        <4>2. kind \in LastReplies \cup {"continues"} \cup Noise
          BY <1>0, <3>1, ReplyTaken DEF LinkInv, KnownReplies
        <4>3. LastReplies = {"final", "error"}
          BY <3>3 DEF LastReplies
        <4> HIDE DEF kind
        <4>4. kind \in {"continues", "final", "error"}
          BY <3>1, <4>2, <4>3, ConstantTypes DEF AllNoise, ReplyKinds
        <4>5. task.kind # "oneway"
          BY <1>0, <3>1, <4>1 DEF LinkInv, WaitsForReply
        <4> QED
          BY <3>1, <4>1, <4>4, <4>5
      <3> QED
        BY <3>2, <3>3
    <2>2. CASE ~HandleReply
      <3>1. UNCHANGED <<task, answers>>
        BY <1>2, <2>2 DEF CliSteps, Begin, ConnectFails, Connect, WriteCall, WriteNothing, LoopEvent,
                    HandleNoise, HandleNothing, ResolveReturn, CallReturn, HelpReturn, LoopSignal,
                    LoopTimeout, PeerSteps, PeerReads, PeerAnswers, PeerReplies, PeerErrs, PeerCloses,
                    SendSignal
      <3> QED
        BY <1>1, <1>2, <3>1 DEF cliOnly
    <2> QED
      BY <2>1, <2>2
  <1>3. CASE BridgeRead
    <2>1. UNCHANGED <<asked, answers, task>>
      BY <1>3 DEF BridgeRead
    <2> QED
      BY <1>0, <1>3, <2>1, BridgeReads
  <1>4. CASE BridgeWake \/ BridgeGivesUp \/ BridgeSignal
    BY <1>1, <1>4 DEF BridgeWake, BridgeGivesUp, BridgeSignal
  <1>5. CASE BridgeRefuse
    BY <1>5 DEF BridgeRefuse
  <1>6. CASE CopySteps \/ DirectEnv
    BY <1>6 DEF CopySteps, CopyBegin, CopyWait, CopyEnd, CopyRead, CopyWrite, CopyWritten, DirectEnv,
                Outcome, Copies
  <1>7. CASE CloseIn \/ Leave \/ ReadOut
    <2>1. /\ UNCHANGED <<asked, answers, task>>
          /\ stdin'.pipe = stdin.pipe /\ stdin'.buffer = stdin.buffer
      BY <1>0, <1>7 DEF CloseIn, Leave, ReadOut, TypeOK
    <2> QED
      BY <2>1 DEF Taken
  <1>8. CASE (\E kind \in CallKinds, method \in Methods : Ask(kind, method))
             \/ (\E kind \in Garbage : Ask(kind, "none"))
    <2>1. CallKinds \subseteq Kinds /\ Garbage \subseteq Kinds
      BY ConstantTypes DEF Kinds
    <2>2. ~stdin.closed
      BY <1>8 DEF Ask
    <2> QED
      BY <1>8, <2>1, <2>2
  <1> QED
    BY <1>2, <1>3, <1>4, <1>5, <1>6, <1>7, <1>8
    DEF Next, Program, Signaled, Services, Client, BridgeSteps

\* Every step of the tool is one of Sessions, or leaves it alone.
LEMMA PromiseStep ==
    ASSUME Outcome, Outcome', [Next]_vars
    PROVE  [Promise!Next]_Promise!vars
  <1>0. TypeOK /\ TypeOK'
    BY DEF Outcome, Copies
  <1>1. CASE UNCHANGED vars
    <2>1. /\ UNCHANGED <<command, asked, answers>> /\ Over' = Over /\ Active' = Active
          /\ Taking' = Taking
      BY <1>1 DEF vars, Over, Active, Answered, Taking, Taken
    <2> QED
      BY <2>1, PromiseStands
  <1> SUFFICES ASSUME Next PROVE [Promise!Next]_Promise!vars
    BY <1>1
  <1>2. command' = command
    BY CommandStays
  <1>3. CASE command # "bridge"
    BY <1>2, <1>3, PromiseStands
  <1>4. CASE command = "bridge" /\ pc = "exit"
    <2>1. UNCHANGED <<asked, answers>> /\ Over /\ Over'
      BY <1>0, <1>4, ExitIsFinal DEF Over
    <2>2. Active = 0 /\ Active' = 0 /\ Taking = {} /\ Taking' = {}
      BY <2>1 DEF Active, Taking
    <2> QED
      BY <1>2, <2>1, <2>2, PromiseStands
  <1>5. CASE command = "bridge" /\ pc # "exit"
    <2>0. /\ BridgeInv /\ CallInv /\ GoneIsClosed /\ (client.gone => client'.gone)
          /\ pc \in {"handle", "refuse"} => pc \in Working /\ Calling
      BY <1>0, <1>5, GoneStaysClosed DEF Outcome, Working, Calling
    <2>1. CASE client.gone
      <3>1. UNCHANGED <<asked, answers>>
        BY <1>5, <2>0, <2>1, BridgeMoves, <1>0 DEF GoneIsClosed, BridgeTake, BridgeReturn, Print_
      <3>2. Over /\ Over'
        BY <2>0, <2>1 DEF Over
      <3>3. Active = 0 /\ Active' = 0 /\ Taking = {} /\ Taking' = {}
        BY <3>2 DEF Active, Taking
      <3> QED
        BY <1>2, <3>1, <3>2, <3>3, PromiseStands
    <2>2. CASE ~client.gone
      <3>0. ~Over
        BY <1>5, <2>2 DEF Over
      <3>1. ASSUME NEW kind \in Kinds, NEW method, Ask(kind, method) PROVE Promise!Next
        <4>1. Promise!Ask("client")
          BY <1>0, <1>2, <1>5, <2>0, <3>0, <3>1, PromiseAsks
        <4> QED
          BY <4>1 DEF Promise!Next
      <3>2. ASSUME Over', UNCHANGED <<asked, answers>> PROVE Promise!Next
        <4>1. Promise!End("client")
          BY <1>0, <1>2, <1>5, <3>2, PromiseEnds
        <4> QED
          BY <4>1 DEF Promise!Next
      <3>3. CASE BridgeTake
        <4>1. CASE Over'
          BY <3>2, <3>3, <4>1 DEF BridgeTake
        <4>2. CASE ~Over'
          <5>1. Promise!Take("client")
            BY <1>0, <1>2, <1>5, <2>0, <3>0, <3>3, <4>2, PromiseTakes
          <5> QED
            BY <5>1 DEF Promise!Next
        <4> QED
          BY <4>1, <4>2
      <3>4. CASE BridgeReturn
        <4>1. CASE Over'
          BY <3>2, <3>4, <4>1 DEF BridgeReturn
        <4>2. CASE ~Over'
          <5>1. Promise!Complete("client") \/ UNCHANGED Promise!vars
            BY <1>0, <1>2, <1>5, <2>0, <3>0, <3>4, <4>2, PromiseCompletes
          <5> QED
            BY <5>1 DEF Promise!Next
        <4> QED
          BY <4>1, <4>2
      <3>5. ASSUME pc \in {"handle", "refuse"}, pc' # "exit", UNCHANGED <<task, asked, stdin>>,
                   NEW kind \in {"continues", "final", "error"}, Print_(kind),
                   kind = "continues" => task.kind = "more",
                   kind = "final" => task.kind # "oneway"
            PROVE  Promise!Next
        <4>1. ~Over'
          <5>1. client'.gone = client.gone
            BY <1>0, <3>5, AnsweredByPrint DEF ReplyKinds
          <5> QED
            BY <2>2, <3>5, <5>1 DEF Over
        <4>2. Promise!Continue("client") \/ Promise!Answer("client")
          BY <1>0, <1>2, <1>5, <2>0, <3>0, <3>5, <4>1, PromisePrints
        <4> QED
          BY <4>2 DEF Promise!Next
      <3>6. ASSUME UNCHANGED <<asked, answers, task>>, pc' = "exit" \/ Taken' = Taken
            PROVE  Promise!Next \/ UNCHANGED Promise!vars
        <4>1. CASE Over'
          BY <3>2, <3>6, <4>1
        <4>2. CASE ~Over'
          <5>1. Taken' = Taken
            BY <3>6, <4>2 DEF Over
          <5>2. Over' = Over
            BY <3>0, <4>2 DEF Over
          <5>3. Answered(task.no)' <=> Answered(task.no)
            BY <3>6, AnsweredSame
          <5>4. Active' = Active
            BY <3>0, <3>6, <4>2, <5>3 DEF Active
          <5>5. Taking' = Taking
            BY <3>0, <3>6, <4>2, <5>1 DEF Taking
          <5> QED
            BY <1>2, <3>6, <5>2, <5>4, <5>5, PromiseStands
        <4> QED
          BY <4>1, <4>2
      <3> QED
        BY <1>0, <1>5, <3>1, <3>3, <3>4, <3>5, <3>6, BridgeMoves
    <2> QED
      BY <2>1, <2>2
  <1> QED
    BY <1>3, <1>4, <1>5

\* Nothing is asked, and nobody is served, at first.
LEMMA PromiseInit == Init => Promise!Init
  <1> SUFFICES ASSUME Init PROVE Promise!Init
    OBVIOUS
  <1>0. /\ asked = <<>> /\ answers = <<>> /\ pc # "exit" /\ ~client.gone
        /\ stdin.pipe = <<>> /\ stdin.buffer = <<>>
        /\ command = "bridge" => task = NoTask
    BY DEF Init, Started
  <1>1. ~Over
    BY <1>0 DEF Over
  <1>2. command = "bridge" => Active = 0
    BY <1>0, ConstantTypes DEF Active, NoTask, AllCallKinds
  <1>3. Taking = {}
    <2>1. Len(asked) = 0 /\ Len(stdin.pipe) = 0 /\ Len(stdin.buffer) = 0
      BY <1>0, EmptySeq
    <2>2. Taken = 0
      BY <2>1 DEF Taken
    <2> QED
      BY <2>2 DEF Taking
  <1>4. Messages(asked) = <<>>
    <2>1. DOMAIN asked = {} /\ DOMAIN Messages(asked) = {}
      BY <1>0, EmptySeq DEF Messages
    <2> QED
      BY <1>0 DEF Messages
  <1> QED
    BY <1>0, <1>1, <1>2, <1>3, <1>4, Mapped DEF Promise!Init

\* To its client a bridge is a service: whatever the resolver, the services behind
\* it and the client do, it takes calls one at a time and in order, and answers each
\* as Sessions allows, by a step simulation under the refinement mapping.
THEOREM BridgeKeepsPromise == Spec => KeepsPromise
  <1>1. Outcome /\ Outcome' /\ [Next]_vars => [Promise!Next]_Promise!vars
    BY PromiseStep
  <1> QED
    BY <1>1, PromiseInit, OutcomeAlways, PTL DEF Spec, KeepsPromise, Promise!Spec
=============================================================================
