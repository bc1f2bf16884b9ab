---------------------------- MODULE ServiceOrder ----------------------------
(***************************************************************************)
(* Proofs about Service, for any number of connections, calls and replies  *)
(* and for buffers and sockets of any size: each connection is served as   *)
(* Sessions promises, no busy connection is watched for requests, and,     *)
(* for an application that replies in its callbacks, idle connections and  *)
(* waiting output are watched.                                             *)
(***************************************************************************)
EXTENDS ServiceProofs, FiniteSetTheorems

-----------------------------------------------------------------------------
(* The inductive invariant.                                                *)

\* The cells of requests that the service has not consumed.
Inbox(c) == conn[c].stream.in \o sock[c].up

\* The messages in it are in the order in which they were sent, and were sent
\* after the calls that were taken.
Ascending(cells) ==
    \A p, q \in 1..Len(cells) : cells[p].nul /\ cells[q].nul /\ p < q => cells[p].msg < cells[q].msg
Behind(cells, taken) ==
    \A p \in 1..Len(cells) : cells[p].nul => \A i \in taken : i < cells[p].msg

OrderedAt(c) == Ascending(Inbox(c)) /\ Behind(Inbox(c), Begun(c))
InboxOrdered == \A c \in Connections : OrderedAt(c)

\* A call counts the replies that were made to it.
CountOf(a, i) == Cardinality({j \in DOMAIN a : a[j].call = i})

RepliesCounted ==
    \A c \in Connections, i \in CallNo :
       ~Over(c) => calls[c][i].replies = CountOf(MessagesIn(Outbox(c)), i)

\* Nothing waits in the stream of a connection that is not open.
ClosedIsEmpty == \A c \in Connections : ~IsOpen(c) => conn[c].stream = NewStream

InTurn == IInv /\ InboxOrdered /\ RepliesCounted /\ ClosedIsEmpty

-----------------------------------------------------------------------------
(* The messages in a sequence of cells.                                    *)

\* The NULs among the first n cells are at most n.
LEMMA NulsFinite ==
    ASSUME NEW cells, NEW n \in Nat
    PROVE  /\ IsFiniteSet(NulsIn(cells, n)) /\ Cardinality(NulsIn(cells, n)) \in Nat
           /\ NulsIn(cells, n) \subseteq 1..n
  <1>1. NulsIn(cells, n) \subseteq 1..n
    BY DEF NulsIn
  <1>2. IsFiniteSet(1..n)
    BY FS_Interval
  <1>3. IsFiniteSet(NulsIn(cells, n))
    BY <1>1, <1>2, FS_Subset
  <1> QED
    BY <1>1, <1>3, FS_CardinalityType

\* The messages are a sequence.
LEMMA MessagesType ==
    ASSUME NEW S, NEW s \in Seq(S)
    PROVE  /\ MessagesIn(s) \in Seq({MessagesIn(s)[k] : k \in DOMAIN MessagesIn(s)})
           /\ Len(MessagesIn(s)) = Cardinality(NulsIn(s, Len(s)))
           /\ Len(MessagesIn(s)) \in Nat
  <1> DEFINE n == Cardinality(NulsIn(s, Len(s)))
             f == MessagesIn(s)
             T == {f[k] : k \in DOMAIN f}
  <1>1. n \in Nat
    BY LenProperties, NulsFinite
  <1>2. DOMAIN f = 1..n /\ f = [k \in 1..n |-> f[k]]
    BY DEF MessagesIn
  <1>3. \A k \in 1..n : f[k] \in T
    BY <1>2
  <1> HIDE DEF f, T, n
  <1>4. f \in Seq(T) /\ Len(f) = n
    BY <1>1, <1>2, <1>3
  <1> QED
    BY <1>1, <1>4 DEF f, T, n

\* Nothing holds no message.
LEMMA NoMessages == MessagesIn(<<>>) = <<>>
  <1>1. NulsIn(<<>>, 0) = {}
    BY DEF NulsIn
  <1>2. <<>> \in Seq(ReplyCells) /\ Len(<<>>) = 0
    BY EmptySeq
  <1>3. Cardinality(NulsIn(<<>>, Len(<<>>))) = 0
    BY <1>1, <1>2, FS_EmptySet
  <1>4. /\ MessagesIn(<<>>) \in Seq({MessagesIn(<<>>)[k] : k \in DOMAIN MessagesIn(<<>>)})
        /\ Len(MessagesIn(<<>>)) = 0
    BY <1>2, <1>3, MessagesType
  <1> QED
    BY <1>4, EmptySeq

\* What is in a prefix of the cells does not depend on the others.
LEMMA MessageKept ==
    ASSUME NEW S, NEW s \in Seq(S), NEW t \in Seq(S), Prefix(t, s),
           NEW k \in 1..Cardinality(NulsIn(s, Len(s)))
    PROVE  MessageAt(t, k) = MessageAt(s, k)
  <1> DEFINE a == Len(s)
             b == Len(t)
             m == Cardinality(NulsIn(s, a))
  <1>1. a \in Nat /\ b \in Nat /\ a <= b /\ \A i \in 1..a : s[i] = t[i]
    BY LenProperties DEF Prefix
  <1>2. m \in Nat /\ k \in Nat /\ k <= m
    BY <1>1, NulsFinite
  <1> HIDE DEF a, b, m
  <1>3. ASSUME NEW i \in 1..a PROVE NulsIn(t, i) = NulsIn(s, i)
    <2>1. \A j \in 1..i : j \in 1..a
      BY <1>1, <1>3
    <2> QED
      BY <1>1, <2>1 DEF NulsIn
  <1>4. ASSUME NEW i \in NulsIn(t, b), ~(i <= a) PROVE Cardinality(NulsIn(t, i)) # k
    <2> DEFINE A == NulsIn(s, a)
               B == NulsIn(t, i)
    <2>1. i \in Nat /\ i > a /\ t[i].nul
      BY <1>1, <1>4 DEF NulsIn
    <2>2. A \subseteq 1..a /\ IsFiniteSet(A) /\ IsFiniteSet(B)
      BY <1>1, <2>1, NulsFinite
    <2>3. \A j \in A : j \in B
      <3>1. \A j \in 1..a : j \in 1..i
        BY <1>1, <2>1
      <3> QED
        BY <1>1, <3>1 DEF NulsIn
    <2>4. i \in B /\ i \notin A
      BY <1>1, <2>1 DEF NulsIn
    <2> HIDE DEF A, B
    <2>5. A \cup {i} \subseteq B
      BY <2>3, <2>4
    <2>6. Cardinality(A \cup {i}) = Cardinality(A) + 1 /\ IsFiniteSet(A \cup {i})
      BY <2>2, <2>4, FS_AddElement
    <2>7. Cardinality(A \cup {i}) <= Cardinality(B) /\ Cardinality(B) \in Nat
      BY <2>2, <2>5, FS_Subset, FS_CardinalityType
    <2>8. Cardinality(A) = m
      BY DEF A, m, a
    <2>9. Cardinality(B) > k
      BY <1>2, <2>6, <2>7, <2>8
    <2> QED
      BY <1>2, <2>9 DEF B
  <1>5. \A i : i \in NulsIn(s, a) <=> i \in NulsIn(t, b) /\ i <= a
    <2>1. \A i \in 1..a : i \in 1..b /\ i <= a
      BY <1>1
    <2>2. \A i \in 1..b : i <= a => i \in 1..a
      BY <1>1
    <2> QED
      BY <1>1, <2>1, <2>2 DEF NulsIn
  <1>6. \A i \in NulsIn(s, a) : i \in 1..a
    BY DEF NulsIn
  <1> DEFINE P == {j \in NulsIn(s, a) : Cardinality(NulsIn(s, j)) = k}
             Q == {j \in NulsIn(t, b) : Cardinality(NulsIn(t, j)) = k}
  <1>7. P = Q
    BY <1>3, <1>4, <1>5, <1>6
  <1>8. \A j \in P : s[j] = t[j]
    BY <1>1, <1>6
  <1> HIDE DEF P, Q
  <1>9. {s[j].msg : j \in P} = {t[j].msg : j \in Q}
    BY <1>7, <1>8
  <1> QED
    BY <1>9 DEF MessageAt, P, Q, a, b

\* When the end of the cells is lost, so is the end of the messages.
LEMMA MessagesLost ==
    ASSUME NEW S, NEW s \in Seq(S), NEW t \in Seq(S), Prefix(t, s)
    PROVE  /\ Len(MessagesIn(s)) \in 0..Len(MessagesIn(t))
           /\ MessagesIn(s) = SubSeq(MessagesIn(t), 1, Len(MessagesIn(s)))
  <1> DEFINE a == MessagesIn(s)
             b == MessagesIn(t)
             m == Len(a)
             n == Len(b)
             T == {b[k] : k \in DOMAIN b}
  <1>1. /\ a \in Seq({a[k] : k \in DOMAIN a}) /\ m = Cardinality(NulsIn(s, Len(s))) /\ m \in Nat
        /\ b \in Seq(T) /\ n = Cardinality(NulsIn(t, Len(t))) /\ n \in Nat
    BY MessagesType
  <1>2. m <= n
    <2> DEFINE A == NulsIn(s, Len(s))
               B == NulsIn(t, Len(t))
    <2>1. Len(s) \in Nat /\ Len(t) \in Nat /\ Len(s) <= Len(t) /\ \A i \in 1..Len(s) : s[i] = t[i]
      BY LenProperties DEF Prefix
    <2>2. A \subseteq B
      <3>1. \A i \in 1..Len(s) : i \in 1..Len(t)
        BY <2>1
      <3> QED
        BY <2>1, <3>1 DEF NulsIn
    <2>3. IsFiniteSet(B)
      BY <2>1, NulsFinite
    <2> HIDE DEF A, B
    <2>4. Cardinality(A) <= Cardinality(B)
      BY <2>2, <2>3, FS_Subset
    <2> QED
      BY <1>1, <2>4 DEF A, B
  <1>3. ASSUME NEW k \in 1..m PROVE a[k] = b[k]
    <2>1. MessageAt(t, k) = MessageAt(s, k)
      BY <1>1, <1>3, MessageKept
    <2>2. k \in 1..n
      BY <1>1, <1>2, <1>3
    <2>3. /\ a[k] = CHOOSE x \in MessageAt(s, k) : TRUE
          /\ b[k] = CHOOSE x \in MessageAt(t, k) : TRUE
      BY <1>1, <1>3, <2>2 DEF MessagesIn
    <2> QED
      BY <2>1, <2>3
  <1>4. \A k \in 1..m : a[k] \in T
    <2>1. \A k \in 1..m : k \in DOMAIN b
      <3>1. DOMAIN b = 1..n
        BY <1>1, LenProperties
      <3> QED
        BY <1>1, <1>2, <3>1
    <2> QED
      BY <1>3, <2>1
  <1>5. a \in Seq(T)
    <2>1. a = [k \in 1..m |-> a[k]]
      BY <1>1, LenProperties
    <2> HIDE DEF a, m, T
    <2> QED
      BY <1>1, <1>4, <2>1
  <1> DEFINE d == Take(b, m)
  <1> HIDE DEF a, b, m, n, T
  <1>6. m \in 0..Len(b) /\ b \in Seq(T)
    BY <1>1, <1>2 DEF n
  <1>7. d \in Seq(T) /\ Len(d) = m /\ \A k \in 1..m : d[k] = b[k]
    BY <1>6, TakeProperties
  <1> HIDE DEF d
  <1>8. a = d
    <2>1. Len(a) = Len(d) /\ \A k \in 1..Len(a) : a[k] = d[k]
      BY <1>3, <1>7 DEF m
    <2> QED
      BY <1>5, <1>7, <2>1, SeqEqual
  <1> QED
    BY <1>6, <1>8 DEF a, b, d, m, Take

\* A message that is put behind the cells is put behind their messages.
LEMMA MessagesGrown ==
    ASSUME NEW S, NEW s \in Seq(S), NEW t \in Seq(S), NEW x, NEW n \in Nat, n > 0, Grown(s, t, x, n)
    PROVE  /\ MessagesIn(t) = Append(MessagesIn(s), x)
           /\ \A i : CountOf(MessagesIn(t), i) = CountOf(MessagesIn(s), i) + IF x.call = i THEN 1 ELSE 0
  <1> DEFINE a == Len(s)
             b == Len(t)
             A == NulsIn(s, a)
             B == NulsIn(t, b)
             m == Cardinality(A)
  <1>1. a \in Nat /\ b = a + n /\ b \in Nat /\ b \in 1..b /\ a < b
    BY LenProperties DEF Grown
  <1>2. \A i \in 1..a : t[i] = s[i]
    BY DEF Grown
  <1>3. \A i \in 1..b : i \notin 1..a => t[i].msg = x /\ (t[i].nul <=> i = b)
    <2> SUFFICES ASSUME NEW i \in 1..b, i \notin 1..a
                 PROVE  t[i].msg = x /\ (t[i].nul <=> i = b)
      OBVIOUS
    <2> DEFINE j == i - a
    <2>1. j \in 1..n /\ i = a + j /\ (j = n <=> i = b)
      BY <1>1
    <2> HIDE DEF j
    <2> QED
      BY <2>1 DEF Grown
  <1> HIDE DEF a, b
  <1>4. IsFiniteSet(A) /\ m \in Nat /\ A \subseteq 1..a
    BY <1>1, NulsFinite
  <1>5. B = A \cup {b} /\ b \notin A
    <2>1. \A i \in 1..a : i \in 1..b /\ i # b
      BY <1>1
    <2> QED
      BY <1>1, <1>2, <1>3, <2>1 DEF NulsIn
  <1>6. Cardinality(B) = m + 1
    BY <1>4, <1>5, FS_AddElement
  <1>7. \A i \in A : Cardinality(NulsIn(t, i)) # m + 1
    <2> SUFFICES ASSUME NEW i \in A
                 PROVE  Cardinality(NulsIn(t, i)) <= m /\ Cardinality(NulsIn(t, i)) \in Nat
      BY <1>4
    <2>1. i \in Nat /\ \A j \in 1..i : j \in 1..a
      BY <1>1, <1>4
    <2>2. NulsIn(t, i) \subseteq A
      BY <1>2, <2>1 DEF NulsIn
    <2> HIDE DEF A
    <2> QED
      BY <1>4, <2>1, <2>2, FS_Subset, FS_CardinalityType
  <1>8. MessageAt(t, m + 1) = {x}
    <2> DEFINE P == {j \in B : Cardinality(NulsIn(t, j)) = m + 1}
    <2>1. P = {b}
      BY <1>5, <1>6, <1>7
    <2>2. t[b].msg = x
      BY <1>1, <1>3
    <2> HIDE DEF P
    <2>3. {t[j].msg : j \in P} = {x}
      BY <2>1, <2>2
    <2> QED
      BY <2>3 DEF MessageAt, P, b
  <1> DEFINE f == MessagesIn(s)
             g == MessagesIn(t)
             T == {g[k] : k \in DOMAIN g}
  <1>9. /\ g \in Seq(T) /\ Len(g) = m + 1 /\ Len(f) = m
    BY <1>6, MessagesType DEF a, b
  <1>10. g[m + 1] = x
    <2>1. m + 1 \in 1..(m + 1)
      BY <1>4
    <2>2. g[m + 1] = CHOOSE y \in MessageAt(t, m + 1) : TRUE
      BY <1>6, <2>1 DEF MessagesIn, b
    <2> QED
      BY <1>8, <2>2
  <1>11. f = SubSeq(g, 1, m)
    <2>1. Prefix(t, s)
      BY <1>1, <1>2 DEF Prefix, a, b
    <2> QED
      BY <1>9, <2>1, MessagesLost
  <1> HIDE DEF f, g, T, m
  <1>12. f \in Seq(T) /\ \A k \in 1..m : f[k] = g[k]
    <2>1. m \in 0..Len(g)
      BY <1>4, <1>9
    <2> QED
      BY <1>9, <1>11, <2>1, TakeProperties DEF Take
  <1>13. x \in T
    <2>1. m + 1 \in DOMAIN g
      <3>1. DOMAIN g = 1..(m + 1)
        BY <1>9, LenProperties
      <3> QED
        BY <1>4, <3>1
    <2> QED
      BY <1>10, <2>1 DEF T
  <1>14. /\ Append(f, x) \in Seq(T) /\ Len(Append(f, x)) = m + 1
         /\ Append(f, x)[m + 1] = x /\ \A k \in 1..m : Append(f, x)[k] = f[k]
    BY <1>9, <1>12, <1>13, AppendProperties
  <1>15. g = Append(f, x)
    <2>1. \A k \in 1..(m + 1) : k \in 1..m \/ k = m + 1
      BY <1>4
    <2>2. \A k \in 1..Len(g) : g[k] = Append(f, x)[k]
      BY <1>9, <1>10, <1>12, <1>14, <2>1
    <2> QED
      BY <1>9, <1>14, <2>2, SeqEqual
  <1>16. ASSUME NEW i PROVE CountOf(g, i) = CountOf(f, i) + IF x.call = i THEN 1 ELSE 0
    <2> DEFINE F == {j \in DOMAIN f : f[j].call = i}
               G == {j \in DOMAIN g : g[j].call = i}
    <2>1. DOMAIN f = 1..m /\ DOMAIN g = 1..(m + 1)
      BY <1>9, <1>12, LenProperties
    <2>2. \A j : j \in 1..(m + 1) <=> j \in 1..m \/ j = m + 1
      BY <1>4
    <2>3. G = IF x.call = i THEN F \cup {m + 1} ELSE F
      BY <1>10, <1>12, <2>1, <2>2
    <2>4. m + 1 \notin F
      BY <1>4, <2>1
    <2>5. IsFiniteSet(F)
      <3>1. IsFiniteSet(1..m) /\ F \subseteq 1..m
        BY <1>4, <2>1, FS_Interval
      <3> QED
        BY <3>1, FS_Subset
    <2> HIDE DEF F, G
    <2>6. Cardinality(F) \in Nat /\ Cardinality(F \cup {m + 1}) = Cardinality(F) + 1
      BY <2>4, <2>5, FS_CardinalityType, FS_AddElement
    <2>7. Cardinality(G) = Cardinality(F) + IF x.call = i THEN 1 ELSE 0
      BY <2>3, <2>6
    <2> QED
      BY <2>7 DEF CountOf, F, G
  <1> QED
    BY <1>15, <1>16 DEF f, g

-----------------------------------------------------------------------------
(* What a step does to its connection, and to the others.                  *)

\* The types of what belongs to a connection.
LEMMA PartTypes ==
    ASSUME TypeOK, NEW c \in Connections
    PROVE  /\ TypeParts
           /\ conn[c] \in ConnectionType /\ calls[c] \in [CallNo -> CallType]
           /\ client[c] \in ClientType /\ sock[c] \in SockType
           /\ conn[c].stream \in StreamOf(RequestCells, ReplyCells)
           /\ conn[c].stream.in \in Seq(RequestCells) /\ conn[c].stream.out \in Seq(ReplyCells)
           /\ sock[c].up \in Seq(RequestCells) /\ sock[c].down \in Seq(ReplyCells)
           /\ client[c].got \in Seq(ReplyCells) /\ client[c].requests \in Seq(Kinds)
  <1>1. TypeParts
    BY TypeInParts
  <1>2. /\ conn[c] \in ConnectionType /\ calls[c] \in [CallNo -> CallType]
        /\ client[c] \in ClientType /\ sock[c] \in SockType
    BY <1>1 DEF TypeParts
  <1>3. conn[c].stream \in StreamOf(RequestCells, ReplyCells)
    BY <1>2, StreamsAre DEF ConnectionType
  <1>4. conn[c].stream.in \in Seq(RequestCells) /\ conn[c].stream.out \in Seq(ReplyCells)
    BY <1>3 DEF StreamOf
  <1>5. sock[c].up \in Seq(RequestCells) /\ sock[c].down \in Seq(ReplyCells)
    BY <1>2 DEF SockType
  <1>6. client[c].got \in Seq(ReplyCells) /\ client[c].requests \in Seq(Kinds)
    BY <1>2 DEF ClientType
  <1> QED
    BY <1>1, <1>2, <1>3, <1>4, <1>5, <1>6

\* The cells on their way are cells.
LEMMA BoxTypes ==
    ASSUME TypeOK, NEW c \in Connections
    PROVE  Inbox(c) \in Seq(RequestCells) /\ Outbox(c) \in Seq(ReplyCells)
  <1>1. Inbox(c) \in Seq(RequestCells)
    BY PartTypes, ConcatProperties DEF Inbox
  <1>2. sock[c].down \o conn[c].stream.out \in Seq(ReplyCells)
    BY PartTypes, ConcatProperties
  <1>3. (IF Gone(c) THEN <<>> ELSE sock[c].down \o conn[c].stream.out) \in Seq(ReplyCells)
    BY <1>2, EmptySeq
  <1> QED
    BY <1>1, <1>3, PartTypes, ConcatProperties DEF Outbox

\* A step is about one connection.
Stands(d) == /\ conn'[d] = conn[d] /\ calls'[d] = calls[d]
             /\ client'[d] = client[d] /\ sock'[d] = sock[d]

LEMMA OthersStand ==
    ASSUME TypeOK, NEW c \in Connections, Steps(c), NEW d \in Connections, d # c
    PROVE  Stands(d)
  <1>1. TypeParts
    BY PartTypes
  <1>2. ASSUME CloseConnection(c) PROVE Stands(d)
    BY <1>1, <1>2 DEF TypeParts, CloseConnection, CallsAfterClose, Stands
  <1>3. CASE Accept(c)
    BY <1>1, <1>3 DEF TypeParts, Accept, Stands
  <1>4. CASE Loop(c)
    <2>1. CASE Dispatch(c) \/ Flush(c) \/ StopReading(c) \/ ReadSocket(c) \/ ReadNothing(c)
      BY <1>1, <2>1 DEF TypeParts, Dispatch, Flush, StopReading, ReadSocket, ReadNothing, Stands
    <2>2. CASE ReadNoCall(c) \/ ReadCall(c)
      BY <1>1, <2>2 DEF TypeParts, ReadNoCall, ReadCall, Stands
    <2>3. CASE ReadInvalid(c)
      BY <1>2, <2>3 DEF ReadInvalid
    <2>4. CASE EndDispatch(c)
      BY <1>1, <1>2, <2>4 DEF TypeParts, EndDispatch, Stands
    <2> QED
      BY <1>4, <2>1, <2>2, <2>3, <2>4 DEF Loop
  <1>5. CASE Application(c)
    <2>1. CASE \E i \in CallNo : Keep(c, i) \/ Release(c, i)
      BY <1>1, <2>1 DEF TypeParts, Keep, Release, Stands
    <2>2. ASSUME NEW i \in CallNo, ReplyOneway(c, i) PROVE Stands(d)
      BY <1>1, <2>2 DEF TypeParts, ReplyOneway, Stands
    <2>3. ASSUME NEW i \in CallNo, ReplyContinues(c, i) PROVE Stands(d)
      BY <1>1, <2>3 DEF TypeParts, ReplyContinues, WriteReply, Stands
    <2>4. ASSUME NEW i \in CallNo, ReplyFinal(c, i) PROVE Stands(d)
      BY <1>1, <2>4 DEF TypeParts, ReplyFinal, WriteReply, Stands
    <2>5. ASSUME NEW i \in CallNo, ReplyError(c, i) PROVE Stands(d)
      BY <1>1, <2>5 DEF TypeParts, ReplyError, WriteReply, Stands
    <2>6. CASE HandlerReturns(c)
      BY <2>6 DEF HandlerReturns, Stands
    <2>7. CASE HandlerFails(c)
      BY <1>2, <2>7 DEF HandlerFails
    <2> QED
      BY <1>5, <2>1, <2>2, <2>3, <2>4, <2>5, <2>6, <2>7 DEF Application, Finish
  <1>6. CASE Client(c)
    BY <1>1, <1>6
    DEF TypeParts, Client, Connect, Send, SendMore, Receive, Shutdown, Disconnect, Push, Stands
  <1> QED
    BY <1>3, <1>4, <1>5, <1>6 DEF Steps

\* A step that Sessions does not see.
SameCalls(c) == \A i \in CallNo : /\ calls'[c][i].done = calls[c][i].done
                                  /\ calls'[c][i].replies = calls[c][i].replies

Unseen(c) ==
    /\ Over(c)' <=> Over(c)
    /\ client'[c].requests = client[c].requests
    /\ conn'[c].call = conn[c].call
    /\ SameCalls(c)
    /\ Outbox(c)' = Outbox(c)

\* What stands is not seen.
LEMMA StandsUnseen ==
    ASSUME NEW d \in Connections, Stands(d)
    PROVE  Unseen(d) /\ Inbox(d)' = Inbox(d) /\ Begun(d)' = Begun(d)
  BY DEF Stands, Unseen, SameCalls, Over, Gone, Outbox, Inbox, Begun

\* Neither is what leaves the calls, and what waits for the client, alone.
LEMMA SameOutbox ==
    ASSUME NEW c \in Connections, Gone(c)' <=> Gone(c), client'[c].got = client[c].got,
           sock'[c].down \o conn'[c].stream.out = sock[c].down \o conn[c].stream.out
    PROVE  Outbox(c)' = Outbox(c)
  <1>1. /\ Outbox(c)' = client'[c].got \o (IF Gone(c)' THEN <<>>
                                           ELSE sock'[c].down \o conn'[c].stream.out)
        /\ Outbox(c) = client[c].got \o (IF Gone(c) THEN <<>>
                                         ELSE sock[c].down \o conn[c].stream.out)
    BY DEF Outbox
  <1>2. CASE Gone(c)
    BY <1>1, <1>2
  <1>3. CASE ~Gone(c)
    BY <1>1, <1>3
  <1> QED
    BY <1>2, <1>3

LEMMA RecordUnseen ==
    ASSUME TypeOK, NEW c \in Connections, NEW r, conn' = [conn EXCEPT ![c] = r],
           r.call = conn[c].call, r.state = "freed" <=> conn[c].state = "freed",
           sock'[c].down \o r.stream.out = sock[c].down \o conn[c].stream.out,
           SameCalls(c), client'[c].got = client[c].got,
           client'[c].requests = client[c].requests, Gone(c)' <=> Gone(c)
    PROVE  Unseen(c)
  <1>1. conn'[c] = r
    BY PartTypes DEF TypeParts
  <1>2. Over(c)' <=> Over(c)
    BY <1>1 DEF Over
  <1>3. Outbox(c)' = Outbox(c)
    BY <1>1, SameOutbox
  <1> QED
    BY <1>1, <1>2, <1>3 DEF Unseen

\* What the loop does before and after it takes a call is not seen.
LEMMA LoopUnseen ==
    ASSUME IInv, ClosedIsEmpty, NEW c \in Connections,
           \/ Accept(c) \/ Dispatch(c) \/ Flush(c) \/ StopReading(c) \/ ReadSocket(c)
           \/ ReadNothing(c) \/ ReadNoCall(c)
           \/ EndDispatch(c) /\ ~CloseConnection(c)
    PROVE  Unseen(c)
  <1> DEFINE s == conn[c].stream
  <1>1. /\ TypeOK /\ BuffersBounded /\ Dispatching /\ Pending
        /\ conn \in [Connections -> ConnectionType] /\ sock \in [Connections -> SockType]
        /\ conn[c] \in ConnectionType /\ s \in StreamOf(RequestCells, ReplyCells)
        /\ sock[c].up \in Seq(RequestCells) /\ sock[c].down \in Seq(ReplyCells)
        /\ s.out \in Seq(ReplyCells) /\ Len(s.in) <= BufferSize
    BY PartTypes DEF IInv, TypeParts, BuffersBounded
  <1>2. ASSUME NEW r, conn' = [conn EXCEPT ![c] = r], UNCHANGED <<calls, client>>,
               r.call = conn[c].call, r.state = "freed" <=> conn[c].state = "freed",
               sock'[c].down \o r.stream.out = sock[c].down \o s.out
        PROVE  Unseen(c)
    BY <1>1, <1>2, RecordUnseen DEF SameCalls, Gone
  <1>3. CASE Accept(c)
    <2> DEFINE r == [state |-> "open", events_mask |-> {}, current_events_mask |-> {"IN"},
                     call |-> NoCall, stream |-> NewStream]
    <2>1. conn[c].state = "none" /\ conn' = [conn EXCEPT ![c] = r] /\ UNCHANGED <<calls, client, sock>>
      BY <1>3 DEF Accept
    <2>2. s = NewStream /\ conn[c].call = NoCall
      BY <1>1, <2>1 DEF ClosedIsEmpty, Pending, IsOpen
    <2>3. r.call = NoCall /\ r.state = "open" /\ r.stream = NewStream
      OBVIOUS
    <2> HIDE DEF r, s
    <2> QED
      BY <1>2, <2>1, <2>2, <2>3 DEF s
  <1>4. CASE Dispatch(c)
    <2> DEFINE r == [conn[c] EXCEPT !.events_mask = {}]
    <2>1. conn' = [conn EXCEPT ![c] = r] /\ UNCHANGED <<calls, client, sock>>
      BY <1>4 DEF Dispatch
    <2>2. r.call = conn[c].call /\ r.state = conn[c].state /\ r.stream = s
      BY <1>1 DEF ConnectionType
    <2> HIDE DEF r
    <2> QED
      BY <1>2, <2>1, <2>2
  <1>5. CASE Flush(c)
    <2>1. Room(c) \in Int /\ Gone(c) \in BOOLEAN
      BY <1>1, ConstantTypes, LenProperties DEF Room, Gone
    <2>2. PICK o \in FlushOutcomes(s, Room(c), Gone(c)) :
            /\ conn' = [conn EXCEPT ![c].stream = o.stream,
                                    ![c].events_mask =
                                      IF o.result = "rest" THEN {"OUT"} ELSE {}]
            /\ sock' = [sock EXCEPT ![c].down = @ \o o.sent]
            /\ UNCHANGED <<calls, client>>
      BY <1>5 DEF Flush
    <2> DEFINE r == [conn[c] EXCEPT !.stream = o.stream,
                                    !.events_mask = IF o.result = "rest" THEN {"OUT"} ELSE {}]
    <2>3. conn' = [conn EXCEPT ![c] = r] /\ sock'[c].down = sock[c].down \o o.sent
      BY <1>1, <2>2 DEF SockType
    <2>4. r.call = conn[c].call /\ r.state = conn[c].state /\ r.stream = o.stream
      BY <1>1 DEF ConnectionType
    <2>5. /\ o.sent \o o.stream.out = s.out
          /\ o.sent \in Seq(ReplyCells) /\ o.stream.out \in Seq(ReplyCells)
      <3>1. Split(s.out, o.sent, o.stream.out)
        BY <1>1, <2>1, <2>2, FlushConcat
      <3>2. o.stream \in StreamOf(RequestCells, ReplyCells) /\ o.sent \in Seq(ReplyCells)
        BY <1>1, <2>1, <2>2, FlushType
      <3> QED
        BY <3>1, <3>2 DEF Split, StreamOf
    <2> HIDE DEF r
    <2>6. (sock[c].down \o o.sent) \o o.stream.out = sock[c].down \o (o.sent \o o.stream.out)
      <3> DEFINE a == sock[c].down
                 b == o.sent
                 d == o.stream.out
      <3>1. a \in Seq(ReplyCells) /\ b \in Seq(ReplyCells) /\ d \in Seq(ReplyCells)
        BY <1>1, <2>5
      <3> HIDE DEF a, b, d
      <3>2. (a \o b) \o d = a \o (b \o d)
        BY <3>1, ConcatAssociative
      <3> QED
        BY <3>2 DEF a, b, d
    <2> QED
      BY <1>2, <2>2, <2>3, <2>4, <2>5, <2>6
  <1>6. CASE StopReading(c)
    <2>1. conn' = [conn EXCEPT ![c] = conn[c]] /\ UNCHANGED <<calls, client, sock>>
      BY <1>1, <1>6 DEF StopReading
    <2> QED
      BY <1>2, <2>1
  <1>7. CASE ReadSocket(c)
    <2> DEFINE r == [conn[c] EXCEPT !.stream = Received(s, sock[c].up)]
    <2>1. /\ conn' = [conn EXCEPT ![c] = r] /\ UNCHANGED <<calls, client>>
          /\ sock'[c].down = sock[c].down
      BY <1>1, <1>7 DEF ReadSocket, SockType
    <2>2. r.call = conn[c].call /\ r.state = conn[c].state /\ r.stream = Received(s, sock[c].up)
      BY <1>1 DEF ConnectionType
    <2>3. Received(s, sock[c].up).out = s.out
      BY <1>1, ReceivedCells
    <2> HIDE DEF r
    <2> QED
      BY <1>2, <2>1, <2>2, <2>3
  <1>8. CASE ReadNothing(c)
    <2> DEFINE r == [conn[c] EXCEPT !.stream = HungUp(s)]
    <2>1. /\ conn' = [conn EXCEPT ![c] = r] \/ conn' = [conn EXCEPT ![c] = conn[c]]
          /\ UNCHANGED <<calls, client, sock>>
      BY <1>1, <1>8 DEF ReadNothing
    <2>2. r.call = conn[c].call /\ r.state = conn[c].state /\ r.stream = HungUp(s)
      BY <1>1 DEF ConnectionType
    <2>3. HungUp(s).out = s.out
      BY <1>1 DEF HungUp, StreamOf
    <2> HIDE DEF r
    <2> QED
      BY <1>2, <2>1, <2>2, <2>3
  <1>9. CASE ReadNoCall(c)
    <2>1. PICK o \in Delivered(s) : conn' = [conn EXCEPT ![c].stream = o.stream]
      BY <1>9 DEF ReadNoCall
    <2> DEFINE r == [conn[c] EXCEPT !.stream = o.stream]
    <2>2. conn' = [conn EXCEPT ![c] = r] /\ UNCHANGED <<calls, client, sock>>
      BY <1>9, <2>1 DEF ReadNoCall
    <2>3. r.call = conn[c].call /\ r.state = conn[c].state /\ r.stream = o.stream
      BY <1>1 DEF ConnectionType
    <2>4. o.stream.out = s.out
      BY <1>1, <2>1, DeliveredCall
    <2> HIDE DEF r
    <2> QED
      BY <1>2, <2>2, <2>3, <2>4
  <1>10. CASE EndDispatch(c) /\ ~CloseConnection(c)
    <2> DEFINE r == SetEventsMask(conn[c], EndMask(c))
    <2>1. conn' = [conn EXCEPT ![c] = r] /\ UNCHANGED <<calls, client, sock>>
      BY <1>10 DEF EndDispatch
    <2>2. r.call = conn[c].call /\ r.state = conn[c].state /\ r.stream = s
      BY <1>1 DEF ConnectionType, SetEventsMask
    <2> HIDE DEF r
    <2> QED
      BY <1>2, <2>1, <2>2
  <1> QED
    BY <1>3, <1>4, <1>5, <1>6, <1>7, <1>8, <1>9, <1>10

\* Windows laid end to end, in any order.
Joined(s, t) == s \o t

LEMMA JoinedProperties ==
    ASSUME NEW S, NEW s \in Seq(S), NEW t \in Seq(S), NEW u \in Seq(S)
    PROVE  /\ Joined(s, t) \in Seq(S)
           /\ Joined(Joined(s, t), u) = Joined(s, Joined(t, u))
  BY ConcatAssociative, ConcatProperties DEF Joined

\* A cell that goes from the second window to the first stays where it is.
LEMMA HeadMoves ==
    ASSUME NEW S, NEW s \in Seq(S), NEW t \in Seq(S), NEW u \in Seq(S), t # <<>>
    PROVE  Append(s, Head(t)) \o (Tail(t) \o u) = s \o (t \o u)
  <1> DEFINE n == Len(t)
             h == <<t[1]>>
             w == Tail(t)
             v == w \o u
  <1>1. n \in Nat \ {0} /\ Head(t) = t[1] /\ Head(t) \in S /\ w \in Seq(S)
    BY EmptySeq, HeadTailProperties
  <1>2. h \in Seq(S) /\ v \in Seq(S)
    BY <1>1, ConcatProperties
  <1>3. t = h \o w
    <2>1. SubSeq(t, 1, n) = h \o SubSeq(t, 1 + 1, n)
      <3>1. 1 \in 1..n /\ n \in 1..n
        BY <1>1
      <3> QED
        BY <3>1, SubSeqRecursiveFirst
    <2>2. SubSeq(t, 1, n) = t /\ w = SubSeq(t, 2, n)
      BY SubSeqFull, TailIsSubSeq
    <2> QED
      BY <2>1, <2>2
  <1>4. Append(s, Head(t)) = s \o h
    BY <1>1, AppendIsConcat
  <1> HIDE DEF n, h, w, v
  <1>5. (h \o w) \o u = h \o (w \o u)
    <2>1. Joined(Joined(h, w), u) = Joined(h, Joined(w, u))
      BY <1>1, <1>2, JoinedProperties
    <2> QED
      BY <2>1 DEF Joined
  <1>6. s \in Seq(S) /\ h \in Seq(S) /\ v \in Seq(S)
    BY <1>2
  <1>7. (s \o h) \o v = s \o (h \o v)
    <2>1. Joined(Joined(s, h), v) = Joined(s, Joined(h, v))
      BY <1>6, JoinedProperties
    <2> QED
      BY <2>1 DEF Joined
  <1> QED
    BY <1>3, <1>4, <1>5, <1>7 DEF v, w

\* The steps of the application that reply to nothing.
LEMMA ApplicationUnseen ==
    ASSUME TypeOK, NEW c \in Connections,
           \/ \E i \in CallNo : Keep(c, i) \/ Release(c, i)
           \/ HandlerReturns(c)
    PROVE  Unseen(c)
  <1>1. conn \in [Connections -> ConnectionType] /\ calls \in [Connections -> [CallNo -> CallType]]
    BY PartTypes DEF TypeParts
  <1>2. conn' = [conn EXCEPT ![c] = conn[c]] /\ UNCHANGED <<client, sock>>
    BY <1>1 DEF Keep, Release, HandlerReturns
  <1>3. SameCalls(c)
    <2>1. ASSUME NEW i \in CallNo, NEW q, calls' = [calls EXCEPT ![c][i] = q],
                 q.done = calls[c][i].done, q.replies = calls[c][i].replies
          PROVE  SameCalls(c)
      BY <1>1, <2>1 DEF SameCalls
    <2>2. ASSUME NEW i \in CallNo, Keep(c, i)
          PROVE  SameCalls(c)
      <3> DEFINE q == [calls[c][i] EXCEPT !.refcount = @ + 1]
      <3>1. calls' = [calls EXCEPT ![c][i] = q]
        BY <2>2 DEF Keep
      <3>2. q.done = calls[c][i].done /\ q.replies = calls[c][i].replies
        BY <1>1 DEF CallType
      <3> HIDE DEF q
      <3> QED
        BY <2>1, <3>1, <3>2
    <2>3. ASSUME NEW i \in CallNo, Release(c, i)
          PROVE  SameCalls(c)
      <3> DEFINE q == Unref(calls[c][i])
      <3>1. calls' = [calls EXCEPT ![c][i] = q]
        BY <2>3 DEF Release
      <3>2. q.done = calls[c][i].done /\ q.replies = calls[c][i].replies
        BY <1>1 DEF CallType, Unref
      <3> HIDE DEF q
      <3> QED
        BY <2>1, <3>1, <3>2
    <2>4. CASE HandlerReturns(c)
      BY <2>4 DEF HandlerReturns, SameCalls
    <2> QED
      BY <2>2, <2>3, <2>4
  <1> QED
    BY <1>2, <1>3, RecordUnseen DEF Gone

\* What the client does, but for a new message and its end.
LEMMA ClientUnseen ==
    ASSUME TypeOK, NEW c \in Connections,
           Connect(c) \/ SendMore(c) \/ Receive(c) \/ Shutdown(c)
    PROVE  Unseen(c)
  <1>1. /\ client \in [Connections -> ClientType] /\ sock \in [Connections -> SockType]
        /\ sock[c].down \in Seq(ReplyCells) /\ client[c].got \in Seq(ReplyCells)
        /\ conn[c].stream.out \in Seq(ReplyCells)
    BY PartTypes DEF TypeParts
  <1>2. /\ UNCHANGED <<conn, calls>> /\ client'[c].requests = client[c].requests
        /\ Gone(c)' <=> Gone(c)
    BY <1>1 DEF Connect, SendMore, Receive, Shutdown, ClientType, Gone
  <1>3. SameCalls(c) /\ (Over(c)' <=> Over(c))
    BY <1>2 DEF SameCalls, Over
  <1>4. Outbox(c)' = Outbox(c)
    <2>1. CASE Receive(c)
      <3>1. /\ ~Gone(c) /\ sock[c].down # <<>> /\ sock'[c].down = Tail(sock[c].down)
            /\ client'[c].got = Append(client[c].got, Head(sock[c].down))
        BY <1>1, <2>1 DEF Receive, Gone, ClientType, SockType
      <3>2. /\ Outbox(c)' = client'[c].got \o (sock'[c].down \o conn[c].stream.out)
            /\ Outbox(c) = client[c].got \o (sock[c].down \o conn[c].stream.out)
        BY <1>2, <3>1 DEF Outbox
      <3> QED
        <4> DEFINE a == client[c].got
                   b == sock[c].down
                   d == conn[c].stream.out
        <4>1. a \in Seq(ReplyCells) /\ b \in Seq(ReplyCells) /\ d \in Seq(ReplyCells) /\ b # <<>>
          BY <1>1, <3>1
        <4> HIDE DEF a, b, d
        <4>2. Append(a, Head(b)) \o (Tail(b) \o d) = a \o (b \o d)
          BY <4>1, HeadMoves
        <4> QED
          BY <3>1, <3>2, <4>2 DEF a, b, d
    <2>2. CASE ~Receive(c)
      <3>1. client'[c].got = client[c].got /\ sock'[c].down = sock[c].down
        BY <1>1, <2>2 DEF Connect, SendMore, Shutdown, Push, ClientType, SockType
      <3>2. sock'[c].down \o conn'[c].stream.out = sock[c].down \o conn[c].stream.out
        BY <1>2, <3>1
      <3> QED
        BY <1>2, <3>1, <3>2, SameOutbox
    <2> QED
      BY <2>1, <2>2
  <1> QED
    BY <1>2, <1>3, <1>4 DEF Unseen

\* The steps that Sessions sees: the client sends a message, a call is taken,
\* a reply is made, a oneway call is done, the connection is over.
Standing(c) == ~Over(c) /\ ~Over(c)'
SameRequests(c) == client'[c].requests = client[c].requests

Asks(c) ==
    /\ Standing(c)
    /\ \E kind \in Kinds : client'[c].requests = Append(client[c].requests, kind)
    /\ conn'[c].call = conn[c].call
    /\ SameCalls(c)
    /\ Outbox(c)' = Outbox(c)

Takes(c) ==
    /\ Standing(c) /\ SameRequests(c)
    /\ conn[c].call = NoCall
    /\ \E i \in CallNo : /\ i \in DOMAIN client[c].requests
                         /\ Kind(c, i) \in {"plain", "more", "oneway"}
                         /\ \A j \in Begun(c) : j < i
                         /\ conn'[c].call = i
    /\ SameCalls(c)
    /\ Outbox(c)' = Outbox(c)

Gives(c, i, kind) ==
    /\ kind = "continues" => Kind(c, i) = "more"
    /\ kind = "final" => Kind(c, i) # "oneway"
    /\ conn[c].call = i
    /\ conn'[c].call = IF kind = "continues" THEN i ELSE NoCall
    /\ calls'[c] = [calls[c] EXCEPT ![i] = Replied(@, kind)]
    /\ Grown(Outbox(c), Outbox(c)',
             [call |-> i, n |-> calls[c][i].replies + 1, kind |-> kind], ReplySize)

Answers(c) ==
    /\ Standing(c) /\ SameRequests(c)
    /\ \E i \in CallNo, kind \in {"continues", "final", "error"} : Gives(c, i, kind)

Completes(c) ==
    /\ Standing(c) /\ SameRequests(c)
    /\ \E i \in CallNo : /\ conn[c].call = i /\ Kind(c, i) = "oneway"
                         /\ conn'[c].call = NoCall
                         /\ calls'[c] = [calls[c] EXCEPT ![i] = Finished(@)]
    /\ Outbox(c)' = Outbox(c)

Leaves(c) == Over(c)' /\ SameRequests(c) /\ Prefix(Outbox(c), Outbox(c)')

Moves(c) == Unseen(c) \/ Asks(c) \/ Takes(c) \/ Answers(c) \/ Completes(c) \/ Leaves(c)

\* What waits for a client and stays as it is has lost nothing.
LEMMA PrefixItself ==
    ASSUME TypeOK, NEW c \in Connections, Outbox(c)' = Outbox(c)
    PROVE  Prefix(Outbox(c), Outbox(c)')
  <1>1. Len(Outbox(c)) \in Nat
    BY BoxTypes, LenProperties
  <1> QED
    BY <1>1 DEF Prefix

\* A client asks while its connection is open.
LEMMA SendAsks ==
    ASSUME TypeOK, NEW c \in Connections, NEW kind \in Kinds, Send(c, kind)
    PROVE  Asks(c)
  <1>1. client \in [Connections -> ClientType] /\ sock \in [Connections -> SockType]
    BY PartTypes DEF TypeParts
  <1>2. /\ UNCHANGED <<conn, calls>> /\ ~Gone(c) /\ conn[c].state # "freed"
        /\ client'[c].requests = Append(client[c].requests, kind)
        /\ client'[c].peer = client[c].peer /\ client'[c].got = client[c].got
        /\ sock'[c].down = sock[c].down
    BY <1>1 DEF Send, Push, ClientType, SockType, Gone
  <1>3. Standing(c) /\ SameCalls(c)
    BY <1>2 DEF Standing, Over, Gone, SameCalls
  <1>4. Outbox(c)' = Outbox(c)
    <2>1. sock'[c].down \o conn'[c].stream.out = sock[c].down \o conn[c].stream.out
      BY <1>2
    <2> QED
      BY <1>2, <2>1, SameOutbox DEF Gone
  <1> QED
    BY <1>2, <1>3, <1>4 DEF Asks

\* The call that is taken comes after the ones that were.
LEMMA ReadCallTakes ==
    ASSUME IInv, InboxOrdered, NEW c \in Connections, ReadCall(c)
    PROVE  Takes(c) \/ Leaves(c)
  <1> DEFINE s == conn[c].stream
  <1>1. /\ TypeOK /\ Dispatching /\ Once /\ s \in StreamOf(RequestCells, ReplyCells)
        /\ conn \in [Connections -> ConnectionType] /\ conn[c] \in ConnectionType
        /\ calls \in [Connections -> [CallNo -> CallType]] /\ calls[c] \in [CallNo -> CallType]
        /\ s.in \in Seq(RequestCells) /\ sock[c].up \in Seq(RequestCells)
    BY PartTypes DEF IInv, TypeParts
  <1>2. /\ IsOpen(c) /\ conn[c].call = NoCall /\ UNCHANGED <<client, sock>>
    BY <1>1 DEF ReadCall, Reading, MayRead, Dispatching, IsOpen
  <1>3. PICK o \in Delivered(s) :
          /\ Kind(c, o.message) \in {"plain", "more", "oneway"}
          /\ conn' = [conn EXCEPT ![c].stream = o.stream, ![c].call = o.message]
          /\ calls' = [calls EXCEPT ![c][o.message].refcount = 1]
    BY DEF ReadCall
  <1> DEFINE i == o.message
  <1>4. /\ i \in CallNo /\ o.stream.out = s.out /\ Ends(s.in, i)
    BY <1>1, <1>3, DeliveredCall, DeliveredEnds
  <1>5. /\ conn'[c].call = i /\ conn'[c].state = conn[c].state /\ conn'[c].stream = o.stream
    BY <1>1, <1>3 DEF ConnectionType
  <1>6. SameCalls(c)
    BY <1>1, <1>3, <1>4 DEF SameCalls, CallType
  <1>7. Outbox(c)' = Outbox(c)
    <2>1. sock'[c].down \o conn'[c].stream.out = sock[c].down \o conn[c].stream.out
      BY <1>2, <1>4, <1>5
    <2> QED
      BY <1>2, <2>1, SameOutbox DEF Gone
  <1>8. i \in DOMAIN client[c].requests
    BY <1>1, <1>4 DEF Once, SentWhole
  <1>9. \A j \in Begun(c) : j < i
    <2>1. PICK e \in 1..Len(s.in) : s.in[e].nul /\ o.message = s.in[e].msg
      BY <1>4 DEF Ends, EndsAt
    <2>2. /\ e \in 1..Len(Inbox(c)) /\ Inbox(c)[e] = s.in[e]
      <3>1. Prefix(Inbox(c), s.in)
        BY <1>1, ConcatPrefix DEF Inbox
      <3>2. Len(s.in) \in Nat /\ Len(Inbox(c)) \in Nat
        BY <1>1, BoxTypes, LenProperties
      <3> QED
        BY <2>1, <3>1, <3>2 DEF Prefix
    <2> QED
      BY <2>1, <2>2 DEF InboxOrdered, OrderedAt, Behind
  <1>10. Over(c)' <=> Over(c)
    BY <1>2, <1>5 DEF Over, Gone
  <1> HIDE DEF i
  <1>11. CASE Over(c)
    BY <1>1, <1>2, <1>7, <1>10, <1>11, PrefixItself DEF Leaves, SameRequests
  <1>12. CASE ~Over(c)
    <2>1. Kind(c, i) \in {"plain", "more", "oneway"}
      BY <1>3 DEF i
    <2> QED
      BY <1>2, <1>4, <1>5, <1>6, <1>7, <1>8, <1>9, <1>10, <1>12, <2>1 DEF Takes, Standing, SameRequests
  <1> QED
    BY <1>11, <1>12

\* Closing loses what was not written.
LEMMA CloseLeaves ==
    ASSUME TypeOK, NEW c \in Connections, CloseConnection(c)
    PROVE  Leaves(c)
  <1>1. /\ conn \in [Connections -> ConnectionType] /\ sock \in [Connections -> SockType]
        /\ sock[c].down \in Seq(ReplyCells) /\ client[c].got \in Seq(ReplyCells)
        /\ conn[c].stream.out \in Seq(ReplyCells)
    BY PartTypes DEF TypeParts
  <1>2. /\ conn'[c] = FreedConnection /\ client' = client /\ sock'[c].down = sock[c].down
    BY <1>1 DEF CloseConnection, SockType
  <1>3. conn'[c].state = "freed" /\ conn'[c].stream.out = <<>>
    BY <1>2 DEF FreedConnection, NewStream
  <1>4. CASE Gone(c)
    <2>1. Outbox(c)' = Outbox(c)
      BY <1>2, <1>4 DEF Outbox, Gone
    <2> QED
      BY <1>2, <1>3, <2>1, PrefixItself DEF Leaves, Over, SameRequests
  <1>5. CASE ~Gone(c)
    <2> DEFINE g == client[c].got
               a == sock[c].down
               b == conn[c].stream.out
    <2>0. Outbox(c)' = g \o (a \o <<>>) /\ Outbox(c) = g \o (a \o b)
      BY <1>2, <1>3, <1>5 DEF Outbox, Gone
    <2>1. g \in Seq(ReplyCells) /\ a \in Seq(ReplyCells) /\ b \in Seq(ReplyCells)
      BY <1>1
    <2> HIDE DEF g, a, b
    <2>2. a \o <<>> = a
      BY <2>1, ConcatEmptySeq
    <2>3. g \o (a \o b) = (g \o a) \o b
      BY <2>1, ConcatAssociative
    <2>4. g \o a \in Seq(ReplyCells)
      BY <2>1, ConcatProperties
    <2> DEFINE h == g \o a
    <2> HIDE DEF h
    <2>5. Prefix(h \o b, h)
      BY <2>1, <2>4, ConcatPrefix DEF h
    <2>6. Prefix(Outbox(c), Outbox(c)')
      BY <2>0, <2>2, <2>3, <2>5 DEF h
    <2> QED
      BY <1>2, <1>3, <2>6 DEF Leaves, Over, SameRequests
  <1> QED
    BY <1>4, <1>5

\* So does the client when it goes.
LEMMA DisconnectLeaves ==
    ASSUME TypeOK, NEW c \in Connections, Disconnect(c)
    PROVE  Leaves(c)
  <1>1. /\ client \in [Connections -> ClientType] /\ client[c].got \in Seq(ReplyCells)
        /\ sock[c].down \in Seq(ReplyCells) /\ conn[c].stream.out \in Seq(ReplyCells)
    BY PartTypes DEF TypeParts
  <1>2. /\ client'[c].peer = "closed" /\ client'[c].got = client[c].got
        /\ client'[c].requests = client[c].requests /\ ~Gone(c)
    BY <1>1 DEF Disconnect, ClientType, Gone
  <1> DEFINE g == client[c].got
             a == sock[c].down \o conn[c].stream.out
  <1>3. Outbox(c)' = g \o <<>> /\ Outbox(c) = g \o a
    BY <1>2 DEF Outbox, Gone
  <1>4. g \in Seq(ReplyCells) /\ a \in Seq(ReplyCells)
    BY <1>1, ConcatProperties
  <1> HIDE DEF g, a
  <1>5. g \o <<>> = g /\ Prefix(g \o a, g)
    BY <1>4, ConcatPrefix, ConcatEmptySeq
  <1>6. Prefix(Outbox(c), Outbox(c)')
    BY <1>3, <1>5
  <1> QED
    BY <1>2, <1>6 DEF Leaves, Over, Gone, SameRequests

\* What is put behind the last window is behind them all, wherever they are cut.
LEMMA PutBehind ==
    ASSUME NEW S, NEW a \in Seq(S), NEW b \in Seq(S), NEW d \in Seq(S), NEW f \in Seq(S),
           NEW s \in Seq(S), NEW t \in Seq(S), Joined(s, t) = Joined(d, f)
    PROVE  Joined(a, Joined(Joined(b, s), t)) = Joined(Joined(a, Joined(b, d)), f)
  BY JoinedProperties

\* A reply is put behind everything that waits for the client, if there is one.
LEMMA ReplyAnswers ==
    ASSUME TypeOK, BuffersBounded, NEW c \in Connections, NEW i \in CallNo,
           NEW kind \in {"continues", "final", "error"}, CanReply(c, i),
           calls[c][i].replies < MaxReplies, Fits(conn[c].stream, ReplySize),
           kind = "continues" => Kind(c, i) = "more",
           kind = "final" => Kind(c, i) # "oneway",
           NEW o \in WriteOutcomes(conn[c].stream,
                       [call |-> i, n |-> calls[c][i].replies + 1, kind |-> kind],
                       ReplySize, Room(c), Gone(c)),
           NEW r, conn' = [conn EXCEPT ![c] = r],
           r.stream = o.stream, r.state = conn[c].state,
           r.call = IF kind = "continues" THEN i ELSE NoCall,
           sock' = [sock EXCEPT ![c].down = @ \o o.sent],
           calls' = [calls EXCEPT ![c][i] = Replied(@, kind)], client' = client
    PROVE  Answers(c) \/ Leaves(c)
  <1> DEFINE s == conn[c].stream
             m == [call |-> i, n |-> calls[c][i].replies + 1, kind |-> kind]
             f == Frame(m, ReplySize)
  <1>1. /\ conn \in [Connections -> ConnectionType] /\ sock \in [Connections -> SockType]
        /\ calls \in [Connections -> [CallNo -> CallType]]
        /\ s \in StreamOf(RequestCells, ReplyCells) /\ s.out \in Seq(ReplyCells)
        /\ sock[c].down \in Seq(ReplyCells) /\ client[c].got \in Seq(ReplyCells)
    BY PartTypes DEF TypeParts
  <1>2. /\ conn'[c] = r /\ sock'[c].down = sock[c].down \o o.sent
        /\ calls'[c] = [calls[c] EXCEPT ![i] = Replied(@, kind)]
    BY <1>1 DEF SockType
  <1>3. IsOpen(c) /\ conn[c].call = i
    BY DEF CanReply, IsCurrent
  <1>4. Over(c) <=> Gone(c)
    BY <1>3 DEF Over, IsOpen
  <1>5. Over(c)' <=> Gone(c)
    BY <1>2, <1>3 DEF Over, IsOpen, Gone
  <1>6. CASE Gone(c)
    <2>1. Outbox(c)' = Outbox(c)
      BY <1>6 DEF Outbox, Gone
    <2> QED
      BY <1>5, <1>6, <2>1, PrefixItself DEF Leaves, SameRequests
  <1>7. CASE ~Gone(c)
    <2>1. f \in Seq(ReplyCells)
      <3>1. m \in Replies
        <4>1. calls[c][i].replies \in 0..MaxReplies
          BY <1>1 DEF CallType
        <4> QED
          BY <4>1, ConstantTypes DEF Replies
      <3> HIDE DEF m
      <3>2. \A nul \in BOOLEAN : [msg |-> m, nul |-> nul] \in ReplyCells
        BY <3>1 DEF ReplyCells
      <3> QED
        BY <3>2, FrameType, ConstantTypes
    <2>2. Room(c) \in Int /\ Gone(c) \in BOOLEAN /\ ReplySize \in Nat
      BY <1>1, ConstantTypes, LenProperties DEF Room, Gone
    <2>3. Split(OutWith(s, m, ReplySize), o.sent, o.stream.out)
      <3> HIDE DEF m, s
      <3> QED
        BY <1>1, <2>1, <2>2, WriteConcat DEF m, s
    <2>4. o.sent \o o.stream.out = s.out \o f
      BY <2>3 DEF Split, OutWith
    <2>5. o.sent \in Seq(ReplyCells) /\ o.stream.out \in Seq(ReplyCells)
      BY ReplyWritten, StreamsAre DEF StreamOf
    <2> DEFINE g == client[c].got
               a == sock[c].down
               b == s.out
               x == o.sent
               y == o.stream.out
    <2>6. Outbox(c) = g \o (a \o b) /\ Outbox(c)' = g \o ((a \o x) \o y)
      BY <1>2, <1>7 DEF Outbox, Gone
    <2>7. /\ g \in Seq(ReplyCells) /\ a \in Seq(ReplyCells) /\ b \in Seq(ReplyCells)
          /\ x \in Seq(ReplyCells) /\ y \in Seq(ReplyCells) /\ x \o y = b \o f
      BY <1>1, <2>4, <2>5
    <2> HIDE DEF g, a, b, x, y, f, m
    <2>8. Outbox(c)' = Outbox(c) \o f
      <3>1. Joined(g, Joined(Joined(a, x), y)) = Joined(Joined(g, Joined(a, b)), f)
        <4>1. Joined(x, y) = Joined(b, f)
          BY <2>7 DEF Joined
        <4> QED
          BY <2>1, <2>7, <4>1, PutBehind
      <3> QED
        BY <2>6, <3>1 DEF Joined
    <2>9. Grown(Outbox(c), Outbox(c)', m, ReplySize)
      <3>1. Outbox(c) \in Seq(ReplyCells)
        BY BoxTypes
      <3> QED
        BY <2>1, <2>2, <2>8, <3>1, ConcatFrame DEF f
    <2>10. Gives(c, i, kind)
      BY <1>2, <1>3, <2>9 DEF Gives, m
    <2> QED
      BY <1>4, <1>5, <1>7, <2>10 DEF Answers, Standing, SameRequests
  <1> QED
    BY <1>6, <1>7

\* The replies of the application.
LEMMA ApplicationReplies ==
    ASSUME TypeOK, BuffersBounded, NEW c \in Connections, NEW i \in CallNo,
           ReplyContinues(c, i) \/ Finish(c, i)
    PROVE  Answers(c) \/ Completes(c) \/ Leaves(c)
  <1>1. /\ conn \in [Connections -> ConnectionType] /\ conn[c] \in ConnectionType
        /\ calls \in [Connections -> [CallNo -> CallType]]
    BY PartTypes DEF TypeParts
  <1> DEFINE m(kind) == [call |-> i, n |-> calls[c][i].replies + 1, kind |-> kind]
             O(kind) == WriteOutcomes(conn[c].stream, m(kind), ReplySize, Room(c), Gone(c))
             Written(kind) == /\ CanReply(c, i) /\ calls[c][i].replies < MaxReplies
                              /\ Fits(conn[c].stream, ReplySize)
                              /\ calls' = [calls EXCEPT ![c][i] = Replied(@, kind)]
                              /\ client' = client
  <1>2. CASE ReplyContinues(c, i)
    <2>1. PICK o \in O("continues") : /\ conn' = [conn EXCEPT ![c] = ArmOut(conn[c], o)]
                                      /\ sock' = [sock EXCEPT ![c].down = @ \o o.sent]
      BY <1>2 DEF ReplyContinues, WriteReply
    <2>2. Written("continues") /\ Kind(c, i) = "more" /\ conn[c].call = i
      BY <1>2 DEF ReplyContinues, WriteReply, CanReply, IsCurrent
    <2> DEFINE r == ArmOut(conn[c], o)
    <2>3. r.call = conn[c].call /\ r.state = conn[c].state /\ r.stream = o.stream
      BY <1>1 DEF ConnectionType, ArmOut, SetEventsMask
    <2>4. conn' = [conn EXCEPT ![c] = r]
      BY <2>1
    <2> HIDE DEF r
    <2> QED
      BY <2>1, <2>2, <2>3, <2>4, ReplyAnswers
  <1>3. CASE ReplyFinal(c, i)
    <2>1. PICK o \in O("final") : /\ conn' = [conn EXCEPT ![c] = Removed(ArmOut(conn[c], o))]
                                  /\ sock' = [sock EXCEPT ![c].down = @ \o o.sent]
      BY <1>3 DEF ReplyFinal, WriteReply
    <2>2. Written("final") /\ Kind(c, i) # "oneway"
      BY <1>3 DEF ReplyFinal, WriteReply
    <2> DEFINE r == Removed(ArmOut(conn[c], o))
    <2>3. r.call = NoCall /\ r.state = conn[c].state /\ r.stream = o.stream
      BY <1>1 DEF ConnectionType, Removed, ArmOut, SetEventsMask
    <2>4. conn' = [conn EXCEPT ![c] = r]
      BY <2>1
    <2> HIDE DEF r
    <2> QED
      BY <2>1, <2>2, <2>3, <2>4, ReplyAnswers
  <1>4. CASE ReplyError(c, i)
    <2>1. PICK o \in O("error") : /\ conn' = [conn EXCEPT ![c] = Removed(NoteOut(conn[c], o))]
                                  /\ sock' = [sock EXCEPT ![c].down = @ \o o.sent]
      BY <1>4 DEF ReplyError, WriteReply
    <2>2. Written("error")
      BY <1>4 DEF ReplyError, WriteReply
    <2> DEFINE r == Removed(NoteOut(conn[c], o))
    <2>3. r.call = NoCall /\ r.state = conn[c].state /\ r.stream = o.stream
      BY <1>1 DEF ConnectionType, Removed, NoteOut
    <2>4. conn' = [conn EXCEPT ![c] = r]
      BY <2>1
    <2> HIDE DEF r
    <2> QED
      BY <2>1, <2>2, <2>3, <2>4, ReplyAnswers
  <1>5. CASE ReplyOneway(c, i)
    <2>1. /\ IsOpen(c) /\ conn[c].call = i /\ Kind(c, i) = "oneway" /\ UNCHANGED <<client, sock>>
          /\ conn' = [conn EXCEPT ![c] = Removed(@)]
          /\ calls' = [calls EXCEPT ![c][i] = Finished(@)]
      BY <1>5 DEF ReplyOneway, CanReply, IsCurrent
    <2>2. /\ conn'[c].call = NoCall /\ conn'[c].state = conn[c].state
          /\ conn'[c].stream = conn[c].stream
      BY <1>1, <2>1 DEF ConnectionType, Removed
    <2>3. calls'[c] = [calls[c] EXCEPT ![i] = Finished(@)]
      BY <1>1, <2>1
    <2>4. Outbox(c)' = Outbox(c)
      <3>1. sock'[c].down \o conn'[c].stream.out = sock[c].down \o conn[c].stream.out
        BY <2>1, <2>2
      <3> QED
        BY <2>1, <3>1, SameOutbox DEF Gone
    <2>5. Over(c)' <=> Over(c)
      BY <2>1, <2>2 DEF Over, Gone
    <2>6. CASE Over(c)
      BY <2>1, <2>4, <2>5, <2>6, PrefixItself DEF Leaves, SameRequests
    <2>7. CASE ~Over(c)
      BY <2>1, <2>2, <2>3, <2>4, <2>5, <2>7 DEF Completes, Standing, SameRequests
    <2> QED
      BY <2>6, <2>7
  <1> QED
    BY <1>2, <1>3, <1>4, <1>5 DEF Finish

\* Every step is one of these.
LEMMA StepMoves ==
    ASSUME InTurn, NEW c \in Connections, Steps(c)
    PROVE  Moves(c)
  <1>1. IInv /\ TypeOK /\ BuffersBounded /\ InboxOrdered /\ ClosedIsEmpty
    BY DEF InTurn, IInv
  <1>2. CloseConnection(c) => Leaves(c)
    BY <1>1, CloseLeaves
  <1>3. CASE \/ Accept(c) \/ Dispatch(c) \/ Flush(c) \/ StopReading(c) \/ ReadSocket(c)
             \/ ReadNothing(c) \/ ReadNoCall(c)
             \/ EndDispatch(c) /\ ~CloseConnection(c)
    BY <1>1, <1>3, LoopUnseen DEF Moves
  <1>4. CASE ReadInvalid(c) \/ HandlerFails(c) \/ (EndDispatch(c) /\ CloseConnection(c))
    BY <1>2, <1>4 DEF Moves, ReadInvalid, HandlerFails
  <1>5. CASE ReadCall(c)
    BY <1>1, <1>5, ReadCallTakes DEF Moves
  <1>6. CASE HandlerReturns(c) \/ \E i \in CallNo : Keep(c, i) \/ Release(c, i)
    BY <1>1, <1>6, ApplicationUnseen DEF Moves
  <1>7. CASE \E i \in CallNo : ReplyContinues(c, i) \/ Finish(c, i)
    BY <1>1, <1>7, ApplicationReplies DEF Moves
  <1>8. CASE Connect(c) \/ SendMore(c) \/ Receive(c) \/ Shutdown(c)
    BY <1>1, <1>8, ClientUnseen DEF Moves
  <1>9. CASE \E kind \in Kinds : Send(c, kind)
    BY <1>1, <1>9, SendAsks DEF Moves
  <1>10. CASE Disconnect(c)
    BY <1>1, <1>10, DisconnectLeaves DEF Moves
  <1>11. Loop(c) => Moves(c)
    BY <1>3, <1>4, <1>5 DEF Loop
  <1>12. Application(c) => Moves(c)
    BY <1>4, <1>6, <1>7 DEF Application
  <1>13. Client(c) => Moves(c)
    BY <1>8, <1>9, <1>10 DEF Client
  <1> QED
    BY <1>3, <1>11, <1>12, <1>13 DEF Steps

-----------------------------------------------------------------------------
(* The invariant is inductive.                                             *)

\* The cells on their way after a step are cells.
LEMMA BoxTypesNext ==
    ASSUME TypeOK', NEW c \in Connections
    PROVE  Inbox(c)' \in Seq(RequestCells) /\ Outbox(c)' \in Seq(ReplyCells)
  <1>1. /\ conn'[c] \in ConnectionType /\ client'[c] \in ClientType /\ sock'[c] \in SockType
    BY TypeInPartsNext DEF TypeParts
  <1>2. conn'[c].stream \in StreamOf(RequestCells, ReplyCells)
    BY <1>1, StreamsAre DEF ConnectionType
  <1>3. /\ conn'[c].stream.in \in Seq(RequestCells) /\ conn'[c].stream.out \in Seq(ReplyCells)
        /\ sock'[c].up \in Seq(RequestCells) /\ sock'[c].down \in Seq(ReplyCells)
        /\ client'[c].got \in Seq(ReplyCells)
    BY <1>1, <1>2 DEF StreamOf, SockType, ClientType
  <1>4. Inbox(c)' \in Seq(RequestCells)
    BY <1>3, ConcatProperties DEF Inbox
  <1>5. sock'[c].down \o conn'[c].stream.out \in Seq(ReplyCells)
    BY <1>3, ConcatProperties
  <1> DEFINE rest == IF Gone(c)' THEN <<>> ELSE sock'[c].down \o conn'[c].stream.out
  <1>6. rest \in Seq(ReplyCells)
    BY <1>5, EmptySeq
  <1>7. Outbox(c)' = client'[c].got \o rest
    BY DEF Outbox
  <1> HIDE DEF rest
  <1> QED
    BY <1>3, <1>4, <1>6, <1>7, ConcatProperties

\* What follows a NUL is still in order, and behind the message that it ended.
LEMMA RestOrdered ==
    ASSUME NEW s \in Seq(RequestCells), NEW t \in Seq(RequestCells), NEW e, Follows(s, e, t),
           s[e].nul, NEW B, Ascending(s), Behind(s, B)
    PROVE  Ascending(t) /\ Behind(t, B \cup {s[e].msg})
  <1>1. Len(s) \in Nat /\ e \in 1..Len(s) /\ Len(t) = Len(s) - e
    BY LenProperties DEF Follows
  <1>2. ASSUME NEW p \in 1..Len(t)
        PROVE  t[p] = s[p + e] /\ p + e \in 1..Len(s) /\ e < p + e
    BY <1>1 DEF Follows
  <1>3. Ascending(t)
    <2> SUFFICES ASSUME NEW p \in 1..Len(t), NEW q \in 1..Len(t), t[p].nul, t[q].nul, p < q
                 PROVE  t[p].msg < t[q].msg
      BY DEF Ascending
    <2>1. p + e < q + e
      BY <1>1
    <2> QED
      BY <1>2, <2>1 DEF Ascending
  <1>4. Behind(t, B \cup {s[e].msg})
    <2> SUFFICES ASSUME NEW p \in 1..Len(t), t[p].nul, NEW i \in B \cup {s[e].msg}
                 PROVE  i < t[p].msg
      BY DEF Behind
    <2>1. t[p] = s[p + e] /\ p + e \in 1..Len(s) /\ e < p + e /\ s[p + e].nul
      BY <1>2
    <2>2. CASE i \in B
      BY <2>1, <2>2 DEF Behind
    <2>3. CASE i = s[e].msg
      BY <1>1, <2>1, <2>3 DEF Ascending
    <2> QED
      BY <2>2, <2>3
  <1> QED
    BY <1>3, <1>4

\* What follows a place in the first of two windows, and what is behind it.
LEMMA FollowsConcat ==
    ASSUME NEW S, NEW s \in Seq(S), NEW d \in Seq(S), NEW t \in Seq(S), NEW e, Follows(s, e, d)
    PROVE  Follows(s \o t, e, d \o t) /\ (s \o t)[e] = s[e]
  <1>1. /\ Len(s) \in Nat /\ Len(t) \in Nat /\ e \in 1..Len(s) /\ Len(d) = Len(s) - e
        /\ \A i \in 1..(Len(s) - e) : d[i] = s[i + e]
    BY LenProperties DEF Follows
  <1> DEFINE u == s \o t
             v == d \o t
  <1>2. /\ Len(u) = Len(s) + Len(t)
        /\ \A i \in 1..Len(s) + Len(t) : u[i] = IF i <= Len(s) THEN s[i] ELSE t[i - Len(s)]
    BY ConcatProperties
  <1>3. /\ Len(v) = Len(d) + Len(t)
        /\ \A i \in 1..Len(d) + Len(t) : v[i] = IF i <= Len(d) THEN d[i] ELSE t[i - Len(d)]
    BY ConcatProperties
  <1> HIDE DEF u, v
  <1>4. e \in 1..Len(u) /\ Len(v) = Len(u) - e /\ u[e] = s[e]
    BY <1>1, <1>2, <1>3
  <1>5. ASSUME NEW i \in 1..(Len(u) - e) PROVE v[i] = u[i + e]
    <2>1. /\ i \in Nat /\ i \in 1..Len(d) + Len(t) /\ i + e \in 1..Len(s) + Len(t)
          /\ (i <= Len(d) <=> i + e <= Len(s)) /\ i - Len(d) = i + e - Len(s)
      BY <1>1, <1>2
    <2>2. CASE i <= Len(d)
      <3>1. i \in 1..(Len(s) - e)
        BY <1>1, <1>5, <2>1, <2>2
      <3> QED
        BY <1>1, <1>2, <1>3, <2>1, <2>2, <3>1
    <2>3. CASE ~(i <= Len(d))
      <3>1. v[i] = t[i - Len(d)]
        BY <1>3, <2>1, <2>3
      <3>2. u[i + e] = t[i + e - Len(s)]
        <4>1. PICK k \in 1..Len(s) + Len(t) : k = i + e /\ ~(k <= Len(s))
          BY <2>1, <2>3
        <4>2. u[k] = t[k - Len(s)]
          BY <1>2, <4>1
        <4> QED
          BY <1>1, <2>1, <4>1, <4>2
      <3> QED
        BY <2>1, <3>1, <3>2
    <2> QED
      BY <2>2, <2>3
  <1>6. Follows(u, e, v)
    BY <1>4, <1>5 DEF Follows
  <1> QED
    BY <1>4, <1>6 DEF u, v

\* A cell that ends no message, or one that is behind all others, is in order.
LEMMA NextOrdered ==
    ASSUME NEW s \in Seq(RequestCells), NEW x \in RequestCells, NEW B,
           Ascending(s), Behind(s, B),
           x.nul => /\ \A p \in 1..Len(s) : s[p].nul => s[p].msg < x.msg
                    /\ \A i \in B : i < x.msg
    PROVE  Ascending(Append(s, x)) /\ Behind(Append(s, x), B)
  <1> DEFINE t == Append(s, x)
             n == Len(s)
  <1>1. /\ n \in Nat /\ Len(t) = n + 1 /\ t[n + 1] = x
        /\ \A i \in 1..n : t[i] = s[i]
    BY LenProperties, AppendProperties
  <1> HIDE DEF t
  <1>2. \A i \in 1..Len(t) : i \in 1..n \/ i = n + 1
    BY <1>1
  <1>3. Ascending(t)
    <2> SUFFICES ASSUME NEW p \in 1..Len(t), NEW q \in 1..Len(t), t[p].nul, t[q].nul, p < q
                 PROVE  t[p].msg < t[q].msg
      BY DEF Ascending
    <2>1. p \in 1..n
      BY <1>1, <1>2
    <2>2. CASE q \in 1..n
      BY <1>1, <2>1, <2>2 DEF Ascending, n
    <2>3. CASE q = n + 1
      BY <1>1, <2>1, <2>3 DEF n
    <2> QED
      BY <1>2, <2>2, <2>3
  <1>4. Behind(t, B)
    <2> SUFFICES ASSUME NEW p \in 1..Len(t), t[p].nul, NEW i \in B
                 PROVE  i < t[p].msg
      BY DEF Behind
    <2>1. CASE p \in 1..n
      BY <1>1, <2>1 DEF Behind, n
    <2>2. CASE p = n + 1
      BY <1>1, <2>2
    <2> QED
      BY <1>2, <2>1, <2>2
  <1> QED
    BY <1>3, <1>4 DEF t

\* A cell behind the last window is behind them all.
LEMMA ConcatAppend ==
    ASSUME NEW S, NEW s \in Seq(S), NEW t \in Seq(S), NEW x \in S
    PROVE  s \o Append(t, x) = Append(s \o t, x)
  <1> DEFINE u == s \o t
             h == <<x>>
  <1>1. u \in Seq(S) /\ h \in Seq(S)
    BY ConcatProperties
  <1>2. Append(t, x) = t \o h
    BY AppendIsConcat
  <1> HIDE DEF u
  <1>3. Append(u, x) = u \o h
    BY <1>1, AppendIsConcat
  <1> HIDE DEF h
  <1>4. Joined(Joined(s, t), h) = Joined(s, Joined(t, h))
    BY <1>1, JoinedProperties
  <1> QED
    BY <1>2, <1>3, <1>4 DEF u, Joined

\* A step that leaves the inbox alone, and takes no call.
LEMMA InboxSame ==
    ASSUME NEW c \in Connections, OrderedAt(c), Inbox(c)' = Inbox(c), Begun(c)' \subseteq Begun(c)
    PROVE  OrderedAt(c)'
  BY DEF OrderedAt, Ascending, Behind

\* What is not seen takes no call.
LEMMA UnseenBegun ==
    ASSUME NEW c \in Connections, Unseen(c)
    PROVE  Begun(c)' = Begun(c)
  BY DEF Unseen, SameCalls, Begun

\* The loop and the inbox.
LEMMA LoopOrdered ==
    ASSUME IInv, ClosedIsEmpty, NEW c \in Connections, OrderedAt(c),
           \/ Accept(c) \/ Dispatch(c) \/ Flush(c) \/ StopReading(c) \/ ReadSocket(c)
           \/ ReadNothing(c)
           \/ EndDispatch(c) /\ ~CloseConnection(c)
    PROVE  OrderedAt(c)'
  <1> DEFINE s == conn[c].stream
  <1>1. /\ TypeOK /\ BuffersBounded
        /\ conn \in [Connections -> ConnectionType] /\ sock \in [Connections -> SockType]
        /\ conn[c] \in ConnectionType /\ s \in StreamOf(RequestCells, ReplyCells)
        /\ sock[c].up \in Seq(RequestCells) /\ Len(s.in) <= BufferSize
    BY PartTypes DEF IInv, TypeParts, BuffersBounded
  <1>2. Begun(c)' = Begun(c)
    BY LoopUnseen, UnseenBegun
  <1>3. ASSUME conn'[c].stream.in \o sock'[c].up = s.in \o sock[c].up
        PROVE  OrderedAt(c)'
    <2>1. Inbox(c)' = Inbox(c)
      BY <1>3 DEF Inbox
    <2> QED
      BY <1>2, <2>1, InboxSame
  <1>4. CASE Accept(c)
    <2>1. s = NewStream /\ conn'[c].stream = NewStream /\ sock' = sock
      BY <1>1, <1>4 DEF Accept, ClosedIsEmpty, IsOpen
    <2> QED
      BY <1>3, <2>1
  <1>5. CASE Dispatch(c) \/ StopReading(c)
    <2>1. conn'[c].stream = s /\ sock' = sock
      BY <1>1, <1>5 DEF Dispatch, StopReading, ConnectionType
    <2> QED
      BY <1>3, <2>1
  <1>6. CASE Flush(c)
    <2>1. Room(c) \in Int /\ Gone(c) \in BOOLEAN
      BY <1>1, PartTypes, ConstantTypes, LenProperties DEF Room, Gone
    <2>2. PICK o \in FlushOutcomes(s, Room(c), Gone(c)) :
            /\ conn' = [conn EXCEPT ![c].stream = o.stream,
                                    ![c].events_mask =
                                      IF o.result = "rest" THEN {"OUT"} ELSE {}]
            /\ sock' = [sock EXCEPT ![c].down = @ \o o.sent]
      BY <1>6 DEF Flush
    <2>3. conn'[c].stream = o.stream /\ sock'[c].up = sock[c].up
      BY <1>1, <2>2 DEF ConnectionType, SockType
    <2>4. o.stream.in = s.in
      BY <1>1, <2>1, <2>2, FlushType
    <2> QED
      BY <1>3, <2>3, <2>4
  <1>7. CASE ReadSocket(c)
    <2> DEFINE w == sock[c].up
    <2>1. /\ conn'[c].stream = Received(s, w)
          /\ sock'[c].up = Drop(w, ReadSize(s, w))
      BY <1>1, <1>7 DEF ReadSocket, ConnectionType, SockType
    <2>2. Received(s, w).in \o Drop(w, ReadSize(s, w)) = s.in \o w
      <3> HIDE DEF s, w
      <3>1. w \in Seq(RequestCells) /\ BufferSize \in Nat
        BY <1>1, ConstantTypes DEF w
      <3> QED
        BY <1>1, <3>1, ReceivedConcat
    <2> QED
      BY <1>3, <2>1, <2>2
  <1>8. CASE ReadNothing(c)
    <2>1. (conn'[c].stream = s \/ conn'[c].stream = HungUp(s)) /\ sock' = sock
      BY <1>1, <1>8 DEF ReadNothing, ConnectionType
    <2>2. HungUp(s).in = s.in
      BY <1>1 DEF HungUp, StreamOf
    <2> QED
      BY <1>3, <2>1, <2>2
  <1>9. CASE EndDispatch(c) /\ ~CloseConnection(c)
    <2>1. conn'[c].stream = s /\ sock' = sock
      BY <1>1, <1>9 DEF EndDispatch, SetEventsMask, ConnectionType
    <2> QED
      BY <1>3, <2>1
  <1> QED
    BY <1>4, <1>5, <1>6, <1>7, <1>8, <1>9

\* The application and the inbox.
LEMMA ApplicationOrdered ==
    ASSUME IInv, NEW c \in Connections, OrderedAt(c),
           \/ HandlerReturns(c)
           \/ \E i \in CallNo : \/ Keep(c, i) \/ Release(c, i)
                                \/ ReplyContinues(c, i) \/ Finish(c, i)
    PROVE  OrderedAt(c)'
  <1>1. /\ TypeOK /\ BuffersBounded /\ conn \in [Connections -> ConnectionType]
        /\ calls \in [Connections -> [CallNo -> CallType]]
    BY PartTypes DEF IInv, TypeParts
  <1>2. CASE HandlerReturns(c) \/ \E i \in CallNo : Keep(c, i) \/ Release(c, i)
    <2>1. Begun(c)' = Begun(c)
      BY <1>1, <1>2, ApplicationUnseen, UnseenBegun
    <2>2. Inbox(c)' = Inbox(c)
      BY <1>2 DEF HandlerReturns, Keep, Release, Inbox
    <2> QED
      BY <2>1, <2>2, InboxSame
  <1>3. ASSUME NEW i \in CallNo, ReplyContinues(c, i)
        PROVE  OrderedAt(c)'
    <2>1. /\ conn'[c].call = conn[c].call /\ conn'[c].stream.in = conn[c].stream.in
          /\ sock'[c].up = sock[c].up /\ \A j \in CallNo : calls'[c][j].done = calls[c][j].done
      <3>1. PICK r : /\ conn' = [conn EXCEPT ![c] = r] /\ r.call = conn[c].call
                     /\ r.stream.in = conn[c].stream.in
        BY <1>1, <1>3, ContinuesEffect
      <3>2. PICK q : calls' = [calls EXCEPT ![c][i] = q] /\ q.done = calls[c][i].done
        BY <1>1, <1>3, ContinuesEffect
      <3>3. sock'[c].up = sock[c].up
        BY <1>1, <1>3, ContinuesEffect
      <3>4. conn'[c].call = conn[c].call /\ conn'[c].stream.in = conn[c].stream.in
        BY <1>1, <3>1
      <3>5. \A j \in CallNo : calls'[c][j].done = calls[c][j].done
        BY <1>1, <3>2
      <3> QED
        BY <3>3, <3>4, <3>5
    <2>2. Begun(c)' = Begun(c)
      BY <2>1 DEF Begun
    <2>3. Inbox(c)' = Inbox(c)
      BY <2>1 DEF Inbox
    <2> QED
      BY <2>2, <2>3, InboxSame
  <1>4. ASSUME NEW i \in CallNo, Finish(c, i)
        PROVE  OrderedAt(c)'
    <2>1. /\ conn[c].call = i /\ conn'[c].call = NoCall /\ conn'[c].stream.in = conn[c].stream.in
          /\ sock'[c].up = sock[c].up
          /\ \A j \in CallNo : j # i => calls'[c][j].done = calls[c][j].done
      <3>1. PICK r : /\ conn' = [conn EXCEPT ![c] = r]
                     /\ r.call = NoCall /\ r.stream.in = conn[c].stream.in
        BY <1>1, <1>4, ReplyEffect
      <3>2. PICK q : calls' = [calls EXCEPT ![c][i] = q] /\ q.done = TRUE
        BY <1>1, <1>4, ReplyEffect
      <3>3. conn[c].call = i /\ sock'[c].up = sock[c].up
        BY <1>1, <1>4, ReplyEffect
      <3>4. conn'[c] = r /\ \A j \in CallNo : j # i => calls'[c][j] = calls[c][j]
        BY <1>1, <3>1, <3>2
      <3> QED
        BY <3>1, <3>3, <3>4
    <2>2. Begun(c)' \subseteq Begun(c)
      BY <2>1, ConstantTypes DEF Begun
    <2>3. Inbox(c)' = Inbox(c)
      BY <2>1 DEF Inbox
    <2> QED
      BY <2>2, <2>3, InboxSame
  <1> QED
    BY <1>2, <1>3, <1>4

\* A message that is read leaves the inbox.
LEMMA ReadOrdered ==
    ASSUME IInv, ClosedIsEmpty, NEW c \in Connections, OrderedAt(c), ReadNoCall(c) \/ ReadCall(c)
    PROVE  OrderedAt(c)'
  <1> DEFINE s == conn[c].stream
             w == sock[c].up
  <1>1. /\ TypeOK /\ conn \in [Connections -> ConnectionType] /\ conn[c] \in ConnectionType
        /\ calls \in [Connections -> [CallNo -> CallType]]
        /\ s \in StreamOf(RequestCells, ReplyCells)
        /\ s.in \in Seq(RequestCells) /\ w \in Seq(RequestCells)
        /\ Inbox(c) \in Seq(RequestCells)
    BY PartTypes, BoxTypes DEF IInv, TypeParts
  <1>2. PICK o \in Delivered(s) :
          \/ ReadNoCall(c) /\ conn' = [conn EXCEPT ![c].stream = o.stream]
          \/ /\ conn' = [conn EXCEPT ![c].stream = o.stream, ![c].call = o.message]
             /\ calls' = [calls EXCEPT ![c][o.message].refcount = 1]
    BY DEF ReadNoCall, ReadCall
  <1>3. sock' = sock /\ conn[c].call = NoCall
    BY DEF ReadNoCall, ReadCall, Reading, MayRead
  <1>4. conn'[c].stream = o.stream
    BY <1>1, <1>2 DEF ConnectionType
  <1>5. PICK e \in 1..Len(s.in) :
          s.in[e].nul /\ o.message = s.in[e].msg /\ Follows(s.in, e, o.stream.in)
    BY <1>1, DeliveredProperties
  <1>6. o.stream.in \in Seq(RequestCells)
    BY <1>1, DeliveredCall DEF StreamOf
  <1>7. Begun(c)' \subseteq Begun(c) \cup {o.message}
    <2>1. CASE ReadNoCall(c)
      BY <2>1, LoopUnseen, UnseenBegun
    <2>2. CASE ~ReadNoCall(c)
      <3>1. conn'[c].call = o.message /\ \A j \in CallNo : calls'[c][j].done = calls[c][j].done
        <4>1. /\ conn' = [conn EXCEPT ![c].stream = o.stream, ![c].call = o.message]
              /\ calls' = [calls EXCEPT ![c][o.message].refcount = 1]
          BY <1>2, <2>2
        <4>2. conn'[c].call = o.message
          BY <1>1, <4>1 DEF ConnectionType
        <4>3. \A j \in CallNo : calls'[c][j].done = calls[c][j].done
          BY <1>1, <4>1 DEF CallType
        <4> QED
          BY <4>2, <4>3
      <3> QED
        BY <3>1 DEF Begun
    <2> QED
      BY <2>1, <2>2
  <1> DEFINE u == Inbox(c)
             v == Inbox(c)'
  <1>8. Follows(u, e, v) /\ u[e] = s.in[e]
    <2>1. u = s.in \o w /\ v = o.stream.in \o w
      BY <1>3, <1>4 DEF Inbox
    <2> HIDE DEF s, w, u, v
    <2> QED
      BY <1>1, <1>5, <1>6, <2>1, FollowsConcat
  <1>9. v \in Seq(RequestCells)
    BY <1>1, <1>3, <1>4, <1>6, ConcatProperties DEF Inbox
  <1>10. Ascending(u) /\ Behind(u, Begun(c)) /\ u \in Seq(RequestCells) /\ u[e].nul
    BY <1>1, <1>5, <1>8 DEF OrderedAt
  <1> HIDE DEF u, v
  <1>11. Ascending(v) /\ Behind(v, Begun(c) \cup {u[e].msg})
    BY <1>8, <1>9, <1>10, RestOrdered
  <1>12. Behind(v, Begun(c)')
    BY <1>5, <1>7, <1>8, <1>11 DEF Behind
  <1> QED
    BY <1>11, <1>12 DEF OrderedAt, v

\* Nothing is left in the inbox of a connection that is closed.
LEMMA CloseOrdered ==
    ASSUME TypeOK, NEW c \in Connections, CloseConnection(c)
    PROVE  OrderedAt(c)'
  <1>1. /\ conn'[c].stream = NewStream /\ sock'[c].up = <<>>
    BY PartTypes DEF TypeParts, SockType, CloseConnection, FreedConnection
  <1>2. Inbox(c)' = <<>>
    <2>1. Inbox(c)' = <<>> \o <<>>
      BY <1>1 DEF Inbox, NewStream
    <2>2. <<>> \in Seq(RequestCells)
      BY EmptySeq
    <2> QED
      BY <2>1, <2>2, ConcatEmptySeq
  <1>3. Len(<<>>) = 0
    BY EmptySeq
  <1> QED
    BY <1>2, <1>3 DEF OrderedAt, Ascending, Behind

\* What the client sends is behind everything that it sent.
LEMMA ClientOrdered ==
    ASSUME IInv, NEW c \in Connections, OrderedAt(c), Client(c)
    PROVE  OrderedAt(c)'
  <1> DEFINE k == Len(client[c].requests)
             in == conn[c].stream.in
             up == sock[c].up
  <1>1. /\ TypeOK /\ Numbered /\ Fresh /\ Once /\ RefcountsCountOwners
        /\ client \in [Connections -> ClientType] /\ sock \in [Connections -> SockType]
        /\ calls \in [Connections -> [CallNo -> CallType]]
        /\ in \in Seq(RequestCells) /\ up \in Seq(RequestCells) /\ Inbox(c) \in Seq(RequestCells)
        /\ client[c].requests \in Seq(Kinds) /\ k \in Nat /\ k <= MaxCalls
        /\ client[c].pushed \in Nat
    BY PartTypes, BoxTypes, LenProperties DEF IInv, TypeParts, Numbered, ClientType
  <1>2. UNCHANGED <<conn, calls>>
    BY DEF Client, Connect, Send, SendMore, Receive, Shutdown, Disconnect
  <1>3. Begun(c)' = Begun(c)
    BY <1>2 DEF Begun
  <1>4. ASSUME NEW x \in RequestCells, sock'[c].up = Append(up, x),
               x.nul => /\ \A p \in 1..Len(Inbox(c)) : Inbox(c)[p].nul => Inbox(c)[p].msg < x.msg
                        /\ \A i \in Begun(c) : i < x.msg
        PROVE  OrderedAt(c)'
    <2>1. Inbox(c)' = in \o Append(up, x)
      BY <1>2, <1>4 DEF Inbox
    <2> DEFINE u == Inbox(c)
    <2>2. in \o Append(up, x) = Append(u, x)
      <3>1. in \o Append(up, x) = Append(in \o up, x)
        <4> HIDE DEF in, up
        <4> QED
          BY <1>1, ConcatAppend
      <3> QED
        BY <3>1 DEF Inbox
    <2>3. u \in Seq(RequestCells) /\ Ascending(u) /\ Behind(u, Begun(c))
      BY <1>1 DEF OrderedAt
    <2> HIDE DEF u
    <2>4. Ascending(Append(u, x)) /\ Behind(Append(u, x), Begun(c))
      BY <1>4, <2>3, NextOrdered DEF u
    <2> QED
      BY <1>3, <2>1, <2>2, <2>4 DEF OrderedAt
  <1>5. CASE Connect(c) \/ Receive(c) \/ Shutdown(c) \/ Disconnect(c)
    <2>1. sock'[c].up = up
      BY <1>1, <1>5 DEF Connect, Receive, Shutdown, Disconnect, SockType
    <2>2. Inbox(c)' = Inbox(c)
      BY <1>2, <2>1 DEF Inbox
    <2> QED
      BY <1>3, <2>2, InboxSame
  <1>6. ASSUME NEW kind \in Kinds, Send(c, kind)
        PROVE  OrderedAt(c)'
    <2> DEFINE x == [msg |-> k + 1, nul |-> FALSE]
    <2>1. k < MaxCalls /\ sock'[c].up = Append(up, x)
      BY <1>1, <1>6 DEF Send, Push, SockType
    <2>2. x \in RequestCells /\ ~x.nul
      BY <1>1, <2>1, ConstantTypes DEF RequestCells, CallNo
    <2> HIDE DEF x
    <2> QED
      BY <1>4, <2>1, <2>2
  <1>7. CASE SendMore(c)
    <2> DEFINE size == RequestSize(Kind(c, k))
               n == client[c].pushed + 1
               x == [msg |-> k, nul |-> n = size]
    <2>1. k > 0 /\ n <= size /\ sock'[c].up = Append(up, x)
      BY <1>1, <1>7 DEF SendMore, Push, SockType
    <2>2. x \in RequestCells /\ x.msg = k /\ k \in CallNo
      BY <1>1, <2>1, ConstantTypes DEF RequestCells, CallNo
    <2>3. \A i \in CallNo : SentWhole(c, i) => i < k
      <3>1. size \in Nat
        BY ConstantTypes DEF RequestSize
      <3>2. client[c].pushed # size
        BY <1>1, <2>1, <3>1
      <3>3. DOMAIN client[c].requests = 1..k
        BY <1>1, LenProperties
      <3> QED
        BY <1>1, <3>2, <3>3 DEF SentWhole, CallNo
    <2>4. \A i \in CallNo : Ends(in, i) \/ Ends(up, i) => i < k
      BY <1>1, <2>3 DEF Once
    <2>5. ASSUME NEW i \in Begun(c) PROVE i < k
      <3>1. i \in CallNo /\ (calls[c][i].done \/ conn[c].call = i)
        BY DEF Begun
      <3>2. calls[c][i] # FreshCall
        <4>1. calls[c][i].refcount = Owners(c, i)
          BY <1>1, <3>1 DEF RefcountsCountOwners
        <4>2. conn[c].call = i => Owners(c, i) # 0
          BY DEF Owners
        <4>3. FreshCall.refcount = 0 /\ FreshCall.done = FALSE
          BY DEF FreshCall
        <4> QED
          BY <3>1, <4>1, <4>2, <4>3
      <3>3. SentWhole(c, i)
        BY <1>1, <3>1, <3>2 DEF Fresh, ToCome
      <3> QED
        BY <2>3, <3>1, <3>3
    <2>6. ASSUME NEW p \in 1..Len(Inbox(c)), Inbox(c)[p].nul
          PROVE  Inbox(c)[p].msg < k
      <3> DEFINE i == Inbox(c)[p].msg
      <3>1. /\ Len(in) \in Nat /\ Len(up) \in Nat /\ Len(Inbox(c)) = Len(in) + Len(up)
            /\ Inbox(c)[p] = IF p <= Len(in) THEN in[p] ELSE up[p - Len(in)]
        BY <1>1, LenProperties, ConcatProperties DEF Inbox
      <3>2. Inbox(c)[p] \in RequestCells
        BY <1>1, ElementOfSeq
      <3>3. i \in CallNo
        BY <3>2 DEF RequestCells
      <3>4. CASE p <= Len(in)
        <4>1. p \in 1..Len(in) /\ in[p].nul /\ in[p].msg = i
          BY <2>6, <3>1, <3>4
        <4>2. Ends(in, i)
          BY <4>1 DEF Ends, EndsAt
        <4> QED
          BY <2>4, <3>3, <4>2
      <3>5. CASE ~(p <= Len(in))
        <4> DEFINE q == p - Len(in)
        <4>0. q \in 1..Len(up)
          <5> DEFINE a == Len(in)
                     b == Len(up)
          <5>1. a \in Nat /\ b \in Nat /\ p \in 1..(a + b) /\ ~(p <= a)
            BY <3>1, <3>5
          <5> HIDE DEF a, b
          <5>2. p - a \in 1..b
            BY <5>1
          <5> QED
            BY <5>2 DEF a, b
        <4>1. q \in 1..Len(up) /\ Inbox(c)[p] = up[q]
          BY <3>1, <3>5, <4>0
        <4> HIDE DEF q, in, up
        <4>2. Ends(up, i)
          BY <2>6, <4>1 DEF Ends, EndsAt
        <4> QED
          BY <2>4, <3>3, <4>2
      <3> QED
        BY <3>4, <3>5
    <2> HIDE DEF x, k
    <2> QED
      BY <1>4, <2>1, <2>2, <2>5, <2>6
  <1> QED
    BY <1>5, <1>6, <1>7 DEF Client

\* A connection that is closed keeps no data.
LEMMA ClosedStep ==
    ASSUME IInv, ClosedIsEmpty, NEW c \in Connections, Steps(c)
    PROVE  ClosedIsEmpty'
  <1>1. /\ TypeOK /\ BuffersBounded /\ Dispatching /\ conn[c] \in ConnectionType
        /\ conn \in [Connections -> ConnectionType]
    BY PartTypes DEF IInv, TypeParts
  <1>2. ASSUME NEW r, conn' = [conn EXCEPT ![c] = r], r.state = "open" \/ r.stream = NewStream
        PROVE  ClosedIsEmpty'
    BY <1>1, <1>2 DEF ClosedIsEmpty, IsOpen
  <1>3. ASSUME conn' = conn PROVE ClosedIsEmpty'
    BY <1>3 DEF ClosedIsEmpty, IsOpen
  <1>4. ASSUME CloseConnection(c) PROVE ClosedIsEmpty'
    BY <1>2, <1>4 DEF CloseConnection, FreedConnection
  <1>5. CASE Accept(c)
    <2> DEFINE r == [state |-> "open", events_mask |-> {}, current_events_mask |-> {"IN"},
                     call |-> NoCall, stream |-> NewStream]
    <2>1. conn' = [conn EXCEPT ![c] = r] /\ r.state = "open"
      BY <1>5 DEF Accept
    <2> QED
      BY <1>2, <2>1
  <1>6. CASE Loop(c)
    <2>1. conn[c].state = "open"
      BY <1>1, <1>6 DEF Loop, Dispatch, Flush, StopReading, ReadSocket, ReadNothing, ReadInvalid,
                        ReadNoCall, ReadCall, Reading, EndDispatch, Dispatching, IsOpen
    <2>2. ASSUME conn'[c].state = conn[c].state, \A d \in Connections : d # c => conn'[d] = conn[d]
          PROVE  ClosedIsEmpty'
      BY <2>1, <2>2 DEF ClosedIsEmpty, IsOpen
    <2>a. ASSUME NEW r, conn' = [conn EXCEPT ![c] = r], r.state = conn[c].state
          PROVE  ClosedIsEmpty'
      BY <1>1, <2>2, <2>a
    <2>3. CASE Dispatch(c) \/ Flush(c) \/ ReadSocket(c)
      <3>1. CASE Dispatch(c)
        <4> DEFINE r == [conn[c] EXCEPT !.events_mask = {}]
        <4>1. conn' = [conn EXCEPT ![c] = r] /\ r.state = conn[c].state
          BY <1>1, <3>1 DEF Dispatch, ConnectionType
        <4> QED
          BY <2>a, <4>1
      <3>2. CASE Flush(c)
        <4>1. PICK stream, mask :
                conn' = [conn EXCEPT ![c].stream = stream, ![c].events_mask = mask]
          BY <3>2 DEF Flush
        <4> DEFINE r == [conn[c] EXCEPT !.stream = stream, !.events_mask = mask]
        <4>2. conn' = [conn EXCEPT ![c] = r] /\ r.state = conn[c].state
          BY <1>1, <4>1 DEF ConnectionType
        <4> QED
          BY <2>a, <4>2
      <3>3. CASE ReadSocket(c)
        <4>1. PICK stream : conn' = [conn EXCEPT ![c].stream = stream]
          BY <3>3 DEF ReadSocket
        <4> DEFINE r == [conn[c] EXCEPT !.stream = stream]
        <4>2. conn' = [conn EXCEPT ![c] = r] /\ r.state = conn[c].state
          BY <1>1, <4>1 DEF ConnectionType
        <4> QED
          BY <2>a, <4>2
      <3> QED
        BY <2>3, <3>1, <3>2, <3>3
    <2>4. CASE StopReading(c)
      BY <1>3, <2>4 DEF StopReading
    <2>5. CASE ReadNothing(c)
      BY <1>1, <2>2, <2>5 DEF ReadNothing, ConnectionType
    <2>6. CASE ReadNoCall(c) \/ ReadCall(c)
      <3>1. CASE ReadNoCall(c)
        <4>1. PICK stream : conn' = [conn EXCEPT ![c].stream = stream]
          BY <3>1 DEF ReadNoCall
        <4> DEFINE r == [conn[c] EXCEPT !.stream = stream]
        <4>2. conn' = [conn EXCEPT ![c] = r] /\ r.state = conn[c].state
          BY <1>1, <4>1 DEF ConnectionType
        <4> QED
          BY <2>a, <4>2
      <3>2. CASE ReadCall(c)
        <4>1. PICK stream, i : conn' = [conn EXCEPT ![c].stream = stream, ![c].call = i]
          BY <3>2 DEF ReadCall
        <4> DEFINE r == [conn[c] EXCEPT !.stream = stream, !.call = i]
        <4>2. conn' = [conn EXCEPT ![c] = r] /\ r.state = conn[c].state
          BY <1>1, <4>1 DEF ConnectionType
        <4> QED
          BY <2>a, <4>2
      <3> QED
        BY <2>6, <3>1, <3>2
    <2>7. CASE ReadInvalid(c)
      BY <1>4, <2>7 DEF ReadInvalid
    <2>8. CASE EndDispatch(c)
      <3>1. CASE CloseConnection(c)
        BY <1>4, <3>1
      <3>2. CASE ~CloseConnection(c)
        BY <1>1, <2>2, <2>8, <3>2 DEF EndDispatch, SetEventsMask, ConnectionType
      <3> QED
        BY <3>1, <3>2
    <2> QED
      BY <1>6, <2>3, <2>4, <2>5, <2>6, <2>7, <2>8 DEF Loop
  <1>7. CASE Application(c)
    <2>1. CASE HandlerReturns(c) \/ \E i \in CallNo : Keep(c, i) \/ Release(c, i)
      BY <1>3, <2>1 DEF HandlerReturns, Keep, Release
    <2>2. CASE HandlerFails(c)
      BY <1>4, <2>2 DEF HandlerFails
    <2>3. ASSUME NEW i \in CallNo, ReplyContinues(c, i) \/ Finish(c, i)
          PROVE  ClosedIsEmpty'
      <3>1. conn[c].state = "open"
        BY <2>3 DEF ReplyContinues, Finish, ReplyOneway, ReplyFinal, ReplyError, CanReply, IsOpen
      <3>2. PICK r : conn' = [conn EXCEPT ![c] = r] /\ r.state = conn[c].state
        BY <1>1, <2>3, ReplyEffect, ContinuesEffect
      <3> QED
        BY <1>2, <3>1, <3>2
    <2> QED
      BY <1>7, <2>1, <2>2, <2>3 DEF Application
  <1>8. CASE Client(c)
    BY <1>3, <1>8 DEF Client, Connect, Send, SendMore, Receive, Shutdown, Disconnect
  <1> QED
    BY <1>5, <1>6, <1>7, <1>8 DEF Steps

\* The replies of a call are counted as they are sent.
CountedAt(c) ==
    ~Over(c) => \A i \in CallNo : calls[c][i].replies = CountOf(MessagesIn(Outbox(c)), i)

LEMMA CountedMoves ==
    ASSUME TypeOK, TypeOK', NEW c \in Connections, CountedAt(c), Moves(c)
    PROVE  CountedAt(c)'
  <1>0. calls[c] \in [CallNo -> CallType]
    BY PartTypes
  <1> SUFFICES ASSUME ~Over(c)', NEW i \in CallNo
               PROVE  calls'[c][i].replies = CountOf(MessagesIn(Outbox(c)'), i)
    BY DEF CountedAt
  <1>1. CASE Unseen(c)
    BY <1>1 DEF Unseen, SameCalls, CountedAt
  <1>2. CASE Asks(c) \/ Takes(c)
    <2>1. ~Over(c) /\ Outbox(c)' = Outbox(c) /\ SameCalls(c)
      BY <1>2 DEF Asks, Takes, Standing
    <2> QED
      BY <2>1 DEF SameCalls, CountedAt
  <1>3. CASE Answers(c)
    <2>1. PICK j \in CallNo, kind \in {"continues", "final", "error"} : Gives(c, j, kind)
      BY <1>3 DEF Answers
    <2> DEFINE m == [call |-> j, n |-> calls[c][j].replies + 1, kind |-> kind]
               u == Outbox(c)
               v == Outbox(c)'
    <2>2. /\ calls'[c] = [calls[c] EXCEPT ![j] = Replied(@, kind)]
          /\ Grown(u, v, m, ReplySize)
      BY <2>1 DEF Gives
    <2>3. ~Over(c)
      BY <1>3 DEF Answers, Standing
    <2>4. calls[c][i].replies = CountOf(MessagesIn(u), i)
      BY <2>3 DEF CountedAt
    <2>5. u \in Seq(ReplyCells) /\ v \in Seq(ReplyCells) /\ ReplySize \in Nat /\ ReplySize > 0
      BY BoxTypes, BoxTypesNext, ConstantTypes
    <2>6. m.call = j
      OBVIOUS
    <2> HIDE DEF m, u, v
    <2>7. CountOf(MessagesIn(v), i) = CountOf(MessagesIn(u), i) + IF m.call = i THEN 1 ELSE 0
      BY <2>2, <2>5, MessagesGrown
    <2>8. calls[c][j].replies \in Nat /\ Replied(calls[c][j], kind).replies = calls[c][j].replies + 1
      BY <1>0, ConstantTypes DEF CallType, Replied, Finished, Unref
    <2>9. calls'[c][i].replies = calls[c][i].replies + IF j = i THEN 1 ELSE 0
      <3>1. CASE i = j
        <4>1. calls'[c][i] = Replied(calls[c][j], kind)
          BY <1>0, <2>2, <3>1
        <4> QED
          BY <2>8, <3>1, <4>1
      <3>2. CASE i # j
        <4>1. calls'[c][i] = calls[c][i] /\ calls[c][i].replies \in Nat
          BY <1>0, <2>2, <3>2, ConstantTypes DEF CallType
        <4> QED
          BY <3>2, <4>1
      <3> QED
        BY <3>1, <3>2
    <2> QED
      BY <2>4, <2>6, <2>7, <2>9 DEF v
  <1>4. CASE Completes(c)
    <2>1. PICK j \in CallNo : calls'[c] = [calls[c] EXCEPT ![j] = Finished(@)]
      BY <1>4 DEF Completes
    <2>2. ~Over(c) /\ Outbox(c)' = Outbox(c)
      BY <1>4 DEF Completes, Standing
    <2>3. calls'[c][i].replies = calls[c][i].replies
      BY <1>0, <2>1 DEF CallType, Finished, Unref
    <2> QED
      BY <2>2, <2>3 DEF CountedAt
  <1>5. CASE Leaves(c)
    BY <1>5 DEF Leaves
  <1> QED
    BY <1>1, <1>2, <1>3, <1>4, <1>5 DEF Moves

\* The order of the messages on one connection.
LEMMA OrderedStep ==
    ASSUME IInv, ClosedIsEmpty, NEW c \in Connections, OrderedAt(c), Steps(c)
    PROVE  OrderedAt(c)'
  <1>1. CASE \/ Accept(c) \/ Dispatch(c) \/ Flush(c) \/ StopReading(c) \/ ReadSocket(c)
             \/ ReadNothing(c)
             \/ EndDispatch(c) /\ ~CloseConnection(c)
    BY <1>1, LoopOrdered
  <1>2. CASE ReadInvalid(c) \/ HandlerFails(c) \/ CloseConnection(c)
    BY <1>2, CloseOrdered DEF ReadInvalid, HandlerFails, IInv
  <1>3. CASE ReadNoCall(c) \/ ReadCall(c)
    BY <1>3, ReadOrdered
  <1>4. CASE \/ HandlerReturns(c)
             \/ \E i \in CallNo : \/ Keep(c, i) \/ Release(c, i)
                                  \/ ReplyContinues(c, i) \/ Finish(c, i)
    BY <1>4, ApplicationOrdered
  <1>5. CASE Client(c)
    BY <1>5, ClientOrdered
  <1> QED
    BY <1>1, <1>2, <1>3, <1>4, <1>5 DEF Steps, Loop, Application

\* At first there is nothing to put in order.
LEMMA InitInTurn == Init => InTurn
  <1> SUFFICES ASSUME Init PROVE InTurn
    OBVIOUS
  <1>1. IInv /\ Len(<<>>) = 0 /\ <<>> \in Seq(ReplyCells)
    BY InitInvariant, EmptySeq
  <1>2. ASSUME NEW c \in Connections
        PROVE  /\ conn[c].stream = NewStream /\ sock[c].up = <<>> /\ sock[c].down = <<>>
               /\ client[c].got = <<>> /\ \A i \in CallNo : calls[c][i] = FreshCall
    BY <1>2 DEF Init, FreedConnection
  <1>3. <<>> \o <<>> = <<>>
    BY <1>1, ConcatEmptySeq
  <1>4. InboxOrdered
    <2>1. ASSUME NEW c \in Connections PROVE Inbox(c) = <<>>
      <3>1. conn[c].stream.in = <<>>
        BY <1>2 DEF NewStream
      <3> QED
        BY <1>2, <1>3, <3>1 DEF Inbox
    <2>2. ASSUME NEW c \in Connections PROVE OrderedAt(c)
      <3>1. Inbox(c) = <<>> /\ Len(Inbox(c)) = 0 /\ 1..0 = {}
        BY <1>1, <2>1
      <3> QED
        BY <3>1 DEF OrderedAt, Ascending, Behind
    <2> QED
      BY <2>2 DEF InboxOrdered
  <1>5. ClosedIsEmpty
    BY <1>2 DEF ClosedIsEmpty
  <1>6. RepliesCounted
    <2>1. ASSUME NEW c \in Connections PROVE Outbox(c) = <<>>
      <3>1. conn[c].stream.out = <<>>
        BY <1>2 DEF NewStream
      <3> QED
        BY <1>2, <1>3, <3>1 DEF Outbox
    <2>2. ASSUME NEW i PROVE CountOf(MessagesIn(<<>>), i) = 0
      <3>2. Len(MessagesIn(<<>>)) = 0 /\ DOMAIN MessagesIn(<<>>) = 1..0
        BY <1>1, NoMessages, LenProperties
      <3>3. {j \in DOMAIN MessagesIn(<<>>) : MessagesIn(<<>>)[j].call = i} = {}
        BY <3>2
      <3> QED
        BY <3>3, FS_EmptySet DEF CountOf
    <2>3. \A c \in Connections, i \in CallNo : calls[c][i].replies = 0
      BY <1>2 DEF FreshCall
    <2> QED
      BY <2>1, <2>2, <2>3 DEF RepliesCounted
  <1> QED
    BY <1>1, <1>4, <1>5, <1>6 DEF InTurn

\* Every step keeps the messages in order and the replies counted.
LEMMA NextInTurn == InTurn /\ [Next]_vars => InTurn'
  <1> SUFFICES ASSUME InTurn, [Next]_vars
               PROVE  InTurn'
    OBVIOUS
  <1>0. IInv /\ IInv' /\ TypeOK /\ TypeOK'
    BY NextInvariant DEF InTurn, IInv
  <1>1. ASSUME NEW c \in Connections, Steps(c)
        PROVE  InTurn'
    <2>1. \A d \in Connections : d # c => Unseen(d) /\ Inbox(d)' = Inbox(d) /\ Begun(d)' = Begun(d)
      BY <1>0, <1>1, OthersStand, StandsUnseen
    <2>2. \A d \in Connections : Moves(d)
      BY <1>1, <2>1, StepMoves DEF Moves
    <2>3. InboxOrdered'
      <3>1. ASSUME NEW d \in Connections PROVE OrderedAt(d)'
        <4>1. OrderedAt(d)
          BY DEF InTurn, InboxOrdered
        <4>2. CASE d = c
          BY <1>0, <1>1, <4>1, <4>2, OrderedStep DEF InTurn
        <4>3. CASE d # c
          BY <2>1, <4>1, <4>3, InboxSame
        <4> QED
          BY <4>2, <4>3
      <3> QED
        BY <3>1 DEF InboxOrdered
    <2>4. RepliesCounted'
      <3>1. ASSUME NEW d \in Connections PROVE CountedAt(d)'
        <4>1. CountedAt(d)
          BY DEF InTurn, RepliesCounted, CountedAt
        <4> QED
          BY <1>0, <2>2, <4>1, CountedMoves
      <3> QED
        BY <3>1 DEF RepliesCounted, CountedAt
    <2>5. ClosedIsEmpty'
      BY <1>0, <1>1, ClosedStep DEF InTurn
    <2> QED
      BY <1>0, <2>3, <2>4, <2>5 DEF InTurn
  <1>2. CASE UNCHANGED vars
    <2>1. InboxOrdered'
      BY <1>2 DEF vars, InTurn, InboxOrdered, OrderedAt, Ascending, Behind, Inbox, Begun
    <2>2. \A c \in Connections : Stands(c)
      BY <1>2 DEF vars, Stands
    <2>3. \A c \in Connections : CountedAt(c)'
      <3>1. ASSUME NEW c \in Connections PROVE CountedAt(c)'
        <4>1. CountedAt(c)
          BY DEF InTurn, RepliesCounted, CountedAt
        <4>2. Moves(c)
          BY <2>2, StandsUnseen DEF Moves
        <4> QED
          BY <1>0, <4>1, <4>2, CountedMoves
      <3> QED
        BY <3>1
    <2>4. RepliesCounted'
      BY <2>3 DEF RepliesCounted, CountedAt
    <2>5. ClosedIsEmpty'
      BY <1>2 DEF vars, InTurn, ClosedIsEmpty, IsOpen
    <2> QED
      BY <1>0, <2>1, <2>4, <2>5 DEF InTurn
  <1> QED
    BY <1>1, <1>2 DEF Next, Steps

\* In every state of the service the messages of each connection are in order, and
\* a call has the replies that were sent for it.
THEOREM InTurnAlways == Spec => []InTurn
  BY InitInTurn, NextInTurn, PTL DEF Spec

-----------------------------------------------------------------------------
(* The refinement of Sessions.                                             *)

\* What Sessions sees of one connection.
PhaseOf(c)  == IF Over(c) THEN "over" ELSE "open"
ActiveOf(c) == IF Over(c) THEN NoCall ELSE conn[c].call
ServedOf(c) == IF Over(c) THEN {} ELSE Begun(c)

LEMMA Mapped ==
    /\ Requested = [c \in Connections |-> client[c].requests]
    /\ Phase = [c \in Connections |-> PhaseOf(c)]
    /\ ActiveCall = [c \in Connections |-> ActiveOf(c)]
    /\ Served = [c \in Connections |-> ServedOf(c)]
    /\ Delivery = [c \in Connections |-> MessagesIn(Outbox(c))]
  BY DEF Requested, Phase, ActiveCall, Served, Delivery, PhaseOf, ActiveOf, ServedOf

\* What is not seen stays as it is.
LEMMA UnseenStays ==
    ASSUME NEW c \in Connections, Unseen(c)
    PROVE  /\ PhaseOf(c)' = PhaseOf(c) /\ ActiveOf(c)' = ActiveOf(c)
           /\ ServedOf(c)' = ServedOf(c)
           /\ client'[c].requests = client[c].requests
           /\ MessagesIn(Outbox(c))' = MessagesIn(Outbox(c))
  <1>1. Begun(c)' = Begun(c)
    BY UnseenBegun
  <1>2. MessagesIn(Outbox(c))' = MessagesIn(Outbox(c))
    BY DEF Unseen, MessagesIn, MessageAt, NulsIn
  <1> QED
    BY <1>1, <1>2 DEF Unseen, PhaseOf, ActiveOf, ServedOf

\* Sessions sees the one connection that a step is about.
LEMMA MappedNext ==
    ASSUME NEW c \in Connections, \A d \in Connections : d # c => Unseen(d)
    PROVE  /\ Requested' = [Requested EXCEPT ![c] = client'[c].requests]
           /\ Phase' = [Phase EXCEPT ![c] = PhaseOf(c)']
           /\ ActiveCall' = [ActiveCall EXCEPT ![c] = ActiveOf(c)']
           /\ Served' = [Served EXCEPT ![c] = ServedOf(c)']
           /\ Delivery' = [Delivery EXCEPT ![c] = MessagesIn(Outbox(c))']
  <1>1. \A d \in Connections : d # c =>
           /\ PhaseOf(d)' = PhaseOf(d) /\ ActiveOf(d)' = ActiveOf(d) /\ ServedOf(d)' = ServedOf(d)
           /\ client'[d].requests = client[d].requests
           /\ MessagesIn(Outbox(d))' = MessagesIn(Outbox(d))
    BY UnseenStays
  <1>2. /\ Requested' = [d \in Connections |-> client'[d].requests]
        /\ Phase' = [d \in Connections |-> PhaseOf(d)']
        /\ ActiveCall' = [d \in Connections |-> ActiveOf(d)']
        /\ Served' = [d \in Connections |-> ServedOf(d)']
        /\ Delivery' = [d \in Connections |-> MessagesIn(Outbox(d))']
    BY DEF Requested, Phase, ActiveCall, Served, Delivery, PhaseOf, ActiveOf, ServedOf
  <1>3. Requested' = [Requested EXCEPT ![c] = client'[c].requests]
    BY <1>1, <1>2, Mapped
  <1>4. Phase' = [Phase EXCEPT ![c] = PhaseOf(c)']
    BY <1>1, <1>2, Mapped
  <1>5. ActiveCall' = [ActiveCall EXCEPT ![c] = ActiveOf(c)']
    BY <1>1, <1>2, Mapped
  <1>6. Served' = [Served EXCEPT ![c] = ServedOf(c)']
    BY <1>1, <1>2, Mapped
  <1>7. Delivery' = [Delivery EXCEPT ![c] = MessagesIn(Outbox(c))']
    BY <1>1, <1>2, Mapped
  <1> QED
    BY <1>3, <1>4, <1>5, <1>6, <1>7

\* Nothing is seen of any connection.
LEMMA PromiseStands ==
    ASSUME \A c \in Connections : Unseen(c)
    PROVE  UNCHANGED Promise!vars
  <1>1. \A d \in Connections :
           /\ PhaseOf(d)' = PhaseOf(d) /\ ActiveOf(d)' = ActiveOf(d) /\ ServedOf(d)' = ServedOf(d)
           /\ client'[d].requests = client[d].requests
           /\ MessagesIn(Outbox(d))' = MessagesIn(Outbox(d))
    BY UnseenStays
  <1>2. Requested' = Requested /\ Phase' = Phase /\ ActiveCall' = ActiveCall
    BY <1>1 DEF Requested, Phase, ActiveCall, PhaseOf, ActiveOf
  <1>3. Served' = Served /\ Delivery' = Delivery
    BY <1>1 DEF Served, Delivery, ServedOf
  <1> QED
    BY <1>2, <1>3 DEF Promise!vars

\* A client asks.
LEMMA PromiseAsks ==
    ASSUME NEW c \in Connections, \A d \in Connections : d # c => Unseen(d), Asks(c)
    PROVE  Promise!Ask(c)
  <1>1. Begun(c)' = Begun(c)
    BY DEF Asks, SameCalls, Begun
  <1>2. PhaseOf(c) = "open" /\ PhaseOf(c)' = PhaseOf(c) /\ ActiveOf(c)' = ActiveOf(c)
        /\ ServedOf(c)' = ServedOf(c)
    BY <1>1 DEF Asks, Standing, PhaseOf, ActiveOf, ServedOf
  <1>3. MessagesIn(Outbox(c))' = MessagesIn(Outbox(c))
    BY DEF Asks, MessagesIn, MessageAt, NulsIn
  <1>4. UNCHANGED <<Phase, ActiveCall, Served, Delivery>> /\ Phase[c] = "open"
    BY <1>2, <1>3, Mapped, MappedNext
  <1>5. \E kind \in Kinds : Requested' = [Requested EXCEPT ![c] = Append(@, kind)]
    <2>1. PICK kind \in Kinds : client'[c].requests = Append(client[c].requests, kind)
      BY DEF Asks
    <2>2. Requested[c] = client[c].requests
      BY Mapped
    <2>3. Requested' = [Requested EXCEPT ![c] = Append(client[c].requests, kind)]
      BY <2>1, MappedNext
    <2>4. Requested' = [Requested EXCEPT ![c] = Append(@, kind)]
      BY <2>2, <2>3
    <2> QED
      BY <2>4
  <1> QED
    BY <1>4, <1>5 DEF Promise!Ask

\* A call is taken.
LEMMA PromiseTakes ==
    ASSUME NEW c \in Connections, \A d \in Connections : d # c => Unseen(d), Takes(c)
    PROVE  Promise!Take(c)
  <1>1. PICK i \in CallNo : /\ i \in DOMAIN client[c].requests
                            /\ Kind(c, i) \in {"plain", "more", "oneway"}
                            /\ \A j \in Begun(c) : j < i
                            /\ conn'[c].call = i
    BY DEF Takes
  <1>2. ~Over(c) /\ ~Over(c)' /\ client'[c].requests = client[c].requests /\ conn[c].call = NoCall
    BY DEF Takes, Standing, SameRequests
  <1>3. Begun(c)' = Begun(c) \cup {i}
    BY <1>1, <1>2, ConstantTypes DEF Takes, SameCalls, Begun, CallNo, NoCall
  <1>4. MessagesIn(Outbox(c))' = MessagesIn(Outbox(c))
    BY DEF Takes, MessagesIn, MessageAt, NulsIn
  <1>5. /\ PhaseOf(c) = "open" /\ PhaseOf(c)' = "open" /\ ActiveOf(c) = 0 /\ ActiveOf(c)' = i
        /\ ServedOf(c) = Begun(c) /\ ServedOf(c)' = Begun(c) \cup {i}
    BY <1>1, <1>2, <1>3 DEF PhaseOf, ActiveOf, ServedOf, NoCall
  <1>6. UNCHANGED <<Requested, Phase, Delivery>>
    BY <1>2, <1>4, <1>5, Mapped, MappedNext
  <1>7. /\ Phase[c] = "open" /\ ActiveCall[c] = 0 /\ Served[c] = Begun(c)
        /\ Requested[c] = client[c].requests
    BY <1>5, Mapped
  <1>8. /\ ActiveCall' = [ActiveCall EXCEPT ![c] = i]
        /\ Served' = [Served EXCEPT ![c] = @ \cup {i}]
    <2>1. /\ Served' = [Served EXCEPT ![c] = Begun(c) \cup {i}]
          /\ ActiveCall' = [ActiveCall EXCEPT ![c] = i]
      BY <1>5, MappedNext
    <2> QED
      BY <1>7, <2>1
  <1> QED
    BY <1>1, <1>6, <1>7, <1>8 DEF Promise!Take, Promise!Callable, Kind

\* The calls that were taken are the same after a reply, or after a oneway call.
LEMMA FinishBegun ==
    ASSUME TypeOK, NEW c \in Connections, NEW i \in CallNo, conn[c].call = i,
           NEW r, calls'[c] = [calls[c] EXCEPT ![i] = r],
           \/ conn'[c].call = NoCall /\ r.done
           \/ conn'[c].call = i /\ r.done = calls[c][i].done
    PROVE  Begun(c)' = Begun(c)
  <1>1. calls[c] \in [CallNo -> CallType]
    BY PartTypes
  <1>2. calls'[c][i] = r /\ \A j \in CallNo : j # i => calls'[c][j] = calls[c][j]
    BY <1>1
  <1>3. \A j \in CallNo : j # NoCall
    BY DEF CallNo, NoCall
  <1>4. \A j \in CallNo : calls'[c][j].done \/ conn'[c].call = j
                          <=> calls[c][j].done \/ conn[c].call = j
    <2>1. ASSUME NEW j \in CallNo, j # i
          PROVE  calls'[c][j].done \/ conn'[c].call = j <=> calls[c][j].done \/ conn[c].call = j
      BY <1>2, <1>3, <2>1
    <2>2. calls'[c][i].done \/ conn'[c].call = i
      BY <1>2
    <2> QED
      BY <2>1, <2>2
  <1> QED
    BY <1>4 DEF Begun

\* A reply is made: the replies that were made before are those of the abstract
\* session, because the call counts them.
LEMMA PromiseAnswers ==
    ASSUME TypeOK, TypeOK', RepliesCounted, NEW c \in Connections,
           \A d \in Connections : d # c => Unseen(d), Answers(c)
    PROVE  Promise!Continue(c) \/ Promise!Answer(c)
  <1>0. PICK i \in CallNo, kind \in {"continues", "final", "error"} : Gives(c, i, kind)
    BY DEF Answers
  <1> DEFINE m == [call |-> i, n |-> calls[c][i].replies + 1, kind |-> kind]
             u == Outbox(c)
             v == Outbox(c)'
             last == IF kind = "continues" THEN i ELSE NoCall
  <1>1. ~Over(c) /\ ~Over(c)' /\ client'[c].requests = client[c].requests
    BY DEF Answers, Standing, SameRequests
  <1>2. /\ conn[c].call = i /\ conn'[c].call = last
        /\ calls'[c] = [calls[c] EXCEPT ![i] = Replied(@, kind)]
        /\ Grown(u, v, m, ReplySize)
    BY <1>0 DEF Gives
  <1>3. Begun(c)' = Begun(c)
    <2>1. calls[c] \in [CallNo -> CallType]
      BY PartTypes
    <2> DEFINE r == Replied(calls[c][i], kind)
    <2>2. calls'[c] = [calls[c] EXCEPT ![i] = r]
      BY <1>2
    <2>3. IF kind = "continues" THEN r.done = calls[c][i].done ELSE r.done
      BY <2>1 DEF CallType, Replied, Finished, Unref
    <2> HIDE DEF r
    <2> QED
      BY <1>2, <2>2, <2>3, FinishBegun
  <1>4. /\ PhaseOf(c)' = PhaseOf(c) /\ ServedOf(c)' = ServedOf(c)
        /\ ActiveOf(c) = i /\ ActiveOf(c)' = last
    BY <1>1, <1>2, <1>3 DEF PhaseOf, ActiveOf, ServedOf
  <1> HIDE DEF m, u, v, last
  <1>5. MessagesIn(v) = Append(MessagesIn(u), m)
    <2>1. u \in Seq(ReplyCells) /\ v \in Seq(ReplyCells) /\ ReplySize \in Nat /\ ReplySize > 0
      BY BoxTypes, BoxTypesNext, ConstantTypes DEF u, v
    <2> QED
      BY <1>2, <2>1, MessagesGrown
  <1>6. /\ UNCHANGED <<Requested, Phase, Served>>
        /\ ActiveCall[c] = i /\ ActiveCall' = [ActiveCall EXCEPT ![c] = last]
        /\ Requested[c] = client[c].requests /\ Delivery[c] = MessagesIn(u)
    BY <1>1, <1>4, Mapped, MappedNext DEF u
  <1>7. Delivery' = [Delivery EXCEPT ![c] = Append(@, m)]
    <2>1. Delivery' = [Delivery EXCEPT ![c] = MessagesIn(v)]
      BY MappedNext DEF v, MessagesIn, MessageAt, NulsIn
    <2> QED
      BY <1>5, <1>6, <2>1
  <1>8. Promise!Given(c) = calls[c][i].replies
    <2> DEFINE theirs == {j \in DOMAIN Delivery[c] : Delivery[c][j].call = ActiveCall[c]}
               ours == {j \in DOMAIN MessagesIn(u) : MessagesIn(u)[j].call = i}
    <2>1. Promise!Given(c) = Cardinality(theirs) /\ CountOf(MessagesIn(u), i) = Cardinality(ours)
      BY DEF Promise!Given, CountOf, Promise!Cardinality, Cardinality
    <2>2. theirs = ours
      BY <1>6
    <2> HIDE DEF theirs, ours
    <2>3. calls[c][i].replies = CountOf(MessagesIn(u), i)
      BY <1>1 DEF RepliesCounted, u
    <2> QED
      BY <2>1, <2>2, <2>3
  <1>9. Promise!ActiveKind(c) = Kind(c, i)
    BY <1>6 DEF Promise!ActiveKind, Kind
  <1>10. Promise!Reply(c, kind) /\ ActiveCall[c] # 0
    BY <1>6, <1>7, <1>8 DEF Promise!Reply, m, CallNo
  <1>11. CASE kind = "continues"
    <2>1. Promise!ActiveKind(c) = "more"
      BY <1>0, <1>9, <1>11 DEF Gives
    <2>2. ActiveCall' = ActiveCall
      BY <1>6, <1>11, Mapped DEF last
    <2> QED
      BY <1>6, <1>10, <1>11, <2>1, <2>2 DEF Promise!Continue
  <1>12. CASE kind # "continues"
    <2>1. ActiveCall' = [ActiveCall EXCEPT ![c] = 0]
      BY <1>6, <1>12 DEF last, NoCall
    <2>2. kind = "error" \/ (kind = "final" /\ Promise!ActiveKind(c) # "oneway")
      BY <1>0, <1>9, <1>12 DEF Gives
    <2> QED
      BY <1>6, <1>10, <2>1, <2>2 DEF Promise!Answer
  <1> QED
    BY <1>11, <1>12

\* A oneway call is done.
LEMMA PromiseCompletes ==
    ASSUME TypeOK, NEW c \in Connections, \A d \in Connections : d # c => Unseen(d), Completes(c)
    PROVE  Promise!Complete(c)
  <1>1. PICK i \in CallNo : /\ conn[c].call = i /\ Kind(c, i) = "oneway"
                            /\ conn'[c].call = NoCall
                            /\ calls'[c] = [calls[c] EXCEPT ![i] = Finished(@)]
    BY DEF Completes
  <1>2. ~Over(c) /\ ~Over(c)' /\ client'[c].requests = client[c].requests /\ Outbox(c)' = Outbox(c)
    BY DEF Completes, Standing, SameRequests
  <1>3. Begun(c)' = Begun(c)
    <2> DEFINE r == Finished(calls[c][i])
    <2>1. calls[c] \in [CallNo -> CallType]
      BY PartTypes
    <2>2. calls'[c] = [calls[c] EXCEPT ![i] = r] /\ r.done
      BY <1>1, <2>1 DEF CallType, Finished, Unref
    <2> HIDE DEF r
    <2> QED
      BY <1>1, <2>2, FinishBegun
  <1>4. MessagesIn(Outbox(c))' = MessagesIn(Outbox(c))
    BY <1>2 DEF MessagesIn, MessageAt, NulsIn
  <1>5. /\ PhaseOf(c)' = PhaseOf(c) /\ ServedOf(c)' = ServedOf(c)
        /\ ActiveOf(c) = i /\ ActiveOf(c)' = 0
    BY <1>1, <1>2, <1>3 DEF PhaseOf, ActiveOf, ServedOf, NoCall
  <1>6. UNCHANGED <<Requested, Phase, Served, Delivery>>
    BY <1>2, <1>4, <1>5, Mapped, MappedNext
  <1>7. /\ ActiveCall[c] = i /\ Requested[c] = client[c].requests
        /\ ActiveCall' = [ActiveCall EXCEPT ![c] = 0]
    BY <1>5, Mapped, MappedNext
  <1>8. ActiveCall[c] # 0 /\ Promise!ActiveKind(c) = "oneway"
    BY <1>1, <1>7 DEF Promise!ActiveKind, Kind, CallNo
  <1> QED
    BY <1>6, <1>7, <1>8 DEF Promise!Complete

\* A connection is over: what the client still gets is a prefix of what it was to get.
LEMMA PromiseEnds ==
    ASSUME TypeOK, TypeOK', NEW c \in Connections,
           \A d \in Connections : d # c => Unseen(d), Leaves(c)
    PROVE  Promise!End(c)
  <1> DEFINE u == Outbox(c)
             v == Outbox(c)'
             n == Len(MessagesIn(v))
  <1>1. Over(c)' /\ client'[c].requests = client[c].requests /\ Prefix(u, v)
    BY DEF Leaves, SameRequests
  <1>2. PhaseOf(c)' = "over" /\ ActiveOf(c)' = 0 /\ ServedOf(c)' = {}
    BY <1>1 DEF PhaseOf, ActiveOf, ServedOf, NoCall
  <1>3. u \in Seq(ReplyCells) /\ v \in Seq(ReplyCells)
    BY BoxTypes, BoxTypesNext
  <1>4. Delivery[c] = MessagesIn(u) /\ Delivery' = [Delivery EXCEPT ![c] = MessagesIn(v)]
    <2>1. MessagesIn(Outbox(c))' = MessagesIn(v)
      BY DEF MessagesIn, MessageAt, NulsIn
    <2> QED
      BY <2>1, Mapped, MappedNext
  <1> HIDE DEF u, v
  <1>5. n \in 0..Len(MessagesIn(u)) /\ MessagesIn(v) = SubSeq(MessagesIn(u), 1, n)
    BY <1>1, <1>3, MessagesLost
  <1> HIDE DEF n
  <1>6. n \in 0..Len(Delivery[c]) /\ Delivery' = [Delivery EXCEPT ![c] = SubSeq(@, 1, n)]
    BY <1>4, <1>5
  <1>7. /\ Phase' = [Phase EXCEPT ![c] = "over"]
        /\ ActiveCall' = [ActiveCall EXCEPT ![c] = 0]
        /\ Served' = [Served EXCEPT ![c] = {}]
        /\ UNCHANGED Requested
    BY <1>1, <1>2, Mapped, MappedNext
  <1> QED
    BY <1>6, <1>7 DEF Promise!End

\* At first nobody is connected, and nobody is served.
LEMMA PromiseInit == Init => Promise!Init
  <1> SUFFICES ASSUME Init PROVE Promise!Init
    OBVIOUS
  <1>1. ASSUME NEW c \in Connections
        PROVE  /\ conn[c].state = "none" /\ conn[c].call = NoCall /\ conn[c].stream.out = <<>>
               /\ sock[c].down = <<>> /\ client[c].got = <<>> /\ client[c].requests = <<>>
               /\ client[c].peer = "none" /\ \A i \in CallNo : ~calls[c][i].done
    BY <1>1 DEF Init, FreedConnection, NewStream, FreshCall
  <1>2. <<>> \o <<>> = <<>> /\ <<>> \in Seq(ReplyCells) /\ Len(<<>>) = 0
    BY EmptySeq, ConcatEmptySeq
  <1>3. MessagesIn(<<>>) = <<>>
    BY NoMessages
  <1>4. ASSUME NEW c \in Connections
        PROVE  PhaseOf(c) = "open" /\ ActiveOf(c) = 0 /\ ServedOf(c) = {} /\ Outbox(c) = <<>>
    <2>1. ~Over(c) /\ ~Gone(c) /\ conn[c].call = 0
      BY <1>1, <1>4 DEF Over, Gone, NoCall
    <2>2. Begun(c) = {}
      BY <1>1, <1>4, <2>1 DEF Begun, CallNo
    <2>3. Outbox(c) = <<>>
      BY <1>1, <1>2, <1>4, <2>1 DEF Outbox
    <2> QED
      BY <2>1, <2>2, <2>3 DEF PhaseOf, ActiveOf, ServedOf
  <1>5. /\ Requested = [c \in Connections |-> <<>>] /\ Phase = [c \in Connections |-> "open"]
        /\ ActiveCall = [c \in Connections |-> 0]
    BY <1>1, <1>4, Mapped
  <1>6. Served = [c \in Connections |-> {}] /\ Delivery = [c \in Connections |-> <<>>]
    BY <1>3, <1>4, Mapped
  <1> QED
    BY <1>5, <1>6 DEF Promise!Init

\* Every step of the service, its application or a client is one of Sessions, or
\* leaves it alone.
LEMMA PromiseStep ==
    ASSUME InTurn, InTurn', [Next]_vars
    PROVE  [Promise!Next]_Promise!vars
  <1>0. TypeOK /\ TypeOK' /\ RepliesCounted
    BY DEF InTurn, IInv
  <1>1. ASSUME NEW c \in Connections, Steps(c)
        PROVE  Promise!Next \/ UNCHANGED Promise!vars
    <2>1. \A d \in Connections : d # c => Unseen(d)
      BY <1>0, <1>1, OthersStand, StandsUnseen
    <2>2. CASE Unseen(c)
      BY <2>1, <2>2, PromiseStands
    <2>3. CASE Asks(c)
      BY <2>1, <2>3, PromiseAsks DEF Promise!Next
    <2>4. CASE Takes(c)
      BY <2>1, <2>4, PromiseTakes DEF Promise!Next
    <2>5. CASE Answers(c)
      <3>1. Promise!Continue(c) \/ Promise!Answer(c)
        BY <1>0, <2>1, <2>5, PromiseAnswers
      <3> QED
        BY <3>1 DEF Promise!Next
    <2>6. CASE Completes(c)
      BY <1>0, <2>1, <2>6, PromiseCompletes DEF Promise!Next
    <2>7. CASE Leaves(c)
      BY <1>0, <2>1, <2>7, PromiseEnds DEF Promise!Next
    <2> QED
      BY <1>1, <2>2, <2>3, <2>4, <2>5, <2>6, <2>7, StepMoves DEF Moves
  <1>2. CASE UNCHANGED vars
    <2>1. \A c \in Connections : Stands(c)
      BY <1>2 DEF vars, Stands
    <2> QED
      BY <2>1, StandsUnseen, PromiseStands
  <1> QED
    BY <1>1, <1>2 DEF Next, Steps

\* Whatever the buffers, the socket, the application and the clients do, each
\* connection is served as Sessions promises: its calls one at a time and in the
\* order in which they were sent, each answered by its continued replies and then
\* one last one, and nothing lost between two replies that arrive.
THEOREM ServiceKeepsPromise == Spec => KeepsPromise
  <1>1. InTurn /\ InTurn' /\ [Next]_vars => [Promise!Next]_Promise!vars
    BY PromiseStep
  <1> QED
    BY <1>1, PromiseInit, InTurnAlways, PTL DEF Spec, KeepsPromise, Promise!Spec

-----------------------------------------------------------------------------
(* What is watched outside dispatch_connection.                            *)

\* The application replies in its callback, and clients send calls, or what is
\* no JSON object.
AtOnce == ~Async /\ "badcall" \notin Kinds

\* While no callback runs, no call is pending, and an idle connection is watched
\* for incoming data.
Resting(c) == pc \in {"idle", "flush"} \/ cur # c

ListensAt(c) ==
    /\ Resting(c) /\ IsOpen(c) => conn[c].call = NoCall /\ "IN" \in conn[c].current_events_mask
    /\ pc \in {"read", "end"} /\ cur = c => conn[c].call = NoCall

Listens == held = {} /\ \A c \in Connections : ListensAt(c)

\* The dispatch in progress is of the connection that takes a step, before it or
\* after it, or it stays as it is.
LEMMA DispatchMoves ==
    ASSUME TypeOK, BuffersBounded, ~Async, held = {}, Dispatching, NEW c \in Connections, Steps(c)
    PROVE  /\ held' = {}
           /\ \/ UNCHANGED <<pc, cur, ev>>
              \/ (pc = "idle" \/ cur = c) /\ (pc' = "idle" \/ cur' = c)
  <1>1. ASSUME CloseConnection(c) PROVE held' = {} /\ pc' = "idle"
    BY <1>1 DEF CloseConnection, HeldAfterClose, Idle
  <1>2. CASE Accept(c) \/ Client(c)
    BY <1>2 DEF Accept, Client, Connect, Send, SendMore, Receive, Shutdown, Disconnect
  <1>3. CASE Dispatch(c) \/ StopReading(c) \/ ReadSocket(c) \/ ReadNothing(c) \/ ReadCall(c)
    BY <1>3 DEF Dispatch, StopReading, ReadSocket, ReadNothing, ReadCall, Reading
  <1>4. CASE Flush(c) \/ ReadNoCall(c)
    BY <1>4 DEF Flush, ReadNoCall, Reading, Idle
  <1>5. CASE ReadInvalid(c) \/ HandlerFails(c)
    BY <1>1, <1>5 DEF ReadInvalid, HandlerFails, Reading
  <1>6. CASE EndDispatch(c)
    BY <1>1, <1>6 DEF EndDispatch, Idle
  <1>7. CASE HandlerReturns(c)
    BY <1>7 DEF HandlerReturns
  <1>8. ASSUME NEW i \in CallNo, Keep(c, i) \/ Release(c, i)
        PROVE  FALSE
    BY <1>8 DEF Keep, Release
  <1>9. ASSUME NEW i \in CallNo, ReplyContinues(c, i) \/ Finish(c, i)
        PROVE  held' = {} /\ UNCHANGED <<pc, cur, ev>>
    BY <1>9, ReplyEffect, ContinuesEffect
  <1> QED
    BY <1>2, <1>3, <1>4, <1>5, <1>6, <1>7, <1>8, <1>9 DEF Steps, Loop, Application

\* A reply is made in the callback.
LEMMA RepliesInside ==
    ASSUME held = {}, NEW c \in Connections, NEW i \in CallNo, ReplyContinues(c, i) \/ Finish(c, i)
    PROVE  pc = "handle" /\ cur = c
  BY DEF ReplyContinues, Finish, ReplyOneway, ReplyFinal, ReplyError, CanReply, CanUse

\* A message that is delivered has one of the kinds.
LEMMA DeliveredKind ==
    ASSUME IInv, NEW c \in Connections, NEW o \in Delivered(conn[c].stream)
    PROVE  /\ o.message \in CallNo /\ Ends(conn[c].stream.in, o.message)
           /\ o.message \in DOMAIN client[c].requests /\ Kind(c, o.message) \in Kinds
           /\ SentWhole(c, o.message)
  <1>1. o.message \in CallNo /\ Ends(conn[c].stream.in, o.message)
    BY DeliveredEnds DEF IInv
  <1>2. SentWhole(c, o.message)
    BY <1>1 DEF IInv, Once
  <1>3. client[c].requests \in Seq(Kinds)
    BY PartTypes DEF IInv
  <1>4. o.message \in DOMAIN client[c].requests
    BY <1>2 DEF SentWhole
  <1>5. Kind(c, o.message) \in Kinds
    BY <1>3, <1>4, ElementOfSeq, LenProperties DEF Kind
  <1> QED
    BY <1>1, <1>2, <1>4, <1>5

\* What is watched of the other connections.
LEMMA OthersListen ==
    ASSUME AtOnce, IInv, held = {}, NEW c \in Connections, Steps(c),
           NEW d \in Connections, d # c, ListensAt(d)
    PROVE  ListensAt(d)'
  <1>1. TypeOK /\ BuffersBounded /\ Dispatching
    BY DEF IInv
  <1>2. conn'[d] = conn[d]
    BY <1>1, OthersStand DEF Stands
  <1>3. \/ UNCHANGED <<pc, cur>>
        \/ (pc = "idle" \/ cur = c) /\ (pc' = "idle" \/ cur' = c)
    BY <1>1, DispatchMoves DEF AtOnce
  <1>4. pc = "idle" => cur = NoConnection
    BY <1>1 DEF Dispatching
  <1>5. Resting(d)' => Resting(d)
    BY <1>3 DEF Resting
  <1>6. pc' \in {"read", "end"} /\ cur' = d => pc \in {"read", "end"} /\ cur = d
    BY <1>3
  <1> QED
    BY <1>2, <1>5, <1>6 DEF ListensAt, IsOpen

\* What is watched of the connection that takes a step.
LEMMA ListensStep ==
    ASSUME AtOnce, IInv, held = {}, NEW c \in Connections, Steps(c), ListensAt(c)
    PROVE  ListensAt(c)'
  <1>1. /\ TypeOK /\ BuffersBounded /\ Dispatching /\ Pending
        /\ conn \in [Connections -> ConnectionType] /\ conn[c] \in ConnectionType
    BY PartTypes DEF IInv, TypeParts
  <1>0. NoConnection # c
    BY ConstantTypes
  <1>2. ASSUME CloseConnection(c) PROVE ListensAt(c)'
    BY <1>1, <1>2 DEF CloseConnection, FreedConnection, ListensAt, IsOpen, Idle
  <1>3. ASSUME conn'[c].call = conn[c].call, conn'[c].state = conn[c].state,
               conn'[c].current_events_mask = conn[c].current_events_mask,
               Resting(c)' => Resting(c),
               pc' \in {"read", "end"} /\ cur' = c =>
                  \/ pc \in {"read", "end"} /\ cur = c
                  \/ Resting(c) /\ IsOpen(c)
        PROVE  ListensAt(c)'
    BY <1>3 DEF ListensAt, IsOpen
  <1>4. CASE Accept(c)
    BY <1>0, <1>1, <1>4 DEF Accept, ListensAt, Dispatching
  <1>5. CASE Dispatch(c)
    <2>1. /\ conn'[c].call = conn[c].call /\ conn'[c].state = conn[c].state
          /\ conn'[c].current_events_mask = conn[c].current_events_mask
      BY <1>1, <1>5 DEF Dispatch, ConnectionType
    <2>2. Resting(c) /\ IsOpen(c)
      BY <1>5 DEF Dispatch, Resting
    <2> QED
      BY <1>3, <2>1, <2>2
  <1>6. CASE Flush(c)
    <2>1. PICK stream, mask : conn' = [conn EXCEPT ![c].stream = stream, ![c].events_mask = mask]
      BY <1>6 DEF Flush
    <2>2. /\ conn'[c].call = conn[c].call /\ conn'[c].state = conn[c].state
          /\ conn'[c].current_events_mask = conn[c].current_events_mask
      BY <1>1, <2>1 DEF ConnectionType
    <2>3. Resting(c) /\ IsOpen(c)
      BY <1>1, <1>6 DEF Flush, Resting, Dispatching, IsOpen
    <2> QED
      BY <1>3, <2>2, <2>3
  <1>7. CASE StopReading(c) \/ ReadSocket(c) \/ ReadNothing(c)
    <2>1. /\ pc = "read" /\ cur = c /\ cur' = c /\ pc' \in {"read", "end"}
      BY <1>7 DEF StopReading, ReadSocket, ReadNothing, Reading
    <2>2. /\ conn'[c].call = conn[c].call /\ conn'[c].state = conn[c].state
          /\ conn'[c].current_events_mask = conn[c].current_events_mask
      <3>1. CASE conn' = conn
        BY <3>1
      <3>2. ASSUME NEW stream, conn' = [conn EXCEPT ![c].stream = stream]
            PROVE  /\ conn'[c].call = conn[c].call /\ conn'[c].state = conn[c].state
                   /\ conn'[c].current_events_mask = conn[c].current_events_mask
        BY <1>1, <3>2 DEF ConnectionType
      <3> QED
        BY <1>7, <3>1, <3>2 DEF StopReading, ReadSocket, ReadNothing
    <2>3. Resting(c)' => Resting(c)
      BY <2>1 DEF Resting
    <2> QED
      BY <1>3, <2>1, <2>2, <2>3
  <1>8. CASE ReadInvalid(c) \/ HandlerFails(c)
    BY <1>2, <1>8 DEF ReadInvalid, HandlerFails
  <1>9. CASE ReadNoCall(c)
    BY <1>9, DeliveredKind DEF ReadNoCall, AtOnce
  <1>10. CASE ReadCall(c)
    BY <1>10 DEF ReadCall, Reading, ListensAt, Resting
  <1>11. CASE EndDispatch(c)
    <2>1. CASE CloseConnection(c)
      BY <1>2, <2>1
    <2>2. CASE ~CloseConnection(c)
      <3>1. conn[c].call = NoCall
        BY <1>11 DEF EndDispatch, ListensAt
      <3>2. /\ conn' = [conn EXCEPT ![c] = SetEventsMask(@, EndMask(c))] /\ pc' = "idle"
            /\ "IN" \in EndMask(c)
        BY <1>11, <2>2, <3>1 DEF EndDispatch, EndMask, Idle
      <3>3. conn'[c].call = NoCall /\ "IN" \in conn'[c].current_events_mask
        BY <1>1, <3>1, <3>2 DEF SetEventsMask, ConnectionType
      <3> QED
        BY <3>2, <3>3 DEF ListensAt
    <2> QED
      BY <2>1, <2>2
  <1>12. CASE HandlerReturns(c)
    BY <1>12 DEF HandlerReturns, ListensAt, Resting
  <1>13. ASSUME NEW i \in CallNo, Keep(c, i) \/ Release(c, i)
         PROVE  FALSE
    BY <1>13 DEF Keep, Release, AtOnce
  <1>14. ASSUME NEW i \in CallNo, ReplyContinues(c, i) \/ Finish(c, i)
         PROVE  ListensAt(c)'
    <2>1. pc = "handle" /\ cur = c
      BY <1>14, RepliesInside
    <2>2. UNCHANGED <<pc, cur>>
      BY <1>1, <1>14, ReplyEffect, ContinuesEffect
    <2> QED
      BY <2>1, <2>2 DEF ListensAt, Resting
  <1>15. CASE Client(c)
    <2>1. UNCHANGED <<conn, pc, cur>>
      BY <1>15 DEF Client, Connect, Send, SendMore, Receive, Shutdown, Disconnect
    <2> QED
      BY <2>1 DEF ListensAt, Resting, IsOpen
  <1> QED
    BY <1>4, <1>5, <1>6, <1>7, <1>8, <1>9, <1>10, <1>11, <1>12, <1>13, <1>14, <1>15
    DEF Steps, Loop, Application

\* Every step keeps idle connections listening.
LEMMA NextListens == AtOnce /\ IInv /\ Listens /\ [Next]_vars => Listens'
  <1> SUFFICES ASSUME AtOnce, IInv, Listens, [Next]_vars PROVE Listens'
    OBVIOUS
  <1>1. ASSUME NEW c \in Connections, Steps(c)
        PROVE  Listens'
    <2>1. held' = {}
      BY <1>1, DispatchMoves DEF IInv, Listens, AtOnce
    <2>2. ASSUME NEW d \in Connections PROVE ListensAt(d)'
      BY <1>1, OthersListen, ListensStep DEF Listens
    <2> QED
      BY <2>1, <2>2 DEF Listens
  <1>2. CASE UNCHANGED vars
    BY <1>2 DEF vars, Listens, ListensAt, Resting, IsOpen
  <1> QED
    BY <1>1, <1>2 DEF Next, Steps

\* At first there is nothing to watch.
LEMMA InitListens == Init => Listens
  BY DEF Init, FreedConnection, Listens, ListensAt, IsOpen

LEMMA ListensAlways ==
    ASSUME AtOnce
    PROVE  Spec => []Listens
  <1>1. Init => Listens
    BY InitListens
  <1>2. IInv /\ Listens /\ [Next]_vars => Listens'
    BY NextListens
  <1> QED
    BY <1>1, <1>2, Invariance, PTL DEF Spec

\* Outside dispatch_connection an idle connection is watched for incoming data
\* (service.c:574), when the application replies in its callback and every object
\* that clients send is a call; an application that replies later, or a message
\* that is no call, loses the event.
THEOREM ServiceListens ==
    ASSUME AtOnce
    PROVE  Spec => []IdleListens
  <1>1. Listens => IdleListens
    BY DEF Listens, ListensAt, Resting, IdleListens
  <1> QED
    BY <1>1, ListensAlways, PTL

-----------------------------------------------------------------------------
(* A busy connection is not watched.                                       *)

\* A dispatch starts with an empty mask, to which only its end adds EPOLLIN, and
\* only to that of an idle connection; while it reads, what epoll watches is what
\* was watched before.
UnwatchedAt(c) ==
    LET busy == conn[c].call # NoCall
    IN /\ busy \/ cur = c => "IN" \notin conn[c].events_mask
       /\ busy /\ Resting(c) => "IN" \notin conn[c].current_events_mask

Unwatched == \A c \in Connections : UnwatchedAt(c)

\* A reply adds EPOLLOUT alone, and makes no connection busy.
LEMMA ReplyMasks ==
    ASSUME TypeOK, NEW c \in Connections, NEW i \in CallNo, ReplyContinues(c, i) \/ Finish(c, i)
    PROVE  /\ conn'[c].call \in {NoCall, conn[c].call}
           /\ conn'[c].events_mask \in {conn[c].events_mask, conn[c].events_mask \cup {"OUT"}}
           /\ conn'[c].current_events_mask \in
                {conn[c].current_events_mask, conn[c].events_mask \cup {"OUT"}}
  <1>1. conn \in [Connections -> ConnectionType] /\ conn[c] \in ConnectionType
    BY PartTypes DEF TypeParts
  <1> DEFINE Remasked(r) ==
               /\ r.call \in {NoCall, conn[c].call}
               /\ r.events_mask \in {conn[c].events_mask, conn[c].events_mask \cup {"OUT"}}
               /\ r.current_events_mask \in
                    {conn[c].current_events_mask, conn[c].events_mask \cup {"OUT"}}
  <1>2. ASSUME NEW r, conn' = [conn EXCEPT ![c] = r], Remasked(r)
        PROVE  Remasked(conn'[c])
    BY <1>1, <1>2
  <1>3. Remasked(Removed(conn[c]))
    BY <1>1 DEF Removed, ConnectionType
  <1>4. ASSUME NEW o PROVE Remasked(ArmOut(conn[c], o)) /\ Remasked(Removed(ArmOut(conn[c], o)))
    BY <1>1 DEF ArmOut, SetEventsMask, Removed, ConnectionType
  <1>5. ASSUME NEW o PROVE Remasked(Removed(NoteOut(conn[c], o)))
    BY <1>1 DEF NoteOut, Removed, ConnectionType
  <1> HIDE DEF Remasked
  <1>6. ASSUME ReplyOneway(c, i) PROVE Remasked(conn'[c])
    <2>1. conn' = [conn EXCEPT ![c] = Removed(conn[c])]
      BY <1>6 DEF ReplyOneway
    <2> QED
      BY <1>2, <1>3, <2>1
  <1>7. ASSUME ReplyContinues(c, i) \/ ReplyFinal(c, i) PROVE Remasked(conn'[c])
    <2>1. \E o : \/ conn' = [conn EXCEPT ![c] = ArmOut(conn[c], o)]
                 \/ conn' = [conn EXCEPT ![c] = Removed(ArmOut(conn[c], o))]
      BY <1>7 DEF ReplyContinues, ReplyFinal, WriteReply
    <2> QED
      BY <1>2, <1>4, <2>1
  <1>8. ASSUME ReplyError(c, i) PROVE Remasked(conn'[c])
    <2>1. \E o : conn' = [conn EXCEPT ![c] = Removed(NoteOut(conn[c], o))]
      BY <1>8 DEF ReplyError, WriteReply
    <2> QED
      BY <1>2, <1>5, <2>1
  <1>9. Remasked(conn'[c])
    BY <1>6, <1>7, <1>8 DEF Finish
  <1> QED
    BY <1>9 DEF Remasked

\* The dispatch in progress is of the connection that takes a step, before it or
\* after it, or it stays as it is; whatever the application does.
LEMMA DispatchStays ==
    ASSUME TypeOK, BuffersBounded, NEW c \in Connections, Steps(c)
    PROVE  \/ UNCHANGED <<pc, cur>>
           \/ (pc = "idle" \/ cur = c) /\ (pc' = "idle" \/ cur' = c)
  <1>1. ASSUME CloseConnection(c) PROVE pc' = "idle"
    BY <1>1 DEF CloseConnection, Idle
  <1>2. CASE Accept(c) \/ Client(c)
    BY <1>2 DEF Accept, Client, Connect, Send, SendMore, Receive, Shutdown, Disconnect
  <1>3. CASE Dispatch(c) \/ StopReading(c) \/ ReadSocket(c) \/ ReadNothing(c) \/ ReadCall(c)
    BY <1>3 DEF Dispatch, StopReading, ReadSocket, ReadNothing, ReadCall, Reading
  <1>4. CASE Flush(c) \/ ReadNoCall(c)
    BY <1>4 DEF Flush, ReadNoCall, Reading, Idle
  <1>5. CASE ReadInvalid(c) \/ HandlerFails(c)
    BY <1>1, <1>5 DEF ReadInvalid, HandlerFails, Reading
  <1>6. CASE EndDispatch(c)
    BY <1>1, <1>6 DEF EndDispatch, Idle
  <1>7. CASE HandlerReturns(c) \/ \E i \in CallNo : Keep(c, i) \/ Release(c, i)
    BY <1>7 DEF HandlerReturns, Keep, Release
  <1>8. ASSUME NEW i \in CallNo, ReplyContinues(c, i) \/ Finish(c, i)
        PROVE  UNCHANGED <<pc, cur>>
    BY <1>8, ReplyEffect, ContinuesEffect
  <1> QED
    BY <1>2, <1>3, <1>4, <1>5, <1>6, <1>7, <1>8 DEF Steps, Loop, Application

\* What is watched of the other connections.
LEMMA OthersUnwatched ==
    ASSUME IInv, NEW c \in Connections, Steps(c), NEW d \in Connections, d # c, UnwatchedAt(d)
    PROVE  UnwatchedAt(d)'
  <1>1. TypeOK /\ BuffersBounded /\ Dispatching
    BY DEF IInv
  <1>2. conn'[d] = conn[d]
    BY <1>1, OthersStand DEF Stands
  <1>3. \/ UNCHANGED <<pc, cur>>
        \/ (pc = "idle" \/ cur = c) /\ (pc' = "idle" \/ cur' = c)
    BY <1>1, DispatchStays
  <1>4. Resting(d)' => Resting(d)
    BY <1>3 DEF Resting
  <1>5. cur' = d => cur = d
    <2>1. pc' = "idle" => cur' # d
      BY <1>1, DispatchingStep, ConstantTypes DEF Dispatching
    <2> QED
      BY <1>3, <2>1
  <1> QED
    BY <1>2, <1>4, <1>5 DEF UnwatchedAt

\* What is watched of the connection that takes a step.
LEMMA UnwatchedStep ==
    ASSUME IInv, NEW c \in Connections, Steps(c), UnwatchedAt(c)
    PROVE  UnwatchedAt(c)'
  <1>1. /\ TypeOK /\ BuffersBounded /\ Dispatching
        /\ conn \in [Connections -> ConnectionType] /\ conn[c] \in ConnectionType
        /\ c # NoConnection
    BY PartTypes, ConstantTypes DEF IInv, TypeParts
  <1>2. ASSUME CloseConnection(c) PROVE UnwatchedAt(c)'
    BY <1>1, <1>2 DEF CloseConnection, FreedConnection, UnwatchedAt
  <1>3. ASSUME conn'[c].call = conn[c].call,
               conn'[c].events_mask = conn[c].events_mask,
               conn'[c].current_events_mask = conn[c].current_events_mask,
               cur' = c => cur = c, Resting(c)' => Resting(c)
        PROVE  UnwatchedAt(c)'
    BY <1>3 DEF UnwatchedAt
  <1>4. CASE Accept(c)
    BY <1>1, <1>4 DEF Accept, UnwatchedAt
  <1>5. CASE Dispatch(c) \/ Flush(c)
    <2>1. Resting(c)
      BY <1>5 DEF Dispatch, Flush, Resting
    <2>2. /\ conn'[c].call = conn[c].call
          /\ conn'[c].current_events_mask = conn[c].current_events_mask
          /\ "IN" \notin conn'[c].events_mask
      <3>1. CASE Dispatch(c)
        BY <1>1, <3>1 DEF Dispatch, ConnectionType
      <3>2. CASE Flush(c)
        <4>1. PICK o : conn' = [conn EXCEPT ![c].stream = o.stream,
                                            ![c].events_mask =
                                               IF o.result = "rest" THEN {"OUT"} ELSE {}]
          BY <3>2 DEF Flush
        <4> DEFINE stream == o.stream
                   mask   == IF o.result = "rest" THEN {"OUT"} ELSE {}
        <4>2. "IN" \notin mask
          OBVIOUS
        <4>3. conn' = [conn EXCEPT ![c].stream = stream, ![c].events_mask = mask]
          BY <4>1
        <4> HIDE DEF stream, mask
        <4> QED
          BY <1>1, <4>2, <4>3 DEF ConnectionType
      <3> QED
        BY <1>5, <3>1, <3>2
    <2> QED
      BY <2>1, <2>2 DEF UnwatchedAt
  <1>6. CASE StopReading(c) \/ ReadSocket(c) \/ ReadNothing(c)
    <2>1. cur = c /\ cur' = c /\ pc' \in {"read", "end"}
      BY <1>6 DEF StopReading, ReadSocket, ReadNothing, Reading
    <2>2. conn' = conn \/ \E stream : conn' = [conn EXCEPT ![c].stream = stream]
      BY <1>6 DEF StopReading, ReadSocket, ReadNothing
    <2>3. /\ conn'[c].call = conn[c].call
          /\ conn'[c].events_mask = conn[c].events_mask
          /\ conn'[c].current_events_mask = conn[c].current_events_mask
      BY <1>1, <2>2 DEF ConnectionType
    <2> QED
      BY <1>3, <2>1, <2>3 DEF Resting
  <1>7. CASE ReadInvalid(c) \/ HandlerFails(c)
    BY <1>2, <1>7 DEF ReadInvalid, HandlerFails
  <1>8. CASE ReadNoCall(c)
    <2>1. conn[c].call = NoCall /\ cur' # c
      BY <1>1, <1>8 DEF ReadNoCall, Reading, MayRead, Idle
    <2>2. \E stream : conn' = [conn EXCEPT ![c].stream = stream]
      BY <1>8 DEF ReadNoCall
    <2>3. conn'[c].call = NoCall
      BY <1>1, <2>1, <2>2 DEF ConnectionType
    <2> QED
      BY <2>1, <2>3 DEF UnwatchedAt
  <1>9. CASE ReadCall(c)
    <2>1. cur = c /\ cur' = c /\ pc' = "handle"
      BY <1>9 DEF ReadCall, Reading
    <2>2. \E stream, call : conn' = [conn EXCEPT ![c].stream = stream, ![c].call = call]
      BY <1>9 DEF ReadCall
    <2>3. conn'[c].events_mask = conn[c].events_mask
      BY <1>1, <2>2 DEF ConnectionType
    <2> QED
      BY <2>1, <2>3 DEF UnwatchedAt, Resting
  <1>10. CASE EndDispatch(c) /\ ~CloseConnection(c)
    <2>1. /\ cur = c /\ cur' # c
          /\ conn' = [conn EXCEPT ![c] = SetEventsMask(@, EndMask(c))]
      BY <1>1, <1>10 DEF EndDispatch, Idle
    <2>2. conn[c].call # NoCall => "IN" \notin EndMask(c)
      BY <2>1 DEF EndMask, UnwatchedAt
    <2>3. /\ conn'[c].call = conn[c].call
          /\ conn'[c].events_mask = EndMask(c) /\ conn'[c].current_events_mask = EndMask(c)
      BY <1>1, <2>1 DEF SetEventsMask, ConnectionType
    <2> QED
      BY <2>1, <2>2, <2>3 DEF UnwatchedAt
  <1>11. CASE HandlerReturns(c) \/ \E i \in CallNo : Keep(c, i) \/ Release(c, i)
    <2>1. UNCHANGED <<conn, cur>> /\ (pc' = pc \/ (pc' = "read" /\ cur = c))
      BY <1>11 DEF HandlerReturns, Keep, Release
    <2> QED
      BY <1>3, <2>1 DEF Resting
  <1>12. ASSUME NEW i \in CallNo, ReplyContinues(c, i) \/ Finish(c, i)
         PROVE  UnwatchedAt(c)'
    <2>1. UNCHANGED <<pc, cur>>
      BY <1>1, <1>12, ReplyEffect, ContinuesEffect
    <2> QED
      BY <1>1, <1>12, <2>1, ReplyMasks DEF UnwatchedAt, Resting
  <1>13. CASE Client(c)
    <2>1. UNCHANGED <<conn, pc, cur>>
      BY <1>13 DEF Client, Connect, Send, SendMore, Receive, Shutdown, Disconnect
    <2> QED
      BY <2>1 DEF UnwatchedAt, Resting
  <1> QED
    BY <1>2, <1>4, <1>5, <1>6, <1>7, <1>8, <1>9, <1>10, <1>11, <1>12, <1>13
    DEF Steps, Loop, Application

\* Outside dispatch_connection no connection is watched for incoming data while its
\* call is pending, whenever the application replies, whatever waits for the socket,
\* and also after a flush that failed: process_events, which does not read such
\* a connection (service.c:545), is not called for it in vain.
THEOREM ServiceIgnoresBusy == Spec => []BusyIsNotWatched
  <1>1. Init => Unwatched
    BY DEF Init, FreedConnection, Unwatched, UnwatchedAt
  <1>2. IInv /\ Unwatched /\ [Next]_vars => Unwatched'
    <2> SUFFICES ASSUME IInv, Unwatched, [Next]_vars PROVE Unwatched'
      OBVIOUS
    <2>1. ASSUME NEW c \in Connections, Steps(c)
          PROVE  Unwatched'
      BY <2>1, OthersUnwatched, UnwatchedStep DEF Unwatched
    <2>2. CASE UNCHANGED vars
      BY <2>2 DEF vars, Unwatched, UnwatchedAt, Resting
    <2> QED
      BY <2>1, <2>2 DEF Next, Steps
  <1>3. Unwatched => BusyIsNotWatched
    BY DEF Unwatched, UnwatchedAt, Resting, BusyIsNotWatched
  <1> QED
    BY <1>1, <1>2, <1>3, Invariance, PTL DEF Spec

-----------------------------------------------------------------------------
(* What waits for the socket.                                              *)

\* Moreover clients wait for the reply before they send the next call.
Polite == AtOnce /\ Lockstep /\ Kinds \subseteq {"plain", "more"}

Asked(c) == Len(client[c].requests)

\* The last cell in the socket is of the last message.
EndOfUp(c) ==
    sock[c].up # <<>> =>
       LET x == sock[c].up[Len(sock[c].up)]
       IN x.msg = Asked(c) /\ (client[c].pushed = RequestSize(Kind(c, Asked(c))) => x.nul)

\* Only the last message of a client is not served yet: when it is taken nothing
\* is left in the socket, until it is taken there is nothing to send.
ServesLast(c) ==
    /\ conn[c].call # NoCall => conn[c].call = Asked(c)
    /\ \A j \in CallNo : j < Asked(c) => j \in Begun(c)
    /\ Asked(c) \in Begun(c) =>
          sock[c].up = <<>> /\ client[c].pushed = RequestSize(Kind(c, Asked(c)))
    /\ Asked(c) \notin Begun(c) => conn[c].stream.out = <<>>
    /\ EndOfUp(c)

\* The last reply to the last message is the last one of all.
AnswersLast(c) ==
    \A p \in 1..Len(Outbox(c)) :
       /\ Outbox(c)[p].nul => Outbox(c)[p].msg.call <= Asked(c)
       /\ LastOf(Outbox(c)[p], Asked(c)) =>
             p = Len(Outbox(c)) /\ conn[c].call # Asked(c) /\ Asked(c) \in Begun(c)

TurnAt(c) == /\ conn[c].state # "freed" => ServesLast(c)
             /\ ~Over(c) => AnswersLast(c)

\* What waits for the socket is watched for, or will be when the dispatch ends, or
\* the connection is closed then.
ArmedAt(c) ==
    conn[c].stream.out # <<>> =>
       /\ Resting(c) => "OUT" \in conn[c].current_events_mask
       /\ cur = c /\ pc = "handle" => "OUT" \in conn[c].events_mask
       /\ cur = c /\ pc = "read" => "OUT" \in conn[c].events_mask \/ EOF(c)
       /\ cur = c /\ pc = "end" => \/ "OUT" \in conn[c].events_mask
                                   \/ conn[c].stream.hup \/ "HUP" \in ev

Armed == Listens /\ \A c \in Connections : TurnAt(c) /\ ArmedAt(c)

\* What is left alone keeps its place.
LEMMA QuietServes ==
    ASSUME NEW c \in Connections, ServesLast(c),
           client'[c].requests = client[c].requests, client'[c].pushed = client[c].pushed,
           conn'[c].call = conn[c].call,
           \A i \in CallNo : calls'[c][i].done = calls[c][i].done,
           conn[c].stream.out = <<>> => conn'[c].stream.out = <<>>,
           sock'[c].up = sock[c].up
    PROVE  ServesLast(c)'
  <1>1. Begun(c)' = Begun(c)
    BY DEF Begun
  <1>2. Asked(c)' = Asked(c) /\ Kind(c, Asked(c))' = Kind(c, Asked(c))
    BY DEF Asked, Kind
  <1>3. EndOfUp(c)'
    BY <1>2 DEF EndOfUp, ServesLast
  <1> QED
    BY <1>1, <1>2, <1>3 DEF ServesLast

\* The number of the last message.
LEMMA AskedType ==
    ASSUME IInv, NEW c \in Connections
    PROVE  /\ Asked(c) \in Nat /\ Asked(c) <= MaxCalls
           /\ DOMAIN client[c].requests = 1..Asked(c)
           /\ Asked(c) > 0 => Asked(c) \in CallNo
  <1>1. client[c].requests \in Seq(Kinds)
    BY PartTypes DEF IInv
  <1>2. Asked(c) \in Nat /\ DOMAIN client[c].requests = 1..Asked(c)
    BY <1>1, LenProperties DEF Asked
  <1>3. Asked(c) <= MaxCalls
    BY DEF IInv, Numbered, Asked
  <1> QED
    BY <1>2, <1>3, ConstantTypes DEF CallNo

\* The message that is delivered is the last one, and nothing is behind it.
LEMMA DeliveredLast ==
    ASSUME IInv, NEW c \in Connections, ServesLast(c), conn[c].call = NoCall,
           NEW o \in Delivered(conn[c].stream)
    PROVE  /\ o.message = Asked(c) /\ Asked(c) \notin Begun(c)
           /\ sock[c].up = <<>> /\ client[c].pushed = RequestSize(Kind(c, Asked(c)))
  <1>1. /\ o.message \in CallNo /\ Ends(conn[c].stream.in, o.message)
        /\ o.message \in DOMAIN client[c].requests /\ SentWhole(c, o.message)
    BY DeliveredKind
  <1>2. calls[c][o.message] = FreshCall
    BY <1>1 DEF IInv, Fresh, ToCome
  <1>3. o.message \notin Begun(c)
    BY <1>1, <1>2, ConstantTypes DEF Begun, FreshCall
  <1>4. o.message = Asked(c)
    BY <1>1, <1>3, AskedType DEF ServesLast, CallNo
  <1>5. client[c].pushed = RequestSize(Kind(c, Asked(c)))
    BY <1>1, <1>4 DEF SentWhole, Asked
  <1>6. ASSUME sock[c].up # <<>> PROVE FALSE
    <2> DEFINE n == Len(sock[c].up)
    <2>1. n \in 1..n
      <3>1. sock[c].up \in Seq(RequestCells)
        BY PartTypes DEF IInv
      <3> QED
        BY <1>6, <3>1, EmptySeq, LenProperties
    <2>2. sock[c].up[n].nul /\ sock[c].up[n].msg = o.message
      BY <1>4, <1>5, <1>6 DEF ServesLast, EndOfUp
    <2>3. Ends(sock[c].up, o.message)
      BY <2>1, <2>2 DEF Ends, EndsAt
    <2> QED
      BY <1>1, <2>3 DEF IInv, Once
  <1> QED
    BY <1>3, <1>4, <1>5, <1>6

\* While something waits for the socket, there is nothing to read.
LEMMA WaitsAlone ==
    ASSUME IInv, ClosedIsEmpty, NEW c \in Connections, TurnAt(c), conn[c].stream.out # <<>>
    PROVE  /\ ServesLast(c) /\ sock[c].up = <<>>
           /\ conn[c].call = NoCall => Delivered(conn[c].stream) = {}
  <1>1. IsOpen(c)
    BY DEF ClosedIsEmpty, NewStream
  <1>2. ServesLast(c)
    BY <1>1 DEF TurnAt, IsOpen
  <1>3. Asked(c) \in Begun(c) /\ sock[c].up = <<>>
    BY <1>2 DEF ServesLast
  <1> QED
    BY <1>2, <1>3, DeliveredLast

\* The replies and what is served: a reply is made to the last message only.
LEMMA RepliesServe ==
    ASSUME IInv, NEW c \in Connections, ServesLast(c), NEW i \in CallNo,
           ReplyContinues(c, i) \/ Finish(c, i)
    PROVE  ServesLast(c)'
  <1>1. TypeOK /\ BuffersBounded /\ calls \in [Connections -> [CallNo -> CallType]]
        /\ conn \in [Connections -> ConnectionType]
    BY PartTypes DEF IInv, TypeParts
  <1>2. conn[c].call = i /\ UNCHANGED client /\ sock'[c].up = sock[c].up
    BY <1>1, ReplyEffect, ContinuesEffect
  <1>3. PICK r : conn' = [conn EXCEPT ![c] = r] /\ (r.call = i \/ r.call = NoCall)
    <2>1. CASE ReplyContinues(c, i)
      BY <1>1, <1>2, <2>1, ContinuesEffect
    <2>2. CASE Finish(c, i)
      BY <1>1, <2>2, ReplyEffect
    <2> QED
      BY <2>1, <2>2
  <1>4. Begun(c)' = Begun(c)
    <2>1. CASE ReplyContinues(c, i)
      <3>1. PICK q : calls' = [calls EXCEPT ![c][i] = q] /\ q.done = calls[c][i].done
        BY <1>1, <2>1, ContinuesEffect
      <3>2. PICK s : conn' = [conn EXCEPT ![c] = s] /\ s.call = conn[c].call
        BY <1>1, <2>1, ContinuesEffect
      <3>3. calls'[c] = [calls[c] EXCEPT ![i] = q] /\ conn'[c].call = i
        BY <1>1, <1>2, <3>1, <3>2
      <3> QED
        BY <1>1, <1>2, <3>1, <3>3, FinishBegun
    <2>2. CASE Finish(c, i)
      <3>1. PICK q : calls' = [calls EXCEPT ![c][i] = q] /\ q.done = TRUE
        BY <1>1, <2>2, ReplyEffect
      <3>2. PICK s : conn' = [conn EXCEPT ![c] = s] /\ s.call = NoCall
        BY <1>1, <2>2, ReplyEffect
      <3>3. calls'[c] = [calls[c] EXCEPT ![i] = q] /\ conn'[c].call = NoCall
        BY <1>1, <3>1, <3>2
      <3> QED
        BY <1>1, <1>2, <3>1, <3>3, FinishBegun
    <2> QED
      BY <2>1, <2>2
  <1>5. i = Asked(c) /\ i \in Begun(c)
    BY <1>2, ConstantTypes DEF ServesLast, Begun
  <1>6. Asked(c)' = Asked(c) /\ Kind(c, Asked(c))' = Kind(c, Asked(c)) /\ EndOfUp(c)'
    BY <1>2 DEF Asked, Kind, EndOfUp, ServesLast
  <1>7. conn'[c].call = i \/ conn'[c].call = NoCall
    BY <1>1, <1>3
  <1> QED
    BY <1>2, <1>4, <1>5, <1>6, <1>7 DEF ServesLast

\* A client that may send has got the last reply, and nothing else waits for it.
LEMMA SettledIsDone ==
    ASSUME Polite, IInv, NEW c \in Connections, ServesLast(c), AnswersLast(c), ~Gone(c), Settled(c)
    PROVE  /\ conn[c].call = NoCall /\ conn[c].stream.out = <<>>
           /\ \A j \in CallNo : j <= Asked(c) => j \in Begun(c)
  <1> DEFINE k == Asked(c)
             g == client[c].got
             d == sock[c].down
             u == conn[c].stream.out
  <1>1. k \in Nat /\ (k > 0 => k \in CallNo) /\ DOMAIN client[c].requests = 1..k
    BY AskedType
  <1>2. /\ conn[c].call \in CallNo \cup {NoCall} /\ client[c].requests \in Seq(Kinds)
        /\ g \in Seq(ReplyCells) /\ d \in Seq(ReplyCells) /\ u \in Seq(ReplyCells)
    BY PartTypes DEF IInv, ConnectionType
  <1>3. CASE k = 0
    <2>1. k \notin Begun(c) /\ conn[c].call = NoCall
      BY <1>2, <1>3 DEF Begun, CallNo, ServesLast, NoCall
    <2>2. \A j \in CallNo : ~(j <= k)
      BY <1>3 DEF CallNo
    <2> QED
      BY <2>1, <2>2 DEF ServesLast
  <1>4. CASE k > 0
    <2>1. Kind(c, k) \in {"plain", "more"}
      <3>1. k \in 1..Len(client[c].requests)
        BY <1>1, <1>4 DEF Asked
      <3> HIDE DEF k
      <3>2. client[c].requests[k] \in Kinds
        BY <1>2, <3>1, ElementOfSeq
      <3> QED
        BY <3>2 DEF Kind, Polite
    <2>2. PICK p \in 1..Len(g) : LastOf(g[p], k)
      BY <1>4, <2>1 DEF Settled, Polite, Asked
    <2>3. /\ Len(Outbox(c)) = Len(g) + (Len(d) + Len(u)) /\ Outbox(c)[p] = g[p]
          /\ Len(g) \in Nat /\ Len(d) \in Nat /\ Len(u) \in Nat
      <3> DEFINE w == d \o u
      <3>1. w \in Seq(ReplyCells) /\ Len(w) = Len(d) + Len(u)
        BY <1>2, ConcatProperties
      <3>2. Outbox(c) = g \o w
        BY DEF Outbox
      <3> HIDE DEF g, d, u, w
      <3>3. Len(g) \in Nat /\ Len(d) \in Nat /\ Len(u) \in Nat /\ Len(w) \in Nat
        BY <1>2, <3>1, LenProperties
      <3>4. Len(g \o w) = Len(g) + Len(w) /\ \A i \in 1..Len(g) : (g \o w)[i] = g[i]
        <4>1. g \in Seq(ReplyCells)
          BY <1>2
        <4>2. Prefix(g \o w, g)
          BY <3>1, <4>1, ConcatPrefix
        <4>3. Len(g \o w) = Len(g) + Len(w)
          BY <3>1, <4>1, ConcatProperties
        <4> QED
          BY <4>2, <4>3 DEF Prefix
      <3> QED
        BY <2>2, <3>1, <3>2, <3>3, <3>4
    <2> HIDE DEF g, d, u, k
    <2>4. p \in 1..Len(Outbox(c))
      BY <2>2, <2>3
    <2>5. p = Len(Outbox(c)) /\ conn[c].call # k /\ k \in Begun(c)
      BY <2>2, <2>3, <2>4 DEF AnswersLast, k
    <2>6. Len(u) = 0
      BY <2>2, <2>3, <2>5
    <2>7. u = <<>>
      BY <1>2, <2>6, EmptySeq
    <2>8. conn[c].call = NoCall
      BY <2>5 DEF ServesLast, k
    <2>9. \A j \in CallNo : j <= k => j < k \/ j = k
      BY <1>1 DEF CallNo
    <2> QED
      BY <2>5, <2>7, <2>8, <2>9 DEF ServesLast, k, u
  <1> QED
    BY <1>1, <1>3, <1>4

\* A client sends.
LEMMA SendServes ==
    ASSUME Polite, IInv, NEW c \in Connections, TurnAt(c), NEW kind \in Kinds, Send(c, kind)
    PROVE  ServesLast(c)'
  <1> DEFINE k == Asked(c)
             u == sock[c].up
             x == [msg |-> k + 1, nul |-> FALSE]
  <1>1. /\ client \in [Connections -> ClientType] /\ sock \in [Connections -> SockType]
        /\ client[c].requests \in Seq(Kinds) /\ u \in Seq(RequestCells)
    BY PartTypes DEF IInv, TypeParts
  <1>2. k \in Nat /\ DOMAIN client[c].requests = 1..k
    BY AskedType
  <1>3. k + 1 \in CallNo
    BY <1>2, ConstantTypes DEF Send, Asked, CallNo
  <1>4. /\ client'[c].requests = Append(client[c].requests, kind) /\ client'[c].pushed = 1
        /\ sock'[c].up = Append(u, x) /\ UNCHANGED <<conn, calls>>
    BY <1>1 DEF Send, Push, ClientType, SockType, Asked
  <1>5. conn[c].state # "freed" /\ ~Gone(c) /\ Settled(c)
    BY DEF Send, Gone
  <1>6. /\ conn[c].call = NoCall /\ conn[c].stream.out = <<>>
        /\ \A j \in CallNo : j <= k => j \in Begun(c)
    BY <1>5, SettledIsDone DEF TurnAt, Over
  <1>7. /\ Asked(c)' = k + 1 /\ Kind(c, Asked(c))' = kind /\ RequestSize(kind) = 2
    <2>1. Len(client'[c].requests) = k + 1 /\ client'[c].requests[k + 1] = kind
      BY <1>1, <1>4, AppendProperties DEF Asked
    <2>2. kind \in {"plain", "more"}
      BY DEF Polite
    <2> QED
      BY <2>1, <2>2 DEF Asked, Kind, RequestSize
  <1>8. Begun(c)' = Begun(c)
    BY <1>4 DEF Begun
  <1>9. k + 1 \notin Begun(c)
    <2>1. ~SentWhole(c, k + 1)
      BY <1>2 DEF SentWhole
    <2>2. calls[c][k + 1] = FreshCall
      BY <1>3, <2>1 DEF IInv, Fresh, ToCome
    <2> QED
      BY <1>3, <1>6, <2>2, ConstantTypes DEF Begun, FreshCall
  <1>10. EndOfUp(c)'
    <2>1. sock'[c].up[Len(sock'[c].up)] = x
      BY <1>1, <1>4, AppendProperties, LenProperties
    <2> QED
      BY <1>4, <1>7, <2>1 DEF EndOfUp
  <1>11. \A j \in CallNo : j < k + 1 => j <= k
    BY <1>2 DEF CallNo
  <1> QED
    BY <1>4, <1>6, <1>7, <1>8, <1>9, <1>10, <1>11 DEF ServesLast

\* It goes on sending.
LEMMA SendMoreServes ==
    ASSUME IInv, NEW c \in Connections, ServesLast(c), SendMore(c)
    PROVE  ServesLast(c)'
  <1> DEFINE k == Asked(c)
             u == sock[c].up
             n == client[c].pushed + 1
             x == [msg |-> k, nul |-> n = RequestSize(Kind(c, k))]
  <1>1. /\ client \in [Connections -> ClientType] /\ sock \in [Connections -> SockType]
        /\ u \in Seq(RequestCells) /\ client[c].pushed \in Nat
    BY PartTypes DEF IInv, TypeParts, ClientType
  <1>2. /\ client'[c].requests = client[c].requests /\ client'[c].pushed = n
        /\ sock'[c].up = Append(u, x) /\ UNCHANGED <<conn, calls>>
        /\ n <= RequestSize(Kind(c, k)) /\ k > 0
    BY <1>1 DEF SendMore, Push, ClientType, SockType, Asked
  <1>3. Asked(c)' = k /\ Kind(c, Asked(c))' = Kind(c, k) /\ Begun(c)' = Begun(c)
    BY <1>2 DEF Asked, Kind, Begun
  <1>4. x \in RequestCells
    BY <1>2, AskedType DEF RequestCells
  <1>5. k \notin Begun(c)
    <2>1. client[c].pushed # RequestSize(Kind(c, k))
      <3>1. RequestSize(Kind(c, k)) \in Nat
        BY ConstantTypes DEF RequestSize
      <3> QED
        BY <1>1, <1>2, <3>1
    <2> QED
      BY <2>1 DEF ServesLast
  <1>6. EndOfUp(c)'
    <2>1. sock'[c].up[Len(sock'[c].up)] = x
      BY <1>1, <1>2, <1>4, AppendProperties, LenProperties
    <2>2. x.msg = k /\ (n = RequestSize(Kind(c, k)) => x.nul)
      OBVIOUS
    <2> HIDE DEF k, u, n, x
    <2>3. client'[c].pushed = n
      BY <1>2
    <2> QED
      BY <1>3, <2>1, <2>2, <2>3 DEF EndOfUp
  <1> QED
    BY <1>2, <1>3, <1>5, <1>6 DEF ServesLast

\* The service reads its socket.
LEMMA ReadSocketServes ==
    ASSUME IInv, NEW c \in Connections, ServesLast(c), ReadSocket(c)
    PROVE  ServesLast(c)'
  <1> DEFINE s == conn[c].stream
             u == sock[c].up
             n == ReadSize(s, u)
             d == Drop(u, n)
  <1>1. /\ conn \in [Connections -> ConnectionType] /\ conn[c] \in ConnectionType
        /\ sock \in [Connections -> SockType] /\ s \in StreamOf(RequestCells, ReplyCells)
        /\ u \in Seq(RequestCells) /\ BuffersBounded
    BY PartTypes DEF IInv, TypeParts
  <1>2. n \in 0..Len(u) /\ Received(s, u).out = s.out
    BY <1>1, ReceivedCells DEF BuffersBounded
  <1>3. /\ sock'[c].up = d /\ UNCHANGED <<calls, client>>
        /\ conn' = [conn EXCEPT ![c].stream = Received(s, u)] /\ u # <<>>
    BY <1>1 DEF ReadSocket, SockType
  <1>4. conn'[c].call = conn[c].call /\ conn'[c].stream.out = s.out
    BY <1>1, <1>2, <1>3 DEF ConnectionType
  <1>5. Asked(c)' = Asked(c) /\ Kind(c, Asked(c))' = Kind(c, Asked(c)) /\ Begun(c)' = Begun(c)
    BY <1>3, <1>4 DEF Asked, Kind, Begun
  <1>6. Asked(c) \notin Begun(c)
    BY <1>3 DEF ServesLast
  <1>7. EndOfUp(c)'
    <2>1. d # <<>> => d[Len(d)] = u[Len(u)]
      <3>1. /\ d \in Seq(RequestCells) /\ Len(d) = Len(u) - n
            /\ \A i \in 1..(Len(u) - n) : d[i] = u[i + n]
        BY <1>1, <1>2, DropProperties
      <3>2. Len(u) \in Nat /\ n \in Nat /\ n <= Len(u)
        BY <1>1, <1>2, LenProperties
      <3> HIDE DEF d, u, n
      <3>3. d # <<>> => Len(d) > 0
        BY <3>1, EmptySeq, LenProperties
      <3>4. ASSUME Len(d) > 0 PROVE d[Len(d)] = u[Len(u)]
        <4>1. Len(u) - n \in 1..(Len(u) - n) /\ (Len(u) - n) + n = Len(u)
          BY <3>1, <3>2, <3>4
        <4> QED
          BY <3>1, <4>1
      <3> QED
        BY <3>3, <3>4
    <2> HIDE DEF d, u, n
    <2>2. sock'[c].up = d /\ client'[c].pushed = client[c].pushed
      BY <1>3
    <2> QED
      BY <1>3, <1>5, <2>1, <2>2 DEF EndOfUp, ServesLast, u
  <1> QED
    BY <1>3, <1>4, <1>5, <1>6, <1>7 DEF ServesLast

\* A flush of nothing leaves nothing.
LEMMA FlushLess ==
    ASSUME NEW s \in StreamOf(RequestCells, ReplyCells), NEW c \in Connections, TypeOK,
           NEW o \in FlushOutcomes(s, Room(c), Gone(c))
    PROVE  /\ s.out = <<>> => o.stream.out = <<>>
           /\ o.result = "empty" => o.stream.out = <<>>
  <1>1. Room(c) \in Int /\ Gone(c) \in BOOLEAN
    BY PartTypes, ConstantTypes, LenProperties DEF Room, Gone
  <1>2. o.stream \in StreamOf(RequestCells, ReplyCells) /\ Len(o.stream.out) <= Len(s.out)
    BY <1>1, FlushType
  <1>3. o.result = "empty" => o.stream.out = <<>>
    BY <1>1, FlushConcat
  <1>4. s.out = <<>> => o.stream.out = <<>>
    <2>1. o.stream.out \in Seq(ReplyCells)
      BY <1>2 DEF StreamOf
    <2> QED
      BY <1>2, <2>1, EmptySeq, LenProperties
  <1> QED
    BY <1>3, <1>4

\* A call is taken.
LEMMA ReadCallServes ==
    ASSUME IInv, NEW c \in Connections, ServesLast(c), ReadCall(c)
    PROVE  ServesLast(c)'
  <1>1. /\ conn \in [Connections -> ConnectionType]
        /\ calls \in [Connections -> [CallNo -> CallType]]
    BY PartTypes DEF IInv, TypeParts
  <1>2. PICK o \in Delivered(conn[c].stream) :
          /\ conn' = [conn EXCEPT ![c].stream = o.stream, ![c].call = o.message]
          /\ calls' = [calls EXCEPT ![c][o.message].refcount = 1]
    BY DEF ReadCall
  <1>3. conn[c].call = NoCall /\ UNCHANGED <<client, sock>>
    BY DEF ReadCall, Reading, MayRead
  <1> DEFINE k == Asked(c)
  <1>4. /\ o.message = k /\ k \notin Begun(c)
        /\ sock[c].up = <<>> /\ client[c].pushed = RequestSize(Kind(c, k))
    BY <1>3, DeliveredLast
  <1>5. k \in CallNo
    BY <1>4, DeliveredKind
  <1>6. Asked(c)' = k /\ Kind(c, Asked(c))' = Kind(c, k) /\ EndOfUp(c)'
    BY <1>3, <1>4 DEF Asked, Kind, EndOfUp
  <1>7. conn'[c].call = k
    BY <1>1, <1>2, <1>4 DEF ConnectionType
  <1>8. \A j \in CallNo : calls'[c][j].done = calls[c][j].done
    BY <1>1, <1>2, <1>4, <1>5 DEF CallType
  <1>9. k \in Begun(c)' /\ \A j \in Begun(c) : j \in Begun(c)'
    <2>1. \A j \in CallNo : j # NoCall
      BY ConstantTypes
    <2> QED
      BY <1>3, <1>5, <1>7, <1>8, <2>1 DEF Begun
  <1> HIDE DEF k
  <1>10. sock'[c].up = <<>> /\ client'[c].pushed = RequestSize(Kind(c, k))
    BY <1>3, <1>4
  <1> QED
    BY <1>6, <1>7, <1>9, <1>10 DEF ServesLast, k

\* Every step keeps the order in which a polite client is served.
LEMMA ServesStep ==
    ASSUME Polite, IInv, ClosedIsEmpty, NEW c \in Connections, TurnAt(c), Steps(c),
           conn'[c].state # "freed"
    PROVE  ServesLast(c)'
  <1>1. /\ TypeOK /\ BuffersBounded /\ Dispatching /\ Pending
        /\ conn \in [Connections -> ConnectionType] /\ conn[c] \in ConnectionType
        /\ client \in [Connections -> ClientType] /\ sock \in [Connections -> SockType]
        /\ conn[c].stream \in StreamOf(RequestCells, ReplyCells)
    BY PartTypes DEF IInv, TypeParts
  <1>2. ASSUME CloseConnection(c) PROVE FALSE
    BY <1>1, <1>2 DEF CloseConnection, FreedConnection
  <1>3. conn[c].state # "freed" /\ ServesLast(c)
    <2>1. CASE conn[c].state = "freed"
      <3>1. CASE Loop(c)
        <4>1. conn[c].state = "open"
          BY <1>1, <3>1 DEF Loop, Dispatch, Flush, StopReading, ReadSocket, ReadNothing, ReadInvalid,
                            ReadNoCall, ReadCall, Reading, EndDispatch, Dispatching, IsOpen
        <4> QED
          BY <2>1, <4>1
      <3>2. CASE Application(c)
        <4>1. CASE \/ HandlerReturns(c) \/ HandlerFails(c)
                   \/ \E i \in CallNo : ReplyContinues(c, i) \/ Finish(c, i)
          BY <1>1, <2>1, <4>1 DEF HandlerReturns, HandlerFails, Dispatching, ReplyContinues, Finish,
                                  ReplyOneway, ReplyFinal, ReplyError, CanReply, IsOpen
        <4>2. CASE \E i \in CallNo : Keep(c, i) \/ Release(c, i)
          BY <2>1, <4>2 DEF Keep, Release
        <4> QED
          BY <3>2, <4>1, <4>2 DEF Application
      <3>3. CASE Accept(c)
        BY <2>1, <3>3 DEF Accept
      <3>4. CASE Client(c)
        BY <2>1, <3>4 DEF Client, Connect, Send, SendMore, Receive, Shutdown, Disconnect
      <3> QED
        BY <3>1, <3>2, <3>3, <3>4 DEF Steps
    <2> QED
      BY <2>1 DEF TurnAt
  <1>4. ASSUME UNCHANGED <<calls, client>>, sock'[c].up = sock[c].up,
               NEW r, conn' = [conn EXCEPT ![c] = r], r.call = conn[c].call,
               conn[c].stream.out = <<>> => r.stream.out = <<>>
        PROVE  ServesLast(c)'
    BY <1>1, <1>3, <1>4, QuietServes
  <1>5. CASE Accept(c)
    <2> DEFINE r == [state |-> "open", events_mask |-> {}, current_events_mask |-> {"IN"},
                     call |-> NoCall, stream |-> NewStream]
    <2>1. conn[c].call = NoCall
      BY <1>5 DEF Accept, IInv, Pending, IsOpen
    <2>2. conn' = [conn EXCEPT ![c] = r] /\ UNCHANGED <<calls, client, sock>>
      BY <1>5 DEF Accept
    <2>3. r.call = conn[c].call /\ r.stream.out = <<>>
      BY <2>1 DEF NewStream
    <2> QED
      BY <1>4, <2>2, <2>3
  <1>6. CASE Dispatch(c)
    <2> DEFINE r == [conn[c] EXCEPT !.events_mask = {}]
    <2>1. /\ conn' = [conn EXCEPT ![c] = r] /\ UNCHANGED <<calls, client, sock>>
          /\ r.call = conn[c].call /\ r.stream.out = conn[c].stream.out
      BY <1>1, <1>6 DEF Dispatch, ConnectionType
    <2> QED
      BY <1>4, <2>1
  <1>7. CASE Flush(c)
    <2>1. PICK o \in FlushOutcomes(conn[c].stream, Room(c), Gone(c)) :
            /\ conn' = [conn EXCEPT ![c].stream = o.stream,
                                    ![c].events_mask = IF o.result = "rest" THEN {"OUT"} ELSE {}]
            /\ sock' = [sock EXCEPT ![c].down = @ \o o.sent]
      BY <1>7 DEF Flush
    <2>2. conn[c].stream.out = <<>> => o.stream.out = <<>>
      BY <1>1, <2>1, FlushLess
    <2> DEFINE r == [conn[c] EXCEPT !.stream = o.stream,
                                    !.events_mask = IF o.result = "rest" THEN {"OUT"} ELSE {}]
    <2>3. conn' = [conn EXCEPT ![c] = r] /\ r.call = conn[c].call /\ r.stream = o.stream
      BY <1>1, <2>1 DEF ConnectionType
    <2>4. sock'[c].up = sock[c].up /\ UNCHANGED <<calls, client>>
      BY <1>1, <1>7, <2>1 DEF Flush, SockType
    <2> QED
      BY <1>4, <2>2, <2>3, <2>4
  <1>8. CASE ReadSocket(c)
    BY <1>3, <1>8, ReadSocketServes
  <1>9. CASE ReadNothing(c)
    <2>1. UNCHANGED <<calls, client, sock>>
      BY <1>9 DEF ReadNothing
    <2>2. conn'[c].call = conn[c].call /\ conn'[c].stream.out = conn[c].stream.out
      BY <1>1, <1>9 DEF ReadNothing, ConnectionType, HungUp, StreamOf
    <2> QED
      BY <1>3, <2>1, <2>2, QuietServes
  <1>10. CASE ReadInvalid(c) \/ HandlerFails(c)
    BY <1>2, <1>10 DEF ReadInvalid, HandlerFails
  <1>11. CASE ReadNoCall(c)
    BY <1>11, DeliveredKind DEF ReadNoCall, Polite, AtOnce
  <1>12. CASE ReadCall(c)
    BY <1>3, <1>12, ReadCallServes
  <1>13. CASE EndDispatch(c)
    <2>1. conn' = [conn EXCEPT ![c] = SetEventsMask(@, EndMask(c))] /\ UNCHANGED <<calls, client, sock>>
      BY <1>2, <1>13 DEF EndDispatch
    <2> DEFINE r == SetEventsMask(conn[c], EndMask(c))
    <2>2. conn' = [conn EXCEPT ![c] = r] /\ r.call = conn[c].call /\ r.stream = conn[c].stream
      BY <1>1, <2>1 DEF SetEventsMask, ConnectionType
    <2> QED
      BY <1>4, <2>1, <2>2
  <1>14. CASE HandlerReturns(c) \/ StopReading(c)
    BY <1>3, <1>14, QuietServes DEF HandlerReturns, StopReading
  <1>15. ASSUME NEW i \in CallNo, Keep(c, i) \/ Release(c, i)
         PROVE  ServesLast(c)'
    <2>1. UNCHANGED <<conn, client, sock>>
      BY <1>15 DEF Keep, Release
    <2>2. \A j \in CallNo : calls'[c][j].done = calls[c][j].done
      BY <1>1, <1>15, ApplicationUnseen DEF Unseen, SameCalls
    <2> QED
      BY <1>3, <2>1, <2>2, QuietServes
  <1>16. ASSUME NEW i \in CallNo, ReplyContinues(c, i) \/ Finish(c, i)
         PROVE  ServesLast(c)'
    BY <1>3, <1>16, RepliesServe
  <1>17. CASE \E kind \in Kinds : Send(c, kind)
    BY <1>17, SendServes
  <1>18. CASE SendMore(c)
    BY <1>3, <1>18, SendMoreServes
  <1>19. CASE Connect(c) \/ Receive(c) \/ Shutdown(c) \/ Disconnect(c)
    <2>1. /\ UNCHANGED <<conn, calls>> /\ sock'[c].up = sock[c].up
          /\ client'[c].requests = client[c].requests /\ client'[c].pushed = client[c].pushed
      BY <1>1, <1>19 DEF Connect, Receive, Shutdown, Disconnect, ClientType, SockType
    <2> QED
      BY <1>3, <2>1, QuietServes
  <1> QED
    BY <1>5, <1>6, <1>7, <1>8, <1>9, <1>10, <1>11, <1>12, <1>13, <1>14, <1>15, <1>16, <1>17, <1>18, <1>19
    DEF Steps, Loop, Application, Client

\* Every step keeps the order in which a polite client is answered.
LEMMA AnswersStep ==
    ASSUME IInv, IInv', NEW c \in Connections, ServesLast(c), AnswersLast(c), Moves(c), ~Over(c)'
    PROVE  AnswersLast(c)'
  <1> DEFINE k == Asked(c)
             u == Outbox(c)
             v == Outbox(c)'
  <1>1. k \in Nat /\ DOMAIN client[c].requests = 1..k
    BY AskedType
  <1>2. Len(u) \in Nat /\ u \in Seq(ReplyCells) /\ v \in Seq(ReplyCells)
    BY BoxTypes, BoxTypesNext, LenProperties DEF IInv
  <1>3. \A p \in 1..Len(u) :
          /\ u[p].nul => u[p].msg.call <= k
          /\ LastOf(u[p], k) => p = Len(u) /\ conn[c].call # k /\ k \in Begun(c)
    BY DEF AnswersLast
  <1>4. ASSUME client'[c].requests = client[c].requests
        PROVE  Asked(c)' = k
    BY <1>4 DEF Asked
  <1>5. CASE Unseen(c)
    <2>1. v = u /\ conn'[c].call = conn[c].call /\ Begun(c)' = Begun(c) /\ Asked(c)' = k
      BY <1>4, <1>5 DEF Unseen, SameCalls, Begun
    <2> HIDE DEF u, v, k
    <2> QED
      BY <1>3, <2>1 DEF AnswersLast, LastOf, v
  <1>6. CASE Asks(c)
    <2>1. v = u /\ \E kind \in Kinds : client'[c].requests = Append(client[c].requests, kind)
      BY <1>6 DEF Asks
    <2>2. Asked(c)' = k + 1
      <3>1. client[c].requests \in Seq(Kinds)
        BY PartTypes DEF IInv
      <3> QED
        BY <2>1, <3>1, AppendProperties DEF Asked
    <2> HIDE DEF u, v, k
    <2>3. \A p \in 1..Len(v) : v[p].nul => v[p].msg.call <= k
      BY <1>3, <2>1
    <2>4. \A p \in 1..Len(v) : v[p].msg.call \in Nat
      <3>1. \A p \in 1..Len(v) : v[p] \in ReplyCells
        BY <1>2, ElementOfSeq
      <3> QED
        BY <3>1 DEF ReplyCells, Replies, CallNo
    <2>5. \A p \in 1..Len(v) : v[p].nul => v[p].msg.call <= k + 1 /\ v[p].msg.call # k + 1
      BY <1>1, <2>3, <2>4
    <2> QED
      BY <2>2, <2>5 DEF AnswersLast, LastOf, v
  <1>7. CASE Takes(c)
    <2>1. PICK i \in CallNo : i \in DOMAIN client[c].requests /\ \A j \in Begun(c) : j < i
      BY <1>7 DEF Takes
    <2>2. v = u /\ Asked(c)' = k
      BY <1>4, <1>7 DEF Takes, SameRequests
    <2>3. k \notin Begun(c)
      BY <1>1, <2>1 DEF CallNo
    <2> HIDE DEF u, v, k
    <2> QED
      BY <1>3, <2>2, <2>3 DEF AnswersLast, LastOf, v
  <1>8. CASE Answers(c)
    <2>1. PICK i \in CallNo, kind \in {"continues", "final", "error"} : Gives(c, i, kind)
      BY <1>8 DEF Answers
    <2> DEFINE m == [call |-> i, n |-> calls[c][i].replies + 1, kind |-> kind]
    <2>2. /\ conn[c].call = i /\ i # NoCall
          /\ conn'[c].call = IF kind = "continues" THEN i ELSE NoCall
          /\ calls'[c] = [calls[c] EXCEPT ![i] = Replied(@, kind)]
          /\ Grown(u, v, m, 2)
      BY <2>1, ConstantTypes DEF Gives, ReplySize
    <2>3. i = k /\ Asked(c)' = k
      BY <1>4, <1>8, <2>2 DEF Answers, SameRequests, ServesLast
    <2>4. kind # "continues" => k \in Begun(c)' /\ conn'[c].call # k
      <3> SUFFICES ASSUME kind # "continues" PROVE k \in Begun(c)' /\ conn'[c].call # k
        OBVIOUS
      <3>1. calls[c] \in [CallNo -> CallType]
        BY PartTypes DEF IInv
      <3>2. calls'[c][i].done
        BY <2>2, <3>1 DEF CallType, Replied, Finished, Unref
      <3> HIDE DEF k
      <3> QED
        BY <2>2, <2>3, <3>2 DEF Begun
    <2> HIDE DEF u, v, k, m
    <2>5. \A p \in 1..Len(u) : v[p] = u[p]
      BY <2>2 DEF Grown
    <2>6. Len(v) = Len(u) + 2
      BY <2>2 DEF Grown
    <2>7. ASSUME NEW p \in 1..Len(v), p \notin 1..Len(u)
          PROVE  v[p].msg = m /\ (v[p].nul => p = Len(v))
      <3> DEFINE j == p - Len(u)
      <3>1. j \in 1..2 /\ Len(u) + j = p
        BY <1>2, <2>6, <2>7
      <3> HIDE DEF j
      <3>2. v[p].msg = m /\ (v[p].nul <=> j = 2)
        BY <2>2, <3>1 DEF Grown
      <3> QED
        BY <2>6, <3>1, <3>2
    <2>8. \A p \in 1..Len(u) : ~LastOf(u[p], k)
      BY <1>3, <2>2, <2>3
    <2>9. m.call = k /\ m.kind = kind
      BY <2>3 DEF m
    <2>10. ASSUME NEW p \in 1..Len(v)
           PROVE  /\ v[p].nul => v[p].msg.call <= k
                  /\ LastOf(v[p], k) => p = Len(v) /\ conn'[c].call # k /\ k \in Begun(c)'
      <3>1. CASE p \in 1..Len(u)
        BY <1>3, <2>5, <2>8, <3>1
      <3>2. CASE p \notin 1..Len(u)
        BY <1>1, <2>4, <2>7, <2>9, <3>2 DEF LastOf
      <3> QED
        BY <3>1, <3>2
    <2> QED
      BY <2>3, <2>10 DEF AnswersLast, LastOf, v
  <1>9. CASE Completes(c)
    <2>1. PICK i \in CallNo : conn[c].call = i
      BY <1>9 DEF Completes
    <2>2. i = k /\ Asked(c)' = k /\ v = u
      BY <1>4, <1>9, <2>1, ConstantTypes DEF Completes, SameRequests, ServesLast
    <2> HIDE DEF u, v, k
    <2> QED
      BY <1>3, <2>1, <2>2 DEF AnswersLast, LastOf, v
  <1>10. CASE Leaves(c)
    BY <1>10 DEF Leaves
  <1> QED
    BY <1>5, <1>6, <1>7, <1>8, <1>9, <1>10 DEF Moves

\* What waits for the sockets of the other connections.
LEMMA OthersArmed ==
    ASSUME AtOnce, IInv, held = {}, NEW c \in Connections, Steps(c),
           NEW d \in Connections, d # c, TurnAt(d), ArmedAt(d)
    PROVE  TurnAt(d)' /\ ArmedAt(d)'
  <1>1. TypeOK /\ BuffersBounded /\ Dispatching
    BY DEF IInv
  <1>2. Stands(d)
    BY <1>1, OthersStand
  <1>3. TurnAt(d)'
    <2>1. ServesLast(d)' = ServesLast(d)
      BY <1>2 DEF Stands, ServesLast, Asked, Begun, EndOfUp, Kind
    <2>2. AnswersLast(d)' = AnswersLast(d)
      BY <1>2 DEF Stands, AnswersLast, Asked, Begun, Outbox, Gone, LastOf
    <2>3. Over(d)' = Over(d) /\ conn'[d] = conn[d]
      BY <1>2 DEF Stands, Over, Gone
    <2> QED
      BY <2>1, <2>2, <2>3 DEF TurnAt
  <1>4. conn'[d] = conn[d] /\ EOF(d)' = EOF(d)
    BY <1>2 DEF Stands, EOF
  <1>5. CASE UNCHANGED <<pc, cur, ev>>
    BY <1>3, <1>4, <1>5 DEF ArmedAt, Resting
  <1>6. CASE (pc = "idle" \/ cur = c) /\ (pc' = "idle" \/ cur' = c)
    <2>1. Resting(d) /\ ~(cur' = d /\ pc' \in {"handle", "read", "end"})
      BY <1>6 DEF Resting
    <2> QED
      BY <1>3, <1>4, <2>1 DEF ArmedAt
  <1> QED
    BY <1>1, <1>5, <1>6, DispatchMoves DEF AtOnce

\* A write that leaves nothing unsent leaves the buffer empty.
LEMMA WholeIsEmpty ==
    ASSUME NEW s \in StreamOf(RequestCells, ReplyCells), NEW m \in Replies,
           NEW room \in Int, NEW gone \in BOOLEAN,
           NEW o \in WriteOutcomes(s, m, ReplySize, room, gone)
    PROVE  o.whole = FALSE \/ o.stream.out = <<>>
  <1>1. ReplySize \in Nat /\ \A nul \in BOOLEAN : [msg |-> m, nul |-> nul] \in ReplyCells
    BY DEF ReplySize, ReplyCells
  <1>2. Frame(m, ReplySize) \in Seq(ReplyCells)
    BY <1>1, FrameType
  <1> QED
    BY <1>1, <1>2, WriteConcat, ZenonT(60)

\* What a reply leaves for the socket is noted.
LEMMA ReplyNotes ==
    ASSUME TypeOK, BuffersBounded, NEW c \in Connections, NEW i \in CallNo,
           ReplyContinues(c, i) \/ Finish(c, i)
    PROVE  \/ conn'[c].stream.out = <<>> \/ "OUT" \in conn'[c].events_mask
           \/ /\ conn'[c].stream = conn[c].stream
              /\ conn'[c].events_mask = conn[c].events_mask
  <1>1. /\ conn \in [Connections -> ConnectionType] /\ conn[c] \in ConnectionType
        /\ conn[c].stream \in StreamOf(RequestCells, ReplyCells)
    BY PartTypes DEF TypeParts
  <1>2. Room(c) \in Int /\ Gone(c) \in BOOLEAN
    BY PartTypes, ConstantTypes, LenProperties DEF Room, Gone
  <1>3. CASE ReplyOneway(c, i)
    BY <1>1, <1>3 DEF ReplyOneway, Removed, ConnectionType
  <1>4. ASSUME NEW kind \in {"continues", "final", "error"}, calls[c][i].replies < MaxReplies,
               NEW o \in WriteOutcomes(conn[c].stream,
                           [call |-> i, n |-> calls[c][i].replies + 1, kind |-> kind],
                           ReplySize, Room(c), Gone(c))
        PROVE  o.whole = FALSE \/ o.stream.out = <<>>
    <2> DEFINE m == [call |-> i, n |-> calls[c][i].replies + 1, kind |-> kind]
    <2>1. m \in Replies
      <3>1. calls[c][i].replies \in Nat
        BY PartTypes DEF CallType
      <3> QED
        BY <1>4, <3>1, ConstantTypes DEF Replies
    <2> HIDE DEF m
    <2> QED
      BY <1>1, <1>2, <1>4, <2>1, WholeIsEmpty DEF m
  <1>5. CASE ReplyContinues(c, i) \/ ReplyFinal(c, i)
    <2>0. PICK kind \in {"continues", "final", "error"} :
            \E o \in WriteOutcomes(conn[c].stream,
                       [call |-> i, n |-> calls[c][i].replies + 1, kind |-> kind],
                       ReplySize, Room(c), Gone(c)) :
              /\ calls[c][i].replies < MaxReplies
              /\ \/ conn' = [conn EXCEPT ![c] = ArmOut(conn[c], o)]
                 \/ conn' = [conn EXCEPT ![c] = Removed(ArmOut(conn[c], o))]
      BY <1>5 DEF ReplyContinues, ReplyFinal, WriteReply
    <2>1. PICK o \in WriteOutcomes(conn[c].stream,
                       [call |-> i, n |-> calls[c][i].replies + 1, kind |-> kind],
                       ReplySize, Room(c), Gone(c)) :
            /\ calls[c][i].replies < MaxReplies
            /\ \/ conn' = [conn EXCEPT ![c] = ArmOut(conn[c], o)]
               \/ conn' = [conn EXCEPT ![c] = Removed(ArmOut(conn[c], o))]
      BY <2>0
    <2>2. o.whole = FALSE \/ o.stream.out = <<>>
      BY <1>4, <2>1
    <2> DEFINE r == ArmOut(conn[c], o)
    <2>3. r.stream = o.stream /\ (o.whole = FALSE => "OUT" \in r.events_mask)
      BY <1>1 DEF ArmOut, SetEventsMask, ConnectionType
    <2>4. Removed(r).stream = r.stream /\ Removed(r).events_mask = r.events_mask
      BY <1>1 DEF Removed, ArmOut, SetEventsMask, ConnectionType
    <2>5. conn'[c] = r \/ conn'[c] = Removed(r)
      BY <1>1, <2>1
    <2> HIDE DEF r
    <2> QED
      BY <2>2, <2>3, <2>4, <2>5
  <1>6. CASE ReplyError(c, i)
    <2>1. PICK o \in WriteOutcomes(conn[c].stream,
                       [call |-> i, n |-> calls[c][i].replies + 1, kind |-> "error"],
                       ReplySize, Room(c), Gone(c)) :
            /\ calls[c][i].replies < MaxReplies
            /\ conn' = [conn EXCEPT ![c] = Removed(NoteOut(conn[c], o))]
      BY <1>6 DEF ReplyError, WriteReply
    <2>2. o.whole = FALSE \/ o.stream.out = <<>>
      BY <1>4, <2>1
    <2> DEFINE r == Removed(NoteOut(conn[c], o))
    <2>3. r.stream = o.stream /\ (o.whole = FALSE => "OUT" \in r.events_mask)
      BY <1>1 DEF NoteOut, Removed, ConnectionType
    <2>4. conn'[c] = r
      BY <1>1, <2>1
    <2> HIDE DEF r
    <2> QED
      BY <2>2, <2>3, <2>4
  <1> QED
    BY <1>3, <1>5, <1>6 DEF Finish

\* Every step keeps watch over what waits for the socket.
LEMMA ArmedStep ==
    ASSUME Polite, InTurn, InTurn', held = {}, NEW c \in Connections, Steps(c),
           ListensAt(c), TurnAt(c), ArmedAt(c)
    PROVE  ArmedAt(c)'
  <1>1. /\ IInv /\ ClosedIsEmpty /\ TypeOK /\ BuffersBounded /\ Dispatching
        /\ conn \in [Connections -> ConnectionType] /\ conn[c] \in ConnectionType
        /\ conn[c].stream \in StreamOf(RequestCells, ReplyCells) /\ c # NoConnection
    BY PartTypes, ConstantTypes DEF InTurn, IInv, TypeParts
  <1>2. ASSUME CloseConnection(c) PROVE ArmedAt(c)'
    BY <1>1, <1>2 DEF CloseConnection, FreedConnection, NewStream, ArmedAt
  <1>3. conn'[c].stream.out = <<>> => ArmedAt(c)'
    BY DEF ArmedAt
  <1>4. CASE Accept(c)
    BY <1>1, <1>3, <1>4 DEF Accept, NewStream
  <1>5. CASE Dispatch(c)
    <2>1. /\ conn' = [conn EXCEPT ![c].events_mask = {}] /\ UNCHANGED <<client, sock>>
          /\ cur' = c /\ ev' = Ready(c)
          /\ pc' = IF "OUT" \in Ready(c) THEN "flush" ELSE AfterFlush(Ready(c))
          /\ pc = "idle" /\ Ready(c) # {}
      BY <1>5 DEF Dispatch
    <2>2. /\ conn'[c].stream = conn[c].stream
          /\ conn'[c].current_events_mask = conn[c].current_events_mask
      BY <1>1, <2>1 DEF ConnectionType
    <2>3. SUFFICES ASSUME conn[c].stream.out # <<>> PROVE ArmedAt(c)'
      BY <1>3, <2>2
    <2>4. "OUT" \in conn[c].current_events_mask
      BY <2>1, <2>3 DEF ArmedAt, Resting
    <2>5. sock[c].up = <<>>
      BY <1>1, <2>3, WaitsAlone
    <2>6. "IN" \in Ready(c) => EOF(c)
      BY <2>5 DEF Ready
    <2>7. Ready(c) \subseteq {"IN", "OUT", "HUP"}
      BY DEF Ready
    <2>8. pc' = "read" => EOF(c)'
      BY <2>1, <2>6 DEF AfterFlush, EOF
    <2>9. pc' = "end" => "HUP" \in ev'
      BY <2>1, <2>7 DEF AfterFlush
    <2>10. pc' # "handle"
      BY <2>1 DEF AfterFlush
    <2> QED
      BY <2>2, <2>4, <2>8, <2>9, <2>10 DEF ArmedAt
  <1>6. CASE Flush(c)
    <2>1. PICK o \in FlushOutcomes(conn[c].stream, Room(c), Gone(c)) :
            /\ conn' = [conn EXCEPT ![c].stream = o.stream,
                                    ![c].events_mask = IF o.result = "rest" THEN {"OUT"} ELSE {}]
            /\ IF o.result = "error"
               THEN Idle
               ELSE pc' = AfterFlush(ev) /\ UNCHANGED <<cur, ev>>
      BY <1>6 DEF Flush
    <2>2. /\ conn'[c].stream = o.stream
          /\ conn'[c].current_events_mask = conn[c].current_events_mask
          /\ conn'[c].events_mask = IF o.result = "rest" THEN {"OUT"} ELSE {}
      BY <1>1, <2>1 DEF ConnectionType
    <2>3. /\ conn[c].stream.out = <<>> => o.stream.out = <<>>
          /\ o.result = "empty" => o.stream.out = <<>>
      BY <1>1, <2>1, FlushLess
    <2>4. o.result \in {"error", "empty", "rest"}
      <3>1. Room(c) \in Int /\ Gone(c) \in BOOLEAN
        BY <1>1, PartTypes, ConstantTypes, LenProperties DEF Room, Gone
      <3> QED
        BY <1>1, <2>1, <3>1, FlushType
    <2>5. pc = "flush" /\ cur = c
      BY <1>6 DEF Flush
    <2>6. CASE o.result = "error"
      <3>1. pc' = "idle" /\ cur' = NoConnection
        BY <2>1, <2>6 DEF Idle
      <3>2. o.stream.out # <<>> => "OUT" \in conn[c].current_events_mask
        BY <2>3, <2>5 DEF ArmedAt, Resting
      <3> QED
        BY <2>2, <3>1, <3>2 DEF ArmedAt
    <2>7. CASE o.result = "rest"
      <3>1. pc' \in {"read", "end"} /\ cur' = c
        BY <2>1, <2>5, <2>7 DEF AfterFlush
      <3> QED
        BY <2>2, <2>7, <3>1 DEF ArmedAt, Resting
    <2> QED
      BY <1>3, <2>2, <2>3, <2>4, <2>6, <2>7
  <1>7. CASE StopReading(c)
    BY <1>7 DEF StopReading, MayRead, ListensAt
  <1>8. CASE ReadSocket(c)
    <2>1. conn[c].stream.out = <<>>
      BY <1>1, <1>8, WaitsAlone DEF ReadSocket
    <2>2. Received(conn[c].stream, sock[c].up).out = conn[c].stream.out
      BY <1>1, PartTypes, ReceivedCells DEF BuffersBounded
    <2>3. conn'[c].stream.out = <<>>
      BY <1>1, <1>8, <2>1, <2>2 DEF ReadSocket, ConnectionType
    <2> QED
      BY <1>3, <2>3
  <1>9. CASE ReadNothing(c)
    <2>1. /\ conn' = IF EOF(c) THEN [conn EXCEPT ![c].stream = HungUp(conn[c].stream)] ELSE conn
          /\ pc = "read" /\ pc' = "end" /\ cur = c /\ cur' = c
      BY <1>9 DEF ReadNothing, Reading
    <2>2. /\ conn'[c].stream.out = conn[c].stream.out
          /\ conn'[c].events_mask = conn[c].events_mask
          /\ EOF(c) => conn'[c].stream.hup = TRUE
      BY <1>1, <2>1 DEF ConnectionType, HungUp, StreamOf
    <2> QED
      BY <2>1, <2>2 DEF ArmedAt, Resting
  <1>10. CASE ReadInvalid(c) \/ HandlerFails(c)
    BY <1>2, <1>10 DEF ReadInvalid, HandlerFails
  <1>11. CASE ReadNoCall(c)
    BY <1>1, <1>11, DeliveredKind DEF ReadNoCall, Polite, AtOnce
  <1>12. CASE ReadCall(c)
    <2>1. PICK o \in Delivered(conn[c].stream) :
            conn' = [conn EXCEPT ![c].stream = o.stream, ![c].call = o.message]
      BY <1>12 DEF ReadCall
    <2>2. conn[c].call = NoCall
      BY <1>12 DEF ReadCall, Reading, MayRead
    <2>3. conn[c].stream.out = <<>>
      BY <1>1, <2>1, <2>2, WaitsAlone
    <2>4. o.stream.out = conn[c].stream.out
      BY <1>1, <2>1, DeliveredProperties
    <2>5. conn'[c].stream = o.stream
      BY <1>1, <2>1 DEF ConnectionType
    <2> QED
      BY <1>3, <2>3, <2>4, <2>5
  <1>13. CASE EndDispatch(c)
    <2>1. CASE "HUP" \in ev \/ conn[c].stream.hup
      BY <1>2, <1>13, <2>1 DEF EndDispatch
    <2>2. CASE ~("HUP" \in ev \/ conn[c].stream.hup)
      <3>1. /\ conn' = [conn EXCEPT ![c] = SetEventsMask(@, EndMask(c))]
            /\ pc' = "idle" /\ cur' = NoConnection /\ pc = "end" /\ cur = c
        BY <1>13, <2>2 DEF EndDispatch, Idle
      <3>2. /\ conn'[c].stream = conn[c].stream
            /\ conn'[c].current_events_mask = EndMask(c)
        BY <1>1, <3>1 DEF SetEventsMask, ConnectionType
      <3>3. conn[c].stream.out # <<>> => "OUT" \in EndMask(c)
        BY <2>2, <3>1 DEF ArmedAt, EndMask
      <3> QED
        BY <3>1, <3>2, <3>3 DEF ArmedAt
    <2> QED
      BY <2>1, <2>2
  <1>14. CASE HandlerReturns(c)
    BY <1>14 DEF HandlerReturns, ArmedAt, Resting
  <1>15. ASSUME NEW i \in CallNo, Keep(c, i) \/ Release(c, i)
         PROVE  FALSE
    BY <1>15 DEF Keep, Release, Polite, AtOnce
  <1>16. ASSUME NEW i \in CallNo, ReplyContinues(c, i) \/ Finish(c, i)
         PROVE  ArmedAt(c)'
    <2>1. pc = "handle" /\ cur = c /\ UNCHANGED <<pc, cur>>
      BY <1>1, <1>16, RepliesInside, ReplyEffect, ContinuesEffect
    <2>2. \/ conn'[c].stream.out = <<>> \/ "OUT" \in conn'[c].events_mask
          \/ /\ conn'[c].stream = conn[c].stream
             /\ conn'[c].events_mask = conn[c].events_mask
      BY <1>1, <1>16, ReplyNotes
    <2> QED
      BY <2>1, <2>2 DEF ArmedAt, Resting
  <1>17. CASE Client(c)
    <2>1. UNCHANGED <<conn, pc, cur, ev>>
      BY <1>17 DEF Client, Connect, Send, SendMore, Receive, Shutdown, Disconnect
    <2>2. EOF(c) => EOF(c)'
      <3>1. client \in [Connections -> ClientType] /\ client[c] \in ClientType
        BY <1>1, PartTypes DEF TypeParts
      <3>2. CASE \E kind \in Kinds : Send(c, kind)
        BY <3>1, <3>2 DEF Send, EOF, ClientType
      <3>3. CASE Connect(c) \/ SendMore(c) \/ Receive(c)
        BY <3>1, <3>3 DEF Connect, SendMore, Receive, EOF, ClientType
      <3>4. CASE Shutdown(c) \/ Disconnect(c)
        BY <3>1, <3>4 DEF Shutdown, Disconnect, EOF, ClientType
      <3> QED
        BY <1>17, <3>2, <3>3, <3>4 DEF Client
    <2> QED
      BY <2>1, <2>2 DEF ArmedAt, Resting
  <1> QED
    BY <1>4, <1>5, <1>6, <1>7, <1>8, <1>9, <1>10, <1>11, <1>12, <1>13, <1>14, <1>15, <1>16, <1>17
    DEF Steps, Loop, Application

\* At first nothing waits and nobody asks.
LEMMA InitArmed == Init => Armed
  <1> SUFFICES ASSUME Init PROVE Armed
    OBVIOUS
  <1>1. Listens
    BY InitListens
  <1>2. ASSUME NEW c \in Connections
        PROVE  /\ conn[c].call = NoCall /\ conn[c].stream.out = <<>> /\ sock[c].up = <<>>
               /\ sock[c].down = <<>> /\ client[c].got = <<>> /\ Asked(c) = 0
    BY <1>2, EmptySeq DEF Init, FreedConnection, NewStream, Asked
  <1>3. ASSUME NEW c \in Connections PROVE ServesLast(c)
    <2>1. 0 \notin Begun(c) /\ \A j \in CallNo : ~(j < 0)
      BY DEF Begun, CallNo
    <2> QED
      BY <1>2, <2>1 DEF ServesLast, EndOfUp
  <1>4. ASSUME NEW c \in Connections PROVE AnswersLast(c)
    <2>1. <<>> \o <<>> = <<>> /\ Len(<<>>) = 0
      BY EmptySeq, ConcatEmptySeq
    <2>2. Outbox(c) = <<>>
      BY <1>2, <2>1 DEF Outbox
    <2> QED
      BY <2>1, <2>2 DEF AnswersLast
  <1>5. \A c \in Connections : ArmedAt(c)
    BY <1>2 DEF ArmedAt
  <1> QED
    BY <1>1, <1>3, <1>4, <1>5 DEF Armed, TurnAt

\* Every step keeps the watch.
LEMMA NextArmed == Polite /\ InTurn /\ InTurn' /\ Armed /\ [Next]_vars => Armed'
  <1> SUFFICES ASSUME Polite, InTurn, InTurn', Armed, [Next]_vars PROVE Armed'
    OBVIOUS
  <1>1. IInv /\ IInv' /\ ClosedIsEmpty /\ AtOnce /\ held = {}
    BY DEF InTurn, Polite, Armed, Listens
  <1>2. Listens'
    BY <1>1, NextListens DEF Armed
  <1>3. ASSUME NEW c \in Connections, Steps(c), NEW d \in Connections
        PROVE  TurnAt(d)' /\ ArmedAt(d)'
    <2>1. CASE d # c
      BY <1>1, <1>3, <2>1, OthersArmed DEF Armed
    <2>2. CASE d = c
      <3>1. TurnAt(c) /\ ArmedAt(c) /\ ListensAt(c)
        BY DEF Armed, Listens
      <3>2. ArmedAt(c)'
        BY <1>1, <1>3, <3>1, ArmedStep
      <3>3. conn'[c].state # "freed" => ServesLast(c)'
        BY <1>1, <1>3, <3>1, ServesStep
      <3>4. Moves(c)
        BY <1>3, StepMoves
      <3>5. ~Over(c)' => ~Over(c)
        BY <1>1, <3>4 DEF Moves, Unseen, Asks, Takes, Answers, Completes, Leaves, Standing
      <3>6. ~Over(c)' => AnswersLast(c)'
        BY <1>1, <3>1, <3>4, <3>5, AnswersStep DEF TurnAt, Over
      <3> QED
        BY <2>2, <3>2, <3>3, <3>6 DEF TurnAt
    <2> QED
      BY <2>1, <2>2
  <1>4. CASE UNCHANGED vars
    <2>1. ASSUME NEW d \in Connections PROVE TurnAt(d)' /\ ArmedAt(d)'
      <3>1. Stands(d) /\ UNCHANGED <<pc, cur, ev>>
        BY <1>4 DEF vars, Stands
      <3>2. ServesLast(d)' = ServesLast(d)
        BY <3>1 DEF Stands, ServesLast, Asked, Begun, EndOfUp, Kind
      <3>3. AnswersLast(d)' = AnswersLast(d)
        BY <3>1 DEF Stands, AnswersLast, Asked, Begun, Outbox, Gone, LastOf
      <3>4. Over(d)' = Over(d) /\ EOF(d)' = EOF(d) /\ conn'[d] = conn[d]
        BY <3>1 DEF Stands, Over, Gone, EOF
      <3> QED
        BY <3>1, <3>2, <3>3, <3>4 DEF Armed, TurnAt, ArmedAt, Resting
    <2> QED
      BY <1>2, <2>1 DEF Armed
  <1> QED
    BY <1>2, <1>3, <1>4 DEF Next, Steps, Armed

\* Outside dispatch_connection a connection with unsent data is watched for room in
\* its socket (service.c:539, service.c:660), when the application replies in its
\* callback and clients wait for the last reply before they send the next call.
THEOREM ServiceArms ==
    ASSUME Polite
    PROVE  Spec => []OutputArmed
  <1>1. Armed => OutputArmed
    BY DEF Armed, ArmedAt, Resting, OutputArmed
  <1>2. InTurn /\ InTurn' /\ Armed /\ [Next]_vars => Armed'
    BY NextArmed
  <1> QED
    BY <1>1, <1>2, InitArmed, InTurnAlways, PTL DEF Spec
=============================================================================
