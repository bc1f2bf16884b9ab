---------------------------- MODULE StreamProofs ----------------------------
(***************************************************************************)
(* Facts about the operators of Stream, for buffers of any size, and for   *)
(* streams that read cells of a set I and write cells of a set O.          *)
(***************************************************************************)
EXTENDS Stream, Integers, SequenceTheorems, TLAPS

StreamOf(I, O) == [in : Seq(I), out : Seq(O), hup : BOOLEAN]

\* The NUL of message m is at place p, or anywhere, in a window.
EndsAt(cells, m, p) == p \in 1..Len(cells) /\ cells[p].nul /\ cells[p].msg = m
Ends(cells, m) == \E p \in 1..Len(cells) : EndsAt(cells, m, p)

\* The first n cells of window u moved behind those of s: a and d are the
\* windows after it.
Moved(s, u, n, a, d) ==
    /\ n \in 0..Len(u) /\ Len(a) = Len(s) + n /\ Len(d) = Len(u) - n
    /\ \A i \in 1..Len(s) : a[i] = s[i]
    /\ \A i \in 1..n : a[Len(s) + i] = u[i]
    /\ \A i \in 1..(Len(u) - n) : d[i] = u[i + n]

\* d is what follows place e of window s.
Follows(s, e, d) ==
    /\ e \in 1..Len(s) /\ Len(d) = Len(s) - e
    /\ \A i \in 1..(Len(s) - e) : d[i] = s[i + e]

\* No message ends twice in a window.
OnceIn(cells) == \A m : \A p, q \in 1..Len(cells) :
                    EndsAt(cells, m, p) /\ EndsAt(cells, m, q) => p = q

\* Two sequences joined.
LEMMA JoinProperties ==
    ASSUME NEW S, NEW a \in Seq(S), NEW b \in Seq(S)
    PROVE  a \o b \in Seq(S) /\ Len(a \o b) = Len(a) + Len(b)
  BY ConcatProperties, Zenon

\* The prefix of a window holds its first n cells, in place.
LEMMA TakeProperties ==
    ASSUME NEW S, NEW s \in Seq(S), NEW n \in 0..Len(s)
    PROVE  /\ Take(s, n) \in Seq(S)
           /\ Len(Take(s, n)) = n
           /\ \A i \in 1..n : Take(s, n)[i] = s[i]
  <1>1. n \in Int /\ 1 \in Int /\ Len(s) \in Nat
    BY LenProperties
  <1>2. \A i \in 1..n : s[i] \in S
    BY <1>1, ElementOfSeq
  <1> QED
    BY <1>1, <1>2, SubSeqProperties DEF Take

\* Dropping n cells of a window keeps the others, in their order.
LEMMA DropProperties ==
    ASSUME NEW S, NEW s \in Seq(S), NEW n \in 0..Len(s)
    PROVE  /\ Drop(s, n) \in Seq(S)
           /\ Len(Drop(s, n)) = Len(s) - n
           /\ \A i \in 1..(Len(s) - n) : Drop(s, n)[i] = s[i + n]
  <1>1. n \in Int /\ n + 1 \in Int /\ Len(s) \in Nat
    BY LenProperties
  <1>2. \A i \in (n + 1)..Len(s) : s[i] \in S
    BY <1>1, ElementOfSeq
  <1>3. /\ SubSeq(s, n + 1, Len(s)) \in Seq(S)
        /\ Len(SubSeq(s, n + 1, Len(s))) = IF n + 1 <= Len(s) THEN Len(s) - (n + 1) + 1 ELSE 0
        /\ \A i \in 1..(Len(s) - (n + 1) + 1) :
             SubSeq(s, n + 1, Len(s))[i] = s[(n + 1) + i - 1]
    BY <1>1, <1>2, SubSeqProperties
  <1> QED
    BY <1>1, <1>3 DEF Drop

\* A frame is a sequence of cells of its message.
LEMMA FrameType ==
    ASSUME NEW O, NEW m, NEW n \in Nat, \A nul \in BOOLEAN : [msg |-> m, nul |-> nul] \in O
    PROVE  Frame(m, n) \in Seq(O) /\ Len(Frame(m, n)) = n
  <1>1. \A i \in 1..n : [msg |-> m, nul |-> i = n] \in O
    OBVIOUS
  <1> QED
    BY <1>1, IsASeq DEF Frame

\* What a flush leaves and sends has the type of what waited; the input
\* buffer is not touched.
LEMMA FlushType ==
    ASSUME NEW I, NEW O, NEW s \in StreamOf(I, O), NEW room \in Int,
           NEW gone \in BOOLEAN, NEW o \in FlushOutcomes(s, room, gone)
    PROVE  /\ o.stream \in StreamOf(I, O)
           /\ o.stream.in = s.in
           /\ Len(o.stream.out) <= Len(s.out)
           /\ o.sent \in Seq(O)
           /\ o.result \in {"error", "empty", "rest"}
  <1>1. Len(s.out) \in Nat /\ s.out \in Seq(O)
    BY LenProperties DEF StreamOf
  <1>2. CASE gone
    <2>1. \E epipe \in BOOLEAN :
            o = [stream |-> [s EXCEPT !.hup = s.hup \/ epipe], sent |-> <<>>, result |-> "error"]
      BY <1>2 DEF FlushOutcomes
    <2>2. o.stream.out = s.out
      BY <2>1 DEF StreamOf
    <2> QED
      BY <1>1, <2>1, <2>2, EmptySeq DEF StreamOf
  <1>3. CASE ~gone
    <2>1. PICK k \in Taken(Len(s.out), room) :
            o = [stream |-> [s EXCEPT !.out = Drop(s.out, k)],
                 sent |-> Take(s.out, k),
                 result |-> IF k = Len(s.out) THEN "empty" ELSE "rest"]
      BY <1>3 DEF FlushOutcomes
    <2>2. k \in 0..Len(s.out)
      BY <1>1, <2>1 DEF Taken, Smaller
    <2>3. /\ Drop(s.out, k) \in Seq(O) /\ Take(s.out, k) \in Seq(O)
          /\ Len(Drop(s.out, k)) = Len(s.out) - k
      BY <1>1, <2>2, DropProperties, TakeProperties
    <2>4. Len(o.stream.out) <= Len(s.out)
      <3>1. o.stream.out = Drop(s.out, k)
        BY <2>1 DEF StreamOf
      <3> QED
        BY <1>1, <2>2, <2>3, <3>1
    <2> QED
      BY <2>1, <2>3, <2>4 DEF StreamOf
  <1> QED
    BY <1>2, <1>3

\* Writing a message with cells in O keeps the types, and the input buffer.
LEMMA WriteType ==
    ASSUME NEW I, NEW O, NEW s \in StreamOf(I, O), NEW m, NEW n \in Nat,
           \A nul \in BOOLEAN : [msg |-> m, nul |-> nul] \in O,
           NEW room \in Int, NEW gone \in BOOLEAN,
           NEW o \in WriteOutcomes(s, m, n, room, gone)
    PROVE  /\ o.stream \in StreamOf(I, O)
           /\ o.stream.in = s.in
           /\ Len(o.stream.out) <= Len(s.out) + n
           /\ o.sent \in Seq(O)
           /\ o.whole \in BOOLEAN
  <1> DEFINE t == [s EXCEPT !.out = @ \o Frame(m, n)]
  <1>1. Frame(m, n) \in Seq(O) /\ Len(Frame(m, n)) = n /\ s.out \in Seq(O)
    BY FrameType DEF StreamOf
  <1>2. s.out \o Frame(m, n) \in Seq(O) /\ Len(s.out \o Frame(m, n)) = Len(s.out) + n
    BY <1>1, JoinProperties, ZenonT(40)
  <1>3. /\ t \in StreamOf(I, O) /\ t.in = s.in
        /\ t.out = s.out \o Frame(m, n)
    BY <1>2 DEF StreamOf
  <1>4. PICK f \in FlushOutcomes(t, room, gone) :
          o = [stream |-> f.stream, sent |-> f.sent, whole |-> f.result = "empty"]
    BY DEF WriteOutcomes
  <1> HIDE DEF t
  <1>5. /\ f.stream \in StreamOf(I, O) /\ f.stream.in = t.in
        /\ Len(f.stream.out) <= Len(t.out) /\ f.sent \in Seq(O)
    BY <1>3, <1>4, FlushType
  <1> QED
    BY <1>2, <1>3, <1>4, <1>5

\* A delivered message ended in the buffer; what is left is a suffix of it.
LEMMA DeliveredProperties ==
    ASSUME NEW I, NEW O, NEW s \in StreamOf(I, O), NEW o \in Delivered(s)
    PROVE  /\ o.stream \in StreamOf(I, O)
           /\ o.stream.out = s.out
           /\ \E e \in 1..Len(s.in) :
                /\ s.in[e] \in I
                /\ s.in[e].nul /\ o.message = s.in[e].msg
                /\ Follows(s.in, e, o.stream.in)
           /\ Len(s.in) \in Nat /\ Len(o.stream.in) \in Nat
           /\ Len(o.stream.in) <= Len(s.in)
  <1>1. s.in \in Seq(I) /\ DOMAIN s.in = 1..Len(s.in) /\ Len(s.in) \in Nat
    BY LenProperties DEF StreamOf
  <1>2. PICK e \in FirstNul(s) :
          o = [message |-> s.in[e].msg, stream |-> [s EXCEPT !.in = Drop(s.in, e)]]
    BY DEF Delivered
  <1>3. e \in 1..Len(s.in) /\ s.in[e].nul
    BY <1>1, <1>2 DEF FirstNul
  <1>4. s.in[e] \in I
    BY <1>1, <1>3, ElementOfSeq
  <1>5. /\ Drop(s.in, e) \in Seq(I)
        /\ Len(Drop(s.in, e)) = Len(s.in) - e
        /\ \A i \in 1..(Len(s.in) - e) : Drop(s.in, e)[i] = s.in[i + e]
    <2> e \in 0..Len(s.in)
      BY <1>1, <1>3
    <2> QED
      BY <1>1, DropProperties
  <1>6. o.message = s.in[e].msg /\ o.stream.in = Drop(s.in, e) /\ o.stream.out = s.out
    BY <1>2 DEF StreamOf
  <1>7. o.stream \in StreamOf(I, O)
    BY <1>2, <1>5 DEF StreamOf
  <1>8. Len(o.stream.in) \in Nat /\ Len(o.stream.in) <= Len(s.in)
    BY <1>1, <1>3, <1>5, <1>6
  <1>9. Follows(s.in, e, o.stream.in)
    BY <1>3, <1>5, <1>6 DEF Follows
  <1> QED
    BY <1>1, <1>3, <1>4, <1>6, <1>7, <1>8, <1>9

\* Reading the socket moves a prefix of its cells behind those of the buffer.
LEMMA ReceivedProperties ==
    ASSUME NEW I, NEW O, NEW s \in StreamOf(I, O), NEW wire \in Seq(I),
           BufferSize \in Nat, Len(s.in) <= BufferSize
    PROVE  /\ Received(s, wire) \in StreamOf(I, O)
           /\ Received(s, wire).out = s.out
           /\ ReadSize(s, wire) \in 0..Len(wire)
           /\ Len(Received(s, wire).in) <= BufferSize
           /\ Moved(s.in, wire, ReadSize(s, wire),
                    Received(s, wire).in, Drop(wire, ReadSize(s, wire)))
  <1> DEFINE n == ReadSize(s, wire)
  <1>1. s.in \in Seq(I) /\ Len(s.in) \in Nat /\ Len(wire) \in Nat
    BY LenProperties DEF StreamOf
  <1>2. n \in 0..Len(wire) /\ Len(s.in) + n <= BufferSize
    <2> DEFINE a == Len(wire)
               b == BufferSize - Len(s.in)
    <2>1. a \in Nat /\ b \in Nat
      BY <1>1
    <2>2. n = IF a < b THEN a ELSE b
      BY DEF ReadSize, Smaller
    <2> HIDE DEF a, b, n
    <2>3. n \in 0..a /\ n <= b
      BY <2>1, <2>2
    <2>4. a = Len(wire) /\ b = BufferSize - Len(s.in)
      BY DEF a, b
    <2> QED
      BY <1>1, <2>3, <2>4
  <1>3. /\ Take(wire, n) \in Seq(I)
        /\ Len(Take(wire, n)) = n
        /\ \A i \in 1..n : Take(wire, n)[i] = wire[i]
    BY <1>2, TakeProperties
  <1>4. Received(s, wire) = [s EXCEPT !.in = s.in \o Take(wire, n)]
    BY DEF Received
  <1> HIDE DEF n
  <1>5. /\ s.in \o Take(wire, n) \in Seq(I)
        /\ Len(s.in \o Take(wire, n)) = Len(s.in) + n
        /\ \A i \in 1..(Len(s.in) + n) : (s.in \o Take(wire, n))[i] =
             IF i <= Len(s.in) THEN s.in[i] ELSE Take(wire, n)[i - Len(s.in)]
    <2> DEFINE u == s.in
               w == Take(wire, n)
    <2>1. u \in Seq(I) /\ w \in Seq(I) /\ Len(w) = n
      BY <1>1, <1>3
    <2> HIDE DEF u, w
    <2>2. /\ u \o w \in Seq(I)
          /\ Len(u \o w) = Len(u) + Len(w)
          /\ \A i \in 1..(Len(u) + Len(w)) :
               (u \o w)[i] = IF i <= Len(u) THEN u[i] ELSE w[i - Len(u)]
      BY <2>1, ConcatProperties
    <2>3. /\ u \o w \in Seq(I)
          /\ Len(u \o w) = Len(u) + n
          /\ \A i \in 1..(Len(u) + n) :
               (u \o w)[i] = IF i <= Len(u) THEN u[i] ELSE w[i - Len(u)]
      BY <2>1, <2>2
    <2> QED
      BY <2>3 DEF u, w
  <1>6. Received(s, wire).in = s.in \o Take(wire, n) /\ Received(s, wire).out = s.out
    BY <1>4 DEF StreamOf
  <1>7. Received(s, wire) \in StreamOf(I, O)
    BY <1>4, <1>5 DEF StreamOf
  <1>8. \A i \in 1..Len(s.in) : (s.in \o Take(wire, n))[i] = s.in[i]
    BY <1>1, <1>2, <1>5
  <1>9. ASSUME NEW i \in 1..n
        PROVE  (s.in \o Take(wire, n))[Len(s.in) + i] = wire[i]
    BY <1>1, <1>2, <1>3, <1>5
  <1>10. Len(Drop(wire, n)) = Len(wire) - n /\ \A i \in 1..(Len(wire) - n) : Drop(wire, n)[i] = wire[i + n]
    BY <1>2, DropProperties
  <1>11. Moved(s.in, wire, n, s.in \o Take(wire, n), Drop(wire, n))
    BY <1>2, <1>5, <1>8, <1>9, <1>10 DEF Moved
  <1> QED
    BY <1>2, <1>5, <1>6, <1>7, <1>11 DEF n

-----------------------------------------------------------------------------
(* Where messages end, as cells move.                                      *)

\* A cell is sent.
LEMMA AppendEnds ==
    ASSUME NEW S, NEW s \in Seq(S), NEW x \in S, NEW m
    PROVE  /\ Ends(Append(s, x), m) <=> Ends(s, m) \/ (x.nul /\ x.msg = m)
           /\ OnceIn(s) /\ ~(x.nul /\ Ends(s, x.msg)) => OnceIn(Append(s, x))
  <1> DEFINE t == Append(s, x)
  <1>1. /\ Len(s) \in Nat /\ Len(t) = Len(s) + 1
        /\ \A i \in 1..Len(s) : t[i] = s[i]
        /\ t[Len(s) + 1] = x
    BY AppendProperties, LenProperties
  <1> HIDE DEF t
  <1>2. ASSUME NEW k, NEW p
        PROVE  EndsAt(t, k, p) <=> EndsAt(s, k, p) \/ (p = Len(s) + 1 /\ x.nul /\ x.msg = k)
    BY <1>1 DEF EndsAt
  <1>3. Ends(t, m) <=> Ends(s, m) \/ (x.nul /\ x.msg = m)
    <2>1. 1..Len(t) = 1..Len(s) \cup {Len(s) + 1}
      BY <1>1
    <2>2. \A k, p : EndsAt(s, k, p) => p \in 1..Len(s)
      BY DEF EndsAt
    <2>3. ASSUME Ends(t, m)
          PROVE  Ends(s, m) \/ (x.nul /\ x.msg = m)
      BY <1>2, <2>2, <2>3 DEF Ends
    <2>4. ASSUME Ends(s, m)
          PROVE  Ends(t, m)
      BY <1>2, <2>1, <2>4 DEF Ends
    <2>5. ASSUME x.nul, x.msg = m
          PROVE  Ends(t, m)
      BY <1>2, <2>1, <2>5 DEF Ends
    <2> QED
      BY <2>3, <2>4, <2>5
  <1>4. ASSUME OnceIn(s), ~(x.nul /\ Ends(s, x.msg)),
               NEW k, NEW p \in 1..Len(t), NEW q \in 1..Len(t),
               EndsAt(t, k, p), EndsAt(t, k, q)
        PROVE  p = q
    <2>1. EndsAt(s, k, p) \/ EndsAt(s, k, q) => ~(x.nul /\ x.msg = k)
      BY <1>4 DEF Ends, EndsAt
    <2>2. CASE x.nul /\ x.msg = k
      BY <1>2, <1>4, <2>1, <2>2
    <2>3. CASE ~(x.nul /\ x.msg = k)
      <3>1. EndsAt(s, k, p) /\ EndsAt(s, k, q)
        BY <1>2, <1>4, <2>3
      <3>2. p \in 1..Len(s) /\ q \in 1..Len(s)
        BY <3>1 DEF EndsAt
      <3> QED
        BY <1>4, <3>1, <3>2 DEF OnceIn
    <2> QED
      BY <2>2, <2>3
  <1> QED
    BY <1>3, <1>4 DEF OnceIn, t

\* The first n cells of u move behind those of s.
LEMMA MovedEnds ==
    ASSUME NEW s, NEW u, NEW a, NEW d, NEW n, Moved(s, u, n, a, d),
           Len(s) \in Nat, Len(u) \in Nat,
           OnceIn(s), OnceIn(u), \A m : ~(Ends(s, m) /\ Ends(u, m))
    PROVE  /\ OnceIn(a) /\ OnceIn(d)
           /\ \A m : ~(Ends(a, m) /\ Ends(d, m))
           /\ \A m : Ends(a, m) \/ Ends(d, m) => Ends(s, m) \/ Ends(u, m)
  <1>0. /\ n \in 0..Len(u) /\ Len(a) = Len(s) + n /\ Len(d) = Len(u) - n
        /\ \A i \in 1..Len(s) : a[i] = s[i]
        /\ \A i \in 1..n : a[Len(s) + i] = u[i]
        /\ \A i \in 1..(Len(u) - n) : d[i] = u[i + n]
    BY DEF Moved
  <1>1. ASSUME NEW m, NEW p, EndsAt(a, m, p)
        PROVE  IF p <= Len(s) THEN EndsAt(s, m, p)
               ELSE p - Len(s) <= n /\ EndsAt(u, m, p - Len(s))
    <2>1. CASE p <= Len(s)
      BY <1>0, <1>1, <2>1 DEF EndsAt
    <2>2. CASE ~(p <= Len(s))
      <3>1. p \in Int /\ p - Len(s) \in 1..n /\ p = Len(s) + (p - Len(s))
        BY <1>0, <1>1, <2>2 DEF EndsAt
      <3>2. a[p] = u[p - Len(s)]
        BY <1>0, <3>1
      <3> QED
        BY <1>0, <1>1, <2>2, <3>1, <3>2 DEF EndsAt
    <2> QED
      BY <1>0, <2>1, <2>2
  <1>2. ASSUME NEW m, NEW p, EndsAt(d, m, p)
        PROVE  EndsAt(u, m, p + n)
    BY <1>0, <1>2 DEF EndsAt
  <1>3. ASSUME NEW m, Ends(a, m), Ends(d, m)
        PROVE  FALSE
    <2>1. PICK p \in 1..Len(a), q \in 1..Len(d) : EndsAt(a, m, p) /\ EndsAt(d, m, q)
      BY <1>0, <1>3 DEF Ends
    <2>2. EndsAt(u, m, q + n) /\ q + n \in 1..Len(u)
      BY <1>0, <1>2, <2>1 DEF EndsAt
    <2>3. CASE p <= Len(s)
      BY <1>0, <1>1, <2>1, <2>2, <2>3, ZenonT(60) DEF Ends, EndsAt
    <2>4. CASE ~(p <= Len(s))
      <3>1. p - Len(s) \in 1..n /\ EndsAt(u, m, p - Len(s)) /\ n <= Len(u)
        BY <1>0, <1>1, <2>1, <2>4
      <3>2. p - Len(s) = q + n
        BY <1>0, <2>2, <3>1 DEF OnceIn
      <3> QED
        BY <1>0, <2>1, <3>1, <3>2
    <2> QED
      BY <1>0, <2>3, <2>4
  <1>4. ASSUME NEW m, NEW p \in 1..Len(a), NEW q \in 1..Len(a),
               EndsAt(a, m, p), EndsAt(a, m, q)
        PROVE  p = q
    <2>1. CASE p <= Len(s) /\ q <= Len(s)
      BY <1>0, <1>1, <1>4, <2>1 DEF OnceIn
    <2>2. CASE ~(p <= Len(s)) /\ ~(q <= Len(s))
      <3>1. /\ EndsAt(u, m, p - Len(s)) /\ EndsAt(u, m, q - Len(s))
            /\ p - Len(s) \in 1..Len(u) /\ q - Len(s) \in 1..Len(u)
        BY <1>0, <1>1, <1>4, <2>2 DEF EndsAt
      <3>2. p - Len(s) = q - Len(s)
        BY <1>0, <3>1 DEF OnceIn
      <3> QED
        BY <1>0, <3>2
    <2>3. CASE p <= Len(s) /\ ~(q <= Len(s))
      <3>1. EndsAt(s, m, p) /\ EndsAt(u, m, q - Len(s))
        BY <1>0, <1>1, <1>4, <2>3
      <3> QED
        BY <1>0, <3>1 DEF Ends, EndsAt
    <2>4. CASE ~(p <= Len(s)) /\ q <= Len(s)
      <3>1. EndsAt(s, m, q) /\ EndsAt(u, m, p - Len(s))
        BY <1>0, <1>1, <1>4, <2>4
      <3> QED
        BY <1>0, <3>1 DEF Ends, EndsAt
    <2> QED
      BY <1>0, <2>1, <2>2, <2>3, <2>4
  <1>5. ASSUME NEW m, NEW p \in 1..Len(d), NEW q \in 1..Len(d),
               EndsAt(d, m, p), EndsAt(d, m, q)
        PROVE  p = q
    <2>1. /\ EndsAt(u, m, p + n) /\ EndsAt(u, m, q + n)
          /\ p + n \in 1..Len(u) /\ q + n \in 1..Len(u)
      BY <1>0, <1>2, <1>5 DEF EndsAt
    <2>2. p + n = q + n
      BY <1>0, <2>1 DEF OnceIn
    <2> QED
      BY <1>0, <2>2
  <1>6. ASSUME NEW m, Ends(a, m) \/ Ends(d, m)
        PROVE  Ends(s, m) \/ Ends(u, m)
    <2>1. \A k, p : (EndsAt(s, k, p) => p \in 1..Len(s)) /\ (EndsAt(u, k, p) => p \in 1..Len(u))
      BY DEF EndsAt
    <2>2. ASSUME NEW p, EndsAt(a, m, p)
          PROVE  Ends(s, m) \/ Ends(u, m)
      <3>1. EndsAt(s, m, p) \/ EndsAt(u, m, p - Len(s))
        BY <1>0, <1>1, <2>2
      <3> QED
        BY <1>0, <2>1, <3>1 DEF Ends
    <2>3. ASSUME NEW p, EndsAt(d, m, p)
          PROVE  Ends(s, m) \/ Ends(u, m)
      <3>1. EndsAt(u, m, p + n)
        BY <1>0, <1>2, <2>3
      <3> QED
        BY <1>0, <2>1, <3>1 DEF Ends
    <2> QED
      BY <1>0, <1>6, <2>2, <2>3 DEF Ends
  <1> QED
    BY <1>0, <1>3, <1>4, <1>5, <1>6 DEF OnceIn

\* The cells up to place e are consumed: the message that ended there ends
\* nowhere, the others end where they did, or not.
LEMMA ConsumedEnds ==
    ASSUME NEW s, NEW d, NEW e, Follows(s, e, d), Len(s) \in Nat, s[e].nul, OnceIn(s)
    PROVE  /\ OnceIn(d)
           /\ \A m : Ends(d, m) => Ends(s, m)
           /\ Ends(s, s[e].msg) /\ ~Ends(d, s[e].msg)
  <1>0. /\ e \in 1..Len(s) /\ Len(d) = Len(s) - e
        /\ \A i \in 1..(Len(s) - e) : d[i] = s[i + e]
    BY DEF Follows
  <1>1. ASSUME NEW m, NEW p, EndsAt(d, m, p)
        PROVE  p + e \in 1..Len(s) /\ EndsAt(s, m, p + e)
    BY <1>0, <1>1 DEF EndsAt
  <1>2. EndsAt(s, s[e].msg, e)
    BY <1>0 DEF EndsAt
  <1>3. ASSUME NEW p \in 1..Len(d), EndsAt(d, s[e].msg, p)
        PROVE  FALSE
    <2>1. p + e = e
      BY <1>0, <1>1, <1>2, <1>3 DEF OnceIn
    <2> QED
      BY <1>0, <2>1
  <1>4. ASSUME NEW m, NEW p \in 1..Len(d), NEW q \in 1..Len(d),
               EndsAt(d, m, p), EndsAt(d, m, q)
        PROVE  p = q
    <2>1. p + e = q + e
      BY <1>0, <1>1, <1>4 DEF OnceIn
    <2> QED
      BY <1>0, <2>1
  <1> QED
    BY <1>0, <1>1, <1>2, <1>3, <1>4 DEF Ends, OnceIn

\* Reading the socket neither loses nor doubles the end of a message.
LEMMA ReceivedEnds ==
    ASSUME NEW I, NEW O, NEW s \in StreamOf(I, O), NEW wire \in Seq(I),
           BufferSize \in Nat, Len(s.in) <= BufferSize,
           OnceIn(s.in), OnceIn(wire), \A m : ~(Ends(s.in, m) /\ Ends(wire, m))
    PROVE  LET a == Received(s, wire).in
               d == Drop(wire, ReadSize(s, wire))
           IN /\ OnceIn(a) /\ OnceIn(d)
              /\ \A m : ~(Ends(a, m) /\ Ends(d, m))
              /\ \A m : Ends(a, m) \/ Ends(d, m) => Ends(s.in, m) \/ Ends(wire, m)
  <1> DEFINE u == s.in
             n == ReadSize(s, wire)
             a == Received(s, wire).in
             d == Drop(wire, n)
  <1>1. Len(u) \in Nat /\ Len(wire) \in Nat
    BY LenProperties DEF StreamOf
  <1>2. Moved(u, wire, n, a, d)
    BY ReceivedProperties
  <1>3. OnceIn(u) /\ OnceIn(wire) /\ \A m : ~(Ends(u, m) /\ Ends(wire, m))
    OBVIOUS
  <1> HIDE DEF u, n, a, d
  <1>4. /\ OnceIn(a) /\ OnceIn(d)
        /\ \A m : ~(Ends(a, m) /\ Ends(d, m))
        /\ \A m : Ends(a, m) \/ Ends(d, m) => Ends(u, m) \/ Ends(wire, m)
    BY <1>1, <1>2, <1>3, MovedEnds
  <1> QED
    BY <1>4 DEF u, n, a, d

\* A message that is delivered ends nowhere else.
LEMMA DeliveredOnce ==
    ASSUME NEW I, NEW O, NEW s \in StreamOf(I, O), NEW o \in Delivered(s), OnceIn(s.in)
    PROVE  /\ OnceIn(o.stream.in)
           /\ \A m : Ends(o.stream.in, m) => Ends(s.in, m)
           /\ Ends(s.in, o.message) /\ ~Ends(o.stream.in, o.message)
  <1> DEFINE u == s.in
             d == o.stream.in
  <1>1. PICK e \in 1..Len(u) :
          /\ u[e].nul /\ o.message = u[e].msg
          /\ Follows(u, e, d)
    BY DeliveredProperties
  <1>2. Len(u) \in Nat
    BY LenProperties DEF StreamOf
  <1>3. OnceIn(u)
    OBVIOUS
  <1> HIDE DEF u, d
  <1>4. OnceIn(d) /\ (\A m : Ends(d, m) => Ends(u, m)) /\ Ends(u, u[e].msg) /\ ~Ends(d, u[e].msg)
    BY <1>1, <1>2, <1>3, ConsumedEnds
  <1> QED
    BY <1>1, <1>4 DEF u, d

-----------------------------------------------------------------------------
(* Windows laid end to end: moving cells keeps their concatenation.        *)

\* A window is its first n cells and the others.
LEMMA TakeDrop ==
    ASSUME NEW S, NEW s \in Seq(S), NEW n \in 0..Len(s)
    PROVE  Take(s, n) \o Drop(s, n) = s
  <1>1. Len(s) \in Nat /\ 1 \in 1..Len(s) + 1 /\ n \in 1 - 1..Len(s) /\ Len(s) \in n..Len(s)
    BY LenProperties
  <1>2. SubSeq(s, 1, n) \o SubSeq(s, n + 1, Len(s)) = SubSeq(s, 1, Len(s))
    BY <1>1, ConcatAdjacentSubSeq
  <1> QED
    BY <1>2, SubSeqFull DEF Take, Drop

\* Dropping cells of the first of two windows.
LEMMA DropConcat ==
    ASSUME NEW S, NEW s \in Seq(S), NEW t \in Seq(S), NEW n \in 0..Len(s)
    PROVE  Drop(s \o t, n) = Drop(s, n) \o t
  <1>1. /\ Take(s, n) \in Seq(S) /\ Len(Take(s, n)) = n
        /\ Drop(s, n) \in Seq(S) /\ Len(Drop(s, n)) = Len(s) - n
        /\ \A i \in 1..(Len(s) - n) : Drop(s, n)[i] = s[i + n]
    BY TakeProperties, DropProperties
  <1>2. /\ s \o t \in Seq(S) /\ Len(s \o t) = Len(s) + Len(t)
        /\ \A i \in 1..Len(s) + Len(t) :
             (s \o t)[i] = IF i <= Len(s) THEN s[i] ELSE t[i - Len(s)]
    BY ConcatProperties
  <1>3. Len(s) \in Nat /\ Len(t) \in Nat /\ n \in Nat /\ n <= Len(s)
    BY LenProperties
  <1>4. /\ Drop(s \o t, n) \in Seq(S) /\ Len(Drop(s \o t, n)) = Len(s) + Len(t) - n
        /\ \A i \in 1..(Len(s) + Len(t) - n) : Drop(s \o t, n)[i] = (s \o t)[i + n]
    <2> DEFINE w == s \o t
    <2>1. w \in Seq(S) /\ Len(w) = Len(s) + Len(t) /\ n \in 0..Len(w)
      BY <1>2, <1>3
    <2> HIDE DEF w
    <2>2. /\ Drop(w, n) \in Seq(S) /\ Len(Drop(w, n)) = Len(w) - n
          /\ \A i \in 1..(Len(w) - n) : Drop(w, n)[i] = w[i + n]
      BY <2>1, DropProperties
    <2>3. /\ Drop(w, n) \in Seq(S) /\ Len(Drop(w, n)) = Len(s) + Len(t) - n
          /\ \A i \in 1..(Len(s) + Len(t) - n) : Drop(w, n)[i] = w[i + n]
      BY <2>1, <2>2
    <2> QED
      BY <2>3 DEF w
  <1>5. /\ Drop(s, n) \o t \in Seq(S) /\ Len(Drop(s, n) \o t) = Len(s) - n + Len(t)
        /\ \A i \in 1..(Len(s) - n) + Len(t) : (Drop(s, n) \o t)[i] =
             IF i <= Len(s) - n THEN Drop(s, n)[i] ELSE t[i - (Len(s) - n)]
    <2> DEFINE d == Drop(s, n)
    <2>1. d \in Seq(S) /\ Len(d) = Len(s) - n
      BY <1>1
    <2> HIDE DEF d
    <2>2. /\ d \o t \in Seq(S) /\ Len(d \o t) = Len(d) + Len(t)
          /\ \A i \in 1..Len(d) + Len(t) : (d \o t)[i] = IF i <= Len(d) THEN d[i] ELSE t[i - Len(d)]
      BY <2>1, ConcatProperties
    <2>3. /\ d \o t \in Seq(S) /\ Len(d \o t) = Len(s) - n + Len(t)
          /\ \A i \in 1..(Len(s) - n) + Len(t) :
               (d \o t)[i] = IF i <= Len(s) - n THEN d[i] ELSE t[i - (Len(s) - n)]
      BY <2>1, <2>2
    <2> QED
      BY <2>3 DEF d
  <1>6. ASSUME NEW i \in 1..(Len(s) + Len(t) - n)
        PROVE  Drop(s \o t, n)[i] = (Drop(s, n) \o t)[i]
    <2>1. /\ Drop(s \o t, n)[i] = (s \o t)[i + n]
          /\ i + n \in 1..Len(s) + Len(t) /\ i \in Nat
          /\ i \in 1..(Len(s) - n) + Len(t)
      BY <1>3, <1>4
    <2>2. CASE i <= Len(s) - n
      BY <1>1, <1>2, <1>3, <1>5, <2>1, <2>2
    <2>3. CASE ~(i <= Len(s) - n)
      <3>1. i + n - Len(s) = i - (Len(s) - n) /\ ~(i + n <= Len(s))
        BY <1>3, <2>1, <2>3
      <3> QED
        BY <1>2, <1>5, <2>1, <2>3, <3>1
    <2> QED
      BY <2>2, <2>3
  <1> DEFINE a == Drop(s \o t, n)
             b == Drop(s, n) \o t
  <1>7. /\ a \in Seq(S) /\ b \in Seq(S) /\ Len(a) = Len(b)
        /\ \A i \in 1..Len(a) : a[i] = b[i]
    BY <1>3, <1>4, <1>5, <1>6
  <1> HIDE DEF a, b
  <1>8. a = b
    BY <1>7, SeqEqual
  <1> QED
    BY <1>8 DEF a, b

\* A window, cut in two.
Split(window, first, rest) == first \o rest = window

\* A flush moves cells to the socket, or none.
LEMMA FlushConcat ==
    ASSUME NEW I, NEW O, NEW s \in StreamOf(I, O), NEW room \in Int,
           NEW gone \in BOOLEAN, NEW o \in FlushOutcomes(s, room, gone)
    PROVE  /\ Split(s.out, o.sent, o.stream.out)
           /\ o.result = "empty" => o.stream.out = <<>>
  <1>1. Len(s.out) \in Nat /\ s.out \in Seq(O)
    BY LenProperties DEF StreamOf
  <1>2. CASE gone
    <2>1. PICK epipe \in BOOLEAN :
            o = [stream |-> [s EXCEPT !.hup = s.hup \/ epipe], sent |-> <<>>, result |-> "error"]
      BY <1>2 DEF FlushOutcomes
    <2>2. o.stream.out = s.out /\ o.sent = <<>> /\ o.result = "error"
      BY <2>1 DEF StreamOf
    <2> QED
      BY <1>1, <1>2, <2>2, ConcatEmptySeq DEF Split
  <1>3. CASE ~gone
    <2>1. PICK k \in Taken(Len(s.out), room) :
            o = [stream |-> [s EXCEPT !.out = Drop(s.out, k)],
                 sent |-> Take(s.out, k),
                 result |-> IF k = Len(s.out) THEN "empty" ELSE "rest"]
      BY <1>3 DEF FlushOutcomes
    <2>2. k \in 0..Len(s.out)
      BY <1>1, <2>1 DEF Taken, Smaller
    <2>3. /\ Drop(s.out, k) \in Seq(O) /\ Len(Drop(s.out, k)) = Len(s.out) - k
      BY <1>1, <2>2, DropProperties
    <2>4. /\ o.stream.out = Drop(s.out, k) /\ o.sent = Take(s.out, k)
          /\ o.result = "empty" <=> k = Len(s.out)
      BY <2>1 DEF StreamOf
    <2>5. Drop(s.out, k) = <<>> <=> Len(Drop(s.out, k)) = 0
      BY <2>3, EmptySeq
    <2>6. k = Len(s.out) <=> Len(Drop(s.out, k)) = 0
      BY <1>1, <2>2, <2>3
    <2> QED
      BY <1>1, <2>2, <2>4, <2>5, <2>6, TakeDrop DEF Split
  <1> QED
    BY <1>2, <1>3

\* What waits, with message m behind it.
OutWith(s, m, n) == s.out \o Frame(m, n)

\* A write appends its message to what waits.
LEMMA WriteConcat ==
    ASSUME NEW I, NEW O, NEW s \in StreamOf(I, O), NEW m, NEW n \in Nat,
           Frame(m, n) \in Seq(O),
           NEW room \in Int, NEW gone \in BOOLEAN,
           NEW o \in WriteOutcomes(s, m, n, room, gone)
    PROVE  /\ Split(OutWith(s, m, n), o.sent, o.stream.out)
           /\ o.whole = FALSE \/ o.stream.out = <<>>
  <1> DEFINE t == [s EXCEPT !.out = @ \o Frame(m, n)]
  <1>1. Frame(m, n) \in Seq(O) /\ s.out \in Seq(O)
    BY DEF StreamOf
  <1>2. s.out \o Frame(m, n) \in Seq(O)
    BY <1>1, JoinProperties, ZenonT(40)
  <1>3. t \in StreamOf(I, O) /\ t.out = s.out \o Frame(m, n)
    BY <1>2 DEF StreamOf
  <1>4. PICK f \in FlushOutcomes(t, room, gone) :
          o = [stream |-> f.stream, sent |-> f.sent, whole |-> f.result = "empty"]
    BY DEF WriteOutcomes
  <1> HIDE DEF t
  <1>5. /\ Split(t.out, f.sent, f.stream.out)
        /\ f.result = "empty" => f.stream.out = <<>>
    <2>1. t \in StreamOf(I, O) /\ f \in FlushOutcomes(t, room, gone)
      BY <1>3, <1>4
    <2> QED
      BY <2>1, FlushConcat
  <1> QED
    BY <1>3, <1>4, <1>5 DEF OutWith

\* Reading the socket moves cells to the input buffer.
LEMMA ReceivedConcat ==
    ASSUME NEW I, NEW O, NEW s \in StreamOf(I, O), NEW wire \in Seq(I),
           BufferSize \in Nat, Len(s.in) <= BufferSize
    PROVE  Received(s, wire).in \o Drop(wire, ReadSize(s, wire)) = s.in \o wire
  <1> DEFINE n == ReadSize(s, wire)
             u == s.in
             w == Take(wire, n)
             d == Drop(wire, n)
  <1>1. n \in 0..Len(wire)
    BY ReceivedProperties
  <1>2. Received(s, wire).in = u \o w /\ u \in Seq(I)
    BY DEF Received, StreamOf
  <1> HIDE DEF n, u
  <1>3. w \in Seq(I) /\ d \in Seq(I) /\ w \o d = wire
    BY <1>1, TakeProperties, DropProperties, TakeDrop
  <1> HIDE DEF w, d
  <1>4. (u \o w) \o d = u \o (w \o d)
    <2>1. u \in Seq(I) /\ w \in Seq(I) /\ d \in Seq(I)
      BY <1>2, <1>3
    <2> QED
      BY <2>1, ConcatAssociative
  <1>5. Received(s, wire).in \o d = u \o wire
    BY <1>2, <1>3, <1>4
  <1> QED
    BY <1>5 DEF d, n, u

\* New is old with the n cells of message m behind it.
Grown(old, new, m, n) ==
    /\ Len(new) = Len(old) + n
    /\ \A i \in 1..Len(old) : new[i] = old[i]
    /\ \A i \in 1..n : new[Len(old) + i].msg = m
    /\ \A i \in 1..n : new[Len(old) + i].nul <=> i = n

\* New is what is left of old when its end is lost.
Prefix(old, new) == Len(new) <= Len(old) /\ \A i \in 1..Len(new) : new[i] = old[i]

\* A message is put behind a window.
LEMMA ConcatFrame ==
    ASSUME NEW S, NEW s \in Seq(S), NEW m, NEW n \in Nat, Frame(m, n) \in Seq(S)
    PROVE  s \o Frame(m, n) \in Seq(S) /\ Grown(s, s \o Frame(m, n), m, n)
  <1> DEFINE f == Frame(m, n)
  <1>1. Len(f) = n /\ (\A i \in 1..n : f[i].msg = m) /\ \A i \in 1..n : f[i].nul <=> i = n
    <2>1. Len(f) = n
      <3> DEFINE O == [msg : {m}, nul : BOOLEAN]
      <3>1. \A nul \in BOOLEAN : [msg |-> m, nul |-> nul] \in O
        OBVIOUS
      <3> HIDE DEF O
      <3> QED
        BY <3>1, FrameType
    <2> QED
      BY <2>1 DEF Frame
  <1>2. f \in Seq(S) /\ Len(s) \in Nat
    BY LenProperties
  <1> HIDE DEF f
  <1> DEFINE t == s \o f
  <1>3. /\ t \in Seq(S) /\ Len(t) = Len(s) + Len(f)
        /\ \A i \in 1..Len(s) + Len(f) : t[i] = IF i <= Len(s) THEN s[i] ELSE f[i - Len(s)]
    BY <1>2, ConcatProperties
  <1> HIDE DEF t
  <1>4. \A i \in 1..Len(s) : t[i] = s[i]
    BY <1>1, <1>2, <1>3
  <1>5. ASSUME NEW i \in 1..n PROVE t[Len(s) + i] = f[i]
    BY <1>1, <1>2, <1>3
  <1>6. \A i \in 1..n : t[Len(s) + i].msg = m
    BY <1>1, <1>5
  <1>7. \A i \in 1..n : t[Len(s) + i].nul <=> i = n
    BY <1>1, <1>5
  <1>8. t \in Seq(S) /\ Grown(s, t, m, n)
    BY <1>1, <1>3, <1>4, <1>6, <1>7 DEF Grown
  <1> QED
    BY <1>8 DEF t, f

\* The first part of a window is a prefix of it.
LEMMA ConcatPrefix ==
    ASSUME NEW S, NEW s \in Seq(S), NEW t \in Seq(S)
    PROVE  Prefix(s \o t, s)
  <1> DEFINE w == s \o t
  <1>1. /\ w \in Seq(S) /\ Len(w) = Len(s) + Len(t)
        /\ \A i \in 1..Len(s) + Len(t) : w[i] = IF i <= Len(s) THEN s[i] ELSE t[i - Len(s)]
    BY ConcatProperties
  <1>2. Len(s) \in Nat /\ Len(t) \in Nat
    BY LenProperties
  <1> HIDE DEF w
  <1>3. Prefix(w, s)
    BY <1>1, <1>2 DEF Prefix
  <1> QED
    BY <1>3 DEF w
=============================================================================
