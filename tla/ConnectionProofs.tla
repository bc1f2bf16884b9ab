-------------------------- MODULE ConnectionProofs --------------------------
(***************************************************************************)
(* Proofs about Connection, for any number of calls and replies, and       *)
(* buffers and sockets of any size, whatever the program and the server    *)
(* do: its types, what it polls for, whose callbacks it keeps; and, of a   *)
(* program that gives up at an error, the order of the replies.            *)
(***************************************************************************)
EXTENDS Connection, StreamProofs

ReplyStreams == StreamOf(ReplyCells, RequestCells)

-----------------------------------------------------------------------------
(* The inductive invariant.                                                *)

\* Call i got its last reply.
Finished(i) == \E j \in 1..Len(program.got) :
                  program.got[j].call = i /\ program.got[j].kind = "final"

\* Call i still has to get it.
Waits(i) == /\ i \in 1..Len(program.calls) /\ program.calls[i].kind # "oneway"
            /\ ~Finished(i)

\* The window of the input buffer stays in the buffer.
Buffered == Len(stream.in) <= BufferSize

\* The callback of the head of the queue is executed with its last reply.
Retires == pc = "callback" /\ reply.kind = "final"

\* The queue holds the calls that wait, oldest first; during the callback of
\* its last reply, a call is still at the head.
QueueOrdered == \A k, l \in 1..Len(pending) : k < l => pending[k].call < pending[l].call

EntryWaits(k) ==
    /\ pending[k].call \in 1..Len(program.calls)
    /\ program.calls[pending[k].call].kind # "oneway"
    /\ pending[k].more <=> program.calls[pending[k].call].kind = "more"
    /\ Finished(pending[k].call) <=> (Retires /\ k = 1)

QueueWaits == \A k \in 1..Len(pending) : EntryWaits(k)

WaitsQueued == \A i \in 1..Len(program.calls) : Waits(i) => \E k \in 1..Len(pending) : pending[k].call = i

\* The loop reads an open connection.
ReadsOpen == pc = "read" => open

HeadIsReplied == pc = "callback" => pending # <<>> /\ reply.kind \in {"final", "continues"}

\* Replies are for calls that were made.
GotKnown == \A j \in 1..Len(program.got) : program.got[j].call \in 1..Len(program.calls)

QueueInv == QueueOrdered /\ QueueWaits /\ WaitsQueued /\ GotKnown /\ HeadIsReplied

\* The cells on their way to the program, and to the server.
Incoming == stream.in \o (sock.down \o server.out)
Outgoing == sock.up \o stream.out

\* A message without a NUL within a buffer keeps its cells together, so it is
\* never delivered.
EndlessFits(cells) ==
    \A p \in 1..Len(cells) :
       cells[p].nul /\ cells[p].msg.kind = "endless" =>
          p > BufferSize /\ \A q \in (p - BufferSize)..(p - 1) : ~cells[q].nul

Kept == open => EndlessFits(Incoming)

Queues == TypeOK /\ Buffered /\ ReadsOpen /\ WaitsAreArmed /\ QueueInv /\ Kept

-----------------------------------------------------------------------------
(* Types.                                                                  *)

CallRecords == [kind : Kinds, sent : BOOLEAN]
GotRecords == [call : CallNo, kind : {"final", "continues"}]
ProgramType == [calls : Seq(CallRecords), got : Seq(GotRecords),
                failed : BOOLEAN, closedCallback : BOOLEAN]
ServerType == [peer : {"open", "closed"}, todo : Seq(CallNo), replies : 0..MaxReplies,
               out : Seq(ReplyCells), noise : 0..MaxNoise]
SockType == [up : Seq(RequestCells), down : Seq(ReplyCells)]

\* TypeOK, with a name for each part of it.
TypeParts ==
    /\ stream \in ReplyStreams
    /\ open \in BOOLEAN
    /\ events \subseteq {"IN", "OUT"}
    /\ pending \in Seq(Entries)
    /\ pc \in {"idle", "read", "callback"}
    /\ reply \in Messages \cup {NoReply}
    /\ program \in ProgramType
    /\ server \in ServerType
    /\ sock \in SockType

\* The named parts are TypeOK.
LEMMA TypeInParts == TypeOK <=> TypeParts
  BY DEF TypeOK, TypeParts, ReplyStreams, StreamOf, CallRecords, GotRecords, ProgramType,
         ServerType, SockType

\* The same after a step.
LEMMA TypeInPartsNext == TypeOK' <=> TypeParts'
  BY DEF TypeOK, TypeParts, ReplyStreams, StreamOf, CallRecords, GotRecords, ProgramType,
         ServerType, SockType

\* The constants are numbers and flags.
LEMMA ConstantTypes ==
    /\ BufferSize \in Nat /\ BufferSize > 0 /\ SocketSize \in Nat
    /\ MaxCalls \in Nat /\ MaxReplies \in Nat /\ MaxReplies > 0 /\ MaxNoise \in Nat
    /\ GiveUp \in BOOLEAN
  BY BufferSizeAssumption, ConnectionAssumption

\* A new stream is empty.
LEMMA NewStreamType ==
    /\ NewStream \in ReplyStreams
    /\ NewStream.in = <<>> /\ NewStream.out = <<>> /\ Len(NewStream.in) = 0
  BY EmptySeq DEF NewStream, ReplyStreams, StreamOf

\* The room in the socket and the end of the server have their types.
LEMMA RoomType == TypeOK => Room \in Int /\ ServerGone \in BOOLEAN
  <1> SUFFICES ASSUME TypeOK PROVE Room \in Int /\ ServerGone \in BOOLEAN
    OBVIOUS
  <1>1. sock.up \in Seq(RequestCells)
    BY DEF TypeOK
  <1>2. Len(sock.up) \in Nat
    BY <1>1, LenProperties
  <1> QED
    BY <1>2, ConstantTypes DEF Room, ServerGone

\* The cells of a request, and of a reply, have their types.
LEMMA FrameCells ==
    /\ \A i \in CallNo : Frame(i, RequestSize) \in Seq(RequestCells)
    /\ \A m \in Messages, n \in Nat : Frame(m, n) \in Seq(ReplyCells)
  <1>1. ASSUME NEW i \in CallNo PROVE Frame(i, RequestSize) \in Seq(RequestCells)
    <2>1. \A nul \in BOOLEAN : [msg |-> i, nul |-> nul] \in RequestCells
      BY DEF RequestCells
    <2> QED
      BY <2>1, FrameType DEF RequestSize
  <1>2. ASSUME NEW m \in Messages, NEW n \in Nat PROVE Frame(m, n) \in Seq(ReplyCells)
    <2>1. \A nul \in BOOLEAN : [msg |-> m, nul |-> nul] \in ReplyCells
      BY DEF ReplyCells
    <2> QED
      BY <2>1, FrameType
  <1> QED
    BY <1>1, <1>2

\* The first message of the buffer: where it ends, and what it leaves.
LEMMA FirstMessage ==
    ASSUME NEW s \in ReplyStreams, NEW o \in Delivered(s)
    PROVE  /\ o.stream \in ReplyStreams /\ o.stream.out = s.out
           /\ o.message \in Messages
           /\ \E e \in 1..Len(s.in) :
                /\ s.in[e].nul /\ o.message = s.in[e].msg
                /\ \A p \in 1..(e - 1) : ~s.in[p].nul
                /\ o.stream.in = Drop(s.in, e)
                /\ Len(o.stream.in) = Len(s.in) - e
  <1>1. s \in StreamOf(ReplyCells, RequestCells) /\ s.in \in Seq(ReplyCells)
    BY DEF ReplyStreams, StreamOf
  <1>2. DOMAIN s.in = 1..Len(s.in) /\ Len(s.in) \in Nat
    BY <1>1, LenProperties
  <1>3. PICK e \in FirstNul(s) :
          o = [message |-> s.in[e].msg, stream |-> [s EXCEPT !.in = Drop(s.in, e)]]
    BY DEF Delivered
  <1>4. e \in 1..Len(s.in) /\ s.in[e].nul /\ \A p \in 1..(e - 1) : ~s.in[p].nul
    BY <1>2, <1>3 DEF FirstNul
  <1>5. s.in[e] \in ReplyCells
    BY <1>1, <1>4, ElementOfSeq
  <1>6. o.message \in Messages /\ o.message = s.in[e].msg
    BY <1>3, <1>5 DEF ReplyCells
  <1>7. o.stream.in = Drop(s.in, e) /\ o.stream.out = s.out
    BY <1>1, <1>3 DEF StreamOf
  <1>8. o.stream \in ReplyStreams
    BY <1>1, DeliveredProperties DEF ReplyStreams
  <1>9. Len(o.stream.in) = Len(s.in) - e
    <2>1. e \in 0..Len(s.in)
      BY <1>2, <1>4
    <2> QED
      BY <1>1, <1>7, <2>1, DropProperties
  <1> QED
    BY <1>4, <1>6, <1>7, <1>8, <1>9

\* A step of the program writes, closes or retires with the right types.
LEMMA ProgramTypes ==
    ASSUME TypeOK, Buffered, HeadIsReplied, Program
    PROVE  TypeOK' /\ Buffered'
  <1>1. /\ TypeParts
        /\ stream \in StreamOf(ReplyCells, RequestCells)
        /\ sock.up \in Seq(RequestCells) /\ sock.down \in Seq(ReplyCells)
        /\ program.calls \in Seq(CallRecords) /\ program.got \in Seq(GotRecords)
    BY TypeInParts DEF TypeParts, ReplyStreams, SockType, ProgramType
  <1>2. ASSUME NEW kind \in Kinds, Call(kind) PROVE TypeOK' /\ Buffered'
    <2>1. Len(program.calls) \in Nat /\ Len(program.calls) + 1 \in CallNo
      <3>1. Len(program.calls) \in Nat
        BY <1>1, LenProperties
      <3> QED
        BY <1>2, <3>1, ConstantTypes DEF Call, CallNo
    <2> DEFINE i == Len(program.calls) + 1
    <2> HIDE DEF i
    <2>2. pending' \in Seq(Entries)
      <3>1. [call |-> i, more |-> kind = "more"] \in Entries
        BY <2>1 DEF i, Entries
      <3>2. Append(pending, [call |-> i, more |-> kind = "more"]) \in Seq(Entries)
        BY <1>1, <3>1, AppendProperties DEF TypeParts
      <3> QED
        BY <1>1, <1>2, <3>2 DEF Call, Queued, QueueTail, i, TypeParts
    <2>3. \A sent \in BOOLEAN : Append(program.calls, [kind |-> kind, sent |-> sent]) \in Seq(CallRecords)
      <3> TAKE sent \in BOOLEAN
      <3>1. [kind |-> kind, sent |-> sent] \in CallRecords
        BY DEF CallRecords
      <3> QED
        BY <1>1, <3>1, AppendProperties
    <2>4. CASE CallFails(kind)
      <3>1. program' \in ProgramType
        BY <1>1, <2>3, <2>4 DEF CallFails, Told, TypeParts, ProgramType
      <3> QED
        BY <1>1, <1>2, <2>2, <2>4, <3>1, TypeInPartsNext DEF CallFails, Call, TypeParts, Buffered
    <2>5. CASE CallSent(kind)
      <3>1. program' \in ProgramType
        BY <1>1, <2>3, <2>5 DEF CallSent, TypeParts, ProgramType
      <3>2. PICK o \in WriteOutcomes(stream, i, RequestSize, Room, ServerGone) :
              /\ stream' = o.stream
              /\ sock' = [sock EXCEPT !.up = @ \o o.sent]
              /\ events' = events \cup (IF kind = "oneway" THEN {} ELSE {"IN"}) \cup CallOut(o)
        BY <2>5 DEF CallSent, i
      <3>3. /\ o.stream \in StreamOf(ReplyCells, RequestCells) /\ o.stream.in = stream.in
            /\ o.sent \in Seq(RequestCells)
        <4>1. \A nul \in BOOLEAN : [msg |-> i, nul |-> nul] \in RequestCells
          BY <2>1 DEF RequestCells, i
        <4>2. Room \in Int /\ ServerGone \in BOOLEAN /\ RequestSize \in Nat
          BY RoomType DEF RequestSize
        <4> QED
          BY <1>1, <3>2, <4>1, <4>2, WriteType
      <3>4. sock.up \o o.sent \in Seq(RequestCells)
        BY <1>1, <3>3, ConcatProperties
      <3>5. sock' \in SockType /\ stream' \in ReplyStreams /\ Len(stream'.in) = Len(stream.in)
        BY <1>1, <3>2, <3>3, <3>4 DEF TypeParts, SockType, ReplyStreams
      <3>6. events' \subseteq {"IN", "OUT"}
        BY <1>1, <3>2 DEF TypeParts, CallOut
      <3> QED
        BY <1>1, <1>2, <2>2, <2>5, <3>1, <3>5, <3>6, TypeInPartsNext DEF CallSent, Call, TypeParts, Buffered
    <2> QED
      BY <1>2, <2>4, <2>5 DEF Call
  <1>3. CASE Close
    <2>1. stream' \in ReplyStreams /\ Len(stream'.in) = 0 /\ 0 <= BufferSize
      BY <1>3, NewStreamType, ConstantTypes DEF Close, Freed
    <2>2. sock' \in SockType
      BY <1>1, <1>3, EmptySeq DEF Close, Freed, SockType, TypeParts
    <2>3. program' \in ProgramType
      BY <1>1, <1>3 DEF Close, ProgramType, TypeParts
    <2> QED
      BY <1>1, <1>3, <2>1, <2>2, <2>3, TypeInPartsNext DEF Close, Freed, TypeParts, Buffered
  <1>4. ASSUME NEW ok \in BOOLEAN, CallbackReturns(ok) PROVE TypeOK' /\ Buffered'
    <2>1. pending # <<>>
      BY <1>4 DEF CallbackReturns, HeadIsReplied
    <2>2. pending' \in Seq(Entries)
      BY <1>1, <1>4, <2>1, HeadTailProperties DEF CallbackReturns, Retired, TypeParts
    <2>3. program' \in ProgramType
      BY <1>1, <1>4 DEF CallbackReturns, Told, TypeParts, ProgramType
    <2>4. events' \subseteq {"IN", "OUT"}
      BY <1>1, <1>4 DEF CallbackReturns, EndMask, TypeParts
    <2> QED
      BY <1>1, <1>4, <2>2, <2>3, <2>4, TypeInPartsNext DEF CallbackReturns, TypeParts, Buffered
  <1> QED
    BY <1>2, <1>3, <1>4 DEF Program

\* What the server does has the right types.
LEMMA ServerTypes ==
    ASSUME TypeOK, Buffered, Server
    PROVE  TypeOK' /\ Buffered'
  <1>1. /\ TypeParts
        /\ sock.up \in Seq(RequestCells) /\ sock.down \in Seq(ReplyCells)
        /\ server.out \in Seq(ReplyCells) /\ server.todo \in Seq(CallNo)
        /\ server.noise \in 0..MaxNoise /\ server.replies \in 0..MaxReplies
    BY TypeInParts DEF TypeParts, SockType, ServerType
  <1>2. CASE ServerReads
    <2>1. /\ Head(sock.up) \in RequestCells /\ Tail(sock.up) \in Seq(RequestCells)
      BY <1>1, <1>2, HeadTailProperties DEF ServerReads
    <2>2. Append(server.todo, Head(sock.up).msg) \in Seq(CallNo)
      BY <1>1, <2>1, AppendProperties DEF RequestCells
    <2>3. server' \in ServerType /\ sock' \in SockType
      BY <1>1, <1>2, <2>1, <2>2 DEF ServerReads, TypeParts, ServerType, SockType
    <2> QED
      BY <1>1, <1>2, <2>3, TypeInPartsNext DEF ServerReads, TypeParts, Buffered
  <1>3. CASE ServerReplies
    <2> DEFINE Answer(kind) == server.out \o Frame([call |-> Head(server.todo), kind |-> kind], 2)
    <2> HIDE DEF Answer
    <2>1. Head(server.todo) \in CallNo /\ Tail(server.todo) \in Seq(CallNo)
      BY <1>1, <1>3, HeadTailProperties DEF ServerReplies
    <2>2. ASSUME NEW kind \in {"final", "continues"}
          PROVE  Answer(kind) \in Seq(ReplyCells)
      <3>1. [call |-> Head(server.todo), kind |-> kind] \in Messages
        BY <2>1 DEF Messages
      <3>2. Frame([call |-> Head(server.todo), kind |-> kind], 2) \in Seq(ReplyCells)
        BY <3>1, FrameCells
      <3> QED
        BY <1>1, <3>2, ConcatProperties DEF Answer
    <2>3. server' \in ServerType
      <3>1. CASE server' = [server EXCEPT !.todo = Tail(@)]
        BY <1>1, <2>1, <3>1 DEF TypeParts, ServerType
      <3>2. CASE Reply("final", Tail(server.todo), 0)
        <4>1. server' = [server EXCEPT !.todo = Tail(server.todo), !.replies = 0, !.out = Answer("final")]
          BY <3>2 DEF Reply, Answer
        <4>2. 0 \in 0..MaxReplies
          BY ConstantTypes
        <4> QED
          BY <1>1, <2>1, <2>2, <4>1, <4>2 DEF TypeParts, ServerType
      <3>3. CASE server.replies + 1 < MaxReplies /\ Reply("continues", server.todo, server.replies + 1)
        <4>1. server.replies + 1 \in 0..MaxReplies
          BY <1>1, <3>3, ConstantTypes
        <4>2. server' = [server EXCEPT !.todo = server.todo, !.replies = server.replies + 1,
                                       !.out = Answer("continues")]
          BY <3>3 DEF Reply, Answer
        <4> QED
          BY <1>1, <2>2, <4>1, <4>2 DEF TypeParts, ServerType
      <3> QED
        BY <1>3, <3>1, <3>2, <3>3 DEF ServerReplies
    <2> QED
      BY <1>1, <1>3, <2>3, TypeInPartsNext DEF ServerReplies, TypeParts, Buffered
  <1>4. CASE ServerNoise
    <2>1. PICK kind \in Noise :
            server' = [server EXCEPT !.noise = @ + 1,
                         !.out = Frame([call |-> NoCall, kind |-> kind],
                                       ReplySize([call |-> NoCall, kind |-> kind]))]
      BY <1>4 DEF ServerNoise
    <2> DEFINE m == [call |-> NoCall, kind |-> kind]
    <2>2. m \in Messages /\ ReplySize(m) \in Nat
      BY ConnectionAssumption, ConstantTypes DEF Messages, ReplySize
    <2>3. Frame(m, ReplySize(m)) \in Seq(ReplyCells)
      BY <2>2, FrameCells
    <2>4. server.noise + 1 \in 0..MaxNoise
      BY <1>1, <1>4, ConstantTypes DEF ServerNoise
    <2>5. server' \in ServerType
      BY <1>1, <2>1, <2>3, <2>4 DEF TypeParts, ServerType
    <2> QED
      BY <1>1, <1>4, <2>5, TypeInPartsNext DEF ServerNoise, TypeParts, Buffered
  <1>5. CASE ServerWrites
    <2> DEFINE k == Smaller(Len(server.out), SocketSize - Len(sock.down))
    <2>1. k \in 0..Len(server.out)
      <3>1. Len(server.out) \in Nat /\ Len(sock.down) \in Nat
        BY <1>1, LenProperties
      <3>2. k > 0
        BY <1>5 DEF ServerWrites
      <3> QED
        BY <3>1, <3>2, ConstantTypes DEF Smaller
    <2> HIDE DEF k
    <2>2. Take(server.out, k) \in Seq(ReplyCells) /\ Drop(server.out, k) \in Seq(ReplyCells)
      BY <1>1, <2>1, TakeProperties, DropProperties
    <2>3. sock.down \o Take(server.out, k) \in Seq(ReplyCells)
      BY <1>1, <2>2, ConcatProperties
    <2>4. server' \in ServerType /\ sock' \in SockType
      BY <1>1, <1>5, <2>2, <2>3 DEF ServerWrites, TypeParts, ServerType, SockType, k
    <2> QED
      BY <1>1, <1>5, <2>4, TypeInPartsNext DEF ServerWrites, TypeParts, Buffered
  <1>6. CASE ServerCloses
    <2>1. <<>> \in Seq(CallNo) /\ <<>> \in Seq(ReplyCells) /\ <<>> \in Seq(RequestCells)
      BY EmptySeq
    <2>2. server' = [server EXCEPT !.peer = "closed", !.out = <<>>, !.todo = <<>>]
      BY <1>6 DEF ServerCloses
    <2>3. server' \in ServerType
      BY <1>1, <2>1, <2>2 DEF TypeParts, ServerType
    <2>4. PICK down \in {sock.down, <<>>} : sock' = [up |-> <<>>, down |-> down]
      BY <1>6 DEF ServerCloses
    <2>5. sock' \in SockType
      BY <1>1, <2>1, <2>4 DEF SockType
    <2> QED
      BY <1>1, <1>6, <2>3, <2>5, TypeInPartsNext DEF ServerCloses, TypeParts, Buffered
  <1> QED
    BY <1>2, <1>3, <1>4, <1>5, <1>6 DEF Server

-----------------------------------------------------------------------------
(* What a step does to the cells on their way.                             *)

\* The windows are sequences of cells.
LEMMA Windows ==
    ASSUME TypeOK
    PROVE  /\ stream \in StreamOf(ReplyCells, RequestCells)
           /\ stream.in \in Seq(ReplyCells) /\ stream.out \in Seq(RequestCells)
           /\ sock.up \in Seq(RequestCells) /\ sock.down \in Seq(ReplyCells)
           /\ server.out \in Seq(ReplyCells) /\ server.todo \in Seq(CallNo)
           /\ sock.down \o server.out \in Seq(ReplyCells)
           /\ Incoming \in Seq(ReplyCells) /\ Outgoing \in Seq(RequestCells)
           /\ Len(Incoming) \in Nat /\ Len(Outgoing) \in Nat
  <1>1. /\ stream \in StreamOf(ReplyCells, RequestCells)
        /\ stream.in \in Seq(ReplyCells) /\ stream.out \in Seq(RequestCells)
        /\ sock.up \in Seq(RequestCells) /\ sock.down \in Seq(ReplyCells)
        /\ server.out \in Seq(ReplyCells) /\ server.todo \in Seq(CallNo)
    BY DEF TypeOK, StreamOf
  <1> DEFINE u == stream.in
             v == sock.down
             w == server.out
             x == sock.up
             y == stream.out
  <1>2. u \in Seq(ReplyCells) /\ v \in Seq(ReplyCells) /\ w \in Seq(ReplyCells)
        /\ x \in Seq(RequestCells) /\ y \in Seq(RequestCells)
    BY <1>1
  <1> HIDE DEF u, v, w, x, y
  <1>3. v \o w \in Seq(ReplyCells) /\ x \o y \in Seq(RequestCells)
    BY <1>2, ConcatProperties
  <1> DEFINE z == v \o w
  <1>4. z \in Seq(ReplyCells)
    BY <1>3
  <1> HIDE DEF z
  <1>5. u \o z \in Seq(ReplyCells)
    BY <1>2, <1>4, ConcatProperties
  <1>6. Incoming \in Seq(ReplyCells) /\ Outgoing \in Seq(RequestCells)
    BY <1>3, <1>5 DEF Incoming, Outgoing, u, v, w, x, y, z
  <1>7. Len(Incoming) \in Nat /\ Len(Outgoing) \in Nat
    BY <1>6, LenProperties
  <1> QED
    BY <1>1, <1>3, <1>6, <1>7 DEF v, w

\* A message leaves the buffer: it was the first one on its way.
LEMMA TakenFromIncoming ==
    ASSUME TypeOK, NEW o \in Delivered(stream), stream' = o.stream,
           UNCHANGED <<sock, server>>
    PROVE  \E e \in 1..Len(Incoming) :
              /\ e <= Len(stream.in)
              /\ Incoming[e] \in ReplyCells /\ Incoming[e].nul /\ o.message = Incoming[e].msg
              /\ \A p \in 1..(e - 1) : ~Incoming[p].nul
              /\ Follows(Incoming, e, Incoming')
  <1>1. stream \in ReplyStreams
    BY Windows DEF ReplyStreams
  <1>2. PICK e \in 1..Len(stream.in) :
          /\ stream.in[e].nul /\ o.message = stream.in[e].msg
          /\ \A p \in 1..(e - 1) : ~stream.in[p].nul
          /\ o.stream.in = Drop(stream.in, e)
    BY <1>1, FirstMessage
  <1> DEFINE u == stream.in
             z == sock.down \o server.out
             w == u \o z
  <1>3. u \in Seq(ReplyCells) /\ z \in Seq(ReplyCells)
    BY Windows
  <1>4. stream'.in = Drop(u, e) /\ z' = z /\ Incoming' = Drop(u, e) \o z
    BY <1>2 DEF Incoming
  <1>5. w = Incoming
    BY DEF Incoming
  <1>7. u[e].nul /\ o.message = u[e].msg /\ \A p \in 1..(e - 1) : ~u[p].nul
    BY <1>2
  <1>6. e \in 1..Len(u)
    BY <1>2
  <1> HIDE DEF u, z
  <1>10. e \in 1..Len(u) /\ Len(u) \in Nat /\ Len(z) \in Nat
    BY <1>3, <1>6, LenProperties
  <1>8. Drop(w, e) = Drop(u, e) \o z
    <2>1. e \in 0..Len(u)
      BY <1>10
    <2> QED
      BY <1>3, <2>1, DropConcat
  <1>9. /\ w \in Seq(ReplyCells) /\ Len(w) = Len(u) + Len(z)
        /\ \A i \in 1..Len(u) + Len(z) : w[i] = IF i <= Len(u) THEN u[i] ELSE z[i - Len(u)]
    BY <1>3, ConcatProperties
  <1> HIDE DEF w
  <1>11. e \in 1..Len(w) /\ \A p \in 1..e : w[p] = u[p]
    BY <1>9, <1>10
  <1>12. Follows(w, e, Drop(w, e))
    BY <1>9, <1>11, DropProperties DEF Follows
  <1>13. w[e] \in ReplyCells
    BY <1>9, <1>11, ElementOfSeq
  <1>14. w[e].nul /\ o.message = w[e].msg /\ \A p \in 1..(e - 1) : ~w[p].nul
    BY <1>7, <1>10, <1>11
  <1>15. e <= Len(u)
    BY <1>10
  <1> QED
    BY <1>4, <1>5, <1>8, <1>11, <1>12, <1>13, <1>14, <1>15 DEF u

\* Cells move from the socket to the buffer.
LEMMA ReadMoves ==
    ASSUME TypeOK, Buffered, ReadSocket
    PROVE  Incoming' = Incoming
  <1> DEFINE u == stream.in
             v == sock.down
             w == server.out
             a == Received(stream, sock.down).in
             d == Drop(sock.down, ReadSize(stream, sock.down))
  <1>1. u \in Seq(ReplyCells) /\ v \in Seq(ReplyCells) /\ w \in Seq(ReplyCells)
    BY Windows
  <1>2. a \o d = u \o v /\ a \in Seq(ReplyCells) /\ d \in Seq(ReplyCells)
    <2>1. /\ stream \in StreamOf(ReplyCells, RequestCells) /\ sock.down \in Seq(ReplyCells)
          /\ BufferSize \in Nat /\ Len(stream.in) <= BufferSize
      BY Windows, ConstantTypes DEF Buffered
    <2>2. a \o d = u \o v
      BY <2>1, ReceivedConcat
    <2>3. Received(stream, sock.down) \in StreamOf(ReplyCells, RequestCells)
          /\ ReadSize(stream, sock.down) \in 0..Len(sock.down)
      BY <2>1, ReceivedProperties
    <2>4. d \in Seq(ReplyCells)
      BY <2>1, <2>3, DropProperties
    <2> QED
      BY <2>2, <2>3, <2>4 DEF StreamOf
  <1>3. stream'.in = a /\ sock'.down = d /\ server'.out = w
    BY <1>1, TypeInParts DEF ReadSocket, TypeOK
  <1>4. Incoming = u \o (v \o w) /\ Incoming' = a \o (d \o w)
    BY <1>3 DEF Incoming
  <1> HIDE DEF u, v, w, a, d
  <1>5. a \in Seq(ReplyCells) /\ d \in Seq(ReplyCells)
    BY <1>2
  <1>6. (u \o v) \o w = u \o (v \o w)
    BY <1>1, ConcatAssociative
  <1>7. (a \o d) \o w = a \o (d \o w)
    BY SMTT(30), <1>1, <1>5, ConcatAssociative
  <1> QED
    BY <1>2, <1>4, <1>6, <1>7

\* Cells move from the server to the socket.
LEMMA WriteMoves ==
    ASSUME TypeOK, ServerWrites
    PROVE  Incoming' = Incoming
  <1> DEFINE k == Smaller(Len(server.out), SocketSize - Len(sock.down))
             u == stream.in
             v == sock.down
             w == server.out
             a == Take(server.out, k)
             d == Drop(server.out, k)
  <1>1. u \in Seq(ReplyCells) /\ v \in Seq(ReplyCells) /\ w \in Seq(ReplyCells)
    BY Windows
  <1>2. k \in 0..Len(w)
    <2>1. Len(server.out) \in Nat /\ Len(sock.down) \in Nat
      BY <1>1, LenProperties
    <2>2. k > 0
      BY DEF ServerWrites
    <2> QED
      BY <2>1, <2>2, ConstantTypes DEF Smaller
  <1>3. stream'.in = u /\ sock'.down = v \o a /\ server'.out = d
    BY DEF ServerWrites, TypeOK
  <1>4. Incoming = u \o (v \o w) /\ Incoming' = u \o ((v \o a) \o d)
    BY <1>3 DEF Incoming
  <1> HIDE DEF k
  <1>5. a \in Seq(ReplyCells) /\ d \in Seq(ReplyCells) /\ a \o d = w
    BY <1>1, <1>2, TakeProperties, DropProperties, TakeDrop
  <1> HIDE DEF u, v, w, a, d
  <1>6. (v \o a) \o d = v \o (a \o d)
    <2>1. v \in Seq(ReplyCells) /\ a \in Seq(ReplyCells) /\ d \in Seq(ReplyCells)
      BY <1>1, <1>5
    <2> QED
      BY SMTT(30), <2>1, ConcatAssociative
  <1> QED
    BY <1>4, <1>5, <1>6

\* The server sends a message behind what is on its way.
LEMMA MessageSent ==
    ASSUME TypeOK, NEW m \in Messages, NEW n \in Nat,
           server.out = <<>>, server'.out = Frame(m, n), UNCHANGED <<stream, sock>>
    PROVE  Grown(Incoming, Incoming', m, n)
  <1> DEFINE u == stream.in
             v == sock.down
             w == u \o v
             f == Frame(m, n)
  <1>1. u \in Seq(ReplyCells) /\ v \in Seq(ReplyCells) /\ f \in Seq(ReplyCells)
    BY Windows, FrameCells
  <1>2. Incoming = u \o (v \o <<>>) /\ Incoming' = u \o (v \o f)
    BY DEF Incoming
  <1> HIDE DEF u, v, f
  <1>3. /\ v \o <<>> = v /\ (u \o v) \o f = u \o (v \o f)
        /\ w \in Seq(ReplyCells)
    BY <1>1, ConcatEmptySeq, ConcatAssociative, ConcatProperties
  <1>4. Incoming = w /\ Incoming' = w \o f
    BY <1>2, <1>3
  <1> HIDE DEF w
  <1>5. Grown(w, w \o f, m, n)
    BY <1>1, <1>3, ConcatFrame DEF f
  <1> QED
    BY <1>4, <1>5

\* The end of what is on its way is lost.
LEMMA EndLost ==
    ASSUME TypeOK, ServerCloses
    PROVE  Prefix(Incoming, Incoming') /\ Incoming' \in Seq(ReplyCells)
  <1> DEFINE u == stream.in
             v == sock.down
             w == server.out
             z == v \o w
             t == u \o v
  <1>1. u \in Seq(ReplyCells) /\ v \in Seq(ReplyCells) /\ w \in Seq(ReplyCells) /\ z \in Seq(ReplyCells)
    BY Windows
  <1>2. PICK down \in {v, <<>>} : sock' = [up |-> <<>>, down |-> down]
    BY DEF ServerCloses
  <1>3. Incoming = u \o z /\ Incoming' = u \o (down \o <<>>)
    <2>1. stream'.in = u /\ sock'.down = down /\ server'.out = <<>>
      BY <1>2 DEF ServerCloses, TypeOK
    <2> QED
      BY <2>1 DEF Incoming
  <1> HIDE DEF u, v, w
  <1>4. v \o <<>> = v /\ <<>> \o <<>> = <<>> /\ u \o <<>> = u
    BY <1>1, ConcatEmptySeq, EmptySeq
  <1>5. t \in Seq(ReplyCells) /\ t \o w = u \o z
    BY <1>1, ConcatProperties, ConcatAssociative
  <1> HIDE DEF z, t
  <1>6. Prefix(t \o w, t) /\ Prefix(u \o z, u)
    BY <1>1, <1>5, ConcatPrefix
  <1>7. Incoming' = t \/ Incoming' = u
    BY <1>3, <1>4 DEF t
  <1> QED
    BY <1>1, <1>3, <1>5, <1>6, <1>7

\* The server takes the first cell on its way to it.
LEMMA TakenFromOutgoing ==
    ASSUME TypeOK, ServerReads
    PROVE  /\ Len(Outgoing) > 0 /\ Outgoing[1] = Head(sock.up)
           /\ Follows(Outgoing, 1, Outgoing')
  <1> DEFINE x == sock.up
             y == stream.out
             w == x \o y
  <1>1. x \in Seq(RequestCells) /\ y \in Seq(RequestCells) /\ x # <<>>
    BY Windows DEF ServerReads
  <1>2. Len(x) \in Nat /\ Len(x) > 0 /\ Len(y) \in Nat
    BY <1>1, LenProperties, EmptySeq
  <1>3. Outgoing = w /\ Outgoing' = Tail(x) \o y
    BY DEF ServerReads, Outgoing, TypeOK
  <1>4. Head(sock.up) = x[1]
    OBVIOUS
  <1> HIDE DEF x, y
  <1>5. Tail(x) = Drop(x, 1)
    BY <1>1, TailIsSubSeq DEF Drop
  <1>6. Drop(w, 1) = Drop(x, 1) \o y
    <2>1. 1 \in 0..Len(x)
      BY <1>2
    <2> QED
      BY <1>1, <2>1, DropConcat
  <1>7. /\ w \in Seq(RequestCells) /\ Len(w) = Len(x) + Len(y)
        /\ \A i \in 1..Len(x) + Len(y) : w[i] = IF i <= Len(x) THEN x[i] ELSE y[i - Len(x)]
    BY <1>1, ConcatProperties
  <1> HIDE DEF w
  <1>8. w[1] = x[1] /\ 1 \in 1..Len(w) /\ Len(w) > 0
    BY <1>2, <1>7
  <1>9. Follows(w, 1, Drop(w, 1))
    <2>1. 1 \in 0..Len(w)
      BY <1>8
    <2> QED
      BY <1>7, <1>8, <2>1, DropProperties DEF Follows
  <1> QED
    BY <1>3, <1>4, <1>5, <1>6, <1>8, <1>9

\* A flush moves cells to the socket.
LEMMA FlushMoves ==
    ASSUME TypeOK, NEW o \in FlushOutcomes(stream, Room, ServerGone), stream' = o.stream,
           sock' = [sock EXCEPT !.up = @ \o o.sent]
    PROVE  Outgoing' = Outgoing
  <1> DEFINE x == sock.up
             y == stream.out
             a == o.sent
             d == o.stream.out
  <1>1. x \in Seq(RequestCells) /\ y \in Seq(RequestCells)
        /\ stream \in StreamOf(ReplyCells, RequestCells) /\ Room \in Int /\ ServerGone \in BOOLEAN
    BY Windows, RoomType
  <1>2. a \in Seq(RequestCells) /\ o.stream \in StreamOf(ReplyCells, RequestCells)
    BY <1>1, FlushType
  <1>3. a \o d = y
    BY <1>1, FlushConcat DEF Split
  <1>4. Outgoing = x \o y /\ Outgoing' = (x \o a) \o d /\ d \in Seq(RequestCells)
    BY <1>2 DEF Outgoing, TypeOK, StreamOf
  <1> HIDE DEF x, y, a, d
  <1>5. (x \o a) \o d = x \o (a \o d)
    <2>1. a \in Seq(RequestCells) /\ d \in Seq(RequestCells)
      BY <1>2, <1>4
    <2> QED
      BY <1>1, <2>1, ConcatAssociative
  <1> QED
    BY <1>3, <1>4, <1>5

\* A call puts its request behind what is on its way.
LEMMA RequestWritten ==
    ASSUME TypeOK, NEW i \in CallNo,
           NEW o \in WriteOutcomes(stream, i, RequestSize, Room, ServerGone), stream' = o.stream,
           sock' = [sock EXCEPT !.up = @ \o o.sent]
    PROVE  Grown(Outgoing, Outgoing', i, RequestSize)
  <1> DEFINE x == sock.up
             y == stream.out
             a == o.sent
             d == o.stream.out
             f == Frame(i, RequestSize)
             w == x \o y
  <1>1. /\ x \in Seq(RequestCells) /\ y \in Seq(RequestCells) /\ f \in Seq(RequestCells)
        /\ stream \in StreamOf(ReplyCells, RequestCells) /\ Room \in Int /\ ServerGone \in BOOLEAN
        /\ RequestSize \in Nat /\ \A nul \in BOOLEAN : [msg |-> i, nul |-> nul] \in RequestCells
    BY Windows, RoomType, FrameCells DEF RequestSize, RequestCells
  <1>2. a \in Seq(RequestCells) /\ o.stream \in StreamOf(ReplyCells, RequestCells)
    BY <1>1, WriteType
  <1>3. a \o d = y \o f
    <2>1. Frame(i, RequestSize) \in Seq(RequestCells)
      BY <1>1
    <2>2. stream \in StreamOf(ReplyCells, RequestCells) /\ Room \in Int
          /\ ServerGone \in BOOLEAN /\ RequestSize \in Nat
      BY <1>1
    <2>3. Split(OutWith(stream, i, RequestSize), a, d)
      BY <2>1, <2>2, WriteConcat
    <2> QED
      BY <2>3 DEF OutWith, Split
  <1>4. Outgoing = w /\ Outgoing' = (x \o a) \o d /\ d \in Seq(RequestCells)
    BY <1>2 DEF Outgoing, TypeOK, StreamOf
  <1> HIDE DEF x, y, a, d, f
  <1>5. (x \o a) \o d = x \o (a \o d) /\ (x \o y) \o f = x \o (y \o f) /\ w \in Seq(RequestCells)
    <2>1. a \in Seq(RequestCells) /\ d \in Seq(RequestCells)
      BY <1>2, <1>4
    <2>2. x \in Seq(RequestCells) /\ y \in Seq(RequestCells) /\ f \in Seq(RequestCells)
      BY <1>1
    <2>3. (x \o a) \o d = x \o (a \o d)
      BY SMTT(30), <2>1, <2>2, ConcatAssociative
    <2>4. (x \o y) \o f = x \o (y \o f)
      BY SMTT(30), <2>2, ConcatAssociative
    <2> QED
      BY <2>2, <2>3, <2>4, ConcatProperties
  <1>6. Outgoing' = w \o f
    BY <1>3, <1>4, <1>5
  <1> HIDE DEF w
  <1>7. Grown(w, w \o f, i, RequestSize)
    BY <1>1, <1>5, ConcatFrame DEF f
  <1> QED
    BY <1>4, <1>6, <1>7

\* A message is put behind what is on its way.
LEMMA EndlessGrown ==
    ASSUME NEW cells \in Seq(ReplyCells), NEW new, NEW m, NEW n \in Nat \ {0},
           Grown(cells, new, m, n), EndlessFits(cells), m.kind = "endless" => n = BufferSize + 1
    PROVE  EndlessFits(new)
  <1>1. Len(cells) \in Nat /\ Len(new) = Len(cells) + n /\ BufferSize \in Nat
    BY LenProperties, ConstantTypes DEF Grown
  <1>2. SUFFICES ASSUME NEW p \in 1..Len(new), new[p].nul, new[p].msg.kind = "endless"
                 PROVE  p > BufferSize /\ \A q \in (p - BufferSize)..(p - 1) : ~new[q].nul
    BY DEF EndlessFits
  <1>3. CASE p <= Len(cells)
    <2>1. new[p] = cells[p] /\ p \in 1..Len(cells)
      BY <1>1, <1>3 DEF Grown
    <2>2. p > BufferSize /\ \A q \in (p - BufferSize)..(p - 1) : ~cells[q].nul
      BY <1>2, <2>1 DEF EndlessFits
    <2>3. \A q \in (p - BufferSize)..(p - 1) : q \in 1..Len(cells)
      BY <1>1, <2>1, <2>2
    <2> QED
      BY <2>2, <2>3 DEF Grown
  <1>4. CASE p > Len(cells)
    <2>1. PICK i \in 1..n : p = Len(cells) + i
      <3>1. p - Len(cells) \in 1..n /\ p = Len(cells) + (p - Len(cells))
        BY <1>1, <1>4
      <3> QED
        BY <3>1
    <2>2. new[p].msg = m /\ (new[p].nul <=> i = n)
      BY <2>1 DEF Grown
    <2>3. i = n /\ n = BufferSize + 1
      BY <1>2, <2>2
    <2>4. p = Len(cells) + n /\ p > BufferSize
      BY <1>1, <2>1, <2>3
    <2>5. ASSUME NEW q \in (p - BufferSize)..(p - 1) PROVE ~new[q].nul
      <3>1. q - Len(cells) \in 1..n /\ q - Len(cells) # n /\ q = Len(cells) + (q - Len(cells))
        BY <1>1, <2>3, <2>4
      <3>2. new[q].nul <=> q - Len(cells) = n
        BY <3>1 DEF Grown
      <3> QED
        BY <3>1, <3>2
    <2> QED
      BY <2>4, <2>5
  <1> QED
    BY <1>1, <1>3, <1>4

\* The first message leaves.
LEMMA EndlessFollows ==
    ASSUME NEW cells \in Seq(ReplyCells), NEW new, NEW e,
           Follows(cells, e, new), cells[e].nul, EndlessFits(cells)
    PROVE  EndlessFits(new)
  <1>1. Len(cells) \in Nat /\ Len(new) = Len(cells) - e /\ BufferSize \in Nat /\ e \in 1..Len(cells)
        /\ \A i \in 1..(Len(cells) - e) : new[i] = cells[i + e]
    BY LenProperties, ConstantTypes DEF Follows
  <1>2. SUFFICES ASSUME NEW p \in 1..Len(new), new[p].nul, new[p].msg.kind = "endless"
                 PROVE  p > BufferSize /\ \A q \in (p - BufferSize)..(p - 1) : ~new[q].nul
    BY DEF EndlessFits
  <1> DEFINE r == p + e
  <1>3. r \in 1..Len(cells) /\ cells[r].nul /\ cells[r].msg.kind = "endless"
    BY <1>1, <1>2
  <1>4. r = p + e
    OBVIOUS
  <1> HIDE DEF r
  <1>5. r > BufferSize /\ \A q \in (r - BufferSize)..(r - 1) : ~cells[q].nul
    BY <1>3 DEF EndlessFits
  <1>6. e < r - BufferSize
    <2>1. e \notin (r - BufferSize)..(r - 1)
      BY <1>2, <1>5 DEF Follows
    <2> QED
      BY <1>1, <1>4, <2>1
  <1>7. ASSUME NEW q \in (p - BufferSize)..(p - 1) PROVE ~new[q].nul
    <2>1. q \in 1..(Len(cells) - e) /\ q + e \in (r - BufferSize)..(r - 1)
      BY <1>1, <1>4, <1>6
    <2>2. new[q] = cells[q + e]
      BY <1>1, <2>1
    <2> QED
      BY <1>5, <2>1, <2>2
  <1> QED
    BY <1>1, <1>4, <1>6, <1>7

\* The end is lost.
LEMMA EndlessPrefix ==
    ASSUME NEW cells \in Seq(ReplyCells), NEW new \in Seq(ReplyCells),
           Prefix(cells, new), EndlessFits(cells)
    PROVE  EndlessFits(new)
  <1>1. Len(cells) \in Nat /\ Len(new) \in Nat /\ Len(new) <= Len(cells) /\ BufferSize \in Nat
        /\ \A i \in 1..Len(new) : new[i] = cells[i]
    BY LenProperties, ConstantTypes DEF Prefix
  <1>2. SUFFICES ASSUME NEW p \in 1..Len(new), new[p].nul, new[p].msg.kind = "endless"
                 PROVE  p > BufferSize /\ \A q \in (p - BufferSize)..(p - 1) : ~new[q].nul
    BY DEF EndlessFits
  <1>3. p > BufferSize /\ \A q \in (p - BufferSize)..(p - 1) : ~cells[q].nul
    BY <1>1, <1>2 DEF EndlessFits
  <1>4. \A q \in (p - BufferSize)..(p - 1) : q \in 1..Len(new)
    BY <1>1, <1>3
  <1> QED
    BY <1>1, <1>3, <1>4

-----------------------------------------------------------------------------
(* The library's steps.                                                    *)

\* The message a callback is executed with is a reply: it is expected, and
\* an endless one is never delivered.
LEMMA ReplyDelivered ==
    ASSUME TypeOK, Buffered, ReadsOpen, Kept, ReadReply
    PROVE  \E o \in Delivered(stream) :
              /\ stream' = o.stream /\ reply' = o.message
              /\ o.stream \in ReplyStreams /\ o.stream.out = stream.out
              /\ Len(o.stream.in) <= BufferSize
              /\ o.message \in Messages /\ o.message.kind \in {"final", "continues"}
              /\ pending # <<>> /\ ~Unexpected(o.message)
              /\ program' = [program EXCEPT !.got =
                    Append(@, [call |-> Head(pending).call, kind |-> o.message.kind])]
  <1>1. PICK o \in Delivered(stream) :
          /\ o.message.kind # "badjson" /\ ~Unexpected(o.message)
          /\ stream' = o.stream
          /\ reply' = o.message
          /\ program' = [program EXCEPT !.got =
                Append(@, [call |-> Head(pending).call, kind |-> o.message.kind])]
    BY DEF ReadReply
  <1>2. stream \in ReplyStreams /\ Len(stream.in) \in Nat /\ BufferSize \in Nat
        /\ Len(stream.in) <= BufferSize
    <2>1. stream \in ReplyStreams /\ stream.in \in Seq(ReplyCells)
      BY Windows DEF ReplyStreams
    <2> QED
      BY <2>1, LenProperties, ConstantTypes DEF Buffered
  <1>3. o.stream \in ReplyStreams /\ o.stream.out = stream.out /\ o.message \in Messages
    BY <1>2, FirstMessage
  <1>4. Len(o.stream.in) <= BufferSize
    <2>1. PICK e \in 1..Len(stream.in) : Len(o.stream.in) = Len(stream.in) - e
      BY <1>2, FirstMessage
    <2> QED
      BY <1>2, <2>1
  <1>5. o.message.kind # "endless"
    <2>1. UNCHANGED <<sock, server>> /\ open
      BY DEF ReadReply, ReadsOpen
    <2>2. PICK e \in 1..Len(Incoming) :
            e <= Len(stream.in) /\ Incoming[e].nul /\ o.message = Incoming[e].msg
      BY <1>1, <2>1, TakenFromIncoming
    <2>3. SUFFICES ASSUME o.message.kind = "endless" PROVE FALSE
      OBVIOUS
    <2>4. e > BufferSize
      BY <2>1, <2>2, <2>3 DEF Kept, EndlessFits
    <2> QED
      BY <1>2, <2>2, <2>4
  <1>6. o.message.kind \in {"final", "continues"} /\ pending # <<>>
    BY <1>1, <1>3, <1>5 DEF Messages, AllNoise, Unexpected
  <1> QED
    BY <1>1, <1>3, <1>4, <1>6

\* The end of the socket frees the stream.
LEMMA HangUpTypes ==
    ASSUME TypeOK, HangUp
    PROVE  TypeOK' /\ Buffered'
  <1>1. TypeParts /\ sock.down \in Seq(ReplyCells)
    BY TypeInParts DEF TypeParts, SockType
  <1>2. stream' \in ReplyStreams /\ Len(stream'.in) = 0 /\ 0 <= BufferSize
    BY NewStreamType, ConstantTypes DEF HangUp, Freed
  <1>3. sock' \in SockType
    BY <1>1, EmptySeq DEF HangUp, Freed, SockType, TypeParts
  <1>4. program' \in ProgramType
    BY <1>1 DEF HangUp, ReturnError, Told, ProgramType, TypeParts
  <1> QED
    BY <1>1, <1>2, <1>3, <1>4, TypeInPartsNext DEF HangUp, Freed, ReturnError, TypeParts, Buffered

\* The library keeps the types and the bound of the input buffer.
LEMMA LibraryTypes ==
    ASSUME TypeOK, Buffered, ReadsOpen, Kept, Library
    PROVE  TypeOK' /\ Buffered'
  <1>1. /\ TypeParts
        /\ stream \in StreamOf(ReplyCells, RequestCells)
        /\ sock.up \in Seq(RequestCells) /\ sock.down \in Seq(ReplyCells)
        /\ program.calls \in Seq(CallRecords) /\ program.got \in Seq(GotRecords)
    BY TypeInParts DEF TypeParts, ReplyStreams, SockType, ProgramType
  <1>2. ASSUME ReturnError
        PROVE  /\ pc' \in {"idle", "read", "callback"} /\ reply' \in Messages \cup {NoReply}
               /\ program' \in ProgramType
    BY <1>1, <1>2 DEF ReturnError, Told, TypeParts, ProgramType
  <1>3. CASE ProcessEvents
    BY <1>1, <1>3, TypeInPartsNext DEF ProcessEvents, TypeParts, Buffered
  <1>4. CASE ProcessOutput
    <2>1. PICK o \in FlushOutcomes(stream, Room, ServerGone) :
            /\ stream' = o.stream
            /\ sock' = [sock EXCEPT !.up = @ \o o.sent]
            /\ events' = FlushedMask(events, o.result)
            /\ IF o.result = "error" THEN ReturnError
               ELSE pc' = "read" /\ UNCHANGED <<reply, program>>
      BY <1>4 DEF ProcessOutput
    <2>2. /\ o.stream \in StreamOf(ReplyCells, RequestCells) /\ o.stream.in = stream.in
          /\ o.sent \in Seq(RequestCells)
      BY <1>1, <2>1, RoomType, FlushType
    <2>3. sock.up \o o.sent \in Seq(RequestCells)
      BY <1>1, <2>2, ConcatProperties
    <2>4. sock' \in SockType /\ stream' \in ReplyStreams /\ Len(stream'.in) = Len(stream.in)
      BY <1>1, <2>1, <2>2, <2>3 DEF TypeParts, SockType, ReplyStreams
    <2>5. events' \subseteq {"IN", "OUT"}
      BY <1>1, <2>1 DEF TypeParts, FlushedMask
    <2>6. /\ pc' \in {"idle", "read", "callback"} /\ reply' \in Messages \cup {NoReply}
          /\ program' \in ProgramType
      BY <1>1, <1>2, <2>1 DEF TypeParts
    <2> QED
      BY <1>1, <1>4, <2>4, <2>5, <2>6, TypeInPartsNext DEF ProcessOutput, TypeParts, Buffered
  <1>5. CASE ReadSocket
    <2>1. BufferSize \in Nat /\ Len(stream.in) <= BufferSize
      BY ConstantTypes DEF Buffered
    <2>2. Received(stream, sock.down) \in StreamOf(ReplyCells, RequestCells)
      BY <1>1, <2>1, ReceivedProperties
    <2>3. ReadSize(stream, sock.down) \in 0..Len(sock.down)
      BY <1>1, <2>1, ReceivedProperties
    <2>4. Len(Received(stream, sock.down).in) <= BufferSize
      BY <1>1, <2>1, ReceivedProperties
    <2>5. Drop(sock.down, ReadSize(stream, sock.down)) \in Seq(ReplyCells)
      BY <1>1, <2>3, DropProperties
    <2>6. sock' \in SockType
      BY <1>1, <1>5, <2>5 DEF ReadSocket, SockType, TypeParts
    <2> QED
      BY <1>1, <1>5, <2>2, <2>4, <2>6, TypeInPartsNext DEF ReadSocket, TypeParts, Buffered, ReplyStreams
  <1>6. CASE ReadNothing
    <2>1. CASE HangUp
      BY <2>1, HangUpTypes
    <2>2. CASE ~HangUp
      <3>1. events' \subseteq {"IN", "OUT"} /\ pc' = "idle"
            /\ UNCHANGED <<stream, open, pending, reply, program, server, sock>>
        BY <1>1, <1>6, <2>2 DEF ReadNothing, EndMask, TypeParts
      <3> QED
        BY <1>1, <3>1, TypeInPartsNext DEF TypeParts, Buffered
    <2> QED
      BY <2>1, <2>2
  <1>7. CASE ReadInvalid
    BY <1>1, <1>2, <1>7, TypeInPartsNext DEF ReadInvalid, TypeParts, Buffered
  <1>8. CASE ReadTooLate
    BY <1>8, HangUpTypes DEF ReadTooLate
  <1>9. CASE ReadUnexpected
    <2>1. PICK o \in Delivered(stream) : stream' = o.stream
      BY <1>9 DEF ReadUnexpected
    <2>2. o.stream \in ReplyStreams
      BY <1>1, <2>1, FirstMessage DEF ReplyStreams
    <2>3. Len(o.stream.in) <= BufferSize
      <3>1. Len(stream.in) \in Nat /\ Len(stream.in) <= BufferSize /\ BufferSize \in Nat
        BY Windows, LenProperties, ConstantTypes DEF Buffered
      <3>2. PICK e \in 1..Len(stream.in) : Len(o.stream.in) = Len(stream.in) - e
        BY <1>1, <2>1, FirstMessage DEF ReplyStreams
      <3> QED
        BY <3>1, <3>2
    <2> QED
      BY <1>1, <1>2, <1>9, <2>1, <2>2, <2>3, TypeInPartsNext DEF ReadUnexpected, TypeParts, Buffered
  <1>10. CASE ReadReply
    <2>1. PICK o \in Delivered(stream) :
              /\ stream' = o.stream /\ reply' = o.message
              /\ o.stream \in ReplyStreams
              /\ Len(o.stream.in) <= BufferSize
              /\ o.message \in Messages /\ o.message.kind \in {"final", "continues"}
              /\ pending # <<>>
              /\ program' = [program EXCEPT !.got =
                    Append(@, [call |-> Head(pending).call, kind |-> o.message.kind])]
      BY <1>10, ReplyDelivered
    <2>2. Head(pending) \in Entries
      BY <1>1, <2>1, HeadTailProperties DEF TypeParts
    <2>3. [call |-> Head(pending).call, kind |-> o.message.kind] \in GotRecords
      BY <2>1, <2>2 DEF Entries, GotRecords
    <2>4. Append(program.got, [call |-> Head(pending).call, kind |-> o.message.kind]) \in Seq(GotRecords)
      BY <1>1, <2>3, AppendProperties
    <2>5. program' \in ProgramType
      BY <1>1, <2>1, <2>4 DEF TypeParts, ProgramType
    <2> QED
      BY <1>1, <1>10, <2>1, <2>5, TypeInPartsNext DEF ReadReply, TypeParts, Buffered
  <1> QED
    BY <1>3, <1>4, <1>5, <1>6, <1>7, <1>8, <1>9, <1>10 DEF Library

-----------------------------------------------------------------------------
(* What is on its way, action by action.                                   *)

\* Only the windows count.
LEMMA SameIncoming ==
    ASSUME stream'.in = stream.in, sock'.down = sock.down, server'.out = server.out
    PROVE  Incoming' = Incoming
  BY DEF Incoming

\* The same for what is on its way to the server.
LEMMA SameOutgoing ==
    ASSUME stream'.out = stream.out, sock'.up = sock.up
    PROVE  Outgoing' = Outgoing
  BY DEF Outgoing

\* The program writes.
LEMMA CallMoves ==
    ASSUME TypeOK, NEW kind \in Kinds, Call(kind)
    PROVE  /\ Incoming' = Incoming
           /\ CallFails(kind) => Outgoing' = Outgoing
           /\ CallSent(kind) => Grown(Outgoing, Outgoing', Len(program.calls) + 1, RequestSize)
           /\ Len(program.calls) + 1 \in CallNo
  <1> DEFINE i == Len(program.calls) + 1
  <1>1. i \in CallNo /\ stream \in StreamOf(ReplyCells, RequestCells)
    <2>1. Len(program.calls) \in Nat
      BY LenProperties DEF TypeOK
    <2> QED
      BY <2>1, Windows, ConstantTypes DEF Call, CallNo
  <1>2. UNCHANGED server
    BY DEF Call
  <1>3. CASE CallFails(kind)
    <2>1. UNCHANGED <<stream, sock>> /\ ~Fits(stream, RequestSize)
      BY <1>3 DEF CallFails
    <2>2. ~CallSent(kind)
      BY <2>1 DEF CallSent
    <2> QED
      BY <1>1, <1>2, <2>1, <2>2, SameIncoming, SameOutgoing
  <1>4. CASE CallSent(kind)
    <2>1. PICK o \in WriteOutcomes(stream, i, RequestSize, Room, ServerGone) :
            /\ stream' = o.stream
            /\ sock' = [sock EXCEPT !.up = @ \o o.sent]
      BY <1>4 DEF CallSent
    <2>2. o.stream.in = stream.in
      <3>1. /\ \A nul \in BOOLEAN : [msg |-> i, nul |-> nul] \in RequestCells
            /\ Room \in Int /\ ServerGone \in BOOLEAN /\ RequestSize \in Nat
        BY <1>1, RoomType DEF RequestCells, RequestSize
      <3> HIDE DEF i
      <3> QED
        BY <1>1, <2>1, <3>1, WriteType
    <2>3. sock'.down = sock.down
      BY <2>1 DEF TypeOK
    <2>4. Grown(Outgoing, Outgoing', i, RequestSize)
      <3> HIDE DEF i
      <3> QED
        BY <1>1, <2>1, RequestWritten
    <2>5. ~CallFails(kind)
      BY <1>4 DEF CallSent, CallFails
    <2> QED
      BY <1>1, <1>2, <2>1, <2>2, <2>3, <2>4, <2>5, SameIncoming
  <1> QED
    BY <1>3, <1>4 DEF Call

\* The library writes.
LEMMA OutputMoves ==
    ASSUME TypeOK, ProcessOutput
    PROVE  Incoming' = Incoming /\ Outgoing' = Outgoing
  <1>1. PICK o \in FlushOutcomes(stream, Room, ServerGone) :
          /\ stream' = o.stream
          /\ sock' = [sock EXCEPT !.up = @ \o o.sent]
    BY DEF ProcessOutput
  <1>2. Outgoing' = Outgoing
    BY <1>1, FlushMoves
  <1>3. o.stream.in = stream.in
    BY <1>1, Windows, RoomType, FlushType
  <1>4. sock'.down = sock.down /\ server' = server
    BY <1>1 DEF TypeOK, ProcessOutput
  <1> QED
    BY <1>1, <1>2, <1>3, <1>4, SameIncoming

\* These steps neither deliver nor send a message.
Quiet == \/ UNCHANGED vars \/ ProcessEvents \/ ProcessOutput \/ ReadSocket
         \/ (ReadNothing /\ open') \/ ReadInvalid
         \/ \E ok \in BOOLEAN : CallbackReturns(ok)
         \/ ServerWrites

\* A quiet step keeps what is on its way.
LEMMA QuietMoves ==
    ASSUME TypeOK, Buffered, Quiet
    PROVE  Incoming' = Incoming /\ Outgoing' = Outgoing
  <1>1. CASE UNCHANGED <<stream, sock, server>>
    BY <1>1, SameIncoming, SameOutgoing
  <1>2. CASE ProcessOutput
    BY <1>2, OutputMoves
  <1>3. CASE ReadSocket
    <2>1. stream'.out = stream.out
      BY <1>3, Windows DEF ReadSocket, Received, StreamOf
    <2>2. sock'.up = sock.up
      BY <1>3 DEF ReadSocket, TypeOK
    <2> QED
      BY <1>3, <2>1, <2>2, ReadMoves, SameOutgoing
  <1>4. CASE ServerWrites
    <2>1. stream'.out = stream.out /\ sock'.up = sock.up
      BY <1>4 DEF ServerWrites, TypeOK
    <2> QED
      BY <1>4, <2>1, WriteMoves, SameOutgoing
  <1>5. CASE ReadNothing /\ open'
    <2>1. UNCHANGED <<stream, sock, server>>
      BY <1>5 DEF ReadNothing, HangUp, Freed
    <2> QED
      BY <1>1, <2>1
  <1>6. CASE UNCHANGED vars \/ ProcessEvents \/ ReadInvalid \/ \E ok \in BOOLEAN : CallbackReturns(ok)
    <2>1. UNCHANGED <<stream, sock, server>>
      BY <1>6 DEF vars, ProcessEvents, ReadInvalid, CallbackReturns
    <2> QED
      BY <1>1, <2>1
  <1> QED
    BY <1>2, <1>3, <1>4, <1>5, <1>6 DEF Quiet

\* A connection that is open was open, and its step is a quiet one, a call,
\* a message that is read, or one of the server.
LEMMA OpenSteps ==
    ASSUME [Next]_vars, open'
    PROVE  open /\ (\/ Quiet \/ (\E kind \in Kinds : Call(kind))
                    \/ ReadUnexpected \/ ReadReply
                    \/ ServerReads \/ ServerReplies \/ ServerNoise \/ ServerCloses)
  <1>1. CASE UNCHANGED vars
    BY <1>1 DEF vars, Quiet
  <1>2. CASE Library
    <2>1. ~HangUp /\ ~ReadTooLate
      BY DEF HangUp, Freed, ReadTooLate
    <2>2. open
      BY <1>2, <2>1 DEF Library, ProcessEvents, ProcessOutput, ReadSocket, ReadNothing,
                        ReadInvalid, ReadTooLate, ReadUnexpected, ReadReply
    <2> QED
      BY <1>2, <2>1, <2>2 DEF Library, Quiet
  <1>3. CASE Program
    <2>1. ~Close
      BY DEF Close, Freed
    <2>2. open
      BY <1>3, <2>1 DEF Program, Call, CallbackReturns
    <2> QED
      BY <1>3, <2>1, <2>2 DEF Program, Quiet
  <1>4. CASE Server
    <2>1. open
      BY <1>4 DEF Server, ServerReads, ServerReplies, ServerNoise, ServerWrites, ServerCloses
    <2> QED
      BY <1>4, <2>1 DEF Server, Quiet
  <1> QED
    BY <1>1, <1>2, <1>3, <1>4 DEF Next

\* What the server answers: nothing to a oneway call, or a reply behind what
\* is on its way.
LEMMA AnswerMoves ==
    ASSUME TypeOK, ServerReplies
    PROVE  LET i == Head(server.todo) IN
           /\ server.peer = "open" /\ server.todo # <<>> /\ server'.peer = "open"
           /\ server'.noise = server.noise /\ Outgoing' = Outgoing
           /\ \/ /\ program.calls[i].kind = "oneway" /\ Incoming' = Incoming
                 /\ server'.todo = Tail(server.todo)
              \/ /\ program.calls[i].kind # "oneway"
                 /\ Grown(Incoming, Incoming', [call |-> i, kind |-> "final"], 2)
                 /\ server'.todo = Tail(server.todo)
              \/ /\ program.calls[i].kind = "more"
                 /\ Grown(Incoming, Incoming', [call |-> i, kind |-> "continues"], 2)
                 /\ server'.todo = server.todo
  <1> DEFINE i == Head(server.todo)
  <1>1. /\ server.peer = "open" /\ server.todo # <<>> /\ server.out = <<>>
        /\ UNCHANGED <<stream, sock>>
    BY DEF ServerReplies
  <1>2. i \in CallNo
    BY <1>1, Windows, HeadTailProperties
  <1>3. Outgoing' = Outgoing
    BY <1>1, SameOutgoing
  <1>4. CASE program.calls[i].kind = "oneway" /\ server' = [server EXCEPT !.todo = Tail(@)]
    <2>1. server'.out = server.out /\ server'.todo = Tail(server.todo)
          /\ server'.peer = server.peer /\ server'.noise = server.noise
      BY <1>4 DEF TypeOK
    <2>2. Incoming' = Incoming
      BY <1>1, <2>1, SameIncoming
    <2> QED
      BY <1>1, <1>3, <1>4, <2>1, <2>2
  <1>5. ASSUME NEW kind \in {"final", "continues"}, NEW todo, NEW replies, Reply(kind, todo, replies)
        PROVE  /\ Grown(Incoming, Incoming', [call |-> i, kind |-> kind], 2)
               /\ server'.todo = todo /\ server'.peer = server.peer /\ server'.noise = server.noise
    <2> DEFINE m == [call |-> i, kind |-> kind]
    <2>1. m \in Messages
      BY <1>2 DEF Messages
    <2>2. Frame(m, 2) \in Seq(ReplyCells) /\ 2 \in Nat
      BY <2>1, FrameCells
    <2>3. server' = [server EXCEPT !.todo = todo, !.replies = replies, !.out = server.out \o Frame(m, 2)]
      BY <1>5 DEF Reply
    <2> HIDE DEF m
    <2>4. server'.out = server.out \o Frame(m, 2) /\ server'.todo = todo
          /\ server'.peer = server.peer /\ server'.noise = server.noise
      BY <2>3 DEF TypeOK
    <2>5. <<>> \o Frame(m, 2) = Frame(m, 2)
      BY <2>2, ConcatEmptySeq
    <2>6. Grown(Incoming, Incoming', m, 2)
      BY <1>1, <2>1, <2>2, <2>4, <2>5, MessageSent
    <2> QED
      BY <2>4, <2>6 DEF m
  <1>6. CASE program.calls[i].kind # "oneway" /\ Reply("final", Tail(server.todo), 0)
    BY <1>1, <1>3, <1>5, <1>6
  <1>7. CASE program.calls[i].kind = "more" /\ Reply("continues", server.todo, server.replies + 1)
    BY <1>1, <1>3, <1>5, <1>7
  <1> QED
    BY <1>4, <1>6, <1>7 DEF ServerReplies

\* What the server sends against the protocol.
LEMMA NoiseMoves ==
    ASSUME TypeOK, ServerNoise
    PROVE  /\ server'.noise = server.noise + 1
           /\ \E m \in Messages : /\ Grown(Incoming, Incoming', m, ReplySize(m))
                                  /\ ReplySize(m) \in Nat \ {0}
                                  /\ m.kind = "endless" => ReplySize(m) = BufferSize + 1
  <1>1. PICK kind \in Noise :
          server' = [server EXCEPT !.noise = @ + 1,
                       !.out = Frame([call |-> NoCall, kind |-> kind],
                                     ReplySize([call |-> NoCall, kind |-> kind]))]
    BY DEF ServerNoise
  <1> DEFINE m == [call |-> NoCall, kind |-> kind]
  <1>2. m \in Messages /\ m.kind = kind
    BY ConnectionAssumption DEF Messages
  <1>3. server' = [server EXCEPT !.noise = @ + 1, !.out = Frame(m, ReplySize(m))]
    BY <1>1
  <1> HIDE DEF m
  <1>4. ReplySize(m) \in Nat \ {0} /\ (m.kind = "endless" => ReplySize(m) = BufferSize + 1)
    BY ConstantTypes DEF ReplySize
  <1>5. server'.out = Frame(m, ReplySize(m)) /\ server'.noise = server.noise + 1
    BY <1>3 DEF TypeOK
  <1>6. server.out = <<>> /\ UNCHANGED <<stream, sock>>
    BY DEF ServerNoise
  <1>7. Grown(Incoming, Incoming', m, ReplySize(m))
    BY <1>2, <1>4, <1>5, <1>6, MessageSent
  <1> QED
    BY <1>2, <1>4, <1>5, <1>7

\* Every step keeps endless messages apart.
LEMMA KeptStep ==
    ASSUME TypeOK, TypeOK', Buffered, Kept, [Next]_vars
    PROVE  Kept'
  <1> SUFFICES ASSUME open' PROVE EndlessFits(Incoming)'
    BY DEF Kept
  <1>1. EndlessFits(Incoming) /\ Incoming \in Seq(ReplyCells)
    BY OpenSteps, Windows DEF Kept
  <1>2. CASE Quiet
    <2>1. Incoming' = Incoming
      BY <1>2, QuietMoves
    <2> QED
      BY <1>1, <2>1 DEF EndlessFits
  <1>3. ASSUME NEW kind \in Kinds, Call(kind) PROVE EndlessFits(Incoming)'
    <2>1. Incoming' = Incoming
      BY <1>3, CallMoves
    <2> QED
      BY <1>1, <2>1 DEF EndlessFits
  <1>4. CASE ReadUnexpected \/ ReadReply
    <2>1. PICK o \in Delivered(stream) : stream' = o.stream
      BY <1>4 DEF ReadUnexpected, ReadReply
    <2>2. UNCHANGED <<sock, server>>
      BY <1>4 DEF ReadUnexpected, ReadReply
    <2>3. PICK e \in 1..Len(Incoming) : Incoming[e].nul /\ Follows(Incoming, e, Incoming')
      BY <2>1, <2>2, TakenFromIncoming
    <2>4. EndlessFits(Incoming')
      BY <1>1, <2>3, EndlessFollows
    <2> QED
      BY <2>4 DEF EndlessFits
  <1>5. CASE ServerReads
    <2>1. Incoming' = Incoming
      <3>1. stream'.in = stream.in /\ sock'.down = sock.down /\ server'.out = server.out
        BY <1>5 DEF ServerReads, TypeOK
      <3> QED
        BY <3>1, SameIncoming
    <2> QED
      BY <1>1, <2>1 DEF EndlessFits
  <1>6. CASE ServerReplies
    <2>1. \/ Incoming' = Incoming
          \/ \E m \in [call : {Head(server.todo)}, kind : {"final", "continues"}] :
               Grown(Incoming, Incoming', m, 2)
      BY <1>6, AnswerMoves
    <2>2. ASSUME NEW m \in [call : {Head(server.todo)}, kind : {"final", "continues"}],
                 Grown(Incoming, Incoming', m, 2)
          PROVE  EndlessFits(Incoming')
      BY <1>1, <2>2, EndlessGrown
    <2>3. EndlessFits(Incoming')
      BY <1>1, <2>1, <2>2
    <2> QED
      BY <2>3 DEF EndlessFits
  <1>7. CASE ServerNoise
    <2>1. PICK m \in Messages : /\ Grown(Incoming, Incoming', m, ReplySize(m))
                                /\ ReplySize(m) \in Nat \ {0}
                                /\ m.kind = "endless" => ReplySize(m) = BufferSize + 1
      BY <1>7, NoiseMoves
    <2>2. EndlessFits(Incoming')
      BY <1>1, <2>1, EndlessGrown
    <2> QED
      BY <2>2 DEF EndlessFits
  <1>8. CASE ServerCloses
    <2>1. Prefix(Incoming, Incoming') /\ Incoming' \in Seq(ReplyCells)
      BY <1>8, EndLost
    <2>2. EndlessFits(Incoming')
      BY <1>1, <2>1, EndlessPrefix
    <2> QED
      BY <2>2 DEF EndlessFits
  <1> QED
    BY <1>2, <1>3, <1>4, <1>5, <1>6, <1>7, <1>8, OpenSteps

-----------------------------------------------------------------------------
(* What is polled for, and what is read.                                   *)

\* Only an open connection is read.
LEMMA ReadsOpenStep ==
    ASSUME ReadsOpen, [Next]_vars
    PROVE  ReadsOpen'
  <1> SUFFICES ASSUME pc' = "read" PROVE open'
    BY DEF ReadsOpen
  <1>1. CASE UNCHANGED vars
    BY <1>1 DEF ReadsOpen, vars
  <1>2. CASE Library
    <2>1. ~ReturnError /\ ~HangUp
      BY DEF ReturnError, HangUp
    <2>2. open
      BY <1>2, <2>1 DEF ReadsOpen, Library, ProcessEvents, ProcessOutput, ReadSocket, ReadNothing,
                        ReadInvalid, ReadTooLate, ReadUnexpected, ReadReply
    <2> QED
      BY <1>2, <2>1, <2>2 DEF Library, ProcessEvents, ProcessOutput, ReadSocket, ReadNothing,
                              ReadInvalid, ReadTooLate, ReadUnexpected, ReadReply
  <1>3. CASE Program
    BY <1>3 DEF ReadsOpen, Program, InProgram, Call, Close, Freed, CallbackReturns
  <1>4. CASE Server
    BY <1>4 DEF ReadsOpen, Server, ServerReads, ServerReplies, ServerNoise, ServerWrites, ServerCloses
  <1> QED
    BY <1>1, <1>2, <1>3, <1>4 DEF Next

\* What is waited for is polled for after every step.
LEMMA ArmedStep ==
    ASSUME TypeOK, WaitsAreArmed, HeadIsReplied, [Next]_vars
    PROVE  WaitsAreArmed'
  <1> SUFFICES ASSUME open'
               PROVE  /\ pending' # <<>> => "IN" \in events'
                      /\ stream'.out # <<>> => "OUT" \in events'
    BY DEF WaitsAreArmed
  <1>1. /\ open
        /\ pending # <<>> => "IN" \in events
        /\ stream.out # <<>> => "OUT" \in events
    BY OpenSteps DEF WaitsAreArmed
  <1>2. stream \in StreamOf(ReplyCells, RequestCells) /\ Room \in Int /\ ServerGone \in BOOLEAN
    BY Windows, RoomType
  <1>3. CASE Quiet
    <2>1. CASE UNCHANGED <<stream, pending, events>>
      BY <1>1, <2>1
    <2>2. CASE ProcessOutput
      <3>1. PICK o \in FlushOutcomes(stream, Room, ServerGone) :
              stream' = o.stream /\ events' = FlushedMask(events, o.result)
        BY <2>2 DEF ProcessOutput
      <3>2. o.result = "empty" => o.stream.out = <<>>
        BY <1>2, <3>1, FlushConcat
      <3>3. pending' = pending /\ "OUT" \in events
        BY <2>2 DEF ProcessOutput, Ready
      <3> QED
        BY <1>1, <3>1, <3>2, <3>3 DEF FlushedMask
    <2>3. CASE ReadSocket
      <3>1. stream'.out = stream.out /\ UNCHANGED <<pending, events>>
        BY <1>2, <2>3 DEF ReadSocket, Received, StreamOf
      <3> QED
        BY <1>1, <3>1
    <2>4. CASE ReadNothing /\ open'
      <3>1. events' = EndMask(pending) /\ UNCHANGED <<stream, pending>>
        BY <2>4 DEF ReadNothing, HangUp, Freed
      <3>2. \A queue : queue # <<>> => EndMask(queue) = events
        BY DEF EndMask
      <3>3. \A queue : "OUT" \in events => "OUT" \in EndMask(queue)
        BY DEF EndMask
      <3> QED
        BY <1>1, <3>1, <3>2, <3>3
    <2>5. ASSUME NEW ok \in BOOLEAN, CallbackReturns(ok)
          PROVE  /\ pending' # <<>> => "IN" \in events'
                 /\ stream'.out # <<>> => "OUT" \in events'
      <3>1. pending # <<>> /\ stream' = stream /\ pending' = Retired
        BY <2>5 DEF CallbackReturns, HeadIsReplied
      <3>2. events' = events \/ events' = EndMask(pending')
        BY <2>5, <3>1 DEF CallbackReturns
      <3>3. \A queue : queue # <<>> => EndMask(queue) = events
        BY DEF EndMask
      <3>4. \A queue : "OUT" \in events => "OUT" \in EndMask(queue)
        BY DEF EndMask
      <3> QED
        BY <1>1, <3>1, <3>2, <3>3, <3>4
    <2>6. CASE UNCHANGED vars \/ ProcessEvents \/ ReadInvalid \/ ServerWrites
      <3>1. UNCHANGED <<stream, pending, events>>
        BY <2>6 DEF vars, ProcessEvents, ReadInvalid, ServerWrites
      <3> QED
        BY <2>1, <3>1
    <2> QED
      BY <1>3, <2>2, <2>3, <2>4, <2>5, <2>6 DEF Quiet
  <1>4. ASSUME NEW kind \in Kinds, Call(kind)
        PROVE  /\ pending' # <<>> => "IN" \in events'
               /\ stream'.out # <<>> => "OUT" \in events'
    <2>1. kind = "oneway" => pending' = pending
      BY <1>4 DEF Call, Queued
    <2>2. CASE CallFails(kind)
      BY <1>1, <2>1, <2>2 DEF CallFails
    <2>3. CASE CallSent(kind)
      <3> DEFINE i == Len(program.calls) + 1
      <3>1. PICK o \in WriteOutcomes(stream, i, RequestSize, Room, ServerGone) :
              /\ stream' = o.stream
              /\ events' = events \cup (IF kind = "oneway" THEN {} ELSE {"IN"}) \cup CallOut(o)
        BY <2>3 DEF CallSent
      <3>2. i \in CallNo
        BY <1>4, CallMoves
      <3> HIDE DEF i
      <3>3. Frame(i, RequestSize) \in Seq(RequestCells) /\ RequestSize \in Nat
        BY <3>2, FrameCells DEF RequestSize
      <3>4. o.whole = FALSE \/ o.stream.out = <<>>
        BY <1>2, <3>1, <3>3, WriteConcat, ZenonT(60)
      <3> QED
        BY <1>1, <2>1, <3>1, <3>4 DEF CallOut
    <2> QED
      BY <1>4, <2>2, <2>3 DEF Call
  <1>5. CASE ReadUnexpected \/ ReadReply
    <2>1. PICK o \in Delivered(stream) : stream' = o.stream
      BY <1>5 DEF ReadUnexpected, ReadReply
    <2>2. o.stream.out = stream.out
      BY <1>2, <2>1, FirstMessage DEF ReplyStreams
    <2>3. UNCHANGED <<pending, events>>
      BY <1>5 DEF ReadUnexpected, ReadReply
    <2> QED
      BY <1>1, <2>1, <2>2, <2>3
  <1>6. CASE ServerReads \/ ServerReplies \/ ServerNoise \/ ServerCloses
    BY <1>1, <1>6 DEF ServerReads, ServerReplies, ServerNoise, ServerCloses
  <1> QED
    BY <1>3, <1>4, <1>5, <1>6, OpenSteps

-----------------------------------------------------------------------------
(* The queue.                                                              *)

\* A step that neither calls, nor replies, nor retires.
LEMMA QueueSame ==
    ASSUME QueueInv, pending' = pending, program'.calls = program.calls,
           program'.got = program.got, Retires' <=> Retires, HeadIsReplied'
    PROVE  QueueInv'
  <1>1. QueueOrdered' /\ GotKnown'
    BY DEF QueueInv, QueueOrdered, GotKnown
  <1>2. \A i : Finished(i)' <=> Finished(i)
    BY DEF Finished
  <1>3. QueueWaits'
    BY <1>2 DEF QueueInv, QueueWaits, EntryWaits
  <1>4. WaitsQueued'
    BY <1>2 DEF QueueInv, WaitsQueued, Waits
  <1> QED
    BY <1>1, <1>3, <1>4 DEF QueueInv

\* A reply finishes its call, or none.
LEMMA FinishedAfter ==
    ASSUME TypeOK, NEW r \in GotRecords, program'.got = Append(program.got, r)
    PROVE  \A i : Finished(i)' <=> Finished(i) \/ (r.call = i /\ r.kind = "final")
  <1> DEFINE g == program.got
             h == Append(program.got, r)
  <1>1. g \in Seq(GotRecords) /\ Len(g) \in Nat
    BY LenProperties DEF TypeOK, GotRecords
  <1>2. /\ Len(h) = Len(g) + 1 /\ h[Len(g) + 1] = r
        /\ \A j \in 1..Len(g) : h[j] = g[j]
    BY <1>1, AppendProperties
  <1> HIDE DEF h
  <1>3. TAKE i
  <1>4. Finished(i)' <=> \E j \in 1..Len(h) : h[j].call = i /\ h[j].kind = "final"
    BY DEF Finished, h
  <1>5. Finished(i) <=> \E j \in 1..Len(g) : g[j].call = i /\ g[j].kind = "final"
    BY DEF Finished
  <1> HIDE DEF g
  <1>6. ASSUME NEW j \in 1..Len(h), h[j].call = i, h[j].kind = "final"
        PROVE  Finished(i) \/ (r.call = i /\ r.kind = "final")
    <2>1. j \in 1..Len(g) \/ j = Len(g) + 1
      BY <1>1, <1>2
    <2> QED
      BY <1>2, <1>5, <1>6, <2>1
  <1>7. ASSUME NEW j \in 1..Len(g), g[j].call = i, g[j].kind = "final"
        PROVE  j \in 1..Len(h) /\ h[j].call = i /\ h[j].kind = "final"
    BY <1>1, <1>2, <1>7
  <1>8. Len(g) + 1 \in 1..Len(h)
    BY <1>1, <1>2
  <1> QED
    BY <1>2, <1>4, <1>5, <1>6, <1>7, <1>8

\* A callback is queued behind the others, unless the call is oneway.
LEMMA CallQueue ==
    ASSUME TypeOK, QueueInv, NEW kind \in Kinds, Call(kind)
    PROVE  QueueInv'
  <1> DEFINE n == Len(program.calls)
             l == Len(pending)
             x == [call |-> n + 1, more |-> kind = "more"]
  <1>1. PICK sent \in BOOLEAN :
          program' = [program EXCEPT !.calls = Append(@, [kind |-> kind, sent |-> sent]),
                                     !.failed = program'.failed]
    BY DEF Call, CallFails, CallSent, Told, TypeOK
  <1> DEFINE c == [kind |-> kind, sent |-> sent]
  <1>2. program.calls \in Seq(CallRecords) /\ c \in CallRecords /\ pending \in Seq(Entries)
    BY DEF TypeOK, CallRecords
  <1>3. n \in Nat /\ l \in Nat
    BY <1>2, LenProperties
  <1>4. /\ Len(program'.calls) = n + 1 /\ program'.calls[n + 1].kind = kind
        /\ \A i \in 1..n : program'.calls[i] = program.calls[i]
        /\ program'.got = program.got
    <2>1. program'.calls = Append(program.calls, c) /\ program'.got = program.got
      BY <1>1 DEF TypeOK
    <2> HIDE DEF c
    <2>2. /\ Len(program'.calls) = n + 1 /\ program'.calls[n + 1] = c
          /\ \A i \in 1..n : program'.calls[i] = program.calls[i]
      BY <1>2, <2>1, AppendProperties
    <2> QED
      BY <2>1, <2>2 DEF c
  <1>5. \A i : Finished(i)' <=> Finished(i)
    BY <1>4 DEF Finished
  <1>6. UNCHANGED <<pc, reply>> /\ (Retires' <=> Retires)
    BY DEF Call, Retires
  <1>7. ~Finished(n + 1)
    BY <1>3 DEF Finished, QueueInv, GotKnown
  <1>8. GotKnown'
    BY <1>3, <1>4 DEF QueueInv, GotKnown
  <1>9. CASE kind = "oneway"
    <2>1. pending' = pending
      BY <1>9 DEF Call, Queued
    <2>2. QueueOrdered' /\ HeadIsReplied'
      BY <1>6, <2>1 DEF QueueInv, QueueOrdered, HeadIsReplied
    <2>3. QueueWaits'
      BY <1>3, <1>4, <1>5, <1>6, <2>1 DEF QueueInv, QueueWaits, EntryWaits
    <2>4. WaitsQueued'
      BY <1>3, <1>4, <1>5, <1>9, <2>1 DEF QueueInv, WaitsQueued, Waits
    <2> QED
      BY <1>8, <2>2, <2>3, <2>4 DEF QueueInv
  <1>10. CASE kind # "oneway"
    <2>1. pending' = Append(pending, x)
      BY <1>10 DEF Call, Queued, QueueTail
    <2>2. x \in Entries
      BY CallMoves DEF Entries
    <2>3. x.call = n + 1 /\ (x.more <=> kind = "more")
      OBVIOUS
    <2> HIDE DEF x
    <2>4. /\ Len(pending') = l + 1 /\ pending'[l + 1] = x /\ pending' # <<>>
          /\ \A k \in 1..l : pending'[k] = pending[k]
      BY <1>2, <2>1, <2>2, AppendProperties
    <2>5. \A k \in 1..(l + 1) : k \in 1..l \/ k = l + 1
      BY <1>3
    <2>6. QueueOrdered'
      <3>1. \A k \in 1..l : pending[k].call < n + 1
        BY <1>3 DEF QueueInv, QueueWaits, EntryWaits
      <3>2. ASSUME NEW j \in 1..(l + 1), NEW k \in 1..(l + 1), j < k
            PROVE  pending'[j].call < pending'[k].call
        <4>1. j \in 1..l
          BY <1>3, <3>2
        <4>2. CASE k \in 1..l
          BY <2>4, <3>2, <4>1, <4>2 DEF QueueInv, QueueOrdered
        <4>3. CASE k = l + 1
          BY <2>3, <2>4, <3>1, <4>1, <4>3
        <4> QED
          BY <2>5, <4>2, <4>3
      <3> QED
        BY <2>4, <3>2 DEF QueueOrdered
    <2>7. QueueWaits'
      <3>1. ASSUME NEW k \in 1..l PROVE EntryWaits(k)'
        <4>1. /\ pending[k].call \in 1..n /\ program.calls[pending[k].call].kind # "oneway"
              /\ pending[k].more <=> program.calls[pending[k].call].kind = "more"
              /\ Finished(pending[k].call) <=> (Retires /\ k = 1)
          BY <1>3 DEF QueueInv, QueueWaits, EntryWaits
        <4>2. pending'[k] = pending[k] /\ program'.calls[pending[k].call] = program.calls[pending[k].call]
          BY <1>4, <2>4, <4>1
        <4>3. pending'[k].call \in 1..Len(program'.calls)
          BY <1>3, <1>4, <4>1, <4>2
        <4>4. Finished(pending[k].call)' <=> (Retires' /\ k = 1)
          BY <1>5, <1>6, <4>1, <4>2
        <4> QED
          BY <4>1, <4>2, <4>3, <4>4 DEF EntryWaits
      <3>2. PICK e \in Nat : e = l + 1
        BY <1>3
      <3>3. PICK i \in Nat : i = n + 1
        BY <1>3
      <3>4. EntryWaits(e)'
        <4>1. Retires' => e # 1
          BY <1>2, <1>3, <1>6, <3>2, LenProperties, EmptySeq DEF Retires, QueueInv, HeadIsReplied
        <4>2. pending'[e].call = i /\ (pending'[e].more <=> kind = "more")
          BY <2>3, <2>4, <3>2, <3>3
        <4>3. pending'[e].call \in 1..Len(program'.calls)
          BY <1>3, <1>4, <3>3, <4>2
        <4>4. program'.calls[pending'[e].call].kind = kind
          BY <1>4, <3>3, <4>2
        <4>5. ~Finished(i)'
          BY <1>5, <1>7, <3>3
        <4>6. ~Finished(pending[e].call)'
          BY <4>2, <4>5 DEF Finished
        <4> QED
          BY <1>10, <4>1, <4>2, <4>3, <4>4, <4>6 DEF EntryWaits
      <3>5. \A k \in 1..Len(pending') : k \in 1..l \/ k = e
        BY <2>4, <2>5, <3>2
      <3> QED
        BY <3>1, <3>4, <3>5 DEF QueueWaits
    <2>8. WaitsQueued'
      <3>1. ASSUME NEW i \in 1..(n + 1), Waits(i)'
            PROVE  \E k \in 1..(l + 1) : pending'[k].call = i
        <4>1. CASE i \in 1..n
          <5>1. Waits(i)
            BY <1>3, <1>4, <1>5, <3>1, <4>1 DEF Waits
          <5>2. PICK k \in 1..l : pending[k].call = i
            BY <4>1, <5>1 DEF QueueInv, WaitsQueued
          <5> QED
            BY <1>3, <2>4, <5>2
        <4>2. CASE i = n + 1
          BY <1>3, <2>3, <2>4, <4>2
        <4> QED
          BY <1>3, <4>1, <4>2
      <3> QED
        BY <1>4, <2>4, <3>1 DEF WaitsQueued
    <2>9. HeadIsReplied'
      BY <1>6, <2>4 DEF QueueInv, HeadIsReplied
    <2> QED
      BY <1>8, <2>6, <2>7, <2>8, <2>9 DEF QueueInv
  <1> QED
    BY <1>9, <1>10

\* A reply executes the callback of the head of the queue; the last one
\* finishes its call, which stays at the head until the callback returns.
LEMMA ReplyQueue ==
    ASSUME TypeOK, Buffered, ReadsOpen, Kept, QueueInv, ReadReply
    PROVE  QueueInv'
  <1>1. PICK o \in Delivered(stream) :
          /\ reply' = o.message
          /\ o.message \in Messages /\ o.message.kind \in {"final", "continues"}
          /\ pending # <<>> /\ ~Unexpected(o.message)
          /\ program' = [program EXCEPT !.got =
                Append(@, [call |-> Head(pending).call, kind |-> o.message.kind])]
    BY ReplyDelivered
  <1> DEFINE h == Head(pending).call
             kind == o.message.kind
             r == [call |-> h, kind |-> kind]
  <1>2. pending \in Seq(Entries) /\ Len(pending) \in Nat /\ Len(pending) > 0
        /\ pending[1] \in Entries /\ h = pending[1].call
    <2>1. pending \in Seq(Entries)
      BY DEF TypeOK
    <2>2. Len(pending) \in Nat /\ Len(pending) > 0
      BY <1>1, <2>1, LenProperties, EmptySeq
    <2>3. 1 \in 1..Len(pending)
      BY <2>2
    <2>4. pending[1] \in Entries
      BY <2>1, <2>3, ElementOfSeq
    <2> QED
      BY <2>1, <2>2, <2>4
  <1>3. r \in GotRecords /\ program'.got = Append(program.got, r) /\ program'.calls = program.calls
    BY <1>1, <1>2 DEF TypeOK, Entries, GotRecords
  <1>4. pending' = pending /\ pc' = "callback" /\ reply'.kind = kind /\ ~Retires
    BY <1>1 DEF ReadReply, Retires
  <1> HIDE DEF h, kind
  <1>5. \A i : Finished(i)' <=> Finished(i) \/ (h = i /\ kind = "final")
    <2>1. r.call = h /\ r.kind = kind
      OBVIOUS
    <2> HIDE DEF r
    <2> QED
      BY <1>3, <2>1, FinishedAfter
  <1>6. HeadIsReplied' /\ QueueOrdered'
    BY <1>1, <1>4 DEF HeadIsReplied, QueueInv, QueueOrdered, kind
  <1>7. Retires' <=> kind = "final"
    BY <1>4 DEF Retires
  <1>8. QueueWaits'
    <2>1. ASSUME NEW k \in 1..Len(pending) PROVE EntryWaits(k)'
      <3>1. EntryWaits(k) /\ ~Finished(pending[k].call)
        BY <1>4 DEF QueueInv, QueueWaits, EntryWaits
      <3>2. h = pending[k].call <=> k = 1
        <4>1. k = 1 \/ 1 < k
          BY <1>2
        <4>2. 1 < k => pending[1].call < pending[k].call
          BY <1>2 DEF QueueInv, QueueOrdered
        <4>3. pending[1].call \in Nat
          BY <1>2 DEF Entries, CallNo
        <4> QED
          BY <1>2, <4>1, <4>2, <4>3
      <3>3. Finished(pending[k].call)' <=> (Retires' /\ k = 1)
        BY <1>4, <1>5, <1>7, <3>1, <3>2
      <3> QED
        BY <1>3, <1>4, <3>1, <3>3 DEF EntryWaits
    <2> QED
      BY <1>4, <2>1 DEF QueueWaits
  <1>9. WaitsQueued'
    <2>1. \A i : Waits(i)' => Waits(i)
      BY <1>3, <1>5 DEF Waits
    <2> QED
      BY <1>3, <1>4, <2>1 DEF QueueInv, WaitsQueued
  <1>10. GotKnown'
    <2>1. program.got \in Seq(GotRecords) /\ Len(program.got) \in Nat
      BY LenProperties DEF TypeOK, GotRecords
    <2> HIDE DEF r
    <2>2. /\ Len(program'.got) = Len(program.got) + 1 /\ program'.got[Len(program.got) + 1] = r
          /\ \A j \in 1..Len(program.got) : program'.got[j] = program.got[j]
      BY <1>3, <2>1, AppendProperties
    <2>3. r.call \in 1..Len(program.calls)
      <3>1. EntryWaits(1)
        BY <1>2 DEF QueueInv, QueueWaits
      <3> QED
        BY <1>2, <3>1 DEF EntryWaits, r
    <2>4. \A j \in 1..Len(program'.got) : j \in 1..Len(program.got) \/ j = Len(program.got) + 1
      BY <2>1, <2>2
    <2> QED
      BY <1>3, <2>2, <2>3, <2>4 DEF QueueInv, GotKnown
  <1> QED
    BY <1>6, <1>8, <1>9, <1>10 DEF QueueInv

\* The callback returns: with its last reply, its call leaves the queue.
LEMMA RetireQueue ==
    ASSUME TypeOK, QueueInv, NEW ok \in BOOLEAN, CallbackReturns(ok)
    PROVE  QueueInv'
  <1>1. /\ pc = "callback" /\ pc' # "callback" /\ pending' = Retired
        /\ program'.calls = program.calls /\ program'.got = program.got
    BY DEF CallbackReturns, Told, TypeOK
  <1>2. pending # <<>> /\ reply.kind \in {"final", "continues"}
    BY <1>1 DEF QueueInv, HeadIsReplied
  <1>3. \A i : Finished(i)' <=> Finished(i)
    BY <1>1 DEF Finished
  <1>4. HeadIsReplied' /\ ~Retires' /\ GotKnown'
    BY <1>1 DEF HeadIsReplied, Retires, QueueInv, GotKnown
  <1>5. CASE reply.kind = "continues"
    <2>1. pending' = pending /\ ~Retires
      BY <1>1, <1>5 DEF Retired, Retires
    <2> QED
      BY <1>1, <1>4, <2>1, QueueSame
  <1>6. CASE reply.kind = "final"
    <2>1. pending' = Tail(pending) /\ Retires
      BY <1>1, <1>6 DEF Retired, Retires
    <2>2. pending \in Seq(Entries) /\ Len(pending) \in Nat /\ Len(pending) > 0
      BY <1>2, LenProperties, EmptySeq DEF TypeOK
    <2>3. Len(pending') = Len(pending) - 1 /\ \A k \in 1..(Len(pending) - 1) : pending'[k] = pending[k + 1]
      BY <1>2, <2>1, <2>2, HeadTailProperties
    <2> DEFINE p == pending
               n == Len(pending)
               q == pending'
    <2>4. n \in Nat /\ n > 0 /\ Len(q) = n - 1 /\ \A k \in 1..(n - 1) : q[k] = p[k + 1]
      BY <2>2, <2>3
    <2>5. \A k \in 1..n : EntryWaits(k)
      BY DEF QueueInv, QueueWaits
    <2>6. \A k \in 1..(n - 1) : k + 1 \in 1..n
      BY <2>2
    <2>7. QueueOrdered'
      <3>1. \A j, k \in 1..n : j < k => p[j].call < p[k].call
        BY DEF QueueInv, QueueOrdered
      <3> HIDE DEF p, n, q
      <3>2. \A j, k \in 1..(n - 1) : j < k => q[j].call < q[k].call
        <4> SUFFICES ASSUME NEW j \in 1..(n - 1), NEW k \in 1..(n - 1), j < k
                     PROVE  q[j].call < q[k].call
          OBVIOUS
        <4>1. j + 1 \in 1..n /\ k + 1 \in 1..n /\ j + 1 < k + 1
          BY <2>4
        <4>2. p[j + 1].call < p[k + 1].call
          BY <3>1, <4>1
        <4> QED
          BY <2>4, <4>2
      <3> QED
        BY <2>4, <3>2 DEF QueueOrdered, q
    <2>8. QueueWaits'
      <3>1. ASSUME NEW k \in 1..(n - 1) PROVE EntryWaits(k)'
        <4>1. PICK l \in 1..n : l = k + 1
          BY <2>6
        <4>2. EntryWaits(l) /\ l # 1 /\ pending'[k] = pending[l]
          BY <2>4, <2>5, <4>1
        <4>3. ~Finished(pending[l].call)
          BY <4>2 DEF EntryWaits
        <4>4. ~Finished(pending[k].call)'
          BY <1>1, <4>2, <4>3 DEF Finished
        <4> QED
          BY <1>1, <1>4, <4>2, <4>4 DEF EntryWaits
      <3> QED
        BY <2>4, <3>1 DEF QueueWaits
    <2>9. WaitsQueued'
      <3>1. ASSUME NEW i \in 1..Len(program.calls), Waits(i)'
            PROVE  \E k \in 1..(n - 1) : pending'[k].call = i
        <4>1. Waits(i)
          BY <1>1, <1>3, <3>1 DEF Waits
        <4>2. PICK l \in 1..n : pending[l].call = i
          BY <4>1 DEF QueueInv, WaitsQueued
        <4>3. l # 1
          <5>1. EntryWaits(l) /\ ~Finished(i)
            BY <2>5, <4>1 DEF Waits
          <5> QED
            BY <2>1, <4>2, <5>1 DEF EntryWaits
        <4>4. l - 1 \in 1..(n - 1) /\ (l - 1) + 1 = l
          BY <2>4, <4>3
        <4> QED
          BY <2>4, <4>2, <4>4
      <3> QED
        BY <1>1, <2>4, <3>1 DEF WaitsQueued
    <2> QED
      BY <1>4, <2>7, <2>8, <2>9 DEF QueueInv
  <1> QED
    BY <1>2, <1>5, <1>6

\* Every step keeps the queue.
LEMMA QueueStep ==
    ASSUME TypeOK, Buffered, ReadsOpen, Kept, QueueInv, [Next]_vars
    PROVE  QueueInv'
  <1>1. ASSUME UNCHANGED <<pending, pc, reply>>,
               program'.calls = program.calls, program'.got = program.got
        PROVE  QueueInv'
    BY <1>1, QueueSame DEF Retires, HeadIsReplied, QueueInv
  <1>2. ASSUME pending' = pending, pc # "callback", pc' # "callback",
               program'.calls = program.calls, program'.got = program.got
        PROVE  QueueInv'
    BY <1>2, QueueSame DEF Retires, HeadIsReplied, QueueInv
  <1>3. CASE UNCHANGED vars
    BY <1>1, <1>3 DEF vars
  <1>4. CASE Library
    <2>1. CASE ReadReply
      BY <2>1, ReplyQueue
    <2>2. CASE ~ReadReply
      <3>1. ReturnError => pc' # "callback" /\ program'.calls = program.calls
                           /\ program'.got = program.got
        BY DEF ReturnError, Told, TypeOK
      <3>2. HangUp => ReturnError /\ pending' = pending
        BY DEF HangUp
      <3> QED
        BY <1>2, <1>4, <2>2, <3>1, <3>2
           DEF Library, ProcessEvents, ProcessOutput, ReadSocket, ReadNothing, ReadInvalid,
               ReadTooLate, ReadUnexpected
    <2> QED
      BY <2>1, <2>2
  <1>5. CASE Program
    <2>1. CASE Close
      BY <1>1, <2>1 DEF Close, TypeOK
    <2> QED
      BY <1>5, <2>1, CallQueue, RetireQueue DEF Program
  <1>6. CASE Server
    BY <1>1, <1>6 DEF Server, ServerReads, ServerReplies, ServerNoise, ServerWrites, ServerCloses
  <1> QED
    BY <1>3, <1>4, <1>5, <1>6 DEF Next

-----------------------------------------------------------------------------
(* The theorems that hold whatever the program and the server do.          *)

\* The initial state.
LEMMA QueuesInit == Init => Queues
  <1> SUFFICES ASSUME Init PROVE Queues
    OBVIOUS
  <1>1. /\ <<>> \in Seq(Entries) /\ <<>> \in Seq(CallRecords) /\ <<>> \in Seq(GotRecords)
        /\ <<>> \in Seq(CallNo) /\ <<>> \in Seq(ReplyCells) /\ <<>> \in Seq(RequestCells)
    BY EmptySeq
  <1>2. program \in ProgramType /\ sock \in SockType
    BY <1>1 DEF Init, ProgramType, SockType
  <1>3. server \in ServerType
    <2>1. 0 \in 0..MaxReplies /\ 0 \in 0..MaxNoise
      BY ConstantTypes
    <2> QED
      BY <1>1, <2>1 DEF Init, ServerType
  <1>4. TypeOK
    BY <1>1, <1>2, <1>3, NewStreamType, TypeInParts DEF Init, TypeParts
  <1>5. Buffered
    BY NewStreamType, ConstantTypes DEF Init, Buffered
  <1>6. WaitsAreArmed /\ ReadsOpen
    BY NewStreamType DEF Init, WaitsAreArmed, ReadsOpen
  <1>7. Len(pending) = 0 /\ Len(program.calls) = 0 /\ Len(program.got) = 0 /\ pc = "idle"
    BY EmptySeq DEF Init
  <1>8. QueueInv
    BY <1>7 DEF QueueInv, QueueOrdered, QueueWaits, WaitsQueued, GotKnown, HeadIsReplied
  <1>9. Incoming = <<>>
    <2>1. <<>> \o <<>> = <<>>
      BY EmptySeq, ConcatEmptySeq
    <2> QED
      BY <2>1, NewStreamType DEF Init, Incoming
  <1>10. Kept
    BY <1>9, EmptySeq DEF Kept, EndlessFits
  <1> QED
    BY <1>4, <1>5, <1>6, <1>8, <1>10 DEF Queues

\* Every step.
LEMMA QueuesStep == Queues /\ [Next]_vars => Queues'
  <1> SUFFICES ASSUME Queues, [Next]_vars PROVE Queues'
    OBVIOUS
  <1>1. TypeOK /\ Buffered /\ ReadsOpen /\ WaitsAreArmed /\ QueueInv /\ HeadIsReplied /\ Kept
    BY DEF Queues, QueueInv
  <1>2. TypeOK' /\ Buffered'
    <2>1. CASE UNCHANGED vars
      BY <1>1, <2>1 DEF vars, TypeOK, Buffered
    <2> QED
      BY <1>1, <2>1, LibraryTypes, ProgramTypes, ServerTypes DEF Next
  <1>3. ReadsOpen' /\ WaitsAreArmed' /\ QueueInv' /\ Kept'
    BY <1>1, <1>2, ReadsOpenStep, ArmedStep, QueueStep, KeptStep
  <1> QED
    BY <1>2, <1>3 DEF Queues

\* It holds always.
THEOREM QueuesAlways == Spec => []Queues
  <1> QED
    BY QueuesInit, QueuesStep, PTL DEF Spec

\* Every variable has its type.
THEOREM ConnectionTypes == Spec => []TypeOK
  <1>1. Queues => TypeOK
    BY DEF Queues
  <1> QED
    BY <1>1, QueuesAlways, PTL

\* A connection with a queued callback or with output left is polled for it,
\* so that process_events is executed again: no path through call,
\* process_events and the callbacks leaves it asleep.
THEOREM ConnectionIsArmed == Spec => []WaitsAreArmed
  <1>1. Queues => WaitsAreArmed
    BY DEF Queues
  <1> QED
    BY <1>1, QueuesAlways, PTL

\* The queue of process_events holds the callbacks of the calls without a last
\* reply, and no others, whatever the server sends, whichever callbacks fail,
\* close the connection or make calls.
THEOREM ConnectionQueue == Spec => []QueueIsUnanswered
  <1>1. ASSUME Queues PROVE QueueIsUnanswered
    <2> SUFFICES ASSUME pc # "callback"
                 PROVE  {pending[k].call : k \in DOMAIN pending}
                        = {i \in DOMAIN program.calls :
                             /\ program.calls[i].kind # "oneway"
                             /\ ~\E j \in DOMAIN program.got :
                                   program.got[j].call = i /\ program.got[j].kind = "final"}
      BY DEF QueueIsUnanswered
    <2>1. DOMAIN pending = 1..Len(pending) /\ DOMAIN program.calls = 1..Len(program.calls)
          /\ DOMAIN program.got = 1..Len(program.got)
      <3>1. pending \in Seq(Entries) /\ program.calls \in Seq(CallRecords) /\ program.got \in Seq(GotRecords)
        BY <1>1 DEF Queues, TypeOK, CallRecords, GotRecords
      <3> QED
        BY <3>1, LenProperties
    <2>2. ~Retires
      BY DEF Retires
    <2>3. \A k \in 1..Len(pending) : Waits(pending[k].call)
      BY <1>1, <2>2 DEF Queues, QueueInv, QueueWaits, EntryWaits, Waits
    <2>4. \A i \in 1..Len(program.calls) : Waits(i) => \E k \in 1..Len(pending) : pending[k].call = i
      BY <1>1 DEF Queues, QueueInv, WaitsQueued
    <2>5. /\ {pending[k].call : k \in 1..Len(pending)} = {i \in 1..Len(program.calls) : Waits(i)}
      <3>1. \A k \in 1..Len(pending) : pending[k].call \in {i \in 1..Len(program.calls) : Waits(i)}
        BY <2>3 DEF Waits
      <3> QED
        BY <2>4, <3>1
    <2>6. \A i \in 1..Len(program.calls) :
            Waits(i) <=> /\ program.calls[i].kind # "oneway"
                         /\ ~\E j \in 1..Len(program.got) :
                               program.got[j].call = i /\ program.got[j].kind = "final"
      BY DEF Waits, Finished
    <2> QED
      BY <2>1, <2>5, <2>6
  <1> QED
    BY <1>1, QueuesAlways, PTL

-----------------------------------------------------------------------------
(***************************************************************************)
(* When the program makes no call after an error and the server keeps to   *)
(* the protocol: every reply executes the callback of its call, and the    *)
(* connection implements Replies.                                          *)
(***************************************************************************)

Sent(i) == i \in 1..Len(program.calls) /\ program.calls[i].sent

\* The calls that were sent and did not get their last reply, those of them
\* that wait for it, and the calls that asked for more.
Unfinished == {i \in CallNo : Sent(i) /\ ~Finished(i)}
Unanswered == {i \in Unfinished : program.calls[i].kind # "oneway"}
AskedMore == {i \in 1..Len(program.calls) : program.calls[i].kind = "more"}

\* Once a call could not be sent, the program was told, and makes no other.
UnsentIsLast ==
    \A i \in 1..Len(program.calls) :
       ~program.calls[i].sent => i = Len(program.calls) /\ program.failed

\* As long as the server keeps to the protocol, the replies on their way are
\* for calls that wait,
Awaited(m, waiting, more) ==
    /\ m.kind \in {"final", "continues"} /\ m.call \in waiting
    /\ m.kind = "continues" => m.call \in more

RepliesAwaited(cells, waiting, more) ==
    \A p \in 1..Len(cells) : cells[p].nul => Awaited(cells[p].msg, waiting, more)

\* in the order of the calls,
Before(m, i) == m.call < i \/ (m.call = i /\ m.kind = "continues")

RepliesOrdered(cells) ==
    \A p, q \in 1..Len(cells) :
       cells[p].nul /\ cells[q].nul /\ p < q => Before(cells[p].msg, cells[q].msg.call)

\* and no call is skipped: the last reply to an older one comes first.
LastReplyIn(cells, i, n) ==
    \E p \in 1..n : /\ cells[p].nul
                    /\ cells[p].msg.call = i /\ cells[p].msg.kind = "final"

NoneSkipped(cells, waiting) ==
    \A q \in 1..Len(cells) : \A i \in waiting :
       cells[q].nul /\ i < cells[q].msg.call => LastReplyIn(cells, i, q - 1)

RepliesFit(cells, waiting, more) ==
    /\ RepliesAwaited(cells, waiting, more)
    /\ RepliesOrdered(cells)
    /\ NoneSkipped(cells, waiting)

\* The calls the server has, and behind them those on their way to it, follow
\* the replies,
TodoOrdered(in, todo, unfinished) ==
    /\ \A k, l \in 1..Len(todo) : k < l => todo[k] < todo[l]
    /\ \A k \in 1..Len(todo) : todo[k] \in unfinished
    /\ \A k \in 1..Len(todo) : \A p \in 1..Len(in) : in[p].nul => Before(in[p].msg, todo[k])

RequestsOrdered(in, todo, out, unfinished) ==
    /\ \A p, q \in 1..Len(out) : out[p].nul /\ out[q].nul /\ p < q => out[p].msg < out[q].msg
    /\ \A q \in 1..Len(out) : out[q].nul =>
          /\ out[q].msg \in unfinished
          /\ \A k \in 1..Len(todo) : todo[k] < out[q].msg
          /\ \A p \in 1..Len(in) : in[p].nul => in[p].msg.call < out[q].msg

\* and a call that waits is somewhere.
NoneLost(in, todo, out, waiting) ==
    \A i \in waiting : \/ LastReplyIn(in, i, Len(in))
                       \/ \E k \in 1..Len(todo) : todo[k] = i
                       \/ \E p \in 1..Len(out) : out[p].nul /\ out[p].msg = i

RequestsFit(in, todo, out, unfinished, waiting) ==
    /\ TodoOrdered(in, todo, unfinished)
    /\ RequestsOrdered(in, todo, out, unfinished)
    /\ NoneLost(in, todo, out, waiting)

InOrder ==
    open /\ server.noise = 0 =>
       /\ RepliesFit(Incoming, Unanswered, AskedMore)
       /\ server.peer = "open" =>
             RequestsFit(Incoming, server.todo, Outgoing, Unfinished, Unanswered)

Order == UnsentIsLast /\ InOrder /\ ReplyReachesItsCallback

-----------------------------------------------------------------------------
(* What a step does to an order.                                           *)

\* A call is sent: its request is the last one.
LEMMA OrderIssued ==
    ASSUME NEW in \in Seq(ReplyCells),
           NEW waiting \in SUBSET Nat, NEW more, NEW i \in Nat, \A j \in waiting : j < i,
           NEW waiting2 \in SUBSET (waiting \cup {i}), NEW more2, more \subseteq more2,
           RepliesFit(in, waiting, more), waiting \subseteq waiting2
    PROVE  RepliesFit(in, waiting2, more2)
  <1>1. RepliesAwaited(in, waiting2, more2)
    BY DEF RepliesFit, RepliesAwaited, Awaited
  <1>2. NoneSkipped(in, waiting2)
    <2>1. ASSUME NEW q \in 1..Len(in), NEW j \in waiting2, in[q].nul, j < in[q].msg.call
          PROVE  LastReplyIn(in, j, q - 1)
      <3>1. in[q].msg.call \in waiting /\ in[q].msg.call < i /\ in[q].msg.call \in Nat
        BY <2>1 DEF RepliesFit, RepliesAwaited, Awaited
      <3>2. j # i /\ j \in waiting
        BY <2>1, <3>1
      <3> QED
        BY <2>1, <3>2 DEF RepliesFit, NoneSkipped
    <2> QED
      BY <2>1 DEF NoneSkipped
  <1> QED
    BY <1>1, <1>2 DEF RepliesFit

\* The same for the requests.
LEMMA RequestIssued ==
    ASSUME NEW in \in Seq(ReplyCells), NEW todo \in Seq(CallNo), NEW out \in Seq(RequestCells),
           NEW unfinished \in SUBSET Nat, NEW waiting \in SUBSET unfinished, NEW more,
           NEW i \in Nat, \A j \in unfinished : j < i,
           NEW waiting2 \in SUBSET (waiting \cup {i}),
           RepliesFit(in, waiting, more), RequestsFit(in, todo, out, unfinished, waiting),
           NEW out2, Grown(out, out2, i, RequestSize)
    PROVE  RequestsFit(in, todo, out2, unfinished \cup {i}, waiting2)
  <1> DEFINE n == Len(out)
  <1>1. /\ n \in Nat /\ Len(out2) = n + 2 /\ \A p \in 1..n : out2[p] = out[p]
        /\ ~out2[n + 1].nul /\ out2[n + 2].nul /\ out2[n + 2].msg = i
    <2>1. \A k \in 1..2 : out2[n + k].msg = i /\ (out2[n + k].nul <=> k = 2)
      BY DEF Grown, RequestSize
    <2> QED
      BY <2>1, LenProperties DEF Grown, RequestSize
  <1>2. \A p \in 1..Len(out2) : out2[p].nul => p \in 1..n \/ p = n + 2
    <2>1. \A p \in 1..Len(out2) : p \in 1..n \/ p = n + 1 \/ p = n + 2
      BY <1>1
    <2> QED
      BY <1>1, <2>1
  <1> HIDE DEF n
  <1>3. TodoOrdered(in, todo, unfinished \cup {i})
    BY DEF RequestsFit, TodoOrdered
  <1>4. /\ \A p, q \in 1..n : out[p].nul /\ out[q].nul /\ p < q => out[p].msg < out[q].msg
        /\ \A q \in 1..n : out[q].nul =>
              /\ out[q].msg \in unfinished
              /\ \A k \in 1..Len(todo) : todo[k] < out[q].msg
              /\ \A p \in 1..Len(in) : in[p].nul => in[p].msg.call < out[q].msg
    BY DEF RequestsFit, RequestsOrdered, n
  <1>5. RequestsOrdered(in, todo, out2, unfinished \cup {i})
    <2>1. ASSUME NEW p \in 1..Len(out2), NEW q \in 1..Len(out2), out2[p].nul, out2[q].nul, p < q
          PROVE  out2[p].msg < out2[q].msg
      <3>1. p \in 1..n
        BY <1>1, <1>2, <2>1
      <3>2. CASE q \in 1..n
        BY <1>1, <1>4, <2>1, <3>1, <3>2
      <3>3. CASE q = n + 2
        <4>1. out2[p] = out[p] /\ out[p].msg \in unfinished
          BY <1>1, <1>4, <2>1, <3>1
        <4> QED
          BY <1>1, <3>3, <4>1
      <3> QED
        BY <1>2, <2>1, <3>2, <3>3
    <2>2. ASSUME NEW q \in 1..Len(out2), out2[q].nul
          PROVE  /\ out2[q].msg \in unfinished \cup {i}
                 /\ \A k \in 1..Len(todo) : todo[k] < out2[q].msg
                 /\ \A p \in 1..Len(in) : in[p].nul => in[p].msg.call < out2[q].msg
      <3>1. CASE q \in 1..n
        BY <1>1, <1>4, <2>2, <3>1
      <3>2. CASE q = n + 2
        <4>1. \A k \in 1..Len(todo) : todo[k] \in unfinished
          BY DEF RequestsFit, TodoOrdered
        <4>2. \A p \in 1..Len(in) : in[p].nul => in[p].msg.call \in unfinished
          BY DEF RepliesFit, RepliesAwaited, Awaited
        <4> QED
          BY <1>1, <3>2, <4>1, <4>2
      <3> QED
        BY <1>2, <2>2, <3>1, <3>2
    <2> QED
      BY <2>1, <2>2 DEF RequestsOrdered
  <1>6. NoneLost(in, todo, out2, waiting2)
    <2>1. ASSUME NEW j \in waiting2
          PROVE  \/ LastReplyIn(in, j, Len(in))
                 \/ \E k \in 1..Len(todo) : todo[k] = j
                 \/ \E p \in 1..Len(out2) : out2[p].nul /\ out2[p].msg = j
      <3>1. CASE j = i
        <4>1. n + 2 \in 1..Len(out2)
          BY <1>1
        <4> QED
          BY <1>1, <3>1, <4>1
      <3>2. CASE j \in waiting
        <4>1. \/ LastReplyIn(in, j, Len(in))
              \/ \E k \in 1..Len(todo) : todo[k] = j
              \/ \E p \in 1..n : out[p].nul /\ out[p].msg = j
          BY <3>2 DEF RequestsFit, NoneLost, n
        <4>2. \A p \in 1..n : p \in 1..Len(out2) /\ out2[p] = out[p]
          BY <1>1
        <4> QED
          BY <4>1, <4>2
      <3> QED
        BY <3>1, <3>2
    <2> QED
      BY <2>1 DEF NoneLost
  <1> QED
    BY <1>3, <1>5, <1>6 DEF RequestsFit

\* The first reply is read; a last one finishes its call.
LEMMA OrderDelivered ==
    ASSUME NEW in \in Seq(ReplyCells), NEW waiting \in SUBSET Nat, NEW more,
           NEW waiting2 \in SUBSET waiting, NEW e \in 1..Len(in), NEW in2,
           Follows(in, e, in2), in[e].nul, \A p \in 1..(e - 1) : ~in[p].nul,
           \A i \in waiting : i \in waiting2 <=> ~(i = in[e].msg.call /\ in[e].msg.kind = "final"),
           RepliesFit(in, waiting, more)
    PROVE  /\ RepliesFit(in2, waiting2, more)
           /\ \A i \in waiting2 : LastReplyIn(in, i, Len(in)) => LastReplyIn(in2, i, Len(in2))
  <1> DEFINE n == Len(in)
             m == in[e].msg
  <1>1. n \in Nat /\ Len(in2) = n - e /\ \A p \in 1..(n - e) : p + e \in 1..n /\ in2[p] = in[p + e]
    BY LenProperties DEF Follows
  <1>2. \A p \in 1..n : in[p].nul => in[p].msg.call \in waiting
    BY DEF RepliesFit, RepliesAwaited, Awaited
  <1>3. \A p \in 1..(n - e) : in2[p].nul => Before(m, in2[p].msg.call)
    <2>1. ASSUME NEW p \in 1..(n - e), in2[p].nul PROVE Before(m, in2[p].msg.call)
      <3>1. p + e \in 1..n /\ in2[p] = in[p + e] /\ e < p + e
        BY <1>1
      <3> QED
        BY <2>1, <3>1 DEF RepliesFit, RepliesOrdered
    <2> QED
      BY <2>1
  <1>4. \A p \in 1..(n - e) : in2[p].nul => in2[p].msg.call \in waiting2
    <2>1. ASSUME NEW p \in 1..(n - e), in2[p].nul PROVE in2[p].msg.call \in waiting2
      <3>1. /\ in2[p].msg.call \in waiting /\ in2[p].msg.call \in Nat
            /\ m.call \in waiting /\ m.call \in Nat
        BY <1>1, <1>2, <2>1
      <3>2. m.call < in2[p].msg.call \/ m.kind = "continues"
        BY <1>3, <2>1 DEF Before
      <3>3. in2[p].msg.call # m.call \/ m.kind # "final"
        BY <3>1, <3>2
      <3> QED
        BY <3>1, <3>3
    <2> QED
      BY <2>1
  <1>5. RepliesAwaited(in2, waiting2, more)
    <2>1. ASSUME NEW p \in 1..(n - e), in2[p].nul PROVE Awaited(in2[p].msg, waiting2, more)
      <3>1. Awaited(in[p + e].msg, waiting, more)
        BY <1>1, <2>1 DEF RepliesFit, RepliesAwaited
      <3> QED
        BY <1>1, <1>4, <2>1, <3>1 DEF Awaited
    <2> QED
      BY <1>1, <2>1 DEF RepliesAwaited
  <1>6. RepliesOrdered(in2)
    <2>1. ASSUME NEW p \in 1..(n - e), NEW q \in 1..(n - e), in2[p].nul, in2[q].nul, p < q
          PROVE  Before(in2[p].msg, in2[q].msg.call)
      <3>1. p + e \in 1..n /\ q + e \in 1..n /\ p + e < q + e
        BY <1>1, <2>1
      <3>2. in2[p] = in[p + e] /\ in2[q] = in[q + e]
        BY <1>1
      <3> QED
        BY <2>1, <3>1, <3>2 DEF RepliesFit, RepliesOrdered
    <2> QED
      BY <1>1, <2>1 DEF RepliesOrdered
  <1>7. ASSUME NEW i \in waiting2, NEW q \in 0..(n - e), LastReplyIn(in, i, q + e)
        PROVE  LastReplyIn(in2, i, q)
    <2>1. PICK p \in 1..(q + e) : in[p].nul /\ in[p].msg.call = i /\ in[p].msg.kind = "final"
      BY <1>7 DEF LastReplyIn
    <2>2. p # e
      BY <2>1
    <2>3. p > e
      <3>1. ~(p \in 1..(e - 1))
        BY <2>1
      <3> QED
        BY <1>1, <2>2, <3>1
    <2>4. p - e \in 1..q /\ p - e \in 1..(n - e) /\ (p - e) + e = p
      BY <1>1, <2>3
    <2>5. in2[p - e] = in[p]
      BY <1>1, <2>4
    <2> QED
      BY <2>1, <2>4, <2>5 DEF LastReplyIn
  <1>8. NoneSkipped(in2, waiting2)
    <2>1. ASSUME NEW q \in 1..(n - e), NEW i \in waiting2, in2[q].nul, i < in2[q].msg.call
          PROVE  LastReplyIn(in2, i, q - 1)
      <3>1. LastReplyIn(in, i, (q + e) - 1)
        BY <1>1, <2>1 DEF RepliesFit, NoneSkipped
      <3>2. q - 1 \in 0..(n - e) /\ (q - 1) + e = (q + e) - 1
        BY <1>1
      <3> QED
        BY <1>7, <3>1, <3>2
    <2> QED
      BY <1>1, <2>1 DEF NoneSkipped
  <1>9. ASSUME NEW i \in waiting2, LastReplyIn(in, i, n)
        PROVE  LastReplyIn(in2, i, Len(in2))
    <2>1. n - e \in 0..(n - e) /\ (n - e) + e = n
      BY <1>1
    <2> QED
      BY <1>1, <1>7, <1>9, <2>1
  <1> QED
    BY <1>5, <1>6, <1>8, <1>9 DEF RepliesFit

\* The same for the requests behind it.
LEMMA RequestsDelivered ==
    ASSUME NEW in \in Seq(ReplyCells), NEW todo \in Seq(CallNo), NEW out \in Seq(RequestCells),
           NEW unfinished \in SUBSET Nat, NEW waiting \in SUBSET unfinished, NEW more,
           NEW waiting2 \in SUBSET waiting, NEW unfinished2 \in SUBSET unfinished,
           NEW e \in 1..Len(in), NEW in2,
           Follows(in, e, in2), in[e].nul, \A p \in 1..(e - 1) : ~in[p].nul,
           \A i \in waiting : i \in waiting2 <=> ~(i = in[e].msg.call /\ in[e].msg.kind = "final"),
           \A i \in unfinished :
              i \in unfinished2 <=> ~(i = in[e].msg.call /\ in[e].msg.kind = "final"),
           \A i \in waiting2 : LastReplyIn(in, i, Len(in)) => LastReplyIn(in2, i, Len(in2)),
           RepliesFit(in, waiting, more), RequestsFit(in, todo, out, unfinished, waiting)
    PROVE  RequestsFit(in2, todo, out, unfinished2, waiting2)
  <1> DEFINE n == Len(in)
             m == in[e].msg
  <1>1. n \in Nat /\ Len(in2) = n - e /\ \A p \in 1..(n - e) : p + e \in 1..n /\ in2[p] = in[p + e]
    BY LenProperties DEF Follows
  <1>2. m.call \in waiting /\ m.call \in Nat
    BY DEF RepliesFit, RepliesAwaited, Awaited
  <1>3. TodoOrdered(in2, todo, unfinished2)
    <2>1. ASSUME NEW k \in 1..Len(todo) PROVE todo[k] \in unfinished2
      <3>1. todo[k] \in unfinished /\ Before(m, todo[k])
        BY DEF RequestsFit, TodoOrdered
      <3>2. m.call # todo[k] \/ m.kind = "continues"
        BY <1>2, <3>1 DEF Before
      <3> QED
        BY <3>1, <3>2
    <2>2. ASSUME NEW k \in 1..Len(todo), NEW p \in 1..(n - e), in2[p].nul
          PROVE  Before(in2[p].msg, todo[k])
      BY <1>1, <2>2 DEF RequestsFit, TodoOrdered
    <2> QED
      BY <1>1, <2>1, <2>2 DEF RequestsFit, TodoOrdered
  <1>4. RequestsOrdered(in2, todo, out, unfinished2)
    <2>1. ASSUME NEW q \in 1..Len(out), out[q].nul
          PROVE  /\ out[q].msg \in unfinished2
                 /\ \A k \in 1..Len(todo) : todo[k] < out[q].msg
                 /\ \A p \in 1..(n - e) : in2[p].nul => in2[p].msg.call < out[q].msg
      <3>1. /\ out[q].msg \in unfinished /\ m.call < out[q].msg
            /\ \A k \in 1..Len(todo) : todo[k] < out[q].msg
            /\ \A p \in 1..n : in[p].nul => in[p].msg.call < out[q].msg
        BY <2>1 DEF RequestsFit, RequestsOrdered
      <3>2. m.call # out[q].msg
        BY <1>2, <3>1
      <3>3. \A p \in 1..(n - e) : in2[p].nul => in2[p].msg.call < out[q].msg
        BY <1>1, <3>1
      <3> QED
        BY <3>1, <3>2, <3>3
    <2> QED
      BY <1>1, <2>1 DEF RequestsFit, RequestsOrdered
  <1>5. NoneLost(in2, todo, out, waiting2)
    BY DEF RequestsFit, NoneLost
  <1> QED
    BY <1>3, <1>4, <1>5 DEF RequestsFit

\* The server takes a cell of a request.
LEMMA OrderTaken ==
    ASSUME NEW in \in Seq(ReplyCells), NEW todo \in Seq(CallNo), NEW out \in Seq(RequestCells),
           NEW unfinished \in SUBSET CallNo, NEW waiting \in SUBSET unfinished, NEW out2, NEW todo2,
           Follows(out, 1, out2), Len(out) > 0,
           todo2 = IF out[1].nul THEN Append(todo, out[1].msg) ELSE todo,
           RequestsFit(in, todo, out, unfinished, waiting)
    PROVE  RequestsFit(in, todo2, out2, unfinished, waiting)
  <1> DEFINE n == Len(out)
             x == out[1].msg
  <1>1. n \in Nat /\ n > 0 /\ Len(out2) = n - 1 /\ \A p \in 1..(n - 1) : p + 1 \in 1..n /\ out2[p] = out[p + 1]
    BY LenProperties DEF Follows
  <1>2. 1 \in 1..n
    BY <1>1
  <1>3. /\ \A p, q \in 1..n : out[p].nul /\ out[q].nul /\ p < q => out[p].msg < out[q].msg
        /\ \A q \in 1..n : out[q].nul =>
              /\ out[q].msg \in unfinished
              /\ \A k \in 1..Len(todo) : todo[k] < out[q].msg
              /\ \A p \in 1..Len(in) : in[p].nul => in[p].msg.call < out[q].msg
    BY DEF RequestsFit, RequestsOrdered
  <1>4. /\ \A k, l \in 1..Len(todo) : k < l => todo[k] < todo[l]
        /\ \A k \in 1..Len(todo) : todo[k] \in unfinished
        /\ \A k \in 1..Len(todo) : \A p \in 1..Len(in) : in[p].nul => Before(in[p].msg, todo[k])
    BY DEF RequestsFit, TodoOrdered
  <1>5. /\ \A p, q \in 1..(n - 1) : out2[p].nul /\ out2[q].nul /\ p < q => out2[p].msg < out2[q].msg
        /\ \A q \in 1..(n - 1) : out2[q].nul =>
              /\ out2[q].msg \in unfinished
              /\ \A k \in 1..Len(todo) : todo[k] < out2[q].msg
              /\ \A p \in 1..Len(in) : in[p].nul => in[p].msg.call < out2[q].msg
              /\ out[1].nul => x < out2[q].msg
    <2>1. ASSUME NEW p \in 1..(n - 1), NEW q \in 1..(n - 1), out2[p].nul, out2[q].nul, p < q
          PROVE  out2[p].msg < out2[q].msg
      <3>1. p + 1 \in 1..n /\ q + 1 \in 1..n /\ p + 1 < q + 1
            /\ out2[p] = out[p + 1] /\ out2[q] = out[q + 1]
        BY <1>1, <2>1
      <3> QED
        BY <1>3, <2>1, <3>1
    <2>2. ASSUME NEW q \in 1..(n - 1), out2[q].nul
          PROVE /\ out2[q].msg \in unfinished
                /\ \A k \in 1..Len(todo) : todo[k] < out2[q].msg
                /\ \A p \in 1..Len(in) : in[p].nul => in[p].msg.call < out2[q].msg
                /\ out[1].nul => x < out2[q].msg
      <3>1. q + 1 \in 1..n /\ 1 < q + 1 /\ out2[q] = out[q + 1]
        BY <1>1, SMTT(30)
      <3> QED
        BY <1>2, <1>3, <2>2, <3>1
    <2> QED
      BY <2>1, <2>2
  <1>6. CASE ~out[1].nul
    <2>1. todo2 = todo
      BY <1>6
    <2>2. TodoOrdered(in, todo2, unfinished) /\ RequestsOrdered(in, todo2, out2, unfinished)
      BY <1>1, <1>4, <1>5, <2>1 DEF TodoOrdered, RequestsOrdered
    <2>3. ASSUME NEW p \in 1..n, out[p].nul PROVE p - 1 \in 1..(n - 1) /\ out2[p - 1] = out[p]
      <3>1. p # 1
        BY <1>6, <2>3
      <3>2. p - 1 \in 1..(n - 1) /\ (p - 1) + 1 = p
        BY <1>1, <3>1
      <3> QED
        BY <1>1, <3>2
    <2>4. NoneLost(in, todo2, out2, waiting)
      <3>1. ASSUME NEW i \in waiting, NEW p \in 1..n, out[p].nul, out[p].msg = i
            PROVE  \E q \in 1..(n - 1) : out2[q].nul /\ out2[q].msg = i
        BY <2>3, <3>1
      <3>2. ASSUME NEW i \in waiting
            PROVE  \/ LastReplyIn(in, i, Len(in))
                   \/ \E k \in 1..Len(todo) : todo[k] = i
                   \/ \E p \in 1..n : out[p].nul /\ out[p].msg = i
        BY DEF RequestsFit, NoneLost
      <3>3. ASSUME NEW i \in waiting
            PROVE  \/ LastReplyIn(in, i, Len(in))
                   \/ \E k \in 1..Len(todo2) : todo2[k] = i
                   \/ \E q \in 1..(n - 1) : out2[q].nul /\ out2[q].msg = i
        BY <2>1, <3>1, <3>2
      <3> QED
        BY <1>1, <3>3 DEF NoneLost
    <2> QED
      BY <2>2, <2>4 DEF RequestsFit
  <1>7. CASE out[1].nul
    <2> DEFINE t == Len(todo)
    <2>1. x \in unfinished /\ x \in CallNo
      BY <1>2, <1>3, <1>7
    <2> HIDE DEF x
    <2>2. todo2 = Append(todo, x)
      BY <1>7 DEF x
    <2>3. t \in Nat /\ Len(todo2) = t + 1 /\ todo2[t + 1] = x /\ \A k \in 1..t : todo2[k] = todo[k]
      BY <2>1, <2>2, AppendProperties, LenProperties
    <2>4. \A k \in 1..(t + 1) : k \in 1..t \/ k = t + 1
      BY <2>3
    <2>5. /\ \A k \in 1..t : todo[k] < x
          /\ \A p \in 1..Len(in) : in[p].nul => in[p].msg.call < x
      BY <1>2, <1>3, <1>7 DEF x
    <2>6. TodoOrdered(in, todo2, unfinished)
      <3>1. ASSUME NEW k \in 1..(t + 1), NEW l \in 1..(t + 1), k < l PROVE todo2[k] < todo2[l]
        <4>1. k \in 1..t
          BY <2>3, <3>1
        <4> QED
          BY <1>4, <2>3, <2>4, <2>5, <3>1, <4>1
      <3>2. ASSUME NEW k \in 1..(t + 1)
            PROVE  /\ todo2[k] \in unfinished
                   /\ \A p \in 1..Len(in) : in[p].nul => Before(in[p].msg, todo2[k])
        BY <1>4, <2>1, <2>3, <2>4, <2>5 DEF Before
      <3> QED
        BY <2>3, <3>1, <3>2 DEF TodoOrdered
    <2>7. RequestsOrdered(in, todo2, out2, unfinished)
      <3>1. ASSUME NEW q \in 1..(n - 1), out2[q].nul, NEW k \in 1..(t + 1)
            PROVE  todo2[k] < out2[q].msg
        BY <1>5, <1>7, <2>3, <2>4, <3>1
      <3> QED
        BY <1>1, <1>5, <2>3, <3>1 DEF RequestsOrdered
    <2>8. NoneLost(in, todo2, out2, waiting)
      <3>1. ASSUME NEW i \in waiting
            PROVE  \/ LastReplyIn(in, i, Len(in))
                   \/ \E k \in 1..(t + 1) : todo2[k] = i
                   \/ \E p \in 1..(n - 1) : out2[p].nul /\ out2[p].msg = i
        <4>1. CASE LastReplyIn(in, i, Len(in))
          BY <4>1
        <4>2. ASSUME NEW k \in 1..t, todo[k] = i PROVE \E j \in 1..(t + 1) : todo2[j] = i
          BY <2>3, <4>2
        <4>3. ASSUME NEW p \in 1..n, out[p].nul, out[p].msg = i
              PROVE  \/ \E k \in 1..(t + 1) : todo2[k] = i
                     \/ \E q \in 1..(n - 1) : out2[q].nul /\ out2[q].msg = i
          <5>1. CASE p = 1
            BY <2>3, <4>3, <5>1 DEF x
          <5>2. CASE p # 1
            <6>1. p - 1 \in 1..(n - 1) /\ (p - 1) + 1 = p
              BY <1>1, <5>2
            <6> QED
              BY <1>1, <4>3, <6>1
          <5> QED
            BY <5>1, <5>2
        <4> QED
          BY <4>1, <4>2, <4>3 DEF RequestsFit, NoneLost
      <3> QED
        BY <1>1, <2>3, <3>1 DEF NoneLost
    <2> QED
      BY <2>6, <2>7, <2>8 DEF RequestsFit
  <1> QED
    BY <1>6, <1>7

\* The server answers the oldest call it has with nothing, if it is oneway,
LEMMA OrderSkipped ==
    ASSUME NEW in \in Seq(ReplyCells), NEW todo \in Seq(CallNo), NEW out \in Seq(RequestCells),
           NEW unfinished \in SUBSET CallNo, NEW waiting \in SUBSET unfinished,
           todo # <<>>, todo[1] \notin waiting,
           RequestsFit(in, todo, out, unfinished, waiting)
    PROVE  RequestsFit(in, Tail(todo), out, unfinished, waiting)
  <1> DEFINE t == Len(todo)
             todo2 == Tail(todo)
  <1>1. /\ t \in Nat /\ t > 0 /\ Len(todo2) = t - 1
        /\ \A k \in 1..(t - 1) : k + 1 \in 1..t /\ todo2[k] = todo[k + 1]
    <2>1. t \in Nat /\ t > 0
      BY LenProperties, EmptySeq
    <2> QED
      BY <2>1, HeadTailProperties
  <1> HIDE DEF todo2
  <1>2. TodoOrdered(in, todo2, unfinished)
    <2>1. ASSUME NEW k \in 1..(t - 1), NEW l \in 1..(t - 1), k < l PROVE todo2[k] < todo2[l]
      <3>1. k + 1 \in 1..t /\ l + 1 \in 1..t /\ k + 1 < l + 1
        BY <1>1, <2>1
      <3> QED
        BY <1>1, <3>1 DEF RequestsFit, TodoOrdered
    <2> QED
      BY <1>1, <2>1 DEF RequestsFit, TodoOrdered
  <1>3. RequestsOrdered(in, todo2, out, unfinished)
    BY <1>1 DEF RequestsFit, RequestsOrdered
  <1>4. NoneLost(in, todo2, out, waiting)
    <2>1. ASSUME NEW i \in waiting, NEW k \in 1..t, todo[k] = i
          PROVE  \E l \in 1..(t - 1) : todo2[l] = i
      <3>1. k # 1
        BY <2>1
      <3>2. k - 1 \in 1..(t - 1) /\ (k - 1) + 1 = k
        BY <1>1, <3>1
      <3> QED
        BY <1>1, <2>1, <3>2
    <2> QED
      BY <1>1, <2>1 DEF RequestsFit, NoneLost
  <1> QED
    BY <1>2, <1>3, <1>4 DEF RequestsFit, todo2

\* or with a reply behind those on their way.
LEMMA OrderAnswered ==
    ASSUME NEW in \in Seq(ReplyCells), NEW todo \in Seq(CallNo), NEW out \in Seq(RequestCells),
           NEW unfinished \in SUBSET CallNo, NEW waiting \in SUBSET unfinished, NEW more,
           todo # <<>>, todo[1] \in waiting, NEW m, NEW in2, Grown(in, in2, m, 2),
           m.call = todo[1],
           m.kind = "final" \/ (m.kind = "continues" /\ todo[1] \in more),
           RepliesFit(in, waiting, more), RequestsFit(in, todo, out, unfinished, waiting)
    PROVE  /\ RepliesFit(in2, waiting, more)
           /\ m.kind = "continues" => RequestsFit(in2, todo, out, unfinished, waiting)
           /\ m.kind = "final" => RequestsFit(in2, Tail(todo), out, unfinished, waiting)
  <1> DEFINE n == Len(in)
             t == Len(todo)
             x == todo[1]
  <1>1. /\ n \in Nat /\ Len(in2) = n + 2 /\ \A p \in 1..n : in2[p] = in[p]
        /\ ~in2[n + 1].nul /\ in2[n + 2].nul /\ in2[n + 2].msg = m
    <2>1. \A k \in 1..2 : in2[n + k].msg = m /\ (in2[n + k].nul <=> k = 2)
      BY DEF Grown
    <2> QED
      BY <2>1, LenProperties DEF Grown
  <1>2. \A p \in 1..(n + 2) : in2[p].nul => p \in 1..n \/ p = n + 2
    <2>1. \A p \in 1..(n + 2) : p \in 1..n \/ p = n + 1 \/ p = n + 2
      BY <1>1
    <2> QED
      BY <1>1, <2>1
  <1>3. t \in Nat /\ t > 0 /\ 1 \in 1..t /\ x \in CallNo /\ CallNo \subseteq Nat
    <2>1. t \in Nat /\ t > 0
      BY LenProperties, EmptySeq
    <2> QED
      BY <2>1, ConstantTypes DEF CallNo
  <1>4. /\ \A k, l \in 1..t : k < l => todo[k] < todo[l]
        /\ \A k \in 1..t : todo[k] \in unfinished
        /\ \A k \in 1..t : \A p \in 1..n : in[p].nul => Before(in[p].msg, todo[k])
    BY DEF RequestsFit, TodoOrdered
  <1>5. \A q \in 1..Len(out) : out[q].nul =>
              /\ out[q].msg \in unfinished
              /\ \A k \in 1..t : todo[k] < out[q].msg
              /\ \A p \in 1..n : in[p].nul => in[p].msg.call < out[q].msg
    BY DEF RequestsFit, RequestsOrdered
  <1>6. RepliesAwaited(in2, waiting, more)
    <2>1. Awaited(m, waiting, more)
      BY DEF Awaited
    <2> QED
      BY <1>1, <1>2, <2>1 DEF RepliesFit, RepliesAwaited
  <1>7. RepliesOrdered(in2)
    <2>1. ASSUME NEW p \in 1..(n + 2), NEW q \in 1..(n + 2), in2[p].nul, in2[q].nul, p < q
          PROVE  Before(in2[p].msg, in2[q].msg.call)
      <3>1. p \in 1..n
        BY <1>1, <1>2, <2>1
      <3>2. CASE q \in 1..n
        BY <1>1, <2>1, <3>1, <3>2 DEF RepliesFit, RepliesOrdered
      <3>3. CASE q = n + 2
        BY <1>1, <1>3, <1>4, <2>1, <3>1, <3>3
      <3> QED
        BY <1>2, <2>1, <3>2, <3>3
    <2> QED
      BY <1>1, <2>1 DEF RepliesOrdered
  <1>8. ASSUME NEW i, NEW k \in 0..n, LastReplyIn(in, i, k)
        PROVE  LastReplyIn(in2, i, k)
    BY <1>1, <1>8 DEF LastReplyIn
  <1>9. NoneSkipped(in2, waiting)
    <2>1. ASSUME NEW q \in 1..(n + 2), NEW i \in waiting, in2[q].nul, i < in2[q].msg.call
          PROVE  LastReplyIn(in2, i, q - 1)
      <3>1. CASE q \in 1..n
        <4>1. LastReplyIn(in, i, q - 1) /\ q - 1 \in 0..n
          BY <1>1, <2>1, <3>1 DEF RepliesFit, NoneSkipped
        <4> QED
          BY <1>8, <4>1
      <3>2. CASE q = n + 2
        <4>1. i < x /\ i \in Nat /\ x \in Nat
          BY <1>1, <1>3, <2>1, <3>2
        <4>2. \A k \in 1..t : todo[k] # i
          <5>1. \A k \in 1..t : k = 1 \/ 1 < k
            BY <1>3
          <5>2. \A k \in 1..t : todo[k] \in Nat /\ (todo[k] = x \/ x < todo[k])
            BY <1>3, <1>4, <5>1
          <5> QED
            BY <4>1, <5>2
        <4>3. \A p \in 1..Len(out) : ~(out[p].nul /\ out[p].msg = i)
          <5>1. \A p \in 1..Len(out) : out[p].nul => x < out[p].msg /\ out[p].msg \in Nat
            BY <1>3, <1>5
          <5> QED
            BY <4>1, <5>1
        <4>4. LastReplyIn(in, i, n)
          BY <4>2, <4>3 DEF RequestsFit, NoneLost
        <4>5. \A p \in 1..n : p \in 1..(q - 1)
          BY <1>1, <3>2
        <4>6. LastReplyIn(in2, i, n)
          BY <1>1, <1>8, <4>4
        <4> QED
          BY <4>5, <4>6 DEF LastReplyIn
      <3> QED
        BY <1>2, <2>1, <3>1, <3>2
    <2> QED
      BY <1>1, <2>1 DEF NoneSkipped
  <1>10. ASSUME NEW todo2, \A k \in 1..Len(todo2) : \E l \in 1..t : todo2[k] = todo[l],
                \A k, l \in 1..Len(todo2) : k < l => todo2[k] < todo2[l],
                \A k \in 1..Len(todo2) : Before(m, todo2[k]),
                \A l \in 1..t : \/ \E k \in 1..Len(todo2) : todo2[k] = todo[l]
                                \/ todo[l] = x /\ m.kind = "final"
         PROVE  RequestsFit(in2, todo2, out, unfinished, waiting)
    <2>1. TodoOrdered(in2, todo2, unfinished)
      <3>1. ASSUME NEW k \in 1..Len(todo2), NEW p \in 1..(n + 2), in2[p].nul
            PROVE  Before(in2[p].msg, todo2[k])
        <4>1. CASE p \in 1..n
          BY <1>1, <1>4, <1>10, <3>1, <4>1
        <4>2. CASE p = n + 2
          BY <1>1, <1>10, <4>2
        <4> QED
          BY <1>2, <3>1, <4>1, <4>2
      <3>2. \A k \in 1..Len(todo2) : todo2[k] \in unfinished
        BY <1>4, <1>10
      <3> QED
        BY <1>1, <1>10, <3>1, <3>2 DEF TodoOrdered
    <2>2. RequestsOrdered(in2, todo2, out, unfinished)
      <3>1. ASSUME NEW q \in 1..Len(out), out[q].nul
            PROVE  /\ \A k \in 1..Len(todo2) : todo2[k] < out[q].msg
                   /\ \A p \in 1..(n + 2) : in2[p].nul => in2[p].msg.call < out[q].msg
        <4>1. \A k \in 1..Len(todo2) : todo2[k] < out[q].msg
          BY <1>5, <1>10, <3>1
        <4>2. x < out[q].msg
          BY <1>3, <1>5, <3>1
        <4>3. \A p \in 1..n : in2[p].nul => in2[p].msg.call < out[q].msg
          BY <1>1, <1>5, <3>1
        <4> QED
          BY <1>1, <1>2, <4>1, <4>2, <4>3
      <3> QED
        BY <1>1, <1>5, <3>1 DEF RequestsFit, RequestsOrdered
    <2>3. NoneLost(in2, todo2, out, waiting)
      <3>1. ASSUME NEW i \in waiting
            PROVE  \/ LastReplyIn(in2, i, n + 2)
                   \/ \E k \in 1..Len(todo2) : todo2[k] = i
                   \/ \E p \in 1..Len(out) : out[p].nul /\ out[p].msg = i
        <4>1. CASE LastReplyIn(in, i, n)
          <5>1. LastReplyIn(in2, i, n)
            BY <1>1, <1>8, <4>1
          <5>2. \A p \in 1..n : p \in 1..(n + 2)
            BY <1>1
          <5> QED
            BY <5>1, <5>2 DEF LastReplyIn
        <4>2. ASSUME NEW l \in 1..t, todo[l] = i
              PROVE  LastReplyIn(in2, i, n + 2) \/ \E k \in 1..Len(todo2) : todo2[k] = i
          <5>1. CASE i = x /\ m.kind = "final"
            <6>1. n + 2 \in 1..(n + 2)
              BY <1>1
            <6> QED
              BY <1>1, <5>1, <6>1 DEF LastReplyIn
          <5> QED
            BY <1>10, <4>2, <5>1
        <4> QED
          BY <4>1, <4>2 DEF RequestsFit, NoneLost
      <3> QED
        BY <1>1, <3>1 DEF NoneLost
    <2> QED
      BY <2>1, <2>2, <2>3 DEF RequestsFit
  <1>11. ASSUME m.kind = "continues" PROVE RequestsFit(in2, todo, out, unfinished, waiting)
    <2>1. \A k \in 1..t : Before(m, todo[k])
      <3>1. \A k \in 1..t : k = 1 \/ 1 < k
        BY <1>3
      <3> QED
        BY <1>3, <1>4, <1>11, <3>1 DEF Before
    <2> QED
      BY <1>4, <1>10, <2>1
  <1>12. ASSUME m.kind = "final" PROVE RequestsFit(in2, Tail(todo), out, unfinished, waiting)
    <2> DEFINE todo2 == Tail(todo)
    <2>1. /\ Len(todo2) = t - 1
          /\ \A k \in 1..(t - 1) : k + 1 \in 1..t /\ 1 < k + 1 /\ todo2[k] = todo[k + 1]
      BY <1>3, HeadTailProperties
    <2> HIDE DEF todo2
    <2>2. \A k \in 1..Len(todo2) : \E l \in 1..t : todo2[k] = todo[l]
      BY <2>1
    <2>3. ASSUME NEW k \in 1..(t - 1), NEW l \in 1..(t - 1), k < l PROVE todo2[k] < todo2[l]
      <3>1. k + 1 \in 1..t /\ l + 1 \in 1..t /\ k + 1 < l + 1
        BY <2>1, <2>3
      <3> QED
        BY <1>4, <2>1, <3>1
    <2>4. \A k \in 1..(t - 1) : Before(m, todo2[k])
      BY <1>3, <1>4, <2>1 DEF Before
    <2>5. ASSUME NEW l \in 1..t
          PROVE  \/ \E k \in 1..(t - 1) : todo2[k] = todo[l]
                 \/ todo[l] = x /\ m.kind = "final"
      <3>1. CASE l = 1
        BY <1>12, <3>1
      <3>2. CASE l # 1
        <4>1. l - 1 \in 1..(t - 1) /\ (l - 1) + 1 = l
          BY <1>3, <3>2
        <4> QED
          BY <2>1, <4>1
      <3> QED
        BY <3>1, <3>2
    <2>6. RequestsFit(in2, todo2, out, unfinished, waiting)
      BY <1>10, <2>1, <2>2, <2>3, <2>4, <2>5
    <2> QED
      BY <2>6 DEF todo2
  <1> QED
    BY <1>6, <1>7, <1>9, <1>11, <1>12 DEF RepliesFit

\* The end of what is on its way is lost.
LEMMA OrderLost ==
    ASSUME NEW in \in Seq(ReplyCells), NEW in2 \in Seq(ReplyCells), NEW waiting, NEW more,
           Prefix(in, in2), RepliesFit(in, waiting, more)
    PROVE  RepliesFit(in2, waiting, more)
  <1>1. /\ Len(in) \in Nat /\ Len(in2) \in Nat
        /\ \A p \in 1..Len(in2) : p \in 1..Len(in) /\ in2[p] = in[p]
    BY LenProperties DEF Prefix
  <1>2. RepliesAwaited(in2, waiting, more) /\ RepliesOrdered(in2)
    BY <1>1 DEF RepliesFit, RepliesAwaited, RepliesOrdered
  <1>3. NoneSkipped(in2, waiting)
    <2>1. ASSUME NEW q \in 1..Len(in2), NEW i \in waiting, in2[q].nul, i < in2[q].msg.call
          PROVE  LastReplyIn(in2, i, q - 1)
      <3>1. LastReplyIn(in, i, q - 1)
        BY <1>1, <2>1 DEF RepliesFit, NoneSkipped
      <3>2. \A p \in 1..(q - 1) : p \in 1..Len(in2)
        BY <1>1
      <3> QED
        BY <1>1, <3>1, <3>2 DEF LastReplyIn
    <2> QED
      BY <2>1 DEF NoneSkipped
  <1> QED
    BY <1>2, <1>3 DEF RepliesFit

-----------------------------------------------------------------------------
(* The order, action by action.                                            *)

\* The calls are numbers.
LEMMA CallSets ==
    /\ CallNo \subseteq Nat /\ Unfinished \in SUBSET CallNo /\ Unanswered \in SUBSET Unfinished
    /\ Unfinished \in SUBSET Nat /\ Unanswered \in SUBSET Nat
  <1>1. CallNo \subseteq Nat
    BY ConstantTypes DEF CallNo
  <1>2. Unfinished \in SUBSET CallNo /\ Unanswered \in SUBSET Unfinished
    BY DEF Unfinished, Unanswered
  <1> QED
    BY <1>1, <1>2

\* A step that neither calls nor replies.
LEMMA SetsSame ==
    ASSUME program'.calls = program.calls, program'.got = program.got
    PROVE  Unfinished' = Unfinished /\ Unanswered' = Unanswered /\ AskedMore' = AskedMore
  BY DEF Unfinished, Unanswered, AskedMore, Sent, Finished

\* A call: what it adds.
LEMMA CallAdds ==
    ASSUME TypeOK, QueueInv, NEW kind \in Kinds, Call(kind)
    PROVE  \E i \in CallNo, sent \in BOOLEAN :
              /\ i = Len(program.calls) + 1 /\ Len(program'.calls) = i
              /\ program'.calls[i].sent = sent /\ program'.calls[i].kind = kind
              /\ \A j \in 1..Len(program.calls) : program'.calls[j] = program.calls[j]
              /\ program'.got = program.got
              /\ sent \/ (CallFails(kind) /\ program'.failed)
              /\ ~sent \/ CallSent(kind)
              /\ \A j \in Unfinished : j < i
              /\ Unfinished' = IF sent THEN Unfinished \cup {i} ELSE Unfinished
              /\ Unanswered' \in SUBSET (IF sent THEN Unanswered \cup {i} ELSE Unanswered)
              /\ Unanswered \subseteq Unanswered' /\ AskedMore \subseteq AskedMore'
  <1> DEFINE n == Len(program.calls)
  <1>1. n \in Nat /\ n + 1 \in CallNo
    <2>1. n \in Nat
      BY LenProperties DEF TypeOK
    <2> QED
      BY <2>1, CallMoves
  <1>2. PICK sent \in BOOLEAN :
          /\ program' = [program EXCEPT !.calls = Append(@, [kind |-> kind, sent |-> sent]),
                                        !.failed = program'.failed]
          /\ sent \/ (CallFails(kind) /\ program'.failed)
          /\ ~sent \/ CallSent(kind)
    <2>1. CASE CallFails(kind)
      <3>1. program' = [program EXCEPT !.calls = Append(@, [kind |-> kind, sent |-> FALSE]),
                                       !.failed = TRUE]
            /\ program'.failed
        BY <2>1 DEF CallFails, Told, TypeOK
      <3> QED
        BY <2>1, <3>1
    <2>2. CASE CallSent(kind)
      BY <2>2 DEF CallSent, TypeOK
    <2> QED
      BY <2>1, <2>2 DEF Call
  <1>3. PICK i \in CallNo : i = n + 1
    BY <1>1
  <1> DEFINE c == [kind |-> kind, sent |-> sent]
  <1>4. /\ Len(program'.calls) = i /\ program'.calls[i] = c
        /\ \A j \in 1..n : program'.calls[j] = program.calls[j]
        /\ program'.got = program.got
    <2>1. program.calls \in Seq(CallRecords) /\ c \in CallRecords
      BY DEF TypeOK, CallRecords
    <2>2. program'.calls = Append(program.calls, c) /\ program'.got = program.got
      BY <1>2 DEF TypeOK
    <2> HIDE DEF c
    <2> QED
      BY <1>3, <2>1, <2>2, AppendProperties
  <1>5. c.sent = sent /\ c.kind = kind
    OBVIOUS
  <1> HIDE DEF c
  <1>6. program'.calls[i].sent = sent /\ program'.calls[i].kind = kind
    BY <1>4, <1>5
  <1>7. \A j : Finished(j)' <=> Finished(j)
    BY <1>4 DEF Finished
  <1>8. ~Finished(i)
    BY <1>1, <1>3 DEF Finished, QueueInv, GotKnown
  <1>9. \A j : Sent(j)' <=> Sent(j) \/ (j = i /\ sent)
    <2>1. TAKE j
    <2>2. j \in 1..i <=> j \in 1..n \/ j = i
      BY <1>1, <1>3
    <2>3. i \notin 1..n
      BY <1>1, <1>3
    <2>4. Sent(j)' <=> j \in 1..i /\ program'.calls[j].sent
      BY <1>4 DEF Sent
    <2>5. Sent(j) <=> j \in 1..n /\ program.calls[j].sent
      BY DEF Sent
    <2> QED
      BY <1>4, <1>6, <2>2, <2>3, <2>4, <2>5
  <1>10. \A j \in Unfinished : j \in 1..n /\ j < i
    BY <1>1, <1>3 DEF Unfinished, Sent
  <1>11. Unfinished' = IF sent THEN Unfinished \cup {i} ELSE Unfinished
    <2>1. \A j \in CallNo : j \in Unfinished' <=> j \in Unfinished \/ (j = i /\ sent)
      BY <1>7, <1>8, <1>9 DEF Unfinished
    <2>2. Unfinished' \subseteq CallNo
      BY DEF Unfinished, CallNo
    <2> QED
      BY <2>1, <2>2, CallSets
  <1>12. \A j \in Unfinished : j \in Unanswered' <=> j \in Unanswered
    BY <1>4, <1>10, <1>11 DEF Unanswered
  <1>13. /\ Unanswered' \in SUBSET (IF sent THEN Unanswered \cup {i} ELSE Unanswered)
         /\ Unanswered \subseteq Unanswered'
    <2>1. Unanswered' \subseteq Unfinished'
      BY DEF Unanswered
    <2> QED
      BY <1>11, <1>12, <2>1, CallSets
  <1>14. AskedMore \subseteq AskedMore'
    BY <1>1, <1>3, <1>4 DEF AskedMore
  <1> QED
    BY <1>2, <1>3, <1>4, <1>6, <1>10, <1>11, <1>13, <1>14

\* A program that gives up keeps a call it could not send the last one.
LEMMA UnsentStep ==
    ASSUME TypeOK, QueueInv, GiveUp, UnsentIsLast, [Next]_vars
    PROVE  UnsentIsLast'
  <1>1. ASSUME NEW kind \in Kinds, Call(kind) PROVE UnsentIsLast'
    <2>1. PICK i \in CallNo, sent \in BOOLEAN :
              /\ i = Len(program.calls) + 1 /\ Len(program'.calls) = i
              /\ program'.calls[i].sent = sent
              /\ \A j \in 1..Len(program.calls) : program'.calls[j] = program.calls[j]
              /\ sent \/ program'.failed
      BY <1>1, CallAdds
    <2>2. ~program.failed
      BY <1>1 DEF Call
    <2>3. \A j \in 1..Len(program.calls) : program'.calls[j].sent
      BY <2>1, <2>2 DEF UnsentIsLast
    <2>4. \A j \in 1..i : j \in 1..Len(program.calls) \/ j = i
      <3>1. Len(program.calls) \in Nat
        BY LenProperties DEF TypeOK
      <3> QED
        BY <2>1, <3>1
    <2> QED
      BY <2>1, <2>3, <2>4 DEF UnsentIsLast
  <1>2. ASSUME program'.calls = program.calls, program.failed => program'.failed
        PROVE  UnsentIsLast'
    BY <1>2 DEF UnsentIsLast
  <1>3. Told(program).calls = program.calls /\ Told(program).failed
    BY DEF Told, TypeOK
  <1>4. CASE UNCHANGED vars
    BY <1>2, <1>4 DEF vars
  <1>5. CASE Library
    <2>1. program' = program \/ program' = Told(program) \/ ReadReply
      BY <1>5 DEF Library, ProcessEvents, ProcessOutput, ReadSocket, ReadNothing, ReadInvalid,
                  ReadTooLate, ReadUnexpected, HangUp, ReturnError
    <2>2. CASE ReadReply
      <3>1. program'.calls = program.calls /\ program'.failed = program.failed
        BY <2>2 DEF ReadReply, TypeOK
      <3> QED
        BY <1>2, <3>1
    <2> QED
      BY <1>2, <1>3, <2>1, <2>2
  <1>6. CASE Program
    <2>1. CASE Close
      <3>1. program'.calls = program.calls /\ program'.failed = program.failed
        BY <2>1 DEF Close, TypeOK
      <3> QED
        BY <1>2, <3>1
    <2>2. ASSUME NEW ok \in BOOLEAN, CallbackReturns(ok) PROVE UnsentIsLast'
      <3>1. program' = program \/ program' = Told(program)
        BY <2>2 DEF CallbackReturns
      <3> QED
        BY <1>2, <1>3, <3>1
    <2> QED
      BY <1>1, <1>6, <2>1, <2>2 DEF Program
  <1>7. CASE Server
    <2>1. program' = program
      BY <1>7 DEF Server, ServerReads, ServerReplies, ServerNoise, ServerWrites, ServerCloses
    <2> QED
      BY <1>2, <2>1
  <1> QED
    BY <1>4, <1>5, <1>6, <1>7 DEF Next

\* The first reply on its way is for the call at the head of the queue: an
\* older one that waits was not sent, and is then the last, or gets its last
\* reply before.
LEMMA HeadIsFirst ==
    ASSUME TypeOK, QueueInv, UnsentIsLast, pc # "callback",
           RepliesFit(Incoming, Unanswered, AskedMore),
           NEW e \in 1..Len(Incoming), Incoming[e].nul, \A p \in 1..(e - 1) : ~Incoming[p].nul
    PROVE  /\ pending # <<>> /\ Incoming[e].msg.call = Head(pending).call
           /\ ~Unexpected(Incoming[e].msg) /\ Incoming[e].msg.kind \in {"final", "continues"}
           /\ Incoming[e].msg.call \in Unanswered
  <1> DEFINE m == Incoming[e].msg
             i == m.call
  <1>1. /\ m.kind \in {"final", "continues"} /\ i \in Unanswered
        /\ m.kind = "continues" => i \in AskedMore
    BY DEF RepliesFit, RepliesAwaited, Awaited
  <1>2. i \in Nat /\ Waits(i) /\ i \in 1..Len(program.calls)
    BY <1>1, CallSets DEF Unanswered, Unfinished, Waits, Sent
  <1> HIDE DEF i
  <1>3. PICK k \in 1..Len(pending) : pending[k].call = i
    BY <1>2 DEF QueueInv, WaitsQueued
  <1>4. pending \in Seq(Entries) /\ Len(pending) \in Nat /\ 1 \in 1..Len(pending)
    <2>1. pending \in Seq(Entries) /\ Len(pending) \in Nat
      BY LenProperties DEF TypeOK
    <2> QED
      BY <1>3, <2>1
  <1> DEFINE h == pending[1].call
  <1>5. EntryWaits(1) /\ ~Retires /\ h \in CallNo
    <2>1. pending[1] \in Entries
      BY <1>4, ElementOfSeq
    <2> QED
      BY <1>4, <2>1 DEF QueueInv, QueueWaits, Retires, Entries
  <1>6. /\ h \in 1..Len(program.calls) /\ h \in Nat /\ program.calls[h].kind # "oneway" /\ ~Finished(h)
        /\ pending[1].more <=> program.calls[h].kind = "more"
    BY <1>5, CallSets DEF EntryWaits
  <1>7. h = i \/ h < i
    <2>1. k = 1 \/ 1 < k
      OBVIOUS
    <2> QED
      BY <1>3, <1>4, <2>1 DEF QueueInv, QueueOrdered
  <1>8. ~(h < i)
    <2>1. SUFFICES ASSUME h < i PROVE FALSE
      OBVIOUS
    <2>2. Sent(h)
      <3>1. Len(program.calls) \in Nat /\ h # Len(program.calls)
        BY <1>2, <1>6, <2>1
      <3> QED
        BY <1>6, <3>1 DEF UnsentIsLast, Sent
    <2>3. h \in Unanswered
      BY <1>5, <1>6, <2>2 DEF Unanswered, Unfinished
    <2>4. LastReplyIn(Incoming, h, e - 1)
      BY <2>1, <2>3 DEF RepliesFit, NoneSkipped, i
    <2> QED
      BY <2>4 DEF LastReplyIn
  <1>9. Head(pending) = pending[1] /\ pending # <<>>
    <2>1. pending # <<>>
      BY <1>4, EmptySeq
    <2> QED
      BY <1>4, <2>1, HeadTailProperties
  <1>10. m.kind = "continues" => Head(pending).more
    BY <1>1, <1>6, <1>7, <1>8, <1>9 DEF AskedMore
  <1> QED
    BY <1>1, <1>7, <1>8, <1>9, <1>10 DEF i, Unexpected, WantsMore

\* A reply is read: it is for the head of the queue.
LEMMA ReplyRead ==
    ASSUME TypeOK, Buffered, ReadsOpen, Kept, QueueInv, UnsentIsLast, InOrder,
           server.noise = 0, ReadReply
    PROVE  \E e \in 1..Len(Incoming) :
              /\ Incoming[e].nul /\ \A p \in 1..(e - 1) : ~Incoming[p].nul
              /\ Follows(Incoming, e, Incoming')
              /\ reply' = Incoming[e].msg /\ Incoming[e].msg.call = Head(pending).call
              /\ Incoming[e].msg.call \in Unanswered
              /\ Incoming[e].msg.kind \in {"final", "continues"}
              /\ pending # <<>> /\ ~Unexpected(Incoming[e].msg)
              /\ program'.got = Append(program.got, [call |-> Incoming[e].msg.call,
                                                     kind |-> Incoming[e].msg.kind])
              /\ \A i \in Unfinished :
                    i \in Unfinished' <=> ~(i = Incoming[e].msg.call /\ Incoming[e].msg.kind = "final")
              /\ \A i \in Unanswered :
                    i \in Unanswered' <=> ~(i = Incoming[e].msg.call /\ Incoming[e].msg.kind = "final")
              /\ Unfinished' \in SUBSET Unfinished /\ Unanswered' \in SUBSET Unanswered
              /\ AskedMore' = AskedMore
  <1>1. PICK o \in Delivered(stream) :
          /\ stream' = o.stream /\ reply' = o.message
          /\ program' = [program EXCEPT !.got =
                Append(@, [call |-> Head(pending).call, kind |-> o.message.kind])]
    BY ReplyDelivered
  <1>2. pc # "callback" /\ open /\ UNCHANGED <<sock, server>>
    BY DEF ReadReply, ReadsOpen
  <1>3. PICK e \in 1..Len(Incoming) :
          /\ Incoming[e].nul /\ o.message = Incoming[e].msg
          /\ \A p \in 1..(e - 1) : ~Incoming[p].nul
          /\ Follows(Incoming, e, Incoming')
    BY <1>1, <1>2, TakenFromIncoming
  <1>4. RepliesFit(Incoming, Unanswered, AskedMore)
    BY <1>2 DEF InOrder
  <1> DEFINE m == Incoming[e].msg
  <1>5. /\ pending # <<>> /\ m.call = Head(pending).call /\ ~Unexpected(m)
        /\ m.kind \in {"final", "continues"} /\ m.call \in Unanswered
    BY <1>2, <1>3, <1>4, HeadIsFirst
  <1> HIDE DEF m
  <1>6. o.message = m
    BY <1>3 DEF m
  <1> DEFINE r == [call |-> m.call, kind |-> m.kind]
  <1>7. program'.got = Append(program.got, r) /\ program'.calls = program.calls
    BY <1>1, <1>5, <1>6 DEF TypeOK
  <1>8. r \in GotRecords /\ r.call = m.call /\ r.kind = m.kind
    BY <1>5, CallSets DEF GotRecords
  <1> HIDE DEF r
  <1>9. \A i : Finished(i)' <=> Finished(i) \/ (m.call = i /\ m.kind = "final")
    BY <1>7, <1>8, FinishedAfter
  <1>10. \A i : Sent(i)' <=> Sent(i)
    BY <1>7 DEF Sent
  <1>11. \A i \in CallNo : i \in Unfinished' <=> i \in Unfinished /\ ~(i = m.call /\ m.kind = "final")
    BY <1>9, <1>10 DEF Unfinished
  <1>12. Unfinished' \in SUBSET CallNo
    BY DEF Unfinished, CallNo
  <1>13. /\ \A i \in Unfinished : i \in Unfinished' <=> ~(i = m.call /\ m.kind = "final")
         /\ Unfinished' \in SUBSET Unfinished
    BY <1>11, <1>12, CallSets
  <1>14. \A i : i \in Unanswered' <=> i \in Unfinished' /\ program.calls[i].kind # "oneway"
    BY <1>7 DEF Unanswered
  <1>15. \A i : i \in Unanswered <=> i \in Unfinished /\ program.calls[i].kind # "oneway"
    BY DEF Unanswered
  <1>16. /\ \A i \in Unanswered : i \in Unanswered' <=> ~(i = m.call /\ m.kind = "final")
         /\ Unanswered' \in SUBSET Unanswered
    BY <1>13, <1>14, <1>15
  <1>17. AskedMore' = AskedMore
    BY <1>7 DEF AskedMore
  <1> QED
    BY <1>1, <1>3, <1>5, <1>7, <1>13, <1>16, <1>17 DEF m, r

\* What is on its way, seen as before or after a step.
Fit(in, todo, out, peer, unfinished, waiting, more) ==
    /\ RepliesFit(in, waiting, more)
    /\ peer = "open" => RequestsFit(in, todo, out, unfinished, waiting)

\* InOrder, after a step.
LEMMA InOrderNext ==
    ASSUME Fit(Incoming', server'.todo, Outgoing', server'.peer, Unfinished', Unanswered', AskedMore')
    PROVE  InOrder'
  BY DEF Fit, InOrder, RepliesFit, RequestsFit, RepliesAwaited, RepliesOrdered, NoneSkipped,
         LastReplyIn, Awaited, Before, TodoOrdered, RequestsOrdered, NoneLost

\* Every step keeps the order.
LEMMA InOrderStep ==
    ASSUME TypeOK, TypeOK', Buffered, ReadsOpen, Kept, QueueInv, UnsentIsLast, InOrder, [Next]_vars
    PROVE  InOrder'
  <1> SUFFICES ASSUME open', server'.noise = 0
               PROVE  Fit(Incoming', server'.todo, Outgoing', server'.peer,
                          Unfinished', Unanswered', AskedMore')
    BY InOrderNext DEF InOrder
  <1>1. open /\ server.noise = 0
    <2>1. server'.noise = server.noise \/ ServerNoise
      BY DEF Next, Library, Program, Server, vars, TypeOK, ProcessEvents, ProcessOutput, ReadSocket,
             ReadNothing, ReadInvalid, ReadTooLate, ReadUnexpected, ReadReply, HangUp, Call,
             Close, CallbackReturns, ServerReads, ServerReplies, Reply, ServerWrites, ServerCloses
    <2>2. server.noise \in Nat
      BY ConstantTypes DEF TypeOK
    <2> QED
      BY <2>1, <2>2, OpenSteps, NoiseMoves
  <1>2. /\ RepliesFit(Incoming, Unanswered, AskedMore)
        /\ server.peer = "open" =>
              RequestsFit(Incoming, server.todo, Outgoing, Unfinished, Unanswered)
    BY <1>1 DEF InOrder
  <1>3. /\ Incoming \in Seq(ReplyCells) /\ Outgoing \in Seq(RequestCells)
        /\ server.todo \in Seq(CallNo)
        /\ Unfinished \in SUBSET CallNo /\ Unanswered \in SUBSET Unfinished
        /\ Unfinished \in SUBSET Nat /\ Unanswered \in SUBSET Nat
    BY Windows, CallSets
  <1>4. ASSUME Incoming' = Incoming, Outgoing' = Outgoing, server' = server,
               program'.calls = program.calls, program'.got = program.got
        PROVE  Fit(Incoming', server'.todo, Outgoing', server'.peer,
                   Unfinished', Unanswered', AskedMore')
    BY <1>2, <1>4, SetsSame DEF Fit
  <1>5. CASE Quiet
    <2>1. Incoming' = Incoming /\ Outgoing' = Outgoing
      BY <1>5, QuietMoves
    <2>2. program'.calls = program.calls /\ program'.got = program.got
          /\ server'.todo = server.todo /\ server'.peer = server.peer
      <3>1. Told(program).calls = program.calls /\ Told(program).got = program.got
        BY DEF Told, TypeOK
      <3>2. program' = program \/ program' = Told(program)
        BY <1>5 DEF Quiet, vars, ProcessEvents, ProcessOutput, ReadSocket, ReadNothing, HangUp,
                    ReadInvalid, ReturnError, CallbackReturns, ServerWrites
      <3>3. server'.todo = server.todo /\ server'.peer = server.peer
        BY <1>5 DEF Quiet, vars, ProcessEvents, ProcessOutput, ReadSocket, ReadNothing, HangUp,
                    ReadInvalid, CallbackReturns, ServerWrites, TypeOK
      <3> QED
        BY <3>1, <3>2, <3>3
    <2> QED
      BY <1>2, <2>1, <2>2, SetsSame DEF Fit
  <1>6. ASSUME NEW kind \in Kinds, Call(kind)
        PROVE  Fit(Incoming', server'.todo, Outgoing', server'.peer,
                   Unfinished', Unanswered', AskedMore')
    <2>1. /\ Incoming' = Incoming /\ server' = server
          /\ CallFails(kind) => Outgoing' = Outgoing
          /\ CallSent(kind) => Grown(Outgoing, Outgoing', Len(program.calls) + 1, RequestSize)
      BY <1>6, CallMoves DEF Call
    <2>2. PICK i \in CallNo, sent \in BOOLEAN :
              /\ i = Len(program.calls) + 1
              /\ sent \/ (CallFails(kind) /\ program'.failed)
              /\ ~sent \/ CallSent(kind)
              /\ \A j \in Unfinished : j < i
              /\ Unfinished' = IF sent THEN Unfinished \cup {i} ELSE Unfinished
              /\ Unanswered' \in SUBSET (IF sent THEN Unanswered \cup {i} ELSE Unanswered)
              /\ Unanswered \subseteq Unanswered' /\ AskedMore \subseteq AskedMore'
      BY <1>6, CallAdds
    <2>3. i \in Nat /\ (\A j \in Unanswered : j < i) /\ Unanswered' \in SUBSET (Unanswered \cup {i})
      BY <1>3, <2>2, CallSets
    <2>4. RepliesFit(Incoming, Unanswered', AskedMore')
      BY <1>2, <1>3, <2>2, <2>3, OrderIssued
    <2>5. ASSUME server.peer = "open"
          PROVE  RequestsFit(Incoming, server.todo, Outgoing', Unfinished', Unanswered')
      <3>1. CASE sent
        <4>1. Grown(Outgoing, Outgoing', i, RequestSize) /\ Unfinished' = Unfinished \cup {i}
          BY <2>1, <2>2, <3>1
        <4> QED
          BY <1>2, <1>3, <2>2, <2>3, <2>5, <4>1, RequestIssued
      <3>2. CASE ~sent
        <4>1. Outgoing' = Outgoing /\ Unfinished' = Unfinished /\ Unanswered' = Unanswered
          BY <2>1, <2>2, <3>2
        <4> QED
          BY <1>2, <2>5, <4>1
      <3> QED
        BY <3>1, <3>2
    <2> QED
      BY <2>1, <2>4, <2>5 DEF Fit
  <1>7. CASE ReadUnexpected
    <2>1. PICK o \in Delivered(stream) : Unexpected(o.message) /\ stream' = o.stream
      BY <1>7 DEF ReadUnexpected
    <2>2. UNCHANGED <<sock, server>> /\ pc # "callback"
      BY <1>7 DEF ReadUnexpected
    <2>3. PICK e \in 1..Len(Incoming) :
            /\ Incoming[e].nul /\ o.message = Incoming[e].msg
            /\ \A p \in 1..(e - 1) : ~Incoming[p].nul
      BY <2>1, <2>2, TakenFromIncoming
    <2>4. ~Unexpected(Incoming[e].msg)
      BY <1>2, <2>2, <2>3, HeadIsFirst
    <2> QED
      BY <2>1, <2>3, <2>4
  <1>8. CASE ReadReply
    <2>1. PICK e \in 1..Len(Incoming) :
              /\ Incoming[e].nul /\ \A p \in 1..(e - 1) : ~Incoming[p].nul
              /\ Follows(Incoming, e, Incoming')
              /\ \A i \in Unfinished :
                    i \in Unfinished' <=> ~(i = Incoming[e].msg.call /\ Incoming[e].msg.kind = "final")
              /\ \A i \in Unanswered :
                    i \in Unanswered' <=> ~(i = Incoming[e].msg.call /\ Incoming[e].msg.kind = "final")
              /\ Unfinished' \in SUBSET Unfinished /\ Unanswered' \in SUBSET Unanswered
              /\ AskedMore' = AskedMore
      BY <1>1, <1>8, ReplyRead
    <2>2. UNCHANGED <<sock, server>> /\ stream'.out = stream.out
      <3>1. stream'.out = stream.out
        BY <1>8, ReplyDelivered
      <3> QED
        BY <1>8, <3>1 DEF ReadReply
    <2>3. Outgoing' = Outgoing
      BY <2>2, SameOutgoing
    <2>4. /\ RepliesFit(Incoming', Unanswered', AskedMore)
          /\ \A i \in Unanswered' : LastReplyIn(Incoming, i, Len(Incoming)) =>
                                    LastReplyIn(Incoming', i, Len(Incoming'))
      BY <1>2, <1>3, <2>1, OrderDelivered
    <2>5. ASSUME server.peer = "open"
          PROVE  RequestsFit(Incoming', server.todo, Outgoing, Unfinished', Unanswered')
      <3>1. RequestsFit(Incoming, server.todo, Outgoing, Unfinished, Unanswered)
        BY <1>2, <2>5
      <3> DEFINE in == Incoming
                 in2 == Incoming'
                 todo == server.todo
                 out == Outgoing
                 unfinished == Unfinished
                 waiting == Unanswered
                 unfinished2 == Unfinished'
                 waiting2 == Unanswered'
                 more == AskedMore
      <3>2. /\ in \in Seq(ReplyCells) /\ todo \in Seq(CallNo) /\ out \in Seq(RequestCells)
            /\ unfinished \in SUBSET Nat /\ waiting \in SUBSET unfinished
            /\ waiting2 \in SUBSET waiting /\ unfinished2 \in SUBSET unfinished
            /\ e \in 1..Len(in) /\ Follows(in, e, in2) /\ in[e].nul
            /\ \A p \in 1..(e - 1) : ~in[p].nul
        BY <1>3, <2>1
      <3>3. /\ \A i \in waiting :
                  i \in waiting2 <=> ~(i = in[e].msg.call /\ in[e].msg.kind = "final")
            /\ \A i \in unfinished :
                  i \in unfinished2 <=> ~(i = in[e].msg.call /\ in[e].msg.kind = "final")
            /\ \A i \in waiting2 : LastReplyIn(in, i, Len(in)) => LastReplyIn(in2, i, Len(in2))
        BY <2>1, <2>4
      <3>4. RepliesFit(in, waiting, more) /\ RequestsFit(in, todo, out, unfinished, waiting)
        BY <1>2, <3>1
      <3> HIDE DEF in, in2, todo, out, unfinished, waiting, unfinished2, waiting2, more
      <3>5. RequestsFit(in2, todo, out, unfinished2, waiting2)
        BY <3>2, <3>3, <3>4, RequestsDelivered
      <3> QED
        BY <3>5 DEF in2, todo, out, unfinished2, waiting2
    <2> QED
      BY <2>1, <2>2, <2>3, <2>4, <2>5 DEF Fit
  <1>9. CASE ServerReads \/ ServerReplies \/ ServerCloses
    <2>1. program' = program /\ server.peer = "open"
      BY <1>9 DEF ServerReads, ServerReplies, ServerCloses
    <2>2. Unfinished' = Unfinished /\ Unanswered' = Unanswered /\ AskedMore' = AskedMore
      BY <2>1, SetsSame
    <2>3. RequestsFit(Incoming, server.todo, Outgoing, Unfinished, Unanswered)
      BY <1>2, <2>1
    <2>4. CASE ServerReads
      <3>1. /\ Len(Outgoing) > 0 /\ Outgoing[1] = Head(sock.up)
            /\ Follows(Outgoing, 1, Outgoing')
        BY <2>4, TakenFromOutgoing
      <3>2. /\ server'.todo = IF Outgoing[1].nul THEN Append(server.todo, Outgoing[1].msg)
                              ELSE server.todo
            /\ stream'.in = stream.in /\ sock'.down = sock.down /\ server'.out = server.out
        BY <2>4, <3>1 DEF ServerReads, TypeOK
      <3>3. Incoming' = Incoming
        BY <3>2, SameIncoming
      <3>4. RequestsFit(Incoming, server'.todo, Outgoing', Unfinished, Unanswered)
        BY <1>3, <2>3, <3>1, <3>2, OrderTaken
      <3> QED
        BY <1>2, <2>2, <3>3, <3>4 DEF Fit
    <2>5. CASE ServerReplies
      <3> DEFINE i == Head(server.todo)
      <3>1. /\ server.todo # <<>> /\ Outgoing' = Outgoing
            /\ \/ /\ program.calls[i].kind = "oneway" /\ Incoming' = Incoming
                  /\ server'.todo = Tail(server.todo)
               \/ /\ program.calls[i].kind # "oneway"
                  /\ Grown(Incoming, Incoming', [call |-> i, kind |-> "final"], 2)
                  /\ server'.todo = Tail(server.todo)
               \/ /\ program.calls[i].kind = "more"
                  /\ Grown(Incoming, Incoming', [call |-> i, kind |-> "continues"], 2)
                  /\ server'.todo = server.todo
        BY <2>5, AnswerMoves
      <3>2. /\ i = server.todo[1] /\ server.todo[1] \in Unfinished
            /\ i \in Unanswered <=> program.calls[i].kind # "oneway"
            /\ program.calls[i].kind = "more" => i \in AskedMore
        <4>1. Len(server.todo) \in Nat /\ Len(server.todo) > 0
          BY <1>3, <3>1, LenProperties, EmptySeq
        <4>2. 1 \in 1..Len(server.todo)
          BY <4>1
        <4>3. i = server.todo[1]
          BY <1>3, <3>1, HeadTailProperties
        <4>4. server.todo[1] \in Unfinished
          BY <2>3, <4>2 DEF RequestsFit, TodoOrdered
        <4> QED
          BY <4>3, <4>4 DEF Unanswered, Unfinished, Sent, AskedMore
      <3> HIDE DEF i
      <3>3. CASE program.calls[i].kind = "oneway" /\ Incoming' = Incoming
                 /\ server'.todo = Tail(server.todo)
        <4>1. server.todo[1] \notin Unanswered
          BY <3>2, <3>3
        <4>2. RequestsFit(Incoming, Tail(server.todo), Outgoing, Unfinished, Unanswered)
          BY <1>3, <2>3, <3>1, <4>1, OrderSkipped
        <4> QED
          BY <1>2, <2>2, <3>1, <3>3, <4>2 DEF Fit
      <3>4. ASSUME NEW m, m.call = i, program.calls[i].kind # "oneway",
                   Grown(Incoming, Incoming', m, 2),
                   m.kind = "final" \/ (m.kind = "continues" /\ i \in AskedMore)
            PROVE  /\ RepliesFit(Incoming', Unanswered, AskedMore)
                   /\ m.kind = "continues" =>
                        RequestsFit(Incoming', server.todo, Outgoing, Unfinished, Unanswered)
                   /\ m.kind = "final" =>
                        RequestsFit(Incoming', Tail(server.todo), Outgoing, Unfinished, Unanswered)
        <4>1. server.todo[1] \in Unanswered /\ m.call = server.todo[1]
              /\ (m.kind = "final" \/ (m.kind = "continues" /\ server.todo[1] \in AskedMore))
          BY <3>2, <3>4
        <4> QED
          BY <1>2, <1>3, <2>3, <3>1, <3>4, <4>1, OrderAnswered
      <3>5. CASE program.calls[i].kind # "oneway"
                 /\ Grown(Incoming, Incoming', [call |-> i, kind |-> "final"], 2)
                 /\ server'.todo = Tail(server.todo)
        BY <2>2, <3>1, <3>4, <3>5 DEF Fit
      <3>6. CASE program.calls[i].kind = "more"
                 /\ Grown(Incoming, Incoming', [call |-> i, kind |-> "continues"], 2)
                 /\ server'.todo = server.todo
        BY <2>2, <3>1, <3>2, <3>4, <3>6 DEF Fit
      <3> QED
        BY <3>1, <3>3, <3>5, <3>6
    <2>6. CASE ServerCloses
      <3>1. Prefix(Incoming, Incoming') /\ Incoming' \in Seq(ReplyCells)
        BY <2>6, EndLost
      <3>2. RepliesFit(Incoming', Unanswered, AskedMore)
        BY <1>2, <1>3, <3>1, OrderLost
      <3>3. server'.peer # "open"
        BY <2>6 DEF ServerCloses, TypeOK
      <3> QED
        BY <2>2, <3>2, <3>3 DEF Fit
    <2> QED
      BY <1>9, <2>4, <2>5, <2>6
  <1>10. ~ServerNoise
    <2>1. server.noise + 1 # 0
      BY <1>1
    <2> QED
      BY <2>1, NoiseMoves
  <1> QED
    BY <1>5, <1>6, <1>7, <1>8, <1>9, <1>10, OpenSteps

\* Every step keeps the reply with its call.
LEMMA ReachedStep ==
    ASSUME Queues, UnsentIsLast, InOrder, ReplyReachesItsCallback, [Next]_vars
    PROVE  ReplyReachesItsCallback'
  <1> SUFFICES ASSUME pc' = "callback", server'.noise = 0
               PROVE  reply'.call = Head(pending').call
    BY DEF ReplyReachesItsCallback
  <1>1. TypeOK /\ Buffered /\ ReadsOpen /\ Kept /\ QueueInv /\ HeadIsReplied
    BY DEF Queues, QueueInv
  <1>2. server.noise = 0
    <2>1. server'.noise = server.noise \/ ServerNoise
      BY <1>1 DEF Next, Library, Program, Server, vars, TypeOK, ProcessEvents, ProcessOutput,
             ReadSocket, ReadNothing, ReadInvalid, ReadTooLate, ReadUnexpected, ReadReply, HangUp,
             Call, Close, CallbackReturns, ServerReads, ServerReplies, Reply, ServerWrites,
             ServerCloses
    <2>2. server.noise \in Nat
      BY <1>1, ConstantTypes DEF TypeOK
    <2> QED
      BY <1>1, <2>1, <2>2, NoiseMoves
  <1>3. ASSUME pc = "callback", reply' = reply, pending' = pending
        PROVE  reply'.call = Head(pending').call
    BY <1>2, <1>3 DEF ReplyReachesItsCallback
  <1>4. CASE ReadReply
    <2>1. reply'.call = Head(pending).call
      BY <1>1, <1>2, <1>4, ReplyRead
    <2>2. pending' = pending
      BY <1>4 DEF ReadReply
    <2> QED
      BY <2>1, <2>2
  <1>5. CASE Library /\ ~ReadReply
    <2>1. ~ReturnError /\ ~HangUp
      BY DEF ReturnError, HangUp
    <2> QED
      BY <1>5, <2>1 DEF Library, ProcessEvents, ProcessOutput, ReadSocket, ReadNothing, ReadInvalid,
                        ReadTooLate, ReadUnexpected
  <1>6. ASSUME NEW kind \in Kinds, Call(kind)
        PROVE  reply'.call = Head(pending').call
    <2>1. pc = "callback" /\ reply' = reply /\ pending # <<>> /\ pending' = Queued(kind)
      BY <1>1, <1>6 DEF Call, HeadIsReplied
    <2> DEFINE x == [call |-> Len(program.calls) + 1, more |-> kind = "more"]
    <2>2. x \in Entries
      BY <1>1, <1>6, CallMoves DEF Entries
    <2>3. Queued(kind) = pending \/ Queued(kind) = Append(pending, x)
      BY DEF Queued, QueueTail
    <2> HIDE DEF x
    <2>4. Head(Append(pending, x)) = Head(pending)
      <3>1. pending \in Seq(Entries)
        BY <1>1 DEF TypeOK
      <3> QED
        BY <2>1, <2>2, <3>1, AppendProperties, HeadTailProperties, LenProperties, EmptySeq
    <2> QED
      BY <1>2, <2>1, <2>3, <2>4 DEF ReplyReachesItsCallback
  <1>7. CASE UNCHANGED vars \/ Server \/ Close
    BY <1>3, <1>7 DEF vars, Server, ServerReads, ServerReplies, ServerNoise, ServerWrites,
                      ServerCloses, Close
  <1>8. ASSUME NEW ok \in BOOLEAN, CallbackReturns(ok) PROVE FALSE
    BY <1>8 DEF CallbackReturns
  <1> QED
    BY <1>4, <1>5, <1>6, <1>7, <1>8 DEF Next, Program

-----------------------------------------------------------------------------
(* The theorems about a program that gives up.                             *)

\* The initial state.
LEMMA OrderInit == Init => Order
  <1> SUFFICES ASSUME Init PROVE Order
    OBVIOUS
  <1>1. Incoming = <<>> /\ Outgoing = <<>>
    <2>1. <<>> \o <<>> = <<>>
      BY EmptySeq, ConcatEmptySeq
    <2> QED
      BY <2>1, NewStreamType DEF Init, Incoming, Outgoing
  <1>2. Len(Incoming) = 0 /\ Len(Outgoing) = 0 /\ Len(server.todo) = 0 /\ Len(program.calls) = 0
    BY <1>1, EmptySeq DEF Init
  <1>3. Unfinished = {} /\ Unanswered = {}
    BY <1>2 DEF Unanswered, Unfinished, Sent
  <1>4. RepliesFit(Incoming, Unanswered, AskedMore)
    BY <1>2 DEF RepliesFit, RepliesAwaited, RepliesOrdered, NoneSkipped
  <1>5. RequestsFit(Incoming, server.todo, Outgoing, Unfinished, Unanswered)
    BY <1>2, <1>3 DEF RequestsFit, TodoOrdered, RequestsOrdered, NoneLost
  <1>6. UnsentIsLast /\ ReplyReachesItsCallback
    BY <1>2 DEF UnsentIsLast, ReplyReachesItsCallback, Init
  <1> QED
    BY <1>4, <1>5, <1>6 DEF Order, InOrder

\* Every step of a program that gives up.
LEMMA OrderStep == GiveUp /\ Queues /\ Order /\ [Next]_vars => Order'
  <1> SUFFICES ASSUME GiveUp, Queues, Order, [Next]_vars PROVE Order'
    OBVIOUS
  <1>1. /\ TypeOK /\ TypeOK' /\ Buffered /\ ReadsOpen /\ Kept /\ QueueInv
        /\ UnsentIsLast /\ InOrder /\ ReplyReachesItsCallback
    BY QueuesStep DEF Queues, Order
  <1>2. UnsentIsLast'
    BY <1>1, UnsentStep
  <1>3. InOrder'
    BY <1>1, InOrderStep
  <1>4. ReplyReachesItsCallback'
    BY <1>1, ReachedStep
  <1> QED
    BY <1>2, <1>3, <1>4 DEF Order

\* It holds always.
THEOREM OrderAlways ==
    ASSUME GiveUp
    PROVE  Spec => []Order
  <1>1. Queues /\ Order /\ [Next]_vars => Order'
    BY OrderStep
  <1> QED
    BY <1>1, OrderInit, QueuesAlways, PTL DEF Spec

\* The reply a callback is executed with is the reply to its call, as long as
\* the server keeps to the protocol, if the program makes no call after an
\* error: the queue of process_events and the replies on the wire have the same
\* order, whatever is buffered where, however calls, callbacks and reads
\* interleave.
THEOREM ConnectionRepliesReach ==
    ASSUME GiveUp
    PROVE  Spec => []ReplyReachesItsCallback
  <1>1. Order => ReplyReachesItsCallback
    BY DEF Order
  <1> QED
    BY <1>1, OrderAlways, PTL

-----------------------------------------------------------------------------
(* The connection implements Replies.                                      *)

\* The calls, as Replies sees them.
Issued(calls) == [i \in DOMAIN calls |-> IF calls[i].sent THEN calls[i].kind ELSE "void"]

\* A call is one more.
LEMMA IssuedAppend ==
    ASSUME NEW calls \in Seq(CallRecords), NEW c \in CallRecords
    PROVE  Issued(Append(calls, c)) = Append(Issued(calls), IF c.sent THEN c.kind ELSE "void")
  <1> DEFINE n == Len(calls)
             x == IF c.sent THEN c.kind ELSE "void"
             d == Append(calls, c)
             S == Kinds \cup {"void"}
  <1>1. /\ n \in Nat /\ DOMAIN calls = 1..n
        /\ d \in Seq(CallRecords) /\ Len(d) = n + 1 /\ d[n + 1] = c
        /\ \A i \in 1..n : d[i] = calls[i]
    BY LenProperties, AppendProperties
  <1>2. DOMAIN d = 1..(n + 1)
    BY <1>1, LenProperties
  <1>3. ASSUME NEW s \in Seq(CallRecords)
        PROVE  Issued(s) \in Seq(S) /\ Len(Issued(s)) = Len(s)
    <2>1. DOMAIN s = 1..Len(s) /\ Len(s) \in Nat
      BY LenProperties
    <2>2. \A i \in 1..Len(s) : s[i] \in CallRecords
      BY ElementOfSeq
    <2>3. \A i \in 1..Len(s) : (IF s[i].sent THEN s[i].kind ELSE "void") \in S
      BY <2>2 DEF CallRecords
    <2>4. Issued(s) = [i \in 1..Len(s) |-> IF s[i].sent THEN s[i].kind ELSE "void"]
      BY <2>1 DEF Issued
    <2> QED
      BY <2>1, <2>3, <2>4
  <1>4. x \in S
    BY DEF CallRecords
  <1> HIDE DEF x, d, S
  <1> DEFINE a == Issued(calls)
             b == Issued(d)
  <1>5. a \in Seq(S) /\ Len(a) = n /\ b \in Seq(S) /\ Len(b) = n + 1
    BY <1>1, <1>3
  <1>6. b[n + 1] = x /\ \A i \in 1..n : b[i] = a[i]
    <2>1. n + 1 \in 1..(n + 1) /\ \A i \in 1..n : i \in 1..(n + 1)
      BY <1>1
    <2> QED
      BY <1>1, <1>2, <2>1 DEF Issued, x
  <1> HIDE DEF a, b
  <1>7. /\ Append(a, x) \in Seq(S) /\ Len(Append(a, x)) = n + 1 /\ Append(a, x)[n + 1] = x
        /\ \A i \in 1..n : Append(a, x)[i] = a[i]
    BY <1>4, <1>5, AppendProperties
  <1>8. \A i \in 1..Len(b) : b[i] = Append(a, x)[i]
    <2>1. \A i \in 1..(n + 1) : i \in 1..n \/ i = n + 1
      BY <1>1
    <2> QED
      BY <1>5, <1>6, <1>7, <2>1
  <1>9. b = Append(a, x)
    BY <1>5, <1>7, <1>8, SeqEqual
  <1> QED
    BY <1>9 DEF a, b, d, x

\* The variables of Replies.
Issuing == IF Over THEN <<>> ELSE Issued(program.calls)
Getting == IF Over THEN <<>> ELSE program.got

\* The initial state of the connection is one of Replies.
LEMMA PromiseInit == Init => Promise!Init
  <1> SUFFICES ASSUME Init PROVE Promise!Init
    OBVIOUS
  <1>1. program.calls = <<>> /\ program.got = <<>> /\ DOMAIN program.calls = {}
    BY EmptySeq DEF Init
  <1>2. [i \in DOMAIN program.calls |-> IF program.calls[i].sent THEN program.calls[i].kind ELSE "void"]
        = <<>>
    BY <1>1
  <1> QED
    BY <1>1, <1>2 DEF Promise!Init

\* Every step of the connection is a step of Replies, or leaves it alone.
LEMMA PromiseStep ==
    ASSUME GiveUp, Queues, Order, [Next]_vars
    PROVE  [Promise!Next]_Promise!vars
  <1>1. Promise!vars = <<Issuing, Getting>>
    BY DEF Promise!vars, Issuing, Getting, Issued
  <1>2. /\ TypeOK /\ Buffered /\ ReadsOpen /\ Kept /\ QueueInv
        /\ UnsentIsLast /\ InOrder
    BY DEF Queues, Order
  <1>3. program.calls \in Seq(CallRecords) /\ program.got \in Seq(GotRecords)
    BY <1>2 DEF TypeOK, CallRecords, GotRecords
  <1>4. CASE Over'
    <2>1. Promise!End
      BY <1>4 DEF Promise!End
    <2> QED
      BY <2>1 DEF Promise!Next
  <1>5. CASE ~Over'
    <2>1. open' /\ ~(server'.noise > 0)
      BY <1>5 DEF Over
    <2>2. server'.noise = 0 /\ server.noise = 0 /\ ~ServerNoise
      <3>1. server.noise \in Nat /\ server'.noise \in Nat
        BY <1>2, QueuesStep, ConstantTypes DEF Queues, TypeOK
      <3>2. server'.noise = server.noise \/ ServerNoise
        BY <1>2 DEF Next, Library, Program, Server, vars, TypeOK, ProcessEvents, ProcessOutput,
               ReadSocket, ReadNothing, ReadInvalid, ReadTooLate, ReadUnexpected, ReadReply, HangUp,
               Call, Close, CallbackReturns, ServerReads, ServerReplies, Reply, ServerWrites,
               ServerCloses
      <3> QED
        BY <1>2, <2>1, <3>1, <3>2, NoiseMoves
    <2>3. ~Over
      BY <2>1, <2>2, OpenSteps DEF Over
    <2>4. /\ Issuing = Issued(program.calls) /\ Getting = program.got
          /\ Issuing' = Issued(program'.calls) /\ Getting' = program'.got
      BY <1>5, <2>3 DEF Issuing, Getting, Issued
    <2>5. ASSUME program'.calls = program.calls, program'.got = program.got
          PROVE  UNCHANGED Promise!vars
      <3>1. Promise!vars' = <<Issuing, Getting>>'
        BY DEF Promise!vars, Issuing, Getting, Issued
      <3>2. Issuing' = Issuing /\ Getting' = Getting
        BY <2>4, <2>5
      <3> QED
        BY <1>1, <3>1, <3>2
    <2>6. ASSUME NEW kind \in Kinds, Call(kind) PROVE Promise!Issue
      <3>1. PICK sent \in BOOLEAN :
              program'.calls = Append(program.calls, [kind |-> kind, sent |-> sent])
              /\ program'.got = program.got
        BY <1>2, <2>6 DEF Call, CallFails, CallSent, Told, TypeOK
      <3> DEFINE c == [kind |-> kind, sent |-> sent]
      <3>2. c \in CallRecords /\ c.sent = sent /\ c.kind = kind
        BY DEF CallRecords
      <3> HIDE DEF c
      <3>3. Issued(program'.calls) = Append(Issued(program.calls), IF sent THEN kind ELSE "void")
        BY <1>3, <3>1, <3>2, IssuedAppend DEF c
      <3> DEFINE k == IF sent THEN kind ELSE "void"
      <3>4. k \in Kinds \cup {"void"}
        OBVIOUS
      <3> HIDE DEF k
      <3>5. Issuing' = Append(Issuing, k) /\ Getting' = Getting
        BY <2>4, <3>1, <3>3 DEF k
      <3> QED
        BY <3>4, <3>5 DEF Promise!Issue, Issuing, Getting, Issued
    <2>7. CASE ReadReply
      <3>1. PICK e \in 1..Len(Incoming) :
              /\ Incoming[e].msg.call = Head(pending).call
              /\ Incoming[e].msg.call \in Unanswered
              /\ Incoming[e].msg.kind \in {"final", "continues"}
              /\ pending # <<>> /\ ~Unexpected(Incoming[e].msg)
              /\ program'.got = Append(program.got, [call |-> Incoming[e].msg.call,
                                                     kind |-> Incoming[e].msg.kind])
        BY <1>2, <2>2, <2>7, ReplyRead
      <3>2. program'.calls = program.calls /\ pc # "callback"
        BY <1>2, <2>7 DEF ReadReply, TypeOK
      <3> DEFINE m == Incoming[e].msg
                 i == m.call
                 kind == m.kind
      <3>3. /\ i = Head(pending).call /\ i \in Unanswered /\ kind \in {"final", "continues"}
            /\ kind = "continues" => Head(pending).more
            /\ program'.got = Append(program.got, [call |-> i, kind |-> kind])
        BY <3>1 DEF Unexpected, WantsMore
      <3> HIDE DEF m, i, kind
      <3>4. pending \in Seq(Entries) /\ Len(pending) \in Nat /\ 1 \in 1..Len(pending)
            /\ Head(pending) = pending[1]
        <4>1. pending \in Seq(Entries)
          BY <1>2 DEF TypeOK
        <4>2. Len(pending) \in Nat /\ Len(pending) > 0
          BY <3>1, <4>1, LenProperties, EmptySeq
        <4> QED
          BY <3>1, <4>1, <4>2, HeadTailProperties
      <3>5. EntryWaits(1)
        BY <1>2, <3>4 DEF QueueInv, QueueWaits
      <3>6. kind = "continues" => program.calls[i].kind = "more"
        BY <3>3, <3>4, <3>5 DEF EntryWaits
      <3>7. DOMAIN program.calls = 1..Len(program.calls) /\ DOMAIN program.got = 1..Len(program.got)
            /\ Len(program.calls) \in Nat
        BY <1>3, LenProperties
      <3>8. \A j \in 1..Len(program.calls) :
              Issued(program.calls)[j] = IF program.calls[j].sent THEN program.calls[j].kind ELSE "void"
        BY <3>7 DEF Issued
      <3>9. /\ i \in 1..Len(program.calls) /\ program.calls[i].sent /\ ~Finished(i)
            /\ program.calls[i].kind \in {"plain", "more"}
        <4>1. i \in 1..Len(program.calls) /\ program.calls[i].sent /\ ~Finished(i)
              /\ program.calls[i].kind # "oneway"
          BY <3>3 DEF Unanswered, Unfinished, Sent
        <4>2. program.calls[i] \in CallRecords
          BY <1>3, <4>1, ElementOfSeq
        <4>3. program.calls[i].kind \in AllKinds
          BY <4>2, ConnectionAssumption DEF CallRecords
        <4> QED
          BY <4>1, <4>3 DEF AllKinds
      <3>10. \A j : Promise!Finished(j) <=> Finished(j)
        BY <2>3, <3>7 DEF Promise!Finished, Finished
      <3>11. \A j \in 1..Len(program.calls) :
               Promise!Open(j) <=> /\ Issued(program.calls)[j] \in {"plain", "more"}
                                   /\ ~Finished(j)
        BY <2>3, <3>10 DEF Promise!Open, Issued
      <3>12. Promise!Open(i)
        BY <3>8, <3>9, <3>11
      <3>13. ASSUME NEW j \in 1..(i - 1) PROVE ~Promise!Open(j)
        <4>1. j \in 1..Len(program.calls) /\ j \in Nat /\ i \in Nat /\ j < i
          BY <3>7, <3>9
        <4>2. SUFFICES ASSUME Promise!Open(j) PROVE FALSE
          OBVIOUS
        <4>3. Issued(program.calls)[j] \in {"plain", "more"} /\ ~Finished(j)
          BY <3>11, <4>1, <4>2
        <4>4. program.calls[j].sent /\ program.calls[j].kind \in {"plain", "more"}
          BY <3>8, <4>1, <4>3
        <4>5. Waits(j)
          BY <4>1, <4>3, <4>4 DEF Waits
        <4>6. PICK k \in 1..Len(pending) : pending[k].call = j
          BY <1>2, <4>1, <4>5 DEF QueueInv, WaitsQueued
        <4>7. k = 1 \/ 1 < k
          OBVIOUS
        <4>8. k # 1 => i < j
          BY <1>2, <3>3, <3>4, <4>6, <4>7 DEF QueueInv, QueueOrdered
        <4> QED
          BY <3>3, <3>4, <4>1, <4>6, <4>8
      <3>14. kind = "continues" => Issuing[i] = "more"
        BY <2>4, <3>6, <3>8, <3>9
      <3>15. Getting' = Append(Getting, [call |-> i, kind |-> kind]) /\ Issuing' = Issuing
        BY <2>4, <3>2, <3>3
      <3>16. Promise!Deliver(i, kind)
        BY <3>12, <3>13, <3>14, <3>15 DEF Promise!Deliver, Issuing, Getting, Issued
      <3>17. i \in DOMAIN Issuing
        BY <2>4, <3>7, <3>9 DEF Issued
      <3> QED
        BY <3>3, <3>16, <3>17 DEF Promise!Next, Issuing, Issued
    <2>8. ASSUME ~ReadReply, ~\E kind \in Kinds : Call(kind) PROVE UNCHANGED Promise!vars
      <3>1. Told(program).calls = program.calls /\ Told(program).got = program.got
        BY <1>2 DEF Told, TypeOK
      <3>2. program' = program \/ program' = Told(program)
        BY <2>1, <2>2, <2>8, OpenSteps
           DEF Quiet, vars, ProcessEvents, ProcessOutput, ReadSocket, ReadNothing, HangUp,
               ReadInvalid, ReadUnexpected, ReturnError, CallbackReturns, ServerReads,
               ServerReplies, ServerNoise, ServerWrites, ServerCloses
      <3> QED
        BY <2>5, <3>1, <3>2
    <2> QED
      BY <2>6, <2>7, <2>8 DEF Promise!Next
  <1> QED
    BY <1>4, <1>5

\* As long as the connection is open and the server keeps to the protocol, a
\* program that makes no call after an error gets its replies as Replies
\* promises: in the order of the calls, continued only where more was asked
\* for, nothing after the last one, and nothing for a oneway call or one that
\* could not be sent.
THEOREM ConnectionKeepsPromise ==
    ASSUME GiveUp
    PROVE  Spec => KeepsPromise
  <1>1. Queues /\ Order /\ [Next]_vars => [Promise!Next]_Promise!vars
    BY PromiseStep
  <1> QED
    BY <1>1, PromiseInit, QueuesAlways, OrderAlways, PTL DEF Spec, KeepsPromise, Promise!Spec
=============================================================================
