--------------------------- MODULE ServiceProofs ----------------------------
(***************************************************************************)
(* Proofs about Service, for any number of connections, calls and replies  *)
(* and for buffers and sockets of any size.                                *)
(***************************************************************************)
EXTENDS Service, StreamProofs

\* A call is pending on an open connection only, and it is not finished.
Pending ==
    \A c \in Connections : conn[c].call # NoCall =>
       IsOpen(c) /\ ~calls[c][conn[c].call].done

\* dispatch_connection works on an open connection; the application is in
\* the callback of the dispatch in progress.
Dispatching ==
    IF pc = "idle" THEN cur = NoConnection
    ELSE cur \in Connections /\ conn[cur].state = "open"

\* Message i is still to come: it is not sent whole, or the NUL that ends it
\* was not consumed.
SentWhole(c, i) ==
    /\ i \in DOMAIN client[c].requests
    /\ i = Len(client[c].requests) => client[c].pushed = RequestSize(Kind(c, i))

ToCome(c, i) == \/ ~SentWhole(c, i)
                \/ Ends(conn[c].stream.in, i)
                \/ Ends(sock[c].up, i)

\* No call was made from a message that is still to come.
Fresh ==
    \A c \in Connections, i \in CallNo : ToCome(c, i) => calls[c][i] = FreshCall

\* The end of a message is in one place.
Once ==
    \A c \in Connections :
       /\ OnceIn(conn[c].stream.in)
       /\ OnceIn(sock[c].up)
       /\ \A i \in CallNo : /\ ~(Ends(conn[c].stream.in, i) /\ Ends(sock[c].up, i))
                            /\ Ends(conn[c].stream.in, i) \/ Ends(sock[c].up, i)
                                  => SentWhole(c, i)

\* A client sends at most MaxCalls messages.
Numbered == \A c \in Connections : Len(client[c].requests) <= MaxCalls

IInv == TypeOK /\ Numbered /\ BuffersBounded /\ RefcountsCountOwners /\ KeptCallsAttached /\ Pending
        /\ Dispatching /\ Fresh /\ Once

-----------------------------------------------------------------------------
(* Types.                                                                  *)

ConnectionType ==
    [state : {"none", "open", "freed"}, events_mask : Masks,
     current_events_mask : Masks, call : CallNo \cup {NoCall}, stream : Streams]

\* The streams of the service are streams of its requests and replies.
LEMMA StreamsAre == Streams = StreamOf(RequestCells, ReplyCells)
  BY DEF Streams, StreamOf

\* The types of the constants.
LEMMA ConstantTypes ==
    /\ BufferSize \in Nat \ {0} /\ MaxCalls \in Nat \ {0}
    /\ MaxReplies \in Nat \ {0} /\ SocketSize \in Nat \ {0}
    /\ NoConnection \notin Connections /\ ReplySize = 2
    /\ NoCall \notin CallNo
  BY BufferSizeAssumption, ServiceAssumption DEF ReplySize, NoCall, CallNo

\* varlink_stream_new makes a stream with empty buffers.
LEMMA NewStreamType ==
    NewStream \in Streams /\ Len(NewStream.in) = 0 /\ Len(NewStream.out) = 0
  BY EmptySeq DEF NewStream, Streams

\* Replacing the record of one connection.
LEMMA ConnUpdate ==
    ASSUME TypeOK, BuffersBounded, NEW c \in Connections, NEW r \in ConnectionType,
           Len(r.stream.in) <= BufferSize, Len(r.stream.out) < BufferSize,
           conn' = [conn EXCEPT ![c] = r]
    PROVE  /\ conn' \in [Connections -> ConnectionType]
           /\ BuffersBounded'
  BY DEF TypeOK, BuffersBounded, ConnectionType

CallType == [refcount : 0..2, replies : 0..MaxReplies, done : BOOLEAN]

\* Replacing the record of one call.
LEMMA CallUpdate ==
    ASSUME TypeOK, NEW c \in Connections, NEW i \in CallNo, NEW r \in CallType,
           calls' = [calls EXCEPT ![c][i] = r]
    PROVE  calls' \in [Connections -> [CallNo -> CallType]]
  <1>1. calls \in [Connections -> [CallNo -> CallType]]
    BY DEF TypeOK, CallType
  <1> QED
    BY <1>1

\* Closing a connection drops every reference to its call.
LEMMA CloseType ==
    ASSUME TypeOK, BuffersBounded, RefcountsCountOwners,
           NEW c \in Connections, CloseConnection(c)
    PROVE  TypeOK' /\ BuffersBounded'
  <1>1. /\ conn' \in [Connections -> ConnectionType]
        /\ BuffersBounded'
    <2>1. FreedConnection \in ConnectionType
      BY NewStreamType DEF FreedConnection, ConnectionType, NoCall, Masks
    <2>2. FreedConnection.stream = NewStream
      BY DEF FreedConnection
    <2>3. conn' = [conn EXCEPT ![c] = FreedConnection]
      BY DEF CloseConnection
    <2>4. /\ Len(FreedConnection.stream.in) <= BufferSize
          /\ Len(FreedConnection.stream.out) < BufferSize
      BY <2>2, NewStreamType, ConstantTypes
    <2> QED
      BY <2>1, <2>3, <2>4, ConnUpdate
  <1>2. calls' \in [Connections -> [CallNo -> CallType]]
    <2> DEFINE i == conn[c].call
    <2>1. CASE i = NoCall
      BY <2>1 DEF TypeOK, CallType, CloseConnection, CallsAfterClose
    <2>2. CASE i # NoCall
      <3>1. i \in CallNo /\ calls[c][i].refcount = IF <<c, i>> \in held THEN 2 ELSE 1
        <4>1. i \in CallNo
          BY <2>2 DEF TypeOK
        <4>2. calls[c][i].refcount = Owners(c, i)
          BY <4>1 DEF RefcountsCountOwners
        <4> QED
          BY <4>1, <4>2 DEF Owners
      <3>2. calls' = [calls EXCEPT ![c][i].refcount = 0]
        BY <2>2, <3>1 DEF TypeOK, CloseConnection, CallsAfterClose, HeldAfterClose
      <3> DEFINE r == [calls[c][i] EXCEPT !.refcount = 0]
      <3>3. r \in CallType
        <4>1. calls[c][i] \in CallType
          BY <3>1 DEF TypeOK, CallType
        <4> QED
          BY <4>1 DEF CallType
      <3>4. calls' = [calls EXCEPT ![c][i] = r]
        BY <3>2
      <3> QED
        BY <3>1, <3>3, <3>4, CallUpdate
    <2> QED
      BY <2>1, <2>2
  <1>3. sock' \in [Connections -> [up : Seq(RequestCells), down : Seq(ReplyCells)]]
    BY EmptySeq DEF TypeOK, CloseConnection
  <1> QED
    BY <1>1, <1>2, <1>3 DEF TypeOK, ConnectionType, CallType, CloseConnection, Idle, HeldAfterClose

ClientType == [peer : {"none", "open", "half", "closed"}, requests : Seq(Kinds),
               pushed : 0..(BufferSize + 2), got : Seq(ReplyCells)]
SockType == [up : Seq(RequestCells), down : Seq(ReplyCells)]

Steps(c) == Accept(c) \/ Loop(c) \/ Application(c) \/ Client(c)

\* The types of a step, part by part.
TypeParts ==
    /\ conn \in [Connections -> ConnectionType]
    /\ calls \in [Connections -> [CallNo -> CallType]]
    /\ held \subseteq Connections \X CallNo
    /\ pc \in {"idle", "flush", "read", "handle", "end"}
    /\ cur \in Connections \cup {NoConnection}
    /\ ev \subseteq Events
    /\ client \in [Connections -> ClientType]
    /\ sock \in [Connections -> SockType]

\* TypeOK, with a name for each part of it.
LEMMA TypeInParts == TypeOK <=> TypeParts
  BY DEF TypeOK, TypeParts, ConnectionType, CallType, ClientType, SockType

\* The same after a step.
LEMMA TypeInPartsNext == TypeOK' <=> TypeParts'
  BY DEF TypeOK, TypeParts, ConnectionType, CallType, ClientType, SockType

\* A message that is delivered comes from the buffer of its connection.
LEMMA DeliveredCall ==
    ASSUME NEW s \in StreamOf(RequestCells, ReplyCells), NEW o \in Delivered(s)
    PROVE  /\ o.stream \in StreamOf(RequestCells, ReplyCells)
           /\ o.stream.out = s.out
           /\ o.message \in CallNo
           /\ Len(s.in) \in Nat /\ Len(o.stream.in) \in Nat
           /\ Len(o.stream.in) <= Len(s.in)
  <1>1. /\ o.stream \in StreamOf(RequestCells, ReplyCells)
        /\ o.stream.out = s.out
        /\ Len(s.in) \in Nat /\ Len(o.stream.in) \in Nat
        /\ Len(o.stream.in) <= Len(s.in)
    BY DeliveredProperties
  <1>2. PICK e \in 1..Len(s.in) : s.in[e] \in RequestCells /\ o.message = s.in[e].msg
    BY DeliveredProperties
  <1> QED
    BY <1>1, <1>2 DEF RequestCells

\* What is read from a socket moves to the buffer.
LEMMA ReceivedCells ==
    ASSUME NEW s \in StreamOf(RequestCells, ReplyCells), NEW wire \in Seq(RequestCells),
           Len(s.in) <= BufferSize
    PROVE  /\ Received(s, wire) \in StreamOf(RequestCells, ReplyCells)
           /\ Received(s, wire).out = s.out
           /\ ReadSize(s, wire) \in 0..Len(wire)
           /\ Len(Received(s, wire).in) <= BufferSize
  <1>1. BufferSize \in Nat
    BY ConstantTypes
  <1>2. Received(s, wire) \in StreamOf(RequestCells, ReplyCells)
    BY <1>1, ReceivedProperties
  <1>3. Received(s, wire).out = s.out
    BY DEF Received, StreamOf
  <1>4. ReadSize(s, wire) \in 0..Len(wire)
    BY <1>1, ReceivedProperties
  <1>5. Len(Received(s, wire).in) <= BufferSize
    BY <1>1, ReceivedProperties
  <1> QED
    BY <1>2, <1>3, <1>4, <1>5

\* The library's steps preserve the types and the bounds of the buffers.
LEMMA LoopType ==
    ASSUME TypeOK, BuffersBounded, RefcountsCountOwners,
           NEW c \in Connections, Accept(c) \/ Loop(c)
    PROVE  TypeOK' /\ BuffersBounded'
  <1> DEFINE s == conn[c].stream
  <1>1. /\ TypeParts
        /\ conn[c] \in ConnectionType /\ s \in Streams /\ s \in StreamOf(RequestCells, ReplyCells)
        /\ sock[c] \in SockType /\ sock[c].up \in Seq(RequestCells) /\ sock[c].down \in Seq(ReplyCells)
        /\ Len(s.in) <= BufferSize /\ Len(s.out) < BufferSize
    BY TypeInParts, StreamsAre DEF TypeParts, ConnectionType, SockType, BuffersBounded
  <1>2. CASE Accept(c)
    <2> DEFINE r == [state |-> "open", events_mask |-> {}, current_events_mask |-> {"IN"},
                     call |-> NoCall, stream |-> NewStream]
    <2>1. r \in ConnectionType /\ r.stream = NewStream
      BY NewStreamType DEF ConnectionType, Masks
    <2>2. Len(r.stream.in) <= BufferSize /\ Len(r.stream.out) < BufferSize
      BY <2>1, NewStreamType, ConstantTypes
    <2>3. conn' = [conn EXCEPT ![c] = r]
      BY <1>2 DEF Accept
    <2>4. conn' \in [Connections -> ConnectionType] /\ BuffersBounded'
      BY <2>1, <2>2, <2>3, ConnUpdate
    <2> QED
      BY <1>1, <1>2, <2>4, TypeInPartsNext DEF TypeParts, Accept
  <1>3. CASE Dispatch(c)
    <2> DEFINE r == [conn[c] EXCEPT !.events_mask = {}]
    <2>1. r \in ConnectionType /\ r.stream = s
      BY <1>1 DEF ConnectionType, Masks
    <2>2. conn' = [conn EXCEPT ![c] = r]
      BY <1>3 DEF Dispatch
    <2>3. conn' \in [Connections -> ConnectionType] /\ BuffersBounded'
      BY <1>1, <2>1, <2>2, ConnUpdate
    <2>4. Ready(c) \subseteq Events
      BY <1>1 DEF Ready, Events, ConnectionType, Masks
    <2> QED
      BY <1>1, <1>3, <2>3, <2>4, TypeInPartsNext DEF TypeParts, Dispatch, AfterFlush
  <1>4. CASE Flush(c)
    <2>1. Room(c) \in Int /\ Gone(c) \in BOOLEAN
      BY <1>1, ConstantTypes, LenProperties DEF Room, Gone
    <2>2. PICK o \in FlushOutcomes(s, Room(c), Gone(c)) :
            /\ conn' = [conn EXCEPT ![c].stream = o.stream,
                                    ![c].events_mask =
                                      IF o.result = "rest" THEN {"OUT"} ELSE {}]
            /\ sock' = [sock EXCEPT ![c].down = @ \o o.sent]
            /\ IF o.result = "error" THEN Idle
               ELSE pc' = AfterFlush(ev) /\ UNCHANGED <<cur, ev>>
      BY <1>4 DEF Flush
    <2>3. /\ o.stream \in StreamOf(RequestCells, ReplyCells) /\ o.stream.in = s.in
          /\ Len(o.stream.out) <= Len(s.out) /\ o.sent \in Seq(ReplyCells)
      BY <1>1, <2>1, <2>2, FlushType
    <2> DEFINE r == [conn[c] EXCEPT !.stream = o.stream,
                                    !.events_mask = IF o.result = "rest" THEN {"OUT"} ELSE {}]
    <2>4. r \in ConnectionType /\ r.stream = o.stream
      BY <1>1, <2>3, StreamsAre DEF ConnectionType, Masks
    <2>5. conn' = [conn EXCEPT ![c] = r]
      BY <2>2
    <2>6. Len(o.stream.in) <= BufferSize /\ Len(o.stream.out) < BufferSize
      <3>1. Len(o.stream.out) \in Nat /\ Len(s.out) \in Nat
        BY <1>1, <2>3, LenProperties DEF StreamOf
      <3> QED
        BY <1>1, <2>3, <3>1, ConstantTypes
    <2>7. conn' \in [Connections -> ConnectionType] /\ BuffersBounded'
      BY <2>4, <2>5, <2>6, ConnUpdate
    <2>8. sock' \in [Connections -> SockType]
      <3>1. sock[c].down \o o.sent \in Seq(ReplyCells)
        BY <1>1, <2>3, ConcatProperties
      <3> QED
        BY <1>1, <2>2, <3>1 DEF TypeParts, SockType
    <2> QED
      BY <1>1, <1>4, <2>2, <2>7, <2>8, TypeInPartsNext DEF TypeParts, Flush, Idle, AfterFlush
  <1>5. CASE StopReading(c)
    BY <1>1, <1>5, TypeInPartsNext DEF TypeParts, StopReading, BuffersBounded
  <1>6. CASE ReadSocket(c)
    <2> DEFINE t == Received(s, sock[c].up)
               r == [conn[c] EXCEPT !.stream = t]
    <2>1. /\ t \in StreamOf(RequestCells, ReplyCells) /\ t.out = s.out
          /\ Len(t.in) <= BufferSize /\ ReadSize(s, sock[c].up) \in 0..Len(sock[c].up)
      BY <1>1, ReceivedCells
    <2>2. r \in ConnectionType /\ r.stream = t
      BY <1>1, <2>1, StreamsAre DEF ConnectionType
    <2>3. conn' = [conn EXCEPT ![c] = r]
      BY <1>6 DEF ReadSocket
    <2>4. conn' \in [Connections -> ConnectionType] /\ BuffersBounded'
      BY <1>1, <2>1, <2>2, <2>3, ConnUpdate
    <2>5. Drop(sock[c].up, ReadSize(s, sock[c].up)) \in Seq(RequestCells)
      BY <1>1, <2>1, DropProperties
    <2>6. sock' \in [Connections -> SockType]
      BY <1>1, <1>6, <2>5 DEF ReadSocket, TypeParts, SockType
    <2> QED
      BY <1>1, <1>6, <2>4, <2>6, TypeInPartsNext DEF TypeParts, ReadSocket
  <1>7. CASE ReadNothing(c)
    <2>1. CASE EOF(c)
      <3> DEFINE r == [conn[c] EXCEPT !.stream = HungUp(s)]
      <3>1. HungUp(s) \in Streams /\ HungUp(s).in = s.in /\ HungUp(s).out = s.out
        BY <1>1 DEF HungUp, Streams
      <3>2. r \in ConnectionType /\ r.stream = HungUp(s)
        BY <1>1, <3>1 DEF ConnectionType
      <3>3. conn' = [conn EXCEPT ![c] = r]
        BY <1>7, <2>1 DEF ReadNothing
      <3>4. conn' \in [Connections -> ConnectionType] /\ BuffersBounded'
        BY <1>1, <3>1, <3>2, <3>3, ConnUpdate
      <3> QED
        BY <1>1, <1>7, <3>4, TypeInPartsNext DEF TypeParts, ReadNothing
    <2>2. CASE ~EOF(c)
      BY <1>1, <1>7, <2>2, TypeInPartsNext DEF TypeParts, ReadNothing, BuffersBounded
    <2> QED
      BY <2>1, <2>2
  <1>8. CASE ReadInvalid(c)
    BY <1>8, CloseType DEF ReadInvalid
  <1>9. CASE ReadNoCall(c)
    <2>1. PICK o \in Delivered(s) : conn' = [conn EXCEPT ![c].stream = o.stream]
      BY <1>9 DEF ReadNoCall
    <2>2. /\ o.stream \in StreamOf(RequestCells, ReplyCells) /\ o.stream.out = s.out
          /\ Len(o.stream.in) <= BufferSize
      BY <1>1, DeliveredCall, ConstantTypes
    <2> DEFINE r == [conn[c] EXCEPT !.stream = o.stream]
    <2>3. r \in ConnectionType /\ r.stream = o.stream
      BY <1>1, <2>2, StreamsAre DEF ConnectionType
    <2>4. conn' = [conn EXCEPT ![c] = r]
      BY <2>1
    <2>5. conn' \in [Connections -> ConnectionType] /\ BuffersBounded'
      BY <1>1, <2>2, <2>3, <2>4, ConnUpdate
    <2> QED
      BY <1>1, <1>9, <2>5, TypeInPartsNext DEF TypeParts, ReadNoCall, Idle
  <1>10. CASE ReadCall(c)
    <2>1. PICK o \in Delivered(s) :
            /\ conn' = [conn EXCEPT ![c].stream = o.stream, ![c].call = o.message]
            /\ calls' = [calls EXCEPT ![c][o.message].refcount = 1]
      BY <1>10 DEF ReadCall
    <2>2. /\ o.stream \in StreamOf(RequestCells, ReplyCells) /\ o.stream.out = s.out
          /\ Len(o.stream.in) <= BufferSize /\ o.message \in CallNo
      BY <1>1, DeliveredCall, ConstantTypes
    <2> DEFINE r == [conn[c] EXCEPT !.stream = o.stream, !.call = o.message]
               q == [calls[c][o.message] EXCEPT !.refcount = 1]
    <2>3. r \in ConnectionType /\ r.stream = o.stream
      BY <1>1, <2>2, StreamsAre DEF ConnectionType
    <2>4. conn' = [conn EXCEPT ![c] = r]
      BY <2>1
    <2>5. conn' \in [Connections -> ConnectionType] /\ BuffersBounded'
      BY <1>1, <2>2, <2>3, <2>4, ConnUpdate
    <2>6. q \in CallType
      <3>1. calls[c][o.message] \in CallType
        BY <1>1, <2>2 DEF TypeParts
      <3> QED
        BY <3>1 DEF CallType
    <2>7. calls' = [calls EXCEPT ![c][o.message] = q]
      BY <2>1
    <2>8. calls' \in [Connections -> [CallNo -> CallType]]
      BY <2>2, <2>6, <2>7, CallUpdate
    <2> QED
      BY <1>1, <1>10, <2>5, <2>8, TypeInPartsNext DEF TypeParts, ReadCall
  <1>11. CASE EndDispatch(c)
    <2>1. CASE "HUP" \in ev \/ s.hup
      BY <1>11, <2>1, CloseType DEF EndDispatch
    <2>2. CASE ~("HUP" \in ev \/ s.hup)
      <3> DEFINE r == SetEventsMask(conn[c], EndMask(c))
      <3>1. r \in ConnectionType /\ r.stream = s
        BY <1>1 DEF ConnectionType, SetEventsMask, EndMask, Masks
      <3>2. conn' = [conn EXCEPT ![c] = r] /\ Idle /\ UNCHANGED <<calls, held, client, sock>>
        BY <1>11, <2>2 DEF EndDispatch
      <3>3. conn' \in [Connections -> ConnectionType] /\ BuffersBounded'
        BY <1>1, <3>1, <3>2, ConnUpdate
      <3> QED
        BY <1>1, <3>2, <3>3, TypeInPartsNext DEF TypeParts, Idle
    <2> QED
      BY <2>1, <2>2
  <1> QED
    BY <1>2, <1>3, <1>4, <1>5, <1>6, <1>7, <1>8, <1>9, <1>10, <1>11 DEF Loop

\* The application can only answer a call it owns with the connection, and
\* finishing it leaves a count that is not negative.
LEMMA AnsweredCall ==
    ASSUME TypeOK, RefcountsCountOwners, NEW c \in Connections, NEW i \in CallNo,
           conn[c].call = i
    PROVE  /\ calls[c][i] \in CallType /\ calls[c][i].refcount \in 1..2
           /\ Finished(calls[c][i]) \in CallType
           /\ calls[c][i].replies < MaxReplies =>
                \A kind : Replied(calls[c][i], kind) \in CallType
  <1>1. calls[c][i] \in CallType
    BY DEF TypeOK, CallType
  <1>2. calls[c][i].refcount \in 1..2
    <2>1. calls[c][i].refcount = Owners(c, i)
      BY DEF RefcountsCountOwners
    <2> QED
      BY <2>1 DEF Owners
  <1>3. calls[c][i].replies \in 0..MaxReplies /\ calls[c][i].refcount - 1 \in 0..2
    BY <1>1, <1>2 DEF CallType
  <1>4. Finished(calls[c][i]) \in CallType
    BY <1>1, <1>3 DEF CallType, Finished, Unref
  <1>5. ASSUME calls[c][i].replies < MaxReplies
        PROVE  \A kind : Replied(calls[c][i], kind) \in CallType
    <2>1. calls[c][i].replies + 1 \in 0..MaxReplies
      BY <1>3, <1>5, ConstantTypes
    <2>2. Finished(calls[c][i]).replies = calls[c][i].replies
      BY <1>1 DEF CallType, Finished, Unref
    <2> QED
      BY <1>1, <1>4, <2>1, <2>2 DEF CallType, Replied
  <1> QED
    BY <1>1, <1>2, <1>4, <1>5

\* The stream a reply leaves.
LEMMA ReplyWritten ==
    ASSUME TypeOK, BuffersBounded, NEW c \in Connections, NEW i \in CallNo,
           NEW kind \in {"continues", "final", "error"}, calls[c][i].replies < MaxReplies,
           Fits(conn[c].stream, ReplySize),
           NEW o \in WriteOutcomes(conn[c].stream,
                       [call |-> i, n |-> calls[c][i].replies + 1, kind |-> kind],
                       ReplySize, Room(c), Gone(c))
    PROVE  /\ o.stream \in Streams /\ o.stream.in = conn[c].stream.in
           /\ Len(o.stream.in) <= BufferSize /\ Len(o.stream.out) < BufferSize
           /\ o.sent \in Seq(ReplyCells) /\ o.whole \in BOOLEAN
           /\ [sock EXCEPT ![c].down = @ \o o.sent] \in [Connections -> SockType]
  <1> DEFINE s == conn[c].stream
             m == [call |-> i, n |-> calls[c][i].replies + 1, kind |-> kind]
  <1>1. /\ TypeParts /\ s \in StreamOf(RequestCells, ReplyCells)
        /\ sock[c] \in SockType /\ sock[c].down \in Seq(ReplyCells)
        /\ Len(s.in) <= BufferSize /\ Len(s.out) < BufferSize /\ Len(s.out) \in Nat
    BY TypeInParts, StreamsAre, LenProperties
       DEF TypeParts, ConnectionType, SockType, BuffersBounded, StreamOf
  <1>2. \A nul \in BOOLEAN : [msg |-> m, nul |-> nul] \in ReplyCells
    <2>1. calls[c][i].replies \in 0..MaxReplies
      BY <1>1 DEF TypeParts, CallType
    <2>2. m \in Replies
      BY <2>1, ConstantTypes DEF Replies
    <2> HIDE DEF m
    <2> QED
      BY <2>2 DEF ReplyCells
  <1>3. Room(c) \in Int /\ Gone(c) \in BOOLEAN /\ 2 \in Nat
    BY <1>1, ConstantTypes, LenProperties DEF Room, Gone
  <1>4. o \in WriteOutcomes(s, m, 2, Room(c), Gone(c))
    BY DEF ReplySize
  <1> HIDE DEF m, s
  <1>5. /\ o.stream \in StreamOf(RequestCells, ReplyCells) /\ o.stream.in = s.in
        /\ Len(o.stream.out) <= Len(s.out) + 2
        /\ o.sent \in Seq(ReplyCells) /\ o.whole \in BOOLEAN
    BY <1>1, <1>2, <1>3, <1>4, WriteType
  <1>6. Len(o.stream.out) < BufferSize
    <2>1. Len(s.out) + 2 < BufferSize
      BY DEF Fits, ReplySize, s
    <2>2. Len(o.stream.out) \in Nat
      BY <1>5, LenProperties DEF StreamOf
    <2> QED
      BY <1>1, <1>5, <2>1, <2>2, ConstantTypes
  <1>7. [sock EXCEPT ![c].down = @ \o o.sent] \in [Connections -> SockType]
    <2>1. sock[c].down \o o.sent \in Seq(ReplyCells)
      BY <1>1, <1>5, ConcatProperties
    <2> QED
      BY <1>1, <2>1 DEF TypeParts, SockType
  <1> QED
    BY <1>1, <1>5, <1>6, <1>7, StreamsAre DEF s

\* The application's steps preserve the types and the bounds of the buffers.
LEMMA ApplicationType ==
    ASSUME TypeOK, BuffersBounded, RefcountsCountOwners,
           NEW c \in Connections, Application(c)
    PROVE  TypeOK' /\ BuffersBounded'
  <1>1. /\ TypeParts
        /\ conn[c] \in ConnectionType /\ conn[c].stream \in Streams
        /\ Len(conn[c].stream.in) <= BufferSize /\ Len(conn[c].stream.out) < BufferSize
    BY TypeInParts DEF TypeParts, ConnectionType, BuffersBounded
  <1>2. ASSUME NEW i \in CallNo, Keep(c, i)
        PROVE  TypeOK' /\ BuffersBounded'
    <2> DEFINE r == [calls[c][i] EXCEPT !.refcount = @ + 1]
    <2>1. calls[c][i].refcount = 1 /\ calls[c][i] \in CallType
      BY <1>1, <1>2 DEF Keep, RefcountsCountOwners, Owners, TypeParts
    <2>2. r \in CallType
      BY <2>1 DEF CallType
    <2>3. calls' = [calls EXCEPT ![c][i] = r]
      BY <1>2 DEF Keep
    <2>4. calls' \in [Connections -> [CallNo -> CallType]]
      BY <2>2, <2>3, CallUpdate
    <2> QED
      BY <1>1, <1>2, <2>4, TypeInPartsNext DEF TypeParts, Keep, BuffersBounded
  <1>3. ASSUME NEW i \in CallNo, Release(c, i)
        PROVE  TypeOK' /\ BuffersBounded'
    <2>1. calls[c][i].refcount = 1 /\ calls[c][i] \in CallType
      BY <1>1, <1>3 DEF Release, RefcountsCountOwners, Owners, TypeParts
    <2>2. Unref(calls[c][i]) \in CallType
      BY <2>1 DEF CallType, Unref
    <2>3. calls' = [calls EXCEPT ![c][i] = Unref(calls[c][i])]
      BY <1>3 DEF Release
    <2>4. calls' \in [Connections -> [CallNo -> CallType]]
      BY <2>2, <2>3, CallUpdate
    <2> QED
      BY <1>1, <1>3, <2>4, TypeInPartsNext DEF TypeParts, Release, BuffersBounded
  <1>4. ASSUME NEW i \in CallNo, ReplyOneway(c, i)
        PROVE  TypeOK' /\ BuffersBounded'
    <2> DEFINE r == Removed(conn[c])
    <2>1. conn[c].call = i
      BY <1>4 DEF ReplyOneway, CanReply, IsCurrent
    <2>2. r \in ConnectionType /\ r.stream = conn[c].stream /\ conn' = [conn EXCEPT ![c] = r]
      BY <1>1, <1>4 DEF ReplyOneway, Removed, ConnectionType, NoCall
    <2>3. conn' \in [Connections -> ConnectionType] /\ BuffersBounded'
      BY <1>1, <2>2, ConnUpdate
    <2>4. calls' \in [Connections -> [CallNo -> CallType]]
      <3>1. Finished(calls[c][i]) \in CallType
        BY <2>1, AnsweredCall
      <3>2. calls' = [calls EXCEPT ![c][i] = Finished(calls[c][i])]
        BY <1>4 DEF ReplyOneway
      <3> QED
        BY <3>1, <3>2, CallUpdate
    <2> QED
      BY <1>1, <1>4, <2>3, <2>4, TypeInPartsNext DEF TypeParts, ReplyOneway
  <1>5. ASSUME NEW i \in CallNo, ReplyContinues(c, i)
        PROVE  TypeOK' /\ BuffersBounded'
    <2>1. conn[c].call = i /\ calls[c][i].replies < MaxReplies /\ Fits(conn[c].stream, ReplySize)
      BY <1>5 DEF ReplyContinues, CanReply, IsCurrent, WriteReply
    <2>2. PICK o \in WriteOutcomes(conn[c].stream,
                       [call |-> i, n |-> calls[c][i].replies + 1, kind |-> "continues"],
                       ReplySize, Room(c), Gone(c)) :
            /\ conn' = [conn EXCEPT ![c] = ArmOut(conn[c], o)]
            /\ sock' = [sock EXCEPT ![c].down = @ \o o.sent]
      BY <1>5 DEF ReplyContinues, WriteReply
    <2>3. /\ o.stream \in Streams /\ o.whole \in BOOLEAN
          /\ Len(o.stream.in) <= BufferSize /\ Len(o.stream.out) < BufferSize
          /\ sock' \in [Connections -> SockType]
      BY <2>1, <2>2, ReplyWritten
    <2> DEFINE r == ArmOut(conn[c], o)
    <2>4. r \in ConnectionType /\ r.stream = o.stream
      BY <1>1, <2>3 DEF ArmOut, SetEventsMask, ConnectionType, Masks
    <2> HIDE DEF r
    <2>5. conn' \in [Connections -> ConnectionType] /\ BuffersBounded'
      <3>1. conn' = [conn EXCEPT ![c] = r]
        BY <2>2 DEF r
      <3> QED
        BY <2>3, <2>4, <3>1, ConnUpdate
    <2>6. calls' \in [Connections -> [CallNo -> CallType]]
      <3>1. Replied(calls[c][i], "continues") \in CallType
        BY <2>1, AnsweredCall
      <3>2. calls' = [calls EXCEPT ![c][i] = Replied(calls[c][i], "continues")]
        BY <1>5 DEF ReplyContinues, WriteReply
      <3> QED
        BY <3>1, <3>2, CallUpdate
    <2> QED
      BY <1>1, <1>5, <2>3, <2>5, <2>6, TypeInPartsNext DEF TypeParts, ReplyContinues, WriteReply
  <1>6. ASSUME NEW i \in CallNo, ReplyFinal(c, i)
        PROVE  TypeOK' /\ BuffersBounded'
    <2>1. conn[c].call = i /\ calls[c][i].replies < MaxReplies /\ Fits(conn[c].stream, ReplySize)
      BY <1>6 DEF ReplyFinal, CanReply, IsCurrent, WriteReply
    <2>2. PICK o \in WriteOutcomes(conn[c].stream,
                       [call |-> i, n |-> calls[c][i].replies + 1, kind |-> "final"],
                       ReplySize, Room(c), Gone(c)) :
            /\ conn' = [conn EXCEPT ![c] = Removed(ArmOut(conn[c], o))]
            /\ sock' = [sock EXCEPT ![c].down = @ \o o.sent]
      BY <1>6 DEF ReplyFinal, WriteReply
    <2>3. /\ o.stream \in Streams /\ o.whole \in BOOLEAN
          /\ Len(o.stream.in) <= BufferSize /\ Len(o.stream.out) < BufferSize
          /\ sock' \in [Connections -> SockType]
      BY <2>1, <2>2, ReplyWritten
    <2> DEFINE r == Removed(ArmOut(conn[c], o))
    <2>4. r \in ConnectionType /\ r.stream = o.stream
      BY <1>1, <2>3 DEF ArmOut, SetEventsMask, ConnectionType, Masks, Removed, NoCall
    <2> HIDE DEF r
    <2>5. conn' \in [Connections -> ConnectionType] /\ BuffersBounded'
      <3>1. conn' = [conn EXCEPT ![c] = r]
        BY <2>2 DEF r
      <3> QED
        BY <2>3, <2>4, <3>1, ConnUpdate
    <2>6. calls' \in [Connections -> [CallNo -> CallType]]
      <3>1. Replied(calls[c][i], "final") \in CallType
        BY <2>1, AnsweredCall
      <3>2. calls' = [calls EXCEPT ![c][i] = Replied(calls[c][i], "final")]
        BY <1>6 DEF ReplyFinal, WriteReply
      <3> QED
        BY <3>1, <3>2, CallUpdate
    <2> QED
      BY <1>1, <1>6, <2>3, <2>5, <2>6, TypeInPartsNext DEF TypeParts, ReplyFinal, WriteReply
  <1>7. ASSUME NEW i \in CallNo, ReplyError(c, i)
        PROVE  TypeOK' /\ BuffersBounded'
    <2>1. conn[c].call = i /\ calls[c][i].replies < MaxReplies /\ Fits(conn[c].stream, ReplySize)
      BY <1>7 DEF ReplyError, CanReply, IsCurrent, WriteReply
    <2>2. PICK o \in WriteOutcomes(conn[c].stream,
                       [call |-> i, n |-> calls[c][i].replies + 1, kind |-> "error"],
                       ReplySize, Room(c), Gone(c)) :
            /\ conn' = [conn EXCEPT ![c] = Removed(NoteOut(conn[c], o))]
            /\ sock' = [sock EXCEPT ![c].down = @ \o o.sent]
      BY <1>7 DEF ReplyError, WriteReply
    <2>3. /\ o.stream \in Streams /\ o.whole \in BOOLEAN
          /\ Len(o.stream.in) <= BufferSize /\ Len(o.stream.out) < BufferSize
          /\ sock' \in [Connections -> SockType]
      BY <2>1, <2>2, ReplyWritten
    <2> DEFINE r == Removed(NoteOut(conn[c], o))
    <2>4. r \in ConnectionType /\ r.stream = o.stream
      BY <1>1, <2>3 DEF NoteOut, ConnectionType, Masks, Removed, NoCall
    <2> HIDE DEF r
    <2>5. conn' \in [Connections -> ConnectionType] /\ BuffersBounded'
      <3>1. conn' = [conn EXCEPT ![c] = r]
        BY <2>2 DEF r
      <3> QED
        BY <2>3, <2>4, <3>1, ConnUpdate
    <2>6. calls' \in [Connections -> [CallNo -> CallType]]
      <3>1. Replied(calls[c][i], "error") \in CallType
        BY <2>1, AnsweredCall
      <3>2. calls' = [calls EXCEPT ![c][i] = Replied(calls[c][i], "error")]
        BY <1>7 DEF ReplyError, WriteReply
      <3> QED
        BY <3>1, <3>2, CallUpdate
    <2> QED
      BY <1>1, <1>7, <2>3, <2>5, <2>6, TypeInPartsNext DEF TypeParts, ReplyError, WriteReply
  <1>8. CASE HandlerReturns(c)
    BY <1>1, <1>8, TypeInPartsNext DEF TypeParts, HandlerReturns, BuffersBounded
  <1>9. CASE HandlerFails(c)
    BY <1>9, CloseType DEF HandlerFails
  <1> QED
    BY <1>2, <1>3, <1>4, <1>5, <1>6, <1>7, <1>8, <1>9 DEF Application, Finish

\* The clients' steps preserve the types; they do not touch the service.
LEMMA ClientStepType ==
    ASSUME TypeOK, Numbered, BuffersBounded, NEW c \in Connections, Client(c)
    PROVE  TypeOK' /\ Numbered' /\ BuffersBounded'
  <1>1. /\ TypeParts /\ client[c] \in ClientType /\ sock[c] \in SockType
        /\ client[c].requests \in Seq(Kinds) /\ client[c].got \in Seq(ReplyCells)
        /\ sock[c].up \in Seq(RequestCells) /\ sock[c].down \in Seq(ReplyCells)
        /\ Len(client[c].requests) \in Nat /\ client[c].pushed \in 0..(BufferSize + 2)
    BY TypeInParts, LenProperties DEF TypeParts, ClientType, SockType
  <1>2. conn' = conn /\ UNCHANGED <<calls, held, pc, cur, ev>>
    BY DEF Client, Connect, Send, SendMore, Receive, Shutdown, Disconnect
  <1>3. BuffersBounded'
    BY <1>2 DEF BuffersBounded
  <1>10. ASSUME client' \in [Connections -> ClientType], sock' \in [Connections -> SockType]
         PROVE  TypeOK'
    <2>1. TypeParts'
      BY <1>1, <1>2, <1>10 DEF TypeParts
    <2> QED
      BY <2>1, TypeInPartsNext
  <1>4. ASSUME Connect(c) \/ Shutdown(c)
        PROVE  TypeOK'
    <2>1. PICK peer \in {"open", "half"} :
            client' = [client EXCEPT ![c] = [client[c] EXCEPT !.peer = peer]]
      BY <1>4 DEF Connect, Shutdown
    <2>2. [client[c] EXCEPT !.peer = peer] \in ClientType
      BY <1>1 DEF ClientType
    <2>3. client' \in [Connections -> ClientType] /\ sock' \in [Connections -> SockType]
      BY <1>1, <1>4, <2>1, <2>2 DEF TypeParts, Connect, Shutdown
    <2> QED
      BY <1>10, <2>3
  <1>5. ASSUME NEW kind \in Kinds, Send(c, kind)
        PROVE  TypeOK' /\ Numbered'
    <2> DEFINE k == Len(client[c].requests) + 1
               q == [client[c] EXCEPT !.requests = Append(client[c].requests, kind),
                                      !.pushed = 1]
               u == Append(sock[c].up, [msg |-> k, nul |-> FALSE])
    <2>1. /\ Append(client[c].requests, kind) \in Seq(Kinds)
          /\ Len(Append(client[c].requests, kind)) = k
          /\ 1 \in 0..(BufferSize + 2)
      BY <1>1, ConstantTypes, AppendProperties
    <2>2. q \in ClientType /\ q.requests = Append(client[c].requests, kind)
      BY <1>1, <2>1 DEF ClientType
    <2>3. client' = [client EXCEPT ![c] = q]
      BY <1>5 DEF Send
    <2>4. k <= MaxCalls
      BY <1>1, <1>5, ConstantTypes DEF Send
    <2>5. [msg |-> k, nul |-> FALSE] \in RequestCells
      BY <1>1, <2>4, ConstantTypes DEF RequestCells, CallNo
    <2>6. u \in Seq(RequestCells)
      BY <1>1, <2>5, AppendProperties
    <2>7. [sock[c] EXCEPT !.up = u] \in SockType
      BY <1>1, <2>6 DEF SockType
    <2>8. sock' = [sock EXCEPT ![c] = [sock[c] EXCEPT !.up = u]]
      BY <1>5 DEF Send, Push
    <2> HIDE DEF q, u, k
    <2>9. client' \in [Connections -> ClientType] /\ Numbered'
      BY <1>1, <2>1, <2>2, <2>3, <2>4 DEF TypeParts, Numbered
    <2>10. sock' \in [Connections -> SockType]
      BY <1>1, <2>7, <2>8 DEF TypeParts
    <2> QED
      BY <1>10, <2>9, <2>10
  <1>6. ASSUME SendMore(c)
        PROVE  TypeOK' /\ Numbered'
    <2> DEFINE i == Len(client[c].requests)
               n == client[c].pushed + 1
               nul == n = RequestSize(Kind(c, i))
               q == [client[c] EXCEPT !.pushed = n]
               u == Append(sock[c].up, [msg |-> i, nul |-> nul])
    <2>1. n \in 0..(BufferSize + 2)
      <3>1. n <= RequestSize(Kind(c, i)) /\ RequestSize(Kind(c, i)) \in {2, BufferSize + 1}
        BY <1>6 DEF SendMore, RequestSize
      <3> QED
        BY <1>1, <3>1, ConstantTypes
    <2>2. q \in ClientType /\ q.requests = client[c].requests
      BY <1>1, <2>1 DEF ClientType
    <2>3. client' = [client EXCEPT ![c] = q]
      BY <1>6 DEF SendMore
    <2>4. i \in CallNo
      BY <1>1, <1>6, ConstantTypes DEF SendMore, Numbered, CallNo
    <2>5. u \in Seq(RequestCells)
      <3>1. [msg |-> i, nul |-> nul] \in RequestCells
        BY <2>4 DEF RequestCells
      <3> QED
        BY <1>1, <3>1, AppendProperties
    <2>6. [sock[c] EXCEPT !.up = u] \in SockType
      BY <1>1, <2>5 DEF SockType
    <2>7. sock' = [sock EXCEPT ![c] = [sock[c] EXCEPT !.up = u]]
      BY <1>6 DEF SendMore, Push
    <2> HIDE DEF q, u, nul
    <2>8. client' \in [Connections -> ClientType] /\ Numbered'
      BY <1>1, <2>2, <2>3 DEF TypeParts, Numbered
    <2>9. sock' \in [Connections -> SockType]
      BY <1>1, <2>6, <2>7 DEF TypeParts
    <2> QED
      BY <1>10, <2>8, <2>9
  <1>7. ASSUME Receive(c)
        PROVE  TypeOK' /\ Numbered'
    <2> DEFINE d == sock[c].down
               q == [client[c] EXCEPT !.got = Append(client[c].got, Head(d))]
    <2>1. Head(d) \in ReplyCells /\ Tail(d) \in Seq(ReplyCells)
      BY <1>1, <1>7, HeadTailProperties DEF Receive
    <2>2. Append(client[c].got, Head(d)) \in Seq(ReplyCells)
      BY <1>1, <2>1, AppendProperties
    <2>3. q \in ClientType /\ q.requests = client[c].requests
      BY <1>1, <2>2 DEF ClientType
    <2>4. [sock[c] EXCEPT !.down = Tail(d)] \in SockType
      BY <1>1, <2>1 DEF SockType
    <2>5. /\ client' = [client EXCEPT ![c] = q]
          /\ sock' = [sock EXCEPT ![c] = [sock[c] EXCEPT !.down = Tail(d)]]
      BY <1>7 DEF Receive
    <2> HIDE DEF q
    <2>6. client' \in [Connections -> ClientType] /\ Numbered'
      BY <1>1, <2>3, <2>5 DEF TypeParts, Numbered
    <2>7. sock' \in [Connections -> SockType]
      BY <1>1, <2>4, <2>5 DEF TypeParts
    <2> QED
      BY <1>10, <2>6, <2>7
  <1>8. ASSUME Disconnect(c)
        PROVE  TypeOK' /\ Numbered'
    <2>1. [client[c] EXCEPT !.peer = "closed"] \in ClientType
      BY <1>1 DEF ClientType
    <2>2. [sock[c] EXCEPT !.down = <<>>] \in SockType
      BY <1>1, EmptySeq DEF SockType
    <2>3. /\ client' = [client EXCEPT ![c] = [client[c] EXCEPT !.peer = "closed"]]
          /\ sock' = [sock EXCEPT ![c] = [sock[c] EXCEPT !.down = <<>>]]
      BY <1>8 DEF Disconnect
    <2>4. client' \in [Connections -> ClientType] /\ sock' \in [Connections -> SockType]
      BY <1>1, <2>1, <2>2, <2>3 DEF TypeParts
    <2>5. Numbered'
      BY <1>1, <2>3 DEF TypeParts, Numbered
    <2> QED
      BY <1>10, <2>4, <2>5
  <1>9. Connect(c) \/ Shutdown(c) => Numbered'
    <2> SUFFICES ASSUME Connect(c) \/ Shutdown(c)
                 PROVE  Numbered'
      OBVIOUS
    <2>1. PICK peer : client' = [client EXCEPT ![c] = [client[c] EXCEPT !.peer = peer]]
      BY DEF Connect, Shutdown
    <2>2. [client[c] EXCEPT !.peer = peer].requests = client[c].requests
      BY <1>1 DEF ClientType
    <2> QED
      BY <1>1, <2>1, <2>2 DEF TypeParts, Numbered
  <1> QED
    BY <1>3, <1>4, <1>5, <1>6, <1>7, <1>8, <1>9 DEF Client

\* Every step preserves the types and the bounds of the buffers.
LEMMA StepType ==
    ASSUME TypeOK, Numbered, BuffersBounded, RefcountsCountOwners,
           NEW c \in Connections, Steps(c)
    PROVE  TypeOK' /\ Numbered' /\ BuffersBounded'
  <1>1. CASE Client(c)
    BY <1>1, ClientStepType
  <1>2. CASE Accept(c) \/ Loop(c) \/ Application(c)
    <2>1. TypeOK' /\ BuffersBounded'
      BY <1>2, LoopType, ApplicationType
    <2>2. client' = client
      BY <1>2 DEF Accept, Loop, Application, Finish, Dispatch, Flush, StopReading, ReadSocket,
                  ReadNothing, ReadInvalid, ReadNoCall, ReadCall, EndDispatch, CloseConnection,
                  Keep, Release, ReplyOneway, ReplyContinues, ReplyFinal, ReplyError, WriteReply,
                  HandlerReturns, HandlerFails
    <2> QED
      BY <2>1, <2>2 DEF Numbered
  <1> QED
    BY <1>1, <1>2 DEF Steps

-----------------------------------------------------------------------------
(* The owners of calls.                                                    *)

Owned == RefcountsCountOwners /\ KeptCallsAttached /\ Pending

\* A step that leaves every pending call where it is.
LEMMA SameOwners ==
    ASSUME TypeOK, Owned, UNCHANGED <<calls, held>>,
           \A d \in Connections : /\ conn'[d].call = conn[d].call
                                  /\ conn[d].call # NoCall /\ IsOpen(d) => conn'[d].state = "open"
    PROVE  Owned'
  <1>1. RefcountsCountOwners'
    BY DEF Owned, RefcountsCountOwners, Owners
  <1>2. KeptCallsAttached'
    BY ConstantTypes DEF Owned, KeptCallsAttached, IsOpen
  <1>3. Pending'
    BY DEF Owned, Pending, IsOpen
  <1> QED
    BY <1>1, <1>2, <1>3 DEF Owned

\* A step that changes the owners of one call.
LEMMA OwnersUpdate ==
    ASSUME TypeOK, Owned, NEW c \in Connections, NEW i \in CallNo, NEW r, NEW q,
           conn' = [conn EXCEPT ![c] = r],
           calls' = [calls EXCEPT ![c][i] = q],
           \A d \in Connections, j \in CallNo :
              d # c \/ j # i => (<<d, j>> \in held' <=> <<d, j>> \in held),
           \/ r = conn[c]
           \/ conn[c].call \in {i, NoCall} /\ r.call \in {i, NoCall},
           q.refcount = (IF r.call = i THEN 1 ELSE 0) + (IF <<c, i>> \in held' THEN 1 ELSE 0),
           <<c, i>> \in held' /\ ~q.done => r.state = "open" /\ r.call = i,
           r.call = i => r.state = "open" /\ ~q.done
    PROVE  Owned'
  <1>1. /\ conn'[c] = r
        /\ \A d \in Connections : d # c => conn'[d] = conn[d]
        /\ calls'[c][i] = q
        /\ \A d \in Connections, j \in CallNo : d # c \/ j # i => calls'[d][j] = calls[d][j]
    BY DEF TypeOK
  <1>2. \A j \in CallNo : j # i => (r.call = j <=> conn[c].call = j)
    BY ConstantTypes
  <1>3. ASSUME NEW d \in Connections, NEW j \in CallNo
        PROVE  calls'[d][j].refcount = Owners(d, j)'
    <2>1. calls[d][j].refcount = Owners(d, j)
      BY DEF Owned, RefcountsCountOwners
    <2>2. CASE d = c /\ j = i
      BY <1>1, <2>2 DEF Owners
    <2>3. CASE d # c
      BY <1>1, <2>1, <2>3 DEF Owners
    <2>4. CASE d = c /\ j # i
      BY <1>1, <1>2, <2>1, <2>4 DEF Owners
    <2> QED
      BY <2>2, <2>3, <2>4
  <1>4. ASSUME NEW d \in Connections, NEW j \in CallNo,
               <<d, j>> \in held', ~calls'[d][j].done
        PROVE  conn'[d].state = "open" /\ conn'[d].call = j
    <2>1. <<d, j>> \in held /\ ~calls[d][j].done => conn[d].state = "open" /\ conn[d].call = j
      BY DEF Owned, KeptCallsAttached, IsOpen
    <2>2. CASE d = c /\ j = i
      BY <1>1, <1>4, <2>2
    <2>3. CASE d # c
      BY <1>1, <1>4, <2>1, <2>3
    <2>4. CASE d = c /\ j # i
      <3>1. conn[c].state = "open" /\ conn[c].call = j
        BY <1>1, <1>4, <2>1, <2>4
      <3>2. r = conn[c]
        BY <2>4, <3>1, ConstantTypes
      <3> QED
        BY <1>1, <2>4, <3>1, <3>2
    <2> QED
      BY <2>2, <2>3, <2>4
  <1>5. ASSUME NEW d \in Connections, conn'[d].call # NoCall
        PROVE  conn'[d].state = "open" /\ ~calls'[d][conn'[d].call].done
    <2>1. conn[d].call # NoCall => /\ conn[d].state = "open" /\ ~calls[d][conn[d].call].done
                                   /\ conn[d].call \in CallNo
      BY DEF Owned, Pending, IsOpen, TypeOK
    <2>2. CASE d # c
      BY <1>1, <1>5, <2>1, <2>2
    <2>3. CASE d = c /\ r.call = i
      BY <1>1, <2>3
    <2>4. CASE d = c /\ r.call # i
      <3>1. r = conn[c] /\ conn[c].call # NoCall
        BY <1>1, <1>5, <2>4
      <3> QED
        BY <1>1, <2>1, <2>4, <3>1
    <2> QED
      BY <2>2, <2>3, <2>4
  <1> QED
    BY <1>3, <1>4, <1>5 DEF Owned, RefcountsCountOwners, KeptCallsAttached, Pending, IsOpen

\* Closing a connection ends its call for every owner.
LEMMA CloseOwners ==
    ASSUME TypeOK, Owned, NEW c \in Connections, CloseConnection(c)
    PROVE  Owned'
  <1> DEFINE i == conn[c].call
  <1>1. /\ conn' = [conn EXCEPT ![c] = FreedConnection]
        /\ FreedConnection.call = NoCall /\ FreedConnection.state = "freed"
        /\ held' = held \ {<<c, i>>}
    BY DEF CloseConnection, FreedConnection, HeldAfterClose
  <1>2. CASE i = NoCall
    <2>1. held' = held /\ calls' = calls
      BY <1>1, <1>2, ConstantTypes DEF TypeOK, CloseConnection, CallsAfterClose
    <2>2. conn \in [Connections -> ConnectionType]
      BY DEF TypeOK, ConnectionType
    <2>3. \A d \in Connections : /\ conn'[d].call = conn[d].call
                                 /\ conn[d].call # NoCall /\ IsOpen(d) => conn'[d].state = "open"
      BY <1>1, <1>2, <2>2 DEF IsOpen
    <2>4. UNCHANGED <<calls, held>>
      BY <2>1
    <2> QED
      BY <2>3, <2>4, SameOwners
  <1>3. CASE i # NoCall
    <2>1. i \in CallNo /\ calls[c][i] \in CallType
      BY <1>3 DEF TypeOK, CallType
    <2>2. calls[c][i].refcount = Owners(c, i)
      BY <2>1 DEF Owned, RefcountsCountOwners
    <2> DEFINE q == [calls[c][i] EXCEPT !.refcount = 0]
    <2>3. calls' = [calls EXCEPT ![c][i] = q]
      <3>1. calls[c][i].refcount = IF <<c, i>> \in held THEN 2 ELSE 1
        BY <2>2 DEF Owners
      <3> QED
        BY <1>3, <3>1 DEF CloseConnection, CallsAfterClose, HeldAfterClose
    <2>4. q.refcount = 0
      BY <2>1 DEF CallType
    <2>5. <<c, i>> \notin held'
      BY <1>1
    <2>6. \A d \in Connections, j \in CallNo :
            d # c \/ j # i => (<<d, j>> \in held' <=> <<d, j>> \in held)
      BY <1>1
    <2> DEFINE r == FreedConnection
    <2>7. /\ conn' = [conn EXCEPT ![c] = r]
          /\ conn[c].call \in {i, NoCall} /\ r.call \in {i, NoCall}
          /\ r.call # i
      BY <1>1, <1>3
    <2> HIDE DEF q, r
    <2>8. q.refcount = (IF r.call = i THEN 1 ELSE 0) + (IF <<c, i>> \in held' THEN 1 ELSE 0)
      BY <2>4, <2>5, <2>7
    <2>9. /\ <<c, i>> \in held' /\ ~q.done => r.state = "open" /\ r.call = i
          /\ r.call = i => r.state = "open" /\ ~q.done
      BY <2>5, <2>7
    <2> HIDE DEF i
    <2> QED
      BY <2>1, <2>3, <2>6, <2>7, <2>8, <2>9, OwnersUpdate
  <1> QED
    BY <1>2, <1>3

\* The last reply takes the call from its connection.
LEMMA FinishOwners ==
    ASSUME TypeOK, Owned, NEW c \in Connections, NEW i \in CallNo, conn[c].call = i,
           NEW r, r.call = NoCall, r.state = conn[c].state, NEW q,
           q.refcount = calls[c][i].refcount - 1, q.done = TRUE,
           conn' = [conn EXCEPT ![c] = r], calls' = [calls EXCEPT ![c][i] = q], held' = held
    PROVE  Owned'
  <1>1. calls[c][i].refcount = 1 + (IF <<c, i>> \in held THEN 1 ELSE 0)
    BY DEF Owned, RefcountsCountOwners, Owners
  <1>2. q.refcount = (IF r.call = i THEN 1 ELSE 0) + (IF <<c, i>> \in held' THEN 1 ELSE 0)
    BY <1>1, ConstantTypes
  <1>3. /\ conn[c].call \in {i, NoCall} /\ r.call \in {i, NoCall} /\ r.call # i /\ q.done
        /\ \A d \in Connections, j \in CallNo :
              d # c \/ j # i => (<<d, j>> \in held' <=> <<d, j>> \in held)
    BY ConstantTypes
  <1> QED
    BY <1>2, <1>3, OwnersUpdate

\* What the replies do to the call and to the connection.
LEMMA ReplyEffect ==
    ASSUME TypeOK, BuffersBounded, NEW c \in Connections, NEW i \in CallNo, Finish(c, i)
    PROVE  /\ conn[c].call = i /\ held' = held /\ UNCHANGED <<pc, cur, ev, client>>
           /\ \E r : /\ conn' = [conn EXCEPT ![c] = r]
                     /\ r.call = NoCall /\ r.state = conn[c].state
                     /\ r.stream.in = conn[c].stream.in
           /\ \E q : /\ calls' = [calls EXCEPT ![c][i] = q]
                     /\ q.done = TRUE /\ q.refcount = calls[c][i].refcount - 1
           /\ \A d \in Connections : sock'[d].up = sock[d].up
  <1>1. /\ conn[c] \in ConnectionType /\ calls[c][i] \in CallType
        /\ sock \in [Connections -> SockType]
    BY TypeInParts DEF TypeParts
  <1> DEFINE f == Finished(calls[c][i])
             g(kind) == Replied(calls[c][i], kind)
  <1>2. f.done = TRUE /\ f.refcount = calls[c][i].refcount - 1
    BY <1>1 DEF CallType, Finished, Unref
  <1>3. \A kind \in {"final", "error"} :
          g(kind).done = TRUE /\ g(kind).refcount = calls[c][i].refcount - 1
    BY <1>1 DEF CallType, Replied, Finished, Unref
  <1>4. CASE ReplyOneway(c, i)
    <2>1. conn' = [conn EXCEPT ![c] = Removed(conn[c])] /\ calls' = [calls EXCEPT ![c][i] = f]
      BY <1>4 DEF ReplyOneway
    <2>2. /\ Removed(conn[c]).call = NoCall /\ Removed(conn[c]).state = conn[c].state
          /\ Removed(conn[c]).stream = conn[c].stream
      BY <1>1 DEF ConnectionType, Removed
    <2> HIDE DEF f
    <2> QED
      BY <1>2, <1>4, <2>1, <2>2 DEF ReplyOneway, CanReply, IsCurrent
  <1>5. CASE ReplyFinal(c, i)
    <2>1. /\ conn[c].call = i /\ calls[c][i].replies < MaxReplies
          /\ Fits(conn[c].stream, ReplySize)
      BY <1>5 DEF ReplyFinal, CanReply, IsCurrent, WriteReply
    <2>2. PICK o \in WriteOutcomes(conn[c].stream,
                       [call |-> i, n |-> calls[c][i].replies + 1, kind |-> "final"],
                       ReplySize, Room(c), Gone(c)) :
            /\ conn' = [conn EXCEPT ![c] = Removed(ArmOut(conn[c], o))]
            /\ sock' = [sock EXCEPT ![c].down = @ \o o.sent]
      BY <1>5 DEF ReplyFinal, WriteReply
    <2>3. o.stream.in = conn[c].stream.in
      BY ZenonT(40), <2>1, <2>2, ReplyWritten
    <2> DEFINE r == Removed(ArmOut(conn[c], o))
    <2>4. r.call = NoCall /\ r.state = conn[c].state /\ r.stream = o.stream
      BY <1>1 DEF ConnectionType, Removed, ArmOut, SetEventsMask
    <2>5. conn' = [conn EXCEPT ![c] = r]
      BY <2>2
    <2>6. calls' = [calls EXCEPT ![c][i] = g("final")]
      BY <1>5 DEF ReplyFinal, WriteReply
    <2>7. held' = held /\ UNCHANGED <<pc, cur, ev, client>>
      BY <1>5 DEF ReplyFinal, WriteReply
    <2>8. \A d \in Connections : sock'[d].up = sock[d].up
      BY <1>1, <2>2 DEF SockType
    <2> HIDE DEF r, g
    <2> QED
      BY <1>3, <2>1, <2>3, <2>4, <2>5, <2>6, <2>7, <2>8
  <1>6. CASE ReplyError(c, i)
    <2>1. /\ conn[c].call = i /\ calls[c][i].replies < MaxReplies
          /\ Fits(conn[c].stream, ReplySize)
      BY <1>6 DEF ReplyError, CanReply, IsCurrent, WriteReply
    <2>2. PICK o \in WriteOutcomes(conn[c].stream,
                       [call |-> i, n |-> calls[c][i].replies + 1, kind |-> "error"],
                       ReplySize, Room(c), Gone(c)) :
            /\ conn' = [conn EXCEPT ![c] = Removed(NoteOut(conn[c], o))]
            /\ sock' = [sock EXCEPT ![c].down = @ \o o.sent]
      BY <1>6 DEF ReplyError, WriteReply
    <2>3. o.stream.in = conn[c].stream.in
      BY ZenonT(40), <2>1, <2>2, ReplyWritten
    <2> DEFINE r == Removed(NoteOut(conn[c], o))
    <2>4. r.call = NoCall /\ r.state = conn[c].state /\ r.stream = o.stream
      BY <1>1 DEF ConnectionType, Removed, NoteOut
    <2>5. conn' = [conn EXCEPT ![c] = r]
      BY <2>2
    <2>6. calls' = [calls EXCEPT ![c][i] = g("error")]
      BY <1>6 DEF ReplyError, WriteReply
    <2>7. held' = held /\ UNCHANGED <<pc, cur, ev, client>>
      BY <1>6 DEF ReplyError, WriteReply
    <2>8. \A d \in Connections : sock'[d].up = sock[d].up
      BY <1>1, <2>2 DEF SockType
    <2> HIDE DEF r, g
    <2> QED
      BY <1>3, <2>1, <2>3, <2>4, <2>5, <2>6, <2>7, <2>8
  <1> QED
    BY <1>4, <1>5, <1>6 DEF Finish

\* A continued reply leaves the call pending and counts it.
LEMMA ContinuesEffect ==
    ASSUME TypeOK, BuffersBounded, NEW c \in Connections, NEW i \in CallNo, ReplyContinues(c, i)
    PROVE  /\ conn[c].call = i /\ held' = held /\ UNCHANGED <<pc, cur, ev, client>>
           /\ \E r : /\ conn' = [conn EXCEPT ![c] = r]
                     /\ r.call = conn[c].call /\ r.state = conn[c].state
                     /\ r.stream.in = conn[c].stream.in
           /\ \E q : /\ calls' = [calls EXCEPT ![c][i] = q]
                     /\ q.done = calls[c][i].done /\ q.refcount = calls[c][i].refcount
           /\ \A d \in Connections : sock'[d].up = sock[d].up
  <1>1. /\ conn[c] \in ConnectionType /\ calls[c][i] \in CallType
        /\ sock \in [Connections -> SockType]
    BY TypeInParts DEF TypeParts
  <1> DEFINE q == Replied(calls[c][i], "continues")
  <1>2. q.done = calls[c][i].done /\ q.refcount = calls[c][i].refcount
    BY <1>1 DEF CallType, Replied
  <1>3. /\ conn[c].call = i /\ calls[c][i].replies < MaxReplies
        /\ Fits(conn[c].stream, ReplySize)
    BY DEF ReplyContinues, CanReply, IsCurrent, WriteReply
  <1>4. PICK o \in WriteOutcomes(conn[c].stream,
                     [call |-> i, n |-> calls[c][i].replies + 1, kind |-> "continues"],
                     ReplySize, Room(c), Gone(c)) :
          /\ conn' = [conn EXCEPT ![c] = ArmOut(conn[c], o)]
          /\ sock' = [sock EXCEPT ![c].down = @ \o o.sent]
    BY DEF ReplyContinues, WriteReply
  <1>5. o.stream.in = conn[c].stream.in
    BY ZenonT(40), <1>3, <1>4, ReplyWritten
  <1> DEFINE r == ArmOut(conn[c], o)
  <1>6. r.call = conn[c].call /\ r.state = conn[c].state /\ r.stream = o.stream
    BY <1>1 DEF ConnectionType, ArmOut, SetEventsMask
  <1>7. conn' = [conn EXCEPT ![c] = r]
    BY <1>4
  <1>8. calls' = [calls EXCEPT ![c][i] = q]
    BY DEF ReplyContinues, WriteReply
  <1>9. held' = held /\ UNCHANGED <<pc, cur, ev, client>>
    BY DEF ReplyContinues, WriteReply
  <1>10. \A d \in Connections : sock'[d].up = sock[d].up
    BY <1>1, <1>4 DEF SockType
  <1> HIDE DEF r, q
  <1> QED
    BY <1>2, <1>3, <1>5, <1>6, <1>7, <1>8, <1>9, <1>10

\* The message a read returns was still to come.
LEMMA DeliveredEnds ==
    ASSUME TypeOK, NEW c \in Connections, NEW o \in Delivered(conn[c].stream)
    PROVE  o.message \in CallNo /\ Ends(conn[c].stream.in, o.message)
  <1>1. conn[c].stream \in StreamOf(RequestCells, ReplyCells)
    BY TypeInParts, StreamsAre DEF TypeParts, ConnectionType
  <1>2. PICK e \in 1..Len(conn[c].stream.in) :
          conn[c].stream.in[e].nul /\ o.message = conn[c].stream.in[e].msg
    BY <1>1, DeliveredProperties
  <1> QED
    BY <1>1, <1>2, DeliveredCall DEF Ends, EndsAt

\* Every step preserves the reference counts and the places of the calls.
LEMMA OwnedStep ==
    ASSUME TypeOK, BuffersBounded, Owned, Dispatching, Fresh, NEW c \in Connections, Steps(c)
    PROVE  Owned'
  <1>1. conn \in [Connections -> ConnectionType] /\ calls \in [Connections -> [CallNo -> CallType]]
    BY TypeInParts DEF TypeParts
  <1>2. ASSUME UNCHANGED <<calls, held>>, NEW r, conn' = [conn EXCEPT ![c] = r],
               r.call = conn[c].call, r.state = conn[c].state
        PROVE  Owned'
    <2>1. \A d \in Connections : /\ conn'[d].call = conn[d].call
                                 /\ conn[d].call # NoCall /\ IsOpen(d) => conn'[d].state = "open"
      BY <1>1, <1>2 DEF IsOpen
    <2> QED
      BY <1>2, <2>1, SameOwners
  <1>3. ASSUME UNCHANGED <<conn, calls, held>>
        PROVE  Owned'
    BY <1>3 DEF Owned, RefcountsCountOwners, Owners, KeptCallsAttached, Pending, IsOpen
  <1>4. CASE Client(c)
    BY <1>3, <1>4 DEF Client, Connect, Send, SendMore, Receive, Shutdown, Disconnect
  <1>5. CASE Accept(c)
    <2>1. conn[c].call = NoCall
      BY <1>5 DEF Accept, Owned, Pending, IsOpen
    <2>2. \A d \in Connections : /\ conn'[d].call = conn[d].call
                                 /\ conn[d].call # NoCall /\ IsOpen(d) => conn'[d].state = "open"
      BY <1>1, <1>5, <2>1 DEF Accept, IsOpen
    <2>3. UNCHANGED <<calls, held>>
      BY <1>5 DEF Accept
    <2> QED
      BY <2>2, <2>3, SameOwners
  <1>6. CASE Dispatch(c)
    <2> DEFINE r == [conn[c] EXCEPT !.events_mask = {}]
    <2>1. r.call = conn[c].call /\ r.state = conn[c].state
      BY <1>1 DEF ConnectionType
    <2>2. conn' = [conn EXCEPT ![c] = r] /\ UNCHANGED <<calls, held>>
      BY <1>6 DEF Dispatch
    <2> HIDE DEF r
    <2> QED
      BY <1>2, <2>1, <2>2
  <1>7. CASE Flush(c)
    <2>1. PICK o : conn' = [conn EXCEPT ![c].stream = o.stream,
                                        ![c].events_mask =
                                           IF o.result = "rest" THEN {"OUT"} ELSE {}]
      BY <1>7 DEF Flush
    <2> DEFINE r == [conn[c] EXCEPT !.stream = o.stream,
                                    !.events_mask = IF o.result = "rest" THEN {"OUT"} ELSE {}]
    <2>2. r.call = conn[c].call /\ r.state = conn[c].state
      BY <1>1 DEF ConnectionType
    <2>3. conn' = [conn EXCEPT ![c] = r] /\ UNCHANGED <<calls, held>>
      BY <1>7, <2>1 DEF Flush
    <2> HIDE DEF r
    <2> QED
      BY <1>2, <2>2, <2>3
  <1>8. ASSUME NEW s, conn' = [conn EXCEPT ![c].stream = s], UNCHANGED <<calls, held>>
        PROVE  Owned'
    <2> DEFINE r == [conn[c] EXCEPT !.stream = s]
    <2>1. r.call = conn[c].call /\ r.state = conn[c].state
      BY <1>1 DEF ConnectionType
    <2>2. conn' = [conn EXCEPT ![c] = r]
      BY <1>8
    <2> HIDE DEF r
    <2> QED
      BY <1>2, <1>8, <2>1, <2>2
  <1>9. CASE ReadSocket(c) \/ ReadNothing(c) \/ ReadNoCall(c)
    BY <1>3, <1>8, <1>9 DEF ReadSocket, ReadNothing, ReadNoCall
  <1>10. CASE StopReading(c) \/ HandlerReturns(c)
    BY <1>3, <1>10 DEF StopReading, HandlerReturns
  <1>11. CASE ReadInvalid(c) \/ HandlerFails(c)
    BY <1>11, CloseOwners DEF ReadInvalid, HandlerFails
  <1>12. CASE EndDispatch(c)
    <2>1. CASE CloseConnection(c)
      BY <2>1, CloseOwners
    <2>2. CASE conn' = [conn EXCEPT ![c] = SetEventsMask(@, EndMask(c))]
               /\ UNCHANGED <<calls, held>>
      <3> DEFINE r == SetEventsMask(conn[c], EndMask(c))
      <3>1. r.call = conn[c].call /\ r.state = conn[c].state
        BY <1>1 DEF ConnectionType, SetEventsMask
      <3>2. conn' = [conn EXCEPT ![c] = r]
        BY <2>2
      <3> HIDE DEF r
      <3> QED
        BY <1>2, <2>2, <3>1, <3>2
    <2> QED
      BY <1>12, <2>1, <2>2 DEF EndDispatch
  <1>13. CASE ReadCall(c)
    <2>1. PICK o \in Delivered(conn[c].stream) :
            /\ conn' = [conn EXCEPT ![c].stream = o.stream, ![c].call = o.message]
            /\ calls' = [calls EXCEPT ![c][o.message].refcount = 1]
      BY <1>13 DEF ReadCall
    <2> DEFINE i == o.message
               r == [conn[c] EXCEPT !.stream = o.stream, !.call = i]
               q == [calls[c][i] EXCEPT !.refcount = 1]
    <2>2. i \in CallNo /\ calls[c][i] = FreshCall
      BY <2>1, DeliveredEnds DEF Fresh, ToCome
    <2>3. <<c, i>> \notin held
      <3>1. Owners(c, i) = 0
        BY <2>2 DEF Owned, RefcountsCountOwners, FreshCall
      <3> QED
        BY <3>1 DEF Owners
    <2>4. conn[c].call = NoCall /\ conn[c].state = "open" /\ held' = held
      BY <1>13 DEF ReadCall, Reading, MayRead, Dispatching
    <2>5. /\ r.call = i /\ r.state = conn[c].state
          /\ q.refcount = 1 /\ q.done = FALSE
      BY <1>1, <2>2 DEF ConnectionType, FreshCall
    <2>6. conn' = [conn EXCEPT ![c] = r] /\ calls' = [calls EXCEPT ![c][i] = q]
      BY <2>1
    <2>7. \A d \in Connections, j \in CallNo :
            d # c \/ j # i => (<<d, j>> \in held' <=> <<d, j>> \in held)
      BY <2>4
    <2> HIDE DEF q, r
    <2>8. q.refcount = (IF r.call = i THEN 1 ELSE 0) + (IF <<c, i>> \in held' THEN 1 ELSE 0)
      BY <2>3, <2>4, <2>5
    <2>9. /\ conn[c].call \in {i, NoCall} /\ r.call \in {i, NoCall}
          /\ r.call = i => r.state = "open" /\ ~q.done
          /\ <<c, i>> \notin held'
      BY <2>3, <2>4, <2>5
    <2> HIDE DEF i
    <2> QED
      BY <2>2, <2>6, <2>7, <2>8, <2>9, OwnersUpdate
  <1>14. ASSUME NEW i \in CallNo, Keep(c, i)
         PROVE  Owned'
    <2> DEFINE r == conn[c]
               q == [calls[c][i] EXCEPT !.refcount = @ + 1]
    <2>1. /\ conn' = [conn EXCEPT ![c] = r] /\ calls' = [calls EXCEPT ![c][i] = q]
          /\ held' = held \cup {<<c, i>>} /\ <<c, i>> \notin held /\ r.call = i
      BY <1>1, <1>14 DEF Keep
    <2>2. calls[c][i].refcount = 1 /\ ~calls[c][i].done /\ r.state = "open"
      BY <2>1, ConstantTypes DEF Owned, RefcountsCountOwners, Owners, Pending, IsOpen
    <2>3. q.refcount = 2 /\ ~q.done
      BY <1>1, <2>2 DEF CallType
    <2>4. /\ q.refcount = (IF r.call = i THEN 1 ELSE 0) + (IF <<c, i>> \in held' THEN 1 ELSE 0)
          /\ \A d \in Connections, j \in CallNo :
                d # c \/ j # i => (<<d, j>> \in held' <=> <<d, j>> \in held)
      BY <2>1, <2>3
    <2>5. r = conn[c]
      OBVIOUS
    <2> HIDE DEF q, r
    <2> QED
      BY ZenonT(40), <2>1, <2>2, <2>3, <2>4, <2>5, OwnersUpdate
  <1>15. ASSUME NEW i \in CallNo, Release(c, i)
         PROVE  Owned'
    <2> DEFINE r == conn[c]
               q == Unref(calls[c][i])
    <2>1. /\ conn' = [conn EXCEPT ![c] = r] /\ calls' = [calls EXCEPT ![c][i] = q]
          /\ held' = held \ {<<c, i>>} /\ <<c, i>> \in held /\ r.call # i
      BY <1>1, <1>15 DEF Release
    <2>2. calls[c][i].refcount = 1
      BY <2>1 DEF Owned, RefcountsCountOwners, Owners
    <2>3. q.refcount = 0
      BY <1>1, <2>2 DEF CallType, Unref
    <2>4. /\ q.refcount = (IF r.call = i THEN 1 ELSE 0) + (IF <<c, i>> \in held' THEN 1 ELSE 0)
          /\ <<c, i>> \notin held'
          /\ \A d \in Connections, j \in CallNo :
                d # c \/ j # i => (<<d, j>> \in held' <=> <<d, j>> \in held)
      BY <2>1, <2>3
    <2>5. r = conn[c]
      OBVIOUS
    <2> HIDE DEF q, r
    <2> QED
      BY <2>1, <2>4, <2>5, OwnersUpdate
  <1>16. ASSUME NEW i \in CallNo, ReplyContinues(c, i)
         PROVE  Owned'
    <2>1. PICK r, q :
            /\ conn' = [conn EXCEPT ![c] = r] /\ r.call = conn[c].call /\ r.state = conn[c].state
            /\ calls' = [calls EXCEPT ![c][i] = q]
            /\ q.done = calls[c][i].done /\ q.refcount = calls[c][i].refcount
      BY <1>16, ContinuesEffect
    <2>2. conn[c].call = i /\ held' = held
      BY <1>16, ContinuesEffect
    <2>3. conn[c].state = "open" /\ ~q.done
      BY <2>1, <2>2, ConstantTypes DEF Owned, Pending, IsOpen
    <2>4. q.refcount = (IF r.call = i THEN 1 ELSE 0) + (IF <<c, i>> \in held' THEN 1 ELSE 0)
      <3>1. calls[c][i].refcount = Owners(c, i)
        BY DEF Owned, RefcountsCountOwners
      <3> QED
        BY <2>1, <2>2, <3>1 DEF Owners
    <2>5. \A d \in Connections, j \in CallNo :
            d # c \/ j # i => (<<d, j>> \in held' <=> <<d, j>> \in held)
      BY <2>2
    <2> QED
      BY <2>1, <2>2, <2>3, <2>4, <2>5, OwnersUpdate
  <1>17. ASSUME NEW i \in CallNo, Finish(c, i)
         PROVE  Owned'
    <2>1. conn[c].call = i /\ held' = held
      BY <1>17, ReplyEffect
    <2>2. PICK r : conn' = [conn EXCEPT ![c] = r] /\ r.call = NoCall /\ r.state = conn[c].state
      BY <1>17, ReplyEffect
    <2>3. PICK q : /\ calls' = [calls EXCEPT ![c][i] = q]
                   /\ q.done = TRUE /\ q.refcount = calls[c][i].refcount - 1
      BY <1>17, ReplyEffect
    <2> QED
      BY <2>1, <2>2, <2>3, FinishOwners
  <1> QED
    BY <1>4, <1>5, <1>6, <1>7, <1>9, <1>10, <1>11, <1>12, <1>13, <1>14, <1>15, <1>16, <1>17
    DEF Steps, Loop, Application

-----------------------------------------------------------------------------
(* Every message becomes at most one call.                                 *)

\* The end of no message is in two places, for one connection.
OnceAt(c) ==
    /\ OnceIn(conn[c].stream.in)
    /\ OnceIn(sock[c].up)
    /\ \A i \in CallNo : /\ ~(Ends(conn[c].stream.in, i) /\ Ends(sock[c].up, i))
                         /\ Ends(conn[c].stream.in, i) \/ Ends(sock[c].up, i)
                               => SentWhole(c, i)

\* A step whose only messages are those of c.
LEMMA FreshUpdate ==
    ASSUME Fresh, Once, NEW c \in Connections,
           \A d \in Connections : d # c =>
              /\ conn'[d].stream.in = conn[d].stream.in
              /\ sock'[d].up = sock[d].up
              /\ client'[d].requests = client[d].requests
              /\ client'[d].pushed = client[d].pushed,
           \A j \in CallNo : ToCome(c, j)' => ToCome(c, j),
           \A d \in Connections, j \in CallNo :
              calls'[d][j] = calls[d][j] \/ ~ToCome(d, j)' \/ calls[d][j].refcount # 0,
           OnceAt(c)'
    PROVE  Fresh' /\ Once'
  <1>1. ASSUME NEW d \in Connections, d # c
        PROVE  /\ \A j \in CallNo : ToCome(d, j)' <=> ToCome(d, j)
               /\ OnceAt(d)'
    <2>1. \A j \in CallNo : SentWhole(d, j)' <=> SentWhole(d, j)
      BY <1>1 DEF SentWhole, Kind
    <2> QED
      BY <1>1, <2>1 DEF ToCome, OnceAt, Once
  <1>2. ASSUME NEW d \in Connections, NEW j \in CallNo, ToCome(d, j)'
        PROVE  calls'[d][j] = FreshCall
    <2>1. ToCome(d, j)
      BY <1>1, <1>2
    <2>2. calls[d][j] = FreshCall
      BY <2>1 DEF Fresh
    <2>3. calls[d][j].refcount = 0
      BY <2>2 DEF FreshCall
    <2> QED
      BY <1>2, <2>2, <2>3
  <1>3. Fresh'
    BY <1>2 DEF Fresh
  <1>4. Once'
    BY <1>1 DEF Once, OnceAt
  <1> QED
    BY <1>3, <1>4

\* No message arrives, some may be dropped.
LEMMA Shrinks ==
    ASSUME Fresh, Once, NEW c \in Connections,
           \A d \in Connections : /\ d # c => /\ conn'[d].stream.in = conn[d].stream.in
                                              /\ sock'[d].up = sock[d].up
                                  /\ client'[d].requests = client[d].requests
                                  /\ client'[d].pushed = client[d].pushed,
           conn'[c].stream.in \in {conn[c].stream.in, <<>>},
           sock'[c].up \in {sock[c].up, <<>>},
           \A d \in Connections, j \in CallNo :
              calls'[d][j] = calls[d][j] \/ calls[d][j].refcount # 0
    PROVE  Fresh' /\ Once'
  <1>1. \A m : ~Ends(<<>>, m)
    BY DEF Ends, EndsAt
  <1>2. OnceIn(<<>>)
    BY DEF OnceIn, EndsAt
  <1>3. \A j \in CallNo : SentWhole(c, j)' <=> SentWhole(c, j)
    BY DEF SentWhole, Kind
  <1>4. \A m : /\ Ends(conn'[c].stream.in, m) => Ends(conn[c].stream.in, m)
               /\ Ends(sock'[c].up, m) => Ends(sock[c].up, m)
    BY <1>1
  <1>5. \A j \in CallNo : ToCome(c, j)' => ToCome(c, j)
    BY <1>3, <1>4 DEF ToCome
  <1>6. OnceIn(conn'[c].stream.in) /\ OnceIn(sock'[c].up)
    BY <1>2 DEF Once
  <1>7. OnceAt(c)'
    BY <1>3, <1>4, <1>6 DEF Once, OnceAt
  <1> QED
    BY <1>5, <1>7, FreshUpdate

\* The socket is read.
LEMMA FreshReadSocket ==
    ASSUME TypeOK, BuffersBounded, Fresh, Once, NEW c \in Connections, ReadSocket(c)
    PROVE  Fresh' /\ Once'
  <1> DEFINE s == conn[c].stream
             u == sock[c].up
             a == Received(s, u).in
             d == Drop(u, ReadSize(s, u))
  <1>1. /\ conn \in [Connections -> ConnectionType] /\ sock \in [Connections -> SockType]
        /\ s \in StreamOf(RequestCells, ReplyCells)
        /\ u \in Seq(RequestCells) /\ Len(s.in) <= BufferSize
    BY TypeInParts, StreamsAre DEF TypeParts, ConnectionType, SockType, BuffersBounded
  <1>2. conn'[c].stream.in = a /\ sock'[c].up = d
    BY <1>1 DEF ReadSocket, ConnectionType, SockType
  <1>3. /\ OnceIn(s.in) /\ OnceIn(u)
        /\ \A m : ~(Ends(s.in, m) /\ Ends(u, m))
    <2>1. ASSUME NEW m, Ends(s.in, m)
          PROVE  m \in CallNo
      <3>1. PICK p \in 1..Len(s.in) : s.in[p].msg = m
        BY <2>1 DEF Ends, EndsAt
      <3>2. s.in[p] \in RequestCells
        BY <1>1, <3>1, ElementOfSeq DEF StreamOf
      <3> QED
        BY <3>1, <3>2 DEF RequestCells
    <2> QED
      BY <2>1 DEF Once
  <1>4. /\ OnceIn(a) /\ OnceIn(d)
        /\ \A m : ~(Ends(a, m) /\ Ends(d, m))
        /\ \A m : Ends(a, m) \/ Ends(d, m) => Ends(s.in, m) \/ Ends(u, m)
    <2>1. BufferSize \in Nat
      BY ConstantTypes
    <2> QED
      BY <1>1, <1>3, <2>1, ReceivedEnds
  <1>5. /\ client' = client /\ calls' = calls
        /\ \A e \in Connections : e # c => /\ conn'[e].stream.in = conn[e].stream.in
                                           /\ sock'[e].up = sock[e].up
    BY <1>1 DEF ReadSocket
  <1>6. \A j \in CallNo : SentWhole(c, j)' <=> SentWhole(c, j)
    BY <1>5 DEF SentWhole, Kind
  <1> HIDE DEF a, d
  <1>7. \A j \in CallNo : ToCome(c, j)' => ToCome(c, j)
    BY <1>2, <1>4, <1>6 DEF ToCome
  <1>8. OnceAt(c)'
    BY <1>2, <1>4, <1>6 DEF OnceAt, Once
  <1> QED
    BY <1>5, <1>7, <1>8, FreshUpdate

\* A message is consumed: it does not come again.
LEMMA FreshConsume ==
    ASSUME TypeOK, BuffersBounded, Fresh, Once, NEW c \in Connections,
           NEW o \in Delivered(conn[c].stream),
           NEW r, conn' = [conn EXCEPT ![c] = r], r.stream = o.stream,
           UNCHANGED <<sock, client>>,
           \A d \in Connections, j \in CallNo :
              d # c \/ j # o.message => calls'[d][j] = calls[d][j]
    PROVE  Fresh' /\ Once'
  <1> DEFINE s == conn[c].stream
  <1>1. /\ conn \in [Connections -> ConnectionType] /\ s \in StreamOf(RequestCells, ReplyCells)
    BY TypeInParts, StreamsAre DEF TypeParts, ConnectionType
  <1>2. /\ conn'[c].stream.in = o.stream.in
        /\ \A e \in Connections : e # c => conn'[e].stream.in = conn[e].stream.in
    BY <1>1
  <1>3. /\ OnceIn(o.stream.in)
        /\ \A m : Ends(o.stream.in, m) => Ends(s.in, m)
        /\ Ends(s.in, o.message) /\ ~Ends(o.stream.in, o.message)
    <2>1. OnceIn(s.in)
      BY DEF Once
    <2> QED
      BY <1>1, <2>1, DeliveredOnce
  <1>4. \A j \in CallNo : SentWhole(c, j)' <=> SentWhole(c, j)
    BY DEF SentWhole, Kind
  <1>5. \A j \in CallNo : ToCome(c, j)' => ToCome(c, j)
    BY <1>2, <1>3, <1>4 DEF ToCome
  <1>6. OnceAt(c)'
    BY <1>2, <1>3, <1>4 DEF OnceAt, Once
  <1>7. o.message \in CallNo => ~ToCome(c, o.message)'
    BY <1>2, <1>3, <1>4 DEF ToCome, Once
  <1> QED
    BY <1>2, <1>5, <1>6, <1>7, FreshUpdate

\* A client begins a message: it has not ended yet.
LEMMA FreshSend ==
    ASSUME TypeOK, Numbered, Fresh, Once, NEW c \in Connections, NEW kind \in Kinds, Send(c, kind)
    PROVE  Fresh' /\ Once'
  <1> DEFINE k == Len(client[c].requests)
             u == sock[c].up
             x == [msg |-> k + 1, nul |-> FALSE]
  <1>1. /\ client \in [Connections -> ClientType] /\ sock \in [Connections -> SockType]
        /\ client[c].requests \in Seq(Kinds) /\ k \in Nat /\ k < MaxCalls
        /\ u \in Seq(RequestCells) /\ x \in RequestCells
    <2>1. /\ client \in [Connections -> ClientType] /\ sock \in [Connections -> SockType]
          /\ client[c].requests \in Seq(Kinds) /\ k \in Nat /\ k < MaxCalls
          /\ u \in Seq(RequestCells)
      BY TypeInParts, LenProperties DEF TypeParts, ClientType, SockType, Send
    <2> QED
      BY <2>1, ConstantTypes DEF RequestCells, CallNo
  <1>2. /\ client'[c].requests = Append(client[c].requests, kind) /\ client'[c].pushed = 1
        /\ sock'[c].up = Append(u, x) /\ conn' = conn /\ calls' = calls
        /\ \A e \in Connections : e # c => client'[e] = client[e] /\ sock'[e] = sock[e]
    BY <1>1 DEF Send, Push, ClientType, SockType
  <1>3. /\ Len(client'[c].requests) = k + 1
        /\ DOMAIN client'[c].requests = 1..(k + 1) /\ DOMAIN client[c].requests = 1..k
        /\ \A j \in 1..k : client'[c].requests[j] = client[c].requests[j]
    BY <1>1, <1>2, AppendProperties, LenProperties
  <1>4. /\ \A m : Ends(Append(u, x), m) <=> Ends(u, m)
        /\ OnceIn(u) => OnceIn(Append(u, x))
    <2>1. ~x.nul
      OBVIOUS
    <2> HIDE DEF x, u
    <2> QED
      BY <1>1, <2>1, AppendEnds
  <1>5. k > 0 => client[c].pushed = RequestSize(Kind(c, k))
    BY DEF Send, Settled
  <1>6. \A j \in CallNo : SentWhole(c, j)' <=> SentWhole(c, j)
    <2> TAKE j \in CallNo
    <2>1. CASE j <= k
      <3>1. SentWhole(c, j)
        BY <1>1, <1>3, <1>5, <2>1 DEF SentWhole, CallNo
      <3>2. SentWhole(c, j)'
        BY <1>1, <1>3, <2>1 DEF SentWhole, CallNo
      <3> QED
        BY <3>1, <3>2
    <2>2. CASE j = k + 1
      <3>1. ~SentWhole(c, j)
        BY <1>1, <1>3, <2>2 DEF SentWhole
      <3>2. RequestSize(Kind(c, j)') # 1
        BY ConstantTypes DEF RequestSize
      <3>3. ~SentWhole(c, j)'
        BY <1>2, <1>3, <2>2, <3>2 DEF SentWhole, RequestSize
      <3> QED
        BY <3>1, <3>3
    <2>3. CASE j > k + 1
      BY <1>1, <1>3, <2>3 DEF SentWhole
    <2> QED
      BY <1>1, <2>1, <2>2, <2>3 DEF CallNo
  <1> HIDE DEF u, x, k
  <1>7. \A j \in CallNo : ToCome(c, j)' => ToCome(c, j)
    BY <1>2, <1>4, <1>6 DEF ToCome, u
  <1>8. OnceAt(c)'
    BY <1>2, <1>4, <1>6 DEF OnceAt, Once, u
  <1> QED
    BY <1>2, <1>7, <1>8, FreshUpdate

\* It goes on with the message, which ends with the last cell.
LEMMA FreshSendMore ==
    ASSUME TypeOK, Numbered, Fresh, Once, NEW c \in Connections, SendMore(c)
    PROVE  Fresh' /\ Once'
  <1> DEFINE k == Len(client[c].requests)
             u == sock[c].up
             n == client[c].pushed + 1
             size == RequestSize(Kind(c, k))
             x == [msg |-> k, nul |-> n = size]
  <1>1. /\ client \in [Connections -> ClientType] /\ sock \in [Connections -> SockType]
        /\ client[c].requests \in Seq(Kinds) /\ k \in Nat /\ k \in CallNo
        /\ u \in Seq(RequestCells) /\ x \in RequestCells
        /\ client[c].pushed \in Nat /\ size \in Nat /\ n <= size
        /\ DOMAIN client[c].requests = 1..k
    <2>1. /\ client \in [Connections -> ClientType] /\ sock \in [Connections -> SockType]
          /\ client[c].requests \in Seq(Kinds) /\ k \in Nat /\ k > 0 /\ n <= size
          /\ u \in Seq(RequestCells) /\ client[c].pushed \in Nat
          /\ DOMAIN client[c].requests = 1..k
      BY SMTT(30), TypeInParts, LenProperties, ConstantTypes DEF TypeParts, ClientType, SockType, SendMore
    <2>2. k \in CallNo
      BY <2>1, ConstantTypes DEF Numbered, CallNo
    <2>3. size \in Nat
      BY ConstantTypes DEF RequestSize
    <2>4. x \in RequestCells
      BY <2>2 DEF RequestCells
    <2> QED
      BY <2>1, <2>2, <2>3, <2>4
  <1>2. /\ client'[c].requests = client[c].requests /\ client'[c].pushed = n
        /\ sock'[c].up = Append(u, x) /\ conn' = conn /\ calls' = calls
        /\ \A e \in Connections : e # c => client'[e] = client[e] /\ sock'[e] = sock[e]
    BY <1>1 DEF SendMore, Push, ClientType, SockType
  <1>3. ~SentWhole(c, k) /\ \A j \in CallNo : j = k => (SentWhole(c, j)' <=> n = size)
    <2>1. client[c].pushed # size
      BY <1>1
    <2>2. k \in DOMAIN client[c].requests
      BY <1>1 DEF CallNo
    <2>3. ASSUME NEW j \in CallNo, j = k
          PROVE  SentWhole(c, j)' <=> n = size
      BY <1>2, <2>2, <2>3 DEF SentWhole, Kind, RequestSize
    <2> QED
      BY <2>1, <2>2, <2>3 DEF SentWhole
  <1>4. \A j \in CallNo : j # k => (SentWhole(c, j)' <=> SentWhole(c, j))
    BY <1>2 DEF SentWhole
  <1>5. ~Ends(conn[c].stream.in, k) /\ ~Ends(u, k)
    BY <1>1, <1>3 DEF Once
  <1>6. /\ \A m : Ends(Append(u, x), m) <=> Ends(u, m) \/ (n = size /\ m = k)
        /\ OnceIn(Append(u, x))
    <2>1. x.nul = (n = size) /\ x.msg = k /\ OnceIn(u)
      BY DEF Once
    <2>2. u \in Seq(RequestCells) /\ x \in RequestCells /\ ~Ends(u, k)
      BY <1>1, <1>5
    <2> HIDE DEF x, u, n, size, k
    <2>3. ASSUME NEW m
          PROVE  Ends(Append(u, x), m) <=> Ends(u, m) \/ (x.nul /\ x.msg = m)
      BY ONLY <2>2, AppendEnds
    <2>4. OnceIn(u) /\ ~(x.nul /\ Ends(u, x.msg)) => OnceIn(Append(u, x))
      BY ONLY <2>2, AppendEnds
    <2>5. \A m : Ends(Append(u, x), m) <=> Ends(u, m) \/ (n = size /\ m = k)
      BY ONLY <2>1, <2>3
    <2>6. OnceIn(Append(u, x))
      BY ONLY <2>1, <2>2, <2>4
    <2> QED
      BY <2>5, <2>6
  <1>7. \A j \in CallNo : ToCome(c, j)' => ToCome(c, j)
    <2> TAKE j \in CallNo
    <2>1. CASE j = k
      BY <1>3, <2>1 DEF ToCome
    <2>2. CASE j # k
      BY <1>2, <1>4, <1>6, <2>2 DEF ToCome
    <2> QED
      BY <2>1, <2>2
  <1> HIDE DEF u, x, n, size, k
  <1>8. OnceAt(c)'
    <2>1. OnceIn(conn[c].stream.in)
      BY DEF Once
    <2>2. ASSUME NEW j \in CallNo
          PROVE  /\ ~(Ends(conn[c].stream.in, j) /\ Ends(Append(u, x), j))
                 /\ Ends(conn[c].stream.in, j) \/ Ends(Append(u, x), j) => SentWhole(c, j)'
      <3>1. CASE j = k
        BY <1>3, <1>5, <1>6, <3>1
      <3>2. CASE j # k
        BY <1>4, <1>6, <3>2 DEF Once, u
      <3> QED
        BY <3>1, <3>2
    <2> QED
      BY <1>2, <1>6, <2>1, <2>2 DEF OnceAt
  <1> QED
    BY <1>2, <1>7, <1>8, FreshUpdate

\* Closing a connection drops what it has read and what it has not.
LEMMA FreshClose ==
    ASSUME TypeOK, Owned, Fresh, Once, NEW c \in Connections, CloseConnection(c)
    PROVE  Fresh' /\ Once'
  <1>1. /\ conn' = [conn EXCEPT ![c] = FreedConnection] /\ client' = client
        /\ sock' = [sock EXCEPT ![c].up = <<>>]
    BY DEF CloseConnection
  <1>2. FreedConnection.stream.in = <<>>
    BY DEF FreedConnection, NewStream
  <1>3. conn \in [Connections -> ConnectionType] /\ sock \in [Connections -> SockType]
    BY TypeInParts DEF TypeParts
  <1>4. /\ conn'[c].stream.in = <<>> /\ sock'[c].up = <<>>
        /\ \A d \in Connections : d # c => conn'[d] = conn[d] /\ sock'[d] = sock[d]
    BY <1>1, <1>2, <1>3 DEF SockType
  <1>5. ASSUME NEW d \in Connections, NEW j \in CallNo
        PROVE  calls'[d][j] = calls[d][j] \/ calls[d][j].refcount # 0
    <2> DEFINE i == conn[c].call
    <2>1. CASE i = NoCall \/ d # c \/ j # i
      <3>1. i = NoCall => calls' = calls
        BY DEF CloseConnection, CallsAfterClose
      <3>2. i # NoCall => \E x : calls' = [calls EXCEPT ![c][i].refcount = x]
        BY DEF CloseConnection, CallsAfterClose
      <3>3. calls \in [Connections -> [CallNo -> CallType]]
        BY TypeInParts DEF TypeParts
      <3> HIDE DEF i
      <3> QED
        BY <2>1, <3>1, <3>2, <3>3
    <2>2. CASE i # NoCall /\ d = c /\ j = i
      <3>1. calls[c][j].refcount = Owners(c, j)
        BY DEF Owned, RefcountsCountOwners
      <3> QED
        BY <2>2, <3>1 DEF Owners
    <2> QED
      BY <2>1, <2>2
  <1> QED
    BY <1>1, <1>4, <1>5, Shrinks

\* Every step keeps each message from becoming two calls.
LEMMA FreshStep ==
    ASSUME TypeOK, Numbered, BuffersBounded, Owned, Fresh, Once,
           NEW c \in Connections, Steps(c)
    PROVE  Fresh' /\ Once'
  <1>1. /\ conn \in [Connections -> ConnectionType] /\ sock \in [Connections -> SockType]
        /\ client \in [Connections -> ClientType]
        /\ calls \in [Connections -> [CallNo -> CallType]]
    BY TypeInParts DEF TypeParts
  <1>2. ASSUME NEW r, conn' = [conn EXCEPT ![c] = r], r.stream.in = conn[c].stream.in,
               \A d \in Connections : sock'[d].up = sock[d].up,
               client' = client,
               \A d \in Connections, j \in CallNo :
                  calls'[d][j] = calls[d][j] \/ calls[d][j].refcount # 0
        PROVE  Fresh' /\ Once'
    <2>1. \A d \in Connections : conn'[d].stream.in = conn[d].stream.in
      BY <1>1, <1>2
    <2> QED
      BY <1>2, <2>1, Shrinks
  <1>3. ASSUME NEW i \in CallNo, NEW q, calls' = [calls EXCEPT ![c][i] = q],
               conn[c].call = i \/ <<c, i>> \in held
        PROVE  \A d \in Connections, j \in CallNo :
                  calls'[d][j] = calls[d][j] \/ calls[d][j].refcount # 0
    <2>1. calls[c][i].refcount = Owners(c, i)
      BY DEF Owned, RefcountsCountOwners
    <2>2. calls[c][i].refcount # 0
      BY <1>3, <2>1 DEF Owners
    <2> QED
      BY <1>1, <1>3, <2>2
  <1>4. ASSUME UNCHANGED conn, calls' = calls,
               \A d \in Connections : /\ sock'[d].up = sock[d].up
                                      /\ client'[d].requests = client[d].requests
                                      /\ client'[d].pushed = client[d].pushed
        PROVE  Fresh' /\ Once'
    BY <1>4, Shrinks
  <1>5. CASE Accept(c)
    <2>1. /\ conn'[c].stream.in = <<>>
          /\ \A d \in Connections : d # c => conn'[d] = conn[d]
      BY <1>1, <1>5 DEF Accept, NewStream
    <2>2. sock' = sock /\ client' = client /\ calls' = calls
      BY <1>5 DEF Accept
    <2> QED
      BY <2>1, <2>2, Shrinks
  <1>6. CASE Dispatch(c)
    <2> DEFINE r == [conn[c] EXCEPT !.events_mask = {}]
    <2>1. r.stream.in = conn[c].stream.in
      BY <1>1 DEF ConnectionType
    <2>2. conn' = [conn EXCEPT ![c] = r] /\ UNCHANGED <<calls, sock, client>>
      BY <1>6 DEF Dispatch
    <2> HIDE DEF r
    <2> QED
      BY <1>2, <2>1, <2>2
  <1>7. CASE Flush(c)
    <2>1. Room(c) \in Int /\ Gone(c) \in BOOLEAN
          /\ conn[c].stream \in StreamOf(RequestCells, ReplyCells)
      BY <1>1, ConstantTypes, LenProperties, StreamsAre DEF Room, Gone, SockType, ConnectionType
    <2>2. PICK o \in FlushOutcomes(conn[c].stream, Room(c), Gone(c)) :
            /\ conn' = [conn EXCEPT ![c].stream = o.stream,
                                    ![c].events_mask =
                                       IF o.result = "rest" THEN {"OUT"} ELSE {}]
            /\ sock' = [sock EXCEPT ![c].down = @ \o o.sent]
      BY <1>7 DEF Flush
    <2> DEFINE r == [conn[c] EXCEPT !.stream = o.stream,
                                    !.events_mask = IF o.result = "rest" THEN {"OUT"} ELSE {}]
    <2>3. o.stream.in = conn[c].stream.in
      BY <2>1, <2>2, FlushType
    <2>4. r.stream.in = conn[c].stream.in
      BY <1>1, <2>3 DEF ConnectionType
    <2>5. conn' = [conn EXCEPT ![c] = r] /\ UNCHANGED <<calls, client>>
      BY <1>7, <2>2, ZenonT(60) DEF Flush
    <2>6. \A d \in Connections : sock'[d].up = sock[d].up
      BY <1>1, <2>2 DEF SockType
    <2> HIDE DEF r
    <2> QED
      BY <1>2, <2>4, <2>5, <2>6
  <1>8. CASE StopReading(c) \/ HandlerReturns(c)
    BY <1>4, <1>8 DEF StopReading, HandlerReturns
  <1>9. CASE ReadSocket(c)
    BY <1>9, FreshReadSocket
  <1>10. CASE ReadNothing(c)
    <2>1. CASE EOF(c)
      <3> DEFINE r == [conn[c] EXCEPT !.stream = HungUp(conn[c].stream)]
      <3>1. r.stream.in = conn[c].stream.in
        BY <1>1, StreamsAre DEF ConnectionType, HungUp, StreamOf
      <3>2. conn' = [conn EXCEPT ![c] = r] /\ UNCHANGED <<calls, sock, client>>
        BY <1>10, <2>1 DEF ReadNothing
      <3> HIDE DEF r
      <3> QED
        BY <1>2, <3>1, <3>2
    <2>2. CASE ~EOF(c)
      BY <1>4, <1>10, <2>2 DEF ReadNothing
    <2> QED
      BY <2>1, <2>2
  <1>11. CASE ReadInvalid(c) \/ HandlerFails(c)
    BY <1>11, FreshClose DEF ReadInvalid, HandlerFails
  <1>12. CASE ReadNoCall(c)
    <2>1. PICK o \in Delivered(conn[c].stream) : conn' = [conn EXCEPT ![c].stream = o.stream]
      BY <1>12 DEF ReadNoCall
    <2> DEFINE r == [conn[c] EXCEPT !.stream = o.stream]
    <2>2. r.stream = o.stream
      BY <1>1 DEF ConnectionType
    <2>3. conn' = [conn EXCEPT ![c] = r] /\ UNCHANGED <<sock, client>> /\ calls' = calls
      BY <1>12, <2>1 DEF ReadNoCall
    <2> HIDE DEF r
    <2> QED
      BY <2>2, <2>3, FreshConsume
  <1>13. CASE ReadCall(c)
    <2>1. PICK o \in Delivered(conn[c].stream) :
            /\ conn' = [conn EXCEPT ![c].stream = o.stream, ![c].call = o.message]
            /\ calls' = [calls EXCEPT ![c][o.message].refcount = 1]
      BY <1>13 DEF ReadCall
    <2> DEFINE r == [conn[c] EXCEPT !.stream = o.stream, !.call = o.message]
    <2>2. r.stream = o.stream
      BY <1>1 DEF ConnectionType
    <2>3. conn' = [conn EXCEPT ![c] = r] /\ UNCHANGED <<sock, client>>
      BY <1>13, <2>1 DEF ReadCall
    <2>4. \A d \in Connections, j \in CallNo :
            d # c \/ j # o.message => calls'[d][j] = calls[d][j]
      BY <1>1, <2>1
    <2> HIDE DEF r
    <2> QED
      BY <2>2, <2>3, <2>4, FreshConsume
  <1>14. CASE EndDispatch(c)
    <2>1. CASE CloseConnection(c)
      BY <2>1, FreshClose
    <2>2. CASE /\ conn' = [conn EXCEPT ![c] = SetEventsMask(@, EndMask(c))]
               /\ UNCHANGED <<calls, held, client, sock>>
      <3> DEFINE r == SetEventsMask(conn[c], EndMask(c))
      <3>1. r.stream.in = conn[c].stream.in
        BY <1>1 DEF ConnectionType, SetEventsMask
      <3>2. conn' = [conn EXCEPT ![c] = r]
        BY <2>2
      <3> HIDE DEF r
      <3> QED
        BY <1>2, <2>2, <3>1, <3>2
    <2> QED
      BY <1>14, <2>1, <2>2 DEF EndDispatch
  <1>15. ASSUME NEW i \in CallNo, Keep(c, i) \/ Release(c, i)
         PROVE  Fresh' /\ Once'
    <2>1. PICK q : calls' = [calls EXCEPT ![c][i] = q]
      BY <1>15 DEF Keep, Release
    <2>2. conn[c].call = i \/ <<c, i>> \in held
      BY <1>15 DEF Keep, Release
    <2>3. UNCHANGED <<conn, sock, client>>
      BY <1>15 DEF Keep, Release
    <2> QED
      BY <1>3, <2>1, <2>2, <2>3, Shrinks
  <1>16. ASSUME NEW i \in CallNo, ReplyContinues(c, i)
         PROVE  Fresh' /\ Once'
    <2>1. conn[c].call = i /\ client' = client /\ \A d \in Connections : sock'[d].up = sock[d].up
      BY <1>16, ContinuesEffect
    <2>2. PICK r : conn' = [conn EXCEPT ![c] = r] /\ r.stream.in = conn[c].stream.in
      BY <1>16, ContinuesEffect
    <2>3. PICK q : calls' = [calls EXCEPT ![c][i] = q]
      BY <1>16, ContinuesEffect
    <2> QED
      BY <1>2, <1>3, <2>1, <2>2, <2>3
  <1>17. ASSUME NEW i \in CallNo, Finish(c, i)
         PROVE  Fresh' /\ Once'
    <2>1. conn[c].call = i /\ client' = client /\ \A d \in Connections : sock'[d].up = sock[d].up
      BY <1>17, ReplyEffect
    <2>2. PICK r : conn' = [conn EXCEPT ![c] = r] /\ r.stream.in = conn[c].stream.in
      BY <1>17, ReplyEffect
    <2>3. PICK q : calls' = [calls EXCEPT ![c][i] = q]
      BY <1>17, ReplyEffect
    <2> QED
      BY <1>2, <1>3, <2>1, <2>2, <2>3
  <1>18. CASE Connect(c) \/ Shutdown(c)
    <2>1. \A d \in Connections : /\ sock'[d].up = sock[d].up
                                 /\ client'[d].requests = client[d].requests
                                 /\ client'[d].pushed = client[d].pushed
      <3>1. PICK peer : client' = [client EXCEPT ![c] = [client[c] EXCEPT !.peer = peer]]
        BY <1>18 DEF Connect, Shutdown
      <3>2. sock' = sock
        BY <1>18 DEF Connect, Shutdown
      <3> QED
        BY <1>1, <3>1, <3>2 DEF ClientType
    <2> QED
      BY <1>4, <1>18, <2>1 DEF Connect, Shutdown
  <1>19. CASE Receive(c) \/ Disconnect(c)
    <2>1. \A d \in Connections : /\ sock'[d].up = sock[d].up
                                 /\ client'[d].requests = client[d].requests
                                 /\ client'[d].pushed = client[d].pushed
      <3>1. PICK peer, got : client' = [client EXCEPT ![c] = [client[c] EXCEPT !.peer = peer]]
                             \/ client' = [client EXCEPT ![c] = [client[c] EXCEPT !.got = got]]
        BY <1>19 DEF Receive, Disconnect
      <3>2. PICK down : sock' = [sock EXCEPT ![c] = [sock[c] EXCEPT !.down = down]]
        BY <1>19 DEF Receive, Disconnect
      <3> QED
        BY <1>1, <3>1, <3>2 DEF ClientType, SockType
    <2> QED
      BY <1>4, <1>19, <2>1 DEF Receive, Disconnect
  <1>20. CASE SendMore(c)
    BY <1>20, FreshSendMore
  <1>21. ASSUME NEW kind \in Kinds, Send(c, kind)
         PROVE  Fresh' /\ Once'
    BY <1>21, FreshSend
  <1> QED
    BY <1>5, <1>6, <1>7, <1>8, <1>9, <1>10, <1>11, <1>12, <1>13, <1>14, <1>15, <1>16, <1>17,
       <1>18, <1>19, <1>20, <1>21
    DEF Steps, Loop, Application, Client

\* Every step leaves the dispatch in progress on an open connection.
LEMMA DispatchingStep ==
    ASSUME TypeOK, BuffersBounded, Dispatching, NEW c \in Connections, Steps(c)
    PROVE  Dispatching'
  <1>1. conn \in [Connections -> ConnectionType]
    BY TypeInParts DEF TypeParts
  <1>2. CASE Idle
    BY <1>2 DEF Idle, Dispatching
  <1>3. ASSUME NEW r, conn' = [conn EXCEPT ![c] = r], r.state = conn[c].state,
               UNCHANGED cur, pc' = "idle" <=> pc = "idle"
        PROVE  Dispatching'
    BY <1>1, <1>3 DEF Dispatching
  <1>4. ASSUME UNCHANGED conn, UNCHANGED cur, pc' = "idle" <=> pc = "idle"
        PROVE  Dispatching'
    BY <1>4 DEF Dispatching
  <1>5. CASE Client(c)
    BY <1>4, <1>5 DEF Client, Connect, Send, SendMore, Receive, Shutdown, Disconnect
  <1>6. CASE Accept(c)
    BY <1>6 DEF Accept, Dispatching
  <1>7. CASE Dispatch(c)
    <2>1. conn[c].state = "open" /\ cur' = c
      BY <1>7 DEF Dispatch, IsOpen
    <2>2. conn'[c].state = conn[c].state
      BY <1>1, <1>7 DEF Dispatch, ConnectionType
    <2>3. pc' # "idle"
      BY <1>7 DEF Dispatch, AfterFlush
    <2> QED
      BY <2>1, <2>2, <2>3 DEF Dispatching
  <1>8. CASE Flush(c)
    <2>1. PICK o : /\ conn' = [conn EXCEPT ![c].stream = o.stream,
                                           ![c].events_mask =
                                              IF o.result = "rest" THEN {"OUT"} ELSE {}]
                   /\ IF o.result = "error" THEN Idle
                      ELSE pc' = AfterFlush(ev) /\ UNCHANGED <<cur, ev>>
      BY <1>8 DEF Flush
    <2>2. CASE o.result = "error"
      BY <1>2, <2>1, <2>2
    <2>3. CASE o.result # "error"
      <3> DEFINE r == [conn[c] EXCEPT !.stream = o.stream,
                                      !.events_mask = IF o.result = "rest" THEN {"OUT"} ELSE {}]
      <3>1. r.state = conn[c].state /\ conn' = [conn EXCEPT ![c] = r]
        BY <1>1, <2>1 DEF ConnectionType
      <3>2. UNCHANGED cur /\ pc = "flush" /\ pc' # "idle"
        BY <1>8, <2>1, <2>3 DEF Flush, AfterFlush
      <3> HIDE DEF r
      <3> QED
        BY <1>3, <3>1, <3>2
    <2> QED
      BY <2>2, <2>3
  <1>9. CASE StopReading(c) \/ HandlerReturns(c)
    BY <1>4, <1>9 DEF StopReading, HandlerReturns
  <1>10. CASE ReadSocket(c) \/ ReadNothing(c)
    <2>1. UNCHANGED cur /\ pc = "read" /\ pc' # "idle"
      BY <1>10 DEF ReadSocket, ReadNothing, Reading
    <2>2. CASE conn' = conn
      BY <1>4, <2>1, <2>2
    <2>3. ASSUME NEW s, conn' = [conn EXCEPT ![c].stream = s]
          PROVE  Dispatching'
      <3> DEFINE r == [conn[c] EXCEPT !.stream = s]
      <3>1. r.state = conn[c].state /\ conn' = [conn EXCEPT ![c] = r]
        BY <1>1, <2>3 DEF ConnectionType
      <3> HIDE DEF r
      <3> QED
        BY <1>3, <2>1, <3>1
    <2> QED
      BY <1>10, <2>2, <2>3 DEF ReadSocket, ReadNothing
  <1>11. CASE ReadInvalid(c) \/ ReadNoCall(c) \/ HandlerFails(c) \/ EndDispatch(c)
    BY <1>2, <1>11 DEF ReadInvalid, ReadNoCall, HandlerFails, EndDispatch, CloseConnection
  <1>12. CASE ReadCall(c)
    <2>1. PICK o : conn' = [conn EXCEPT ![c].stream = o.stream, ![c].call = o.message]
      BY <1>12 DEF ReadCall
    <2> DEFINE r == [conn[c] EXCEPT !.stream = o.stream, !.call = o.message]
    <2>2. r.state = conn[c].state /\ conn' = [conn EXCEPT ![c] = r]
      BY <1>1, <2>1 DEF ConnectionType
    <2>3. UNCHANGED cur /\ pc = "read" /\ pc' = "handle"
      BY <1>12 DEF ReadCall, Reading
    <2> HIDE DEF r
    <2> QED
      BY <1>3, <2>2, <2>3
  <1>13. ASSUME NEW i \in CallNo, Keep(c, i) \/ Release(c, i)
         PROVE  Dispatching'
    BY <1>4, <1>13 DEF Keep, Release
  <1>14. ASSUME NEW i \in CallNo, ReplyContinues(c, i)
         PROVE  Dispatching'
    <2>1. PICK r : conn' = [conn EXCEPT ![c] = r] /\ r.state = conn[c].state
      BY <1>14, ContinuesEffect
    <2>2. UNCHANGED <<pc, cur>>
      BY <1>14, ContinuesEffect
    <2> QED
      BY <1>3, <2>1, <2>2
  <1>15. ASSUME NEW i \in CallNo, Finish(c, i)
         PROVE  Dispatching'
    <2>1. PICK r : conn' = [conn EXCEPT ![c] = r] /\ r.state = conn[c].state
      BY <1>15, ReplyEffect
    <2>2. UNCHANGED <<pc, cur>>
      BY <1>15, ReplyEffect
    <2> QED
      BY <1>3, <2>1, <2>2
  <1> QED
    BY <1>5, <1>6, <1>7, <1>8, <1>9, <1>10, <1>11, <1>12, <1>13, <1>14, <1>15
    DEF Steps, Loop, Application

-----------------------------------------------------------------------------
(* The theorems.                                                           *)

\* In the beginning there are no connections and nothing was sent.
LEMMA InitInvariant == Init => IInv
  <1> SUFFICES ASSUME Init
               PROVE  IInv
    OBVIOUS
  <1> DEFINE r == [FreedConnection EXCEPT !.state = "none"]
  <1>1. /\ conn = [c \in Connections |-> r] /\ r \in ConnectionType
        /\ r.call = NoCall /\ r.stream = NewStream
    BY NewStreamType DEF Init, FreedConnection, ConnectionType, Masks, NoCall
  <1> HIDE DEF r
  <1>2. FreshCall \in CallType /\ FreshCall.refcount = 0
    BY ConstantTypes DEF FreshCall, CallType
  <1>3. TypeOK
    <2>1. calls \in [Connections -> [CallNo -> CallType]]
      BY <1>2 DEF Init
    <2>2. client \in [Connections -> ClientType] /\ sock \in [Connections -> SockType]
      BY EmptySeq, ConstantTypes DEF Init, ClientType, SockType
    <2>3. TypeParts
      BY <1>1, <2>1, <2>2 DEF Init, TypeParts
    <2> QED
      BY <2>3, TypeInParts
  <1>4. BuffersBounded
    <2>1. Len(NewStream.in) <= BufferSize /\ Len(NewStream.out) < BufferSize
      BY NewStreamType, ConstantTypes
    <2> QED
      BY <1>1, <2>1 DEF BuffersBounded
  <1>5. Numbered
    BY EmptySeq, ConstantTypes DEF Init, Numbered
  <1>6. RefcountsCountOwners
    <2>1. ASSUME NEW c \in Connections, NEW i \in CallNo
          PROVE  calls[c][i].refcount = Owners(c, i)
      <3>1. calls[c][i].refcount = 0
        BY <1>2 DEF Init
      <3>2. conn[c].call # i /\ <<c, i>> \notin held
        BY <1>1, ConstantTypes DEF Init
      <3> QED
        BY <3>1, <3>2 DEF Owners
    <2> QED
      BY <2>1 DEF RefcountsCountOwners
  <1>7. KeptCallsAttached /\ Pending /\ Dispatching
    BY <1>1 DEF Init, KeptCallsAttached, Pending, Dispatching
  <1>8. Fresh
    BY DEF Init, Fresh
  <1>9. Once
    <2>1. \A c \in Connections : conn[c].stream.in = <<>> /\ sock[c].up = <<>>
      <3>1. \A c \in Connections : conn[c].stream = NewStream
        BY <1>1
      <3>2. NewStream.in = <<>> /\ \A c \in Connections : sock[c].up = <<>>
        BY DEF Init, NewStream
      <3> QED
        BY <3>1, <3>2
    <2>2. OnceIn(<<>>) /\ \A m : ~Ends(<<>>, m)
      BY DEF OnceIn, Ends, EndsAt
    <2> QED
      BY <2>1, <2>2 DEF Once
  <1> QED
    BY <1>3, <1>4, <1>5, <1>6, <1>7, <1>8, <1>9 DEF IInv

\* The invariant is inductive.
LEMMA NextInvariant == IInv /\ [Next]_vars => IInv'
  <1> SUFFICES ASSUME IInv, [Next]_vars
               PROVE  IInv'
    OBVIOUS
  <1>1. ASSUME NEW c \in Connections, Steps(c)
        PROVE  IInv'
    <2>1. Owned
      BY DEF IInv, Owned
    <2>2. TypeOK' /\ Numbered' /\ BuffersBounded'
      BY <1>1, StepType DEF IInv
    <2>3. Owned'
      BY <1>1, <2>1, OwnedStep DEF IInv
    <2>4. Fresh' /\ Once'
      BY <1>1, <2>1, FreshStep DEF IInv
    <2>5. Dispatching'
      BY <1>1, DispatchingStep DEF IInv
    <2> QED
      BY <2>2, <2>3, <2>4, <2>5 DEF IInv, Owned
  <1>2. CASE UNCHANGED vars
    <2>1. UNCHANGED <<conn, calls, held, pc, cur, ev, client, sock>>
      BY <1>2 DEF vars
    <2> QED
      BY <2>1 DEF IInv, TypeOK, Numbered, BuffersBounded, RefcountsCountOwners, Owners,
                  KeptCallsAttached, IsOpen, Pending, Dispatching, Fresh, ToCome, SentWhole,
                  Kind, Once
  <1> QED
    BY <1>1, <1>2 DEF Next, Steps

\* Every reachable state of the service satisfies the invariant.
THEOREM Invariance == Spec => []IInv
  BY InitInvariant, NextInvariant, PTL DEF Spec

\* Every variable of the service keeps its type.
THEOREM TypeCorrect == Spec => []TypeOK
  <1>1. IInv => TypeOK
    BY DEF IInv
  <1> QED
    BY <1>1, Invariance, PTL

\* The stream buffers of every connection stay inside their bounds.
THEOREM BuffersStayBounded == Spec => []BuffersBounded
  <1>1. IInv => BuffersBounded
    BY DEF IInv
  <1> QED
    BY <1>1, Invariance, PTL

\* The reference count of every call is the number of its owners.
THEOREM RefcountsAreExact == Spec => []RefcountsCountOwners
  <1>1. IInv => RefcountsCountOwners
    BY DEF IInv
  <1> QED
    BY <1>1, Invariance, PTL

\* A call that is kept for later is never left behind by its connection.
THEOREM KeptCallsStayAttached == Spec => []KeptCallsAttached
  <1>1. IInv => KeptCallsAttached
    BY DEF IInv
  <1> QED
    BY <1>1, Invariance, PTL
=============================================================================
