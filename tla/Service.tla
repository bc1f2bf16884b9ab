------------------------------ MODULE Service -------------------------------
(***************************************************************************)
(* VarlinkService (lib/service.c): one thread that multiplexes the         *)
(* connections of its clients with epoll, turns the messages it reads into *)
(* VarlinkCalls, hands them to the application and writes its replies.     *)
(*                                                                         *)
(* The program counter follows varlink_service_process_events: "idle" is   *)
(* epoll_wait and everything outside the library, "flush", "read" and      *)
(* "end" are the parts of varlink_service_dispatch_connection between two  *)
(* system calls, "handle" is the application's method callback.  Clients   *)
(* move between any two of these steps.                                    *)
(*                                                                         *)
(* The application is any program that follows the API: it replies from    *)
(* the callback, or (Async) keeps a reference and a closed callback for    *)
(* the call and replies later; it sends continued replies only to a call   *)
(* that asked for more.                                                    *)
(***************************************************************************)
EXTENDS Stream, FiniteSets

CONSTANTS Connections,  \* connections ever made; each uses its own fd
          Kinds,        \* the kinds of messages clients send
          MaxCalls,     \* bound: messages per client
          MaxReplies,   \* bound: replies per call
          SocketSize,   \* cells a socket buffers towards the client
          Async,        \* the application may reply after its callback
          Lockstep,     \* clients wait for the reply before they go on
          HalfClose,    \* clients may shut down their sending side
          NoConnection  \* no dispatch is in progress

AllKinds == {"plain", "more", "oneway", "badcall", "badjson", "endless"}

ASSUME ServiceAssumption ==
    /\ Kinds \subseteq AllKinds
    /\ MaxCalls \in Nat \ {0}
    /\ MaxReplies \in Nat \ {0}
    /\ SocketSize \in Nat \ {0}
    /\ {Async, Lockstep, HalfClose} \subseteq BOOLEAN
    /\ NoConnection \notin Connections

VARIABLES conn,    \* conn[c]: the ServiceConnection of c
          calls,   \* calls[c][i]: the VarlinkCall of message i on c
          held,    \* the calls the application keeps a reference to
          pc, cur, ev,  \* the dispatch in progress and its epoll events
          client,  \* client[c]: the client at the other end
          sock     \* sock[c]: the socket's cells, to (up) and from (down)
                   \* the service

vars == <<conn, calls, held, pc, cur, ev, client, sock>>

CallNo  == 1..MaxCalls
NoCall  == 0
Events  == {"IN", "OUT", "HUP"}
Replies == [call : CallNo, n : 1..MaxReplies, kind : {"continues", "final", "error"}]

ReplySize == 2
RequestSize(kind) == IF kind = "endless" THEN BufferSize + 1 ELSE 2

Kind(c, i) == client[c].requests[i]
Gone(c)    == client[c].peer = "closed"
EOF(c)     == client[c].peer \in {"half", "closed"}
Room(c)    == SocketSize - Len(sock[c].down)
IsOpen(c)  == conn[c].state = "open"

-----------------------------------------------------------------------------
(* VarlinkCall: a reference count, and the closed callback.                *)

\* replies and done are history: the replies made so far, and that the
\* last one was.
FreshCall == [refcount |-> 0, replies |-> 0, done |-> FALSE]

\* The application can use call i: it has a reference, or it is in the
\* callback the call was passed to.
CanUse(c, i) == \/ <<c, i>> \in held
                \/ pc = "handle" /\ cur = c /\ conn[c].call = i

\* `call != call->connection->call` rejects a reply to a finished call.
IsCurrentAny(c, i) == TRUE
IsCurrent(c, i) == conn[c].call = i

\* varlink_call_unref
Unref(call) == [call EXCEPT !.refcount = @ - 1]

\* The reference of the connection goes with the last reply.
FinishedTwice(call) == [call EXCEPT !.refcount = @ - 2, !.done = TRUE]
Finished(call) == [Unref(call) EXCEPT !.done = TRUE]

Replied(call, kind) ==
    [IF kind = "continues" THEN call ELSE Finished(call) EXCEPT !.replies = @ + 1]

-----------------------------------------------------------------------------
(* service_connection_close and service_connection_free.  The closed       *)
(* callback of the pending call tells the application that the call is     *)
(* over: it drops its reference.                                           *)

FreedConnection == [state |-> "freed", events_mask |-> {}, current_events_mask |-> {},
                    call |-> NoCall, stream |-> NewStream]

\* What the application still holds when the closed callback returned.
HeldAfterCloseSilent(c) == held
HeldAfterClose(c) == held \ {<<c, conn[c].call>>}

\* Both references to the pending call are dropped.
CallsAfterCloseLeaked(c) == calls
CallsAfterClose(c) ==
    LET i == conn[c].call
    IN IF i = NoCall THEN calls
       ELSE [calls EXCEPT ![c][i].refcount =
               @ - (IF <<c, i>> \in held \ HeldAfterClose(c) THEN 2 ELSE 1)]

\* process_events is back in epoll_wait, or has returned and is called again.
Idle == pc' = "idle" /\ cur' = NoConnection /\ ev' = {}

CloseConnection(c) ==
    /\ conn' = [conn EXCEPT ![c] = FreedConnection]
    /\ calls' = CallsAfterClose(c)
    /\ held' = HeldAfterClose(c)
    /\ sock' = [sock EXCEPT ![c].up = <<>>]
    /\ Idle
    /\ UNCHANGED client

-----------------------------------------------------------------------------
(* epoll: the events of a connection are level triggered, and HUP is       *)
(* reported whatever the mask is.                                          *)

Ready(c) ==
    (conn[c].current_events_mask \cap
       ((IF sock[c].up # <<>> \/ EOF(c) THEN {"IN"} ELSE {}) \cup
        (IF Room(c) > 0 \/ Gone(c) THEN {"OUT"} ELSE {})))
    \cup (IF Gone(c) THEN {"HUP"} ELSE {})

\* service_connection_set_events_mask, with the mask it is called with kept
\* in events_mask
SetEventsMask(rec, mask) ==
    [rec EXCEPT !.events_mask = mask, !.current_events_mask = mask]

\* varlink_service_accept
Accept(c) ==
    /\ pc = "idle"
    /\ conn[c].state = "none" /\ client[c].peer # "none"
    /\ conn' = [conn EXCEPT ![c] = [state |-> "open", events_mask |-> {},
                                    current_events_mask |-> {"IN"},
                                    call |-> NoCall, stream |-> NewStream]]
    /\ UNCHANGED <<calls, held, pc, cur, ev, client, sock>>

AfterFlush(events) == IF "IN" \in events THEN "read" ELSE "end"

\* epoll_wait returns connection c, and dispatch_connection starts.
Dispatch(c) ==
    /\ pc = "idle" /\ IsOpen(c) /\ Ready(c) # {}
    /\ cur' = c
    /\ ev' = Ready(c)
    /\ conn' = [conn EXCEPT ![c].events_mask = {}]
    /\ pc' = IF "OUT" \in Ready(c) THEN "flush" ELSE AfterFlush(Ready(c))
    /\ UNCHANGED <<calls, held, client, sock>>

\* The EPOLLOUT branch.  An error leaves dispatch_connection, and
\* process_events, without closing the connection.
Flush(c) ==
    /\ pc = "flush" /\ cur = c
    /\ \E o \in FlushOutcomes(conn[c].stream, Room(c), Gone(c)) :
         /\ conn' = [conn EXCEPT ![c].stream = o.stream,
                                 ![c].events_mask =
                                    IF o.result = "rest" THEN {"OUT"} ELSE {}]
         /\ sock' = [sock EXCEPT ![c].down = @ \o o.sent]
         /\ IF o.result = "error"
            THEN Idle
            ELSE pc' = AfterFlush(ev) /\ UNCHANGED <<cur, ev>>
    /\ UNCHANGED <<calls, held, client>>

-----------------------------------------------------------------------------
(* The EPOLLIN branch: while no call is pending, read a message and handle *)
(* it.                                                                     *)

MayRead(c) == conn[c].call = NoCall

Reading(c) == pc = "read" /\ cur = c /\ MayRead(c)

\* A call is pending: the loop ends.
StopReading(c) ==
    /\ pc = "read" /\ cur = c /\ ~MayRead(c)
    /\ pc' = "end"
    /\ UNCHANGED <<conn, calls, held, cur, ev, client, sock>>

\* varlink_stream_read finds no message in its buffer and reads the socket.
ReadSocket(c) ==
    LET s == conn[c].stream IN
    /\ Reading(c)
    /\ ~HasMessage(s) /\ ~Overlong(s) /\ sock[c].up # <<>>
    /\ conn' = [conn EXCEPT ![c].stream = Received(s, sock[c].up)]
    /\ sock' = [sock EXCEPT ![c].up = Drop(@, ReadSize(s, sock[c].up))]
    /\ UNCHANGED <<calls, held, pc, cur, ev, client>>

\* The socket is empty: EAGAIN, or the end of the stream (hup).
ReadNothing(c) ==
    LET s == conn[c].stream IN
    /\ Reading(c)
    /\ ~HasMessage(s) /\ ~Overlong(s) /\ sock[c].up = <<>>
    /\ conn' = IF EOF(c) THEN [conn EXCEPT ![c].stream = HungUp(s)] ELSE conn
    /\ pc' = "end"
    /\ UNCHANGED <<calls, held, cur, ev, client, sock>>

\* The buffer is full without a message, or the text is not a JSON object:
\* the connection is closed.
ReadInvalid(c) ==
    /\ Reading(c)
    /\ \/ Overlong(conn[c].stream)
       \/ \E o \in Delivered(conn[c].stream) : Kind(c, o.message) = "badjson"
    /\ CloseConnection(c)

\* The message is no call: varlink_call_new fails and process_events
\* returns its error.  The connection stays.
ReadNoCall(c) ==
    /\ Reading(c)
    /\ \E o \in Delivered(conn[c].stream) :
         /\ Kind(c, o.message) = "badcall"
         /\ conn' = [conn EXCEPT ![c].stream = o.stream]
    /\ Idle
    /\ UNCHANGED <<calls, held, client, sock>>

\* varlink_call_new, and the method callback is entered.
ReadCall(c) ==
    /\ Reading(c)
    /\ \E o \in Delivered(conn[c].stream) :
         /\ Kind(c, o.message) \in {"plain", "more", "oneway"}
         /\ conn' = [conn EXCEPT ![c].stream = o.stream, ![c].call = o.message]
         /\ calls' = [calls EXCEPT ![c][o.message].refcount = 1]
    /\ pc' = "handle"
    /\ UNCHANGED <<held, cur, ev, client, sock>>

-----------------------------------------------------------------------------
(* What the application does: in the method callback, or between two calls *)
(* of process_events.                                                      *)

InApplication == pc \in {"idle", "handle"}

\* varlink_call_ref and varlink_call_set_connection_closed_callback, in the
\* callback, by an application that replies later.
Keep(c, i) ==
    /\ Async
    /\ pc = "handle" /\ cur = c /\ conn[c].call = i /\ <<c, i>> \notin held
    /\ held' = held \cup {<<c, i>>}
    /\ calls' = [calls EXCEPT ![c][i].refcount = @ + 1]
    /\ UNCHANGED <<conn, pc, cur, ev, client, sock>>

\* varlink_call_unref of a call that is finished.
Release(c, i) ==
    /\ InApplication
    /\ <<c, i>> \in held /\ conn[c].call # i
    /\ held' = held \ {<<c, i>>}
    /\ calls' = [calls EXCEPT ![c][i] = Unref(@)]
    /\ UNCHANGED <<conn, pc, cur, ev, client, sock>>

\* The application replies to a call it can use; the library rejects a
\* finished one.
CanReply(c, i) == InApplication /\ CanUse(c, i) /\ IsOpen(c) /\ IsCurrent(c, i)

\* varlink_call_remove_from_connection
Removed(rec) == [rec EXCEPT !.call = NoCall]

\* varlink_call_reply to a oneway call: nothing is sent.
ReplyOneway(c, i) ==
    /\ CanReply(c, i) /\ Kind(c, i) = "oneway"
    /\ conn' = [conn EXCEPT ![c] = Removed(@)]
    /\ calls' = [calls EXCEPT ![c][i] = Finished(@)]
    /\ UNCHANGED <<held, pc, cur, ev, client, sock>>

\* The message of a reply is queued and as much of everything that waits as
\* the socket takes is written.  rec(o) is the connection that is left.
WriteReply(c, i, kind, rec(_)) ==
    LET m == [call |-> i, n |-> calls[c][i].replies + 1, kind |-> kind] IN
    /\ calls[c][i].replies < MaxReplies
    /\ Fits(conn[c].stream, ReplySize)
    /\ \E o \in WriteOutcomes(conn[c].stream, m, ReplySize, Room(c), Gone(c)) :
         /\ conn' = [conn EXCEPT ![c] = rec(o)]
         /\ sock' = [sock EXCEPT ![c].down = @ \o o.sent]
    /\ calls' = [calls EXCEPT ![c][i] = Replied(@, kind)]
    /\ UNCHANGED <<held, pc, cur, ev, client>>

\* When not all was written, EPOLLOUT is added to events_mask and the mask
\* is set, whatever else it holds at this time.
ArmOut(rec, o) ==
    IF o.whole THEN [rec EXCEPT !.stream = o.stream]
    ELSE SetEventsMask([rec EXCEPT !.stream = o.stream], rec.events_mask \cup {"OUT"})

\* varlink_call_reply with VARLINK_REPLY_CONTINUES
ReplyContinues(c, i) ==
    /\ CanReply(c, i) /\ Kind(c, i) = "more"
    /\ calls[c][i].replies + 1 < MaxReplies  \* room for the final reply
    /\ WriteReply(c, i, "continues", LAMBDA o : ArmOut(conn[c], o))

\* varlink_call_reply without it
ReplyFinal(c, i) ==
    /\ CanReply(c, i) /\ Kind(c, i) # "oneway"
    /\ WriteReply(c, i, "final", LAMBDA o : Removed(ArmOut(conn[c], o)))

\* varlink_call_reply_error: a oneway call is answered too, and EPOLLOUT is
\* only noted in events_mask.
NoteNothing(rec, o) == [rec EXCEPT !.stream = o.stream]
NoteOut(rec, o) ==
    [rec EXCEPT !.stream = o.stream,
                !.events_mask = @ \cup (IF o.whole THEN {} ELSE {"OUT"})]

ReplyError(c, i) ==
    /\ CanReply(c, i)
    /\ WriteReply(c, i, "error", LAMBDA o : Removed(NoteOut(conn[c], o)))

\* The method callback returns: the call is finished or kept for later.
HandlerReturns(c) ==
    /\ pc = "handle" /\ cur = c
    /\ conn[c].call # NoCall => <<c, conn[c].call>> \in held
    /\ pc' = "read"
    /\ UNCHANGED <<conn, calls, held, cur, ev, client, sock>>

\* It fails: the connection is closed.
HandlerFails(c) ==
    /\ pc = "handle" /\ cur = c
    /\ CloseConnection(c)

-----------------------------------------------------------------------------
(* The end of dispatch_connection.                                         *)

EndMaskSame(c) == conn[c].events_mask
EndMaskAdded(c) == conn[c].current_events_mask \cup conn[c].events_mask
                     \cup (IF conn[c].call = NoCall THEN {"IN"} ELSE {})
EndMaskIn(c) == IF conn[c].call = NoCall THEN {"IN"} ELSE {}
EndMask(c) == conn[c].events_mask \cup (IF conn[c].call = NoCall THEN {"IN"} ELSE {})

EndDispatch(c) ==
    /\ pc = "end" /\ cur = c
    /\ IF "HUP" \in ev \/ conn[c].stream.hup
       THEN CloseConnection(c)
       ELSE /\ conn' = [conn EXCEPT ![c] = SetEventsMask(@, EndMask(c))]
            /\ Idle
            /\ UNCHANGED <<calls, held, client, sock>>

Loop(c) == \/ Dispatch(c) \/ Flush(c) \/ StopReading(c) \/ ReadSocket(c)
           \/ ReadNothing(c) \/ ReadInvalid(c) \/ ReadNoCall(c) \/ ReadCall(c)
           \/ EndDispatch(c)

Finish(c, i) == ReplyOneway(c, i) \/ ReplyFinal(c, i) \/ ReplyError(c, i)

Application(c) ==
    \/ \E i \in CallNo : \/ Keep(c, i) \/ Release(c, i)
                         \/ ReplyContinues(c, i) \/ Finish(c, i)
    \/ HandlerReturns(c) \/ HandlerFails(c)

-----------------------------------------------------------------------------
(* The clients: any program at the other end of the socket.                *)

\* The reply messages in a sequence of cells: the k-th one ends at the k-th
\* NUL.
NulsIn(cells, n) == {i \in 1..n : cells[i].nul}
MessageAt(cells, k) ==
    {cells[i].msg : i \in {j \in NulsIn(cells, Len(cells)) : Cardinality(NulsIn(cells, j)) = k}}
MessagesIn(cells) ==
    [k \in 1..Cardinality(NulsIn(cells, Len(cells))) |->
        CHOOSE m \in MessageAt(cells, k) : TRUE]

\* The end of the last reply to call i.
LastOf(cell, i) == cell.nul /\ cell.msg.call = i /\ cell.msg.kind # "continues"

\* The last message was sent whole, and (Lockstep) answered.
Settled(c) ==
    LET k == Len(client[c].requests)
    IN k > 0 => /\ client[c].pushed = RequestSize(Kind(c, k))
                /\ Lockstep /\ Kind(c, k) \in {"plain", "more"} =>
                     \E p \in 1..Len(client[c].got) : LastOf(client[c].got[p], k)

Connect(c) ==
    /\ client[c].peer = "none"
    /\ client' = [client EXCEPT ![c].peer = "open"]
    /\ UNCHANGED <<conn, calls, held, pc, cur, ev, sock>>

\* The first cell of a new message is written to the socket.
Push(c, i, nul) == sock' = [sock EXCEPT ![c].up = Append(@, [msg |-> i, nul |-> nul])]

Send(c, kind) ==
    /\ client[c].peer = "open" /\ conn[c].state # "freed" /\ Settled(c)
    /\ Len(client[c].requests) < MaxCalls
    /\ client' = [client EXCEPT ![c].requests = Append(@, kind), ![c].pushed = 1]
    /\ Push(c, Len(client[c].requests) + 1, FALSE)
    /\ UNCHANGED <<conn, calls, held, pc, cur, ev>>

\* The next cell of the message that is being sent.
SendMore(c) ==
    LET i == Len(client[c].requests)
        n == client[c].pushed + 1
    IN
    /\ client[c].peer = "open" /\ conn[c].state # "freed" /\ i > 0
    /\ n <= RequestSize(Kind(c, i))
    /\ client' = [client EXCEPT ![c].pushed = n]
    /\ Push(c, i, n = RequestSize(Kind(c, i)))
    /\ UNCHANGED <<conn, calls, held, pc, cur, ev>>

Receive(c) ==
    /\ client[c].peer \in {"open", "half"} /\ sock[c].down # <<>>
    /\ client' = [client EXCEPT ![c].got = Append(@, Head(sock[c].down))]
    /\ sock' = [sock EXCEPT ![c].down = Tail(@)]
    /\ UNCHANGED <<conn, calls, held, pc, cur, ev>>

Shutdown(c) ==
    /\ HalfClose
    /\ client[c].peer = "open"
    /\ client' = [client EXCEPT ![c].peer = "half"]
    /\ UNCHANGED <<conn, calls, held, pc, cur, ev, sock>>

\* close(2): what the client did not read is lost.
Disconnect(c) ==
    /\ client[c].peer \in {"open", "half"}
    /\ client' = [client EXCEPT ![c].peer = "closed"]
    /\ sock' = [sock EXCEPT ![c].down = <<>>]
    /\ UNCHANGED <<conn, calls, held, pc, cur, ev>>

Client(c) == \/ Connect(c) \/ (\E kind \in Kinds : Send(c, kind)) \/ SendMore(c)
             \/ Receive(c) \/ Shutdown(c) \/ Disconnect(c)

-----------------------------------------------------------------------------

Init ==
    /\ conn = [c \in Connections |-> [FreedConnection EXCEPT !.state = "none"]]
    /\ calls = [c \in Connections |-> [i \in CallNo |-> FreshCall]]
    /\ held = {}
    /\ pc = "idle" /\ cur = NoConnection /\ ev = {}
    /\ client = [c \in Connections |-> [peer |-> "none", requests |-> <<>>,
                                        pushed |-> 0, got |-> <<>>]]
    /\ sock = [c \in Connections |-> [up |-> <<>>, down |-> <<>>]]

Next == \E c \in Connections :
          Accept(c) \/ Loop(c) \/ Application(c) \/ Client(c)

Spec == Init /\ [][Next]_vars

-----------------------------------------------------------------------------
(* Fairness: the main loop calls process_events again whenever the epoll   *)
(* descriptor is ready, and epoll hands out ready descriptors in turn, so  *)
(* that a connection that stays ready, or is ready again and again, is     *)
(* dispatched.  The application answers and returns, the clients finish    *)
(* what they send and read what they get.                                  *)

Fairness == \A c \in Connections :
    /\ SF_vars(Accept(c))
    /\ SF_vars(Dispatch(c))
    /\ WF_vars(Loop(c))
    /\ WF_vars(\E i \in CallNo : Finish(c, i))
    /\ WF_vars(HandlerReturns(c))
    /\ WF_vars(SendMore(c))
    /\ WF_vars(Receive(c))

FairSpec == Spec /\ Fairness

-----------------------------------------------------------------------------
(* Properties.                                                             *)

RequestCells == [msg : CallNo, nul : BOOLEAN]
ReplyCells == [msg : Replies, nul : BOOLEAN]
Masks == SUBSET {"IN", "OUT"}

Streams == [in : Seq(RequestCells), out : Seq(ReplyCells), hup : BOOLEAN]

\* Every variable has its type.
TypeOK ==
    /\ conn \in [Connections ->
         [state : {"none", "open", "freed"}, events_mask : Masks,
          current_events_mask : Masks, call : CallNo \cup {NoCall}, stream : Streams]]
    /\ calls \in [Connections -> [CallNo ->
         [refcount : 0..2, replies : 0..MaxReplies, done : BOOLEAN]]]
    /\ held \subseteq Connections \X CallNo
    /\ pc \in {"idle", "flush", "read", "handle", "end"}
    /\ cur \in Connections \cup {NoConnection}
    /\ ev \subseteq Events
    /\ client \in [Connections ->
         [peer : {"none", "open", "half", "closed"}, requests : Seq(Kinds),
          pushed : 0..(BufferSize + 2), got : Seq(ReplyCells)]]
    /\ sock \in [Connections -> [up : Seq(RequestCells), down : Seq(ReplyCells)]]

\* in_end and out_end stay inside their buffers, whatever is pipelined and
\* however slowly a client reads (varlink_stream_read, varlink_stream_write).
BuffersBounded ==
    \A c \in Connections : /\ Len(conn[c].stream.in) <= BufferSize
                           /\ Len(conn[c].stream.out) < BufferSize

\* The reference count of a call is the number of its owners, the
\* connection it is pending on and the application (varlink_call_unref): a
\* call is neither freed while one of them can reach it nor leaked.
Owners(c, i) == (IF conn[c].call = i THEN 1 ELSE 0) + (IF <<c, i>> \in held THEN 1 ELSE 0)

RefcountsCountOwners ==
    \A c \in Connections, i \in CallNo : calls[c][i].refcount = Owners(c, i)

\* A call the application keeps and did not finish is the pending call of
\* an open connection (call->connection is valid): the closed callback
\* reaches the application before the connection is freed.
KeptCallsAttached ==
    \A c \in Connections, i \in CallNo :
       <<c, i>> \in held /\ ~calls[c][i].done => IsOpen(c) /\ conn[c].call = i

\* Outside dispatch_connection, an idle connection is watched for incoming
\* data (service.c:574).
IdleListens ==
    pc = "idle" => \A c \in Connections :
       IsOpen(c) /\ conn[c].call = NoCall => "IN" \in conn[c].current_events_mask

\* A busy one is not: it is not read (service.c:545), so that process_events
\* would find the same event again and again and never return.
BusyIsNotWatched ==
    pc = "idle" => \A c \in Connections :
       IsOpen(c) /\ conn[c].call # NoCall => "IN" \notin conn[c].current_events_mask

\* Outside dispatch_connection, a connection with unsent data is watched
\* for room in its socket (service.c:539, service.c:660).
OutputArmed ==
    pc = "idle" => \A c \in Connections :
       conn[c].stream.out # <<>> => "OUT" \in conn[c].current_events_mask

\* A call that is sent is answered, unless the connection ends first.
Answered(c, i) ==
    \E j \in DOMAIN MessagesIn(client[c].got) :
       LET m == MessagesIn(client[c].got)[j]
       IN m.call = i /\ m.kind # "continues"

EveryCallAnswered ==
    \A c \in Connections, i \in CallNo :
       (/\ i \in DOMAIN client[c].requests
        /\ Kind(c, i) \in {"plain", "more"})
       ~> (Answered(c, i) \/ conn[c].state = "freed" \/ EOF(c))

\* The connection of a client that is gone is freed (service.c:570).
GoneIsFreed ==
    \A c \in Connections : (IsOpen(c) /\ Gone(c)) ~> conn[c].state = "freed"

-----------------------------------------------------------------------------
(* The promise to each connection.                                         *)

Over(c) == Gone(c) \/ conn[c].state = "freed"

\* The cells of replies that the client has or will get, and the calls that
\* were taken.
Outbox(c) == client[c].got \o (IF Gone(c) THEN <<>> ELSE sock[c].down \o conn[c].stream.out)
Begun(c) == {i \in CallNo : calls[c][i].done \/ conn[c].call = i}

Requested  == [c \in Connections |-> client[c].requests]
Phase      == [c \in Connections |-> IF Over(c) THEN "over" ELSE "open"]
ActiveCall == [c \in Connections |-> IF Over(c) THEN NoCall ELSE conn[c].call]
Served     == [c \in Connections |-> IF Over(c) THEN {} ELSE Begun(c)]
Delivery   == [c \in Connections |-> MessagesIn(Outbox(c))]

Promise == INSTANCE Sessions WITH
    requests <- Requested,
    phase    <- Phase,
    active   <- ActiveCall,
    served   <- Served,
    answers  <- Delivery

\* Whatever the buffers, the socket and the application do, each connection
\* is served as Sessions promises.
KeepsPromise == Promise!Spec
=============================================================================
