----------------------------- MODULE Connection -----------------------------
(***************************************************************************)
(* VarlinkConnection (lib/connection.c): the client's end of a connection. *)
(* Calls are written to the stream and their callbacks queued; messages    *)
(* that are read are replies to the call at the head of the queue.         *)
(*                                                                         *)
(* The program counter is where varlink_connection_process_events is       *)
(* between two system calls: "idle" is the program's main loop, "read" the *)
(* reading loop, "callback" the callback of a call.  The server at the     *)
(* other end is external: it replies in order, unless it sends one of the  *)
(* messages of Noise, and closes the connection at any time.               *)
(***************************************************************************)
EXTENDS Stream, FiniteSets

CONSTANTS Kinds,         \* the kinds of calls the program makes
          MaxCalls,      \* bound: calls
          MaxReplies,    \* bound: replies to a call
          MaxNoise,      \* bound: messages of Noise
          SocketSize,    \* cells a socket buffers, each way
          Noise,         \* messages that break the protocol
          GiveUp,        \* the program makes no call after an error
          CallbackFails  \* callbacks may return an error

AllKinds == {"plain", "more", "oneway"}
AllNoise == {"badjson", "badreply", "endless", "continues", "final"}

ASSUME ConnectionAssumption ==
    /\ Kinds \subseteq AllKinds /\ Noise \subseteq AllNoise
    /\ MaxCalls \in Nat \ {0} /\ MaxReplies \in Nat \ {0} /\ MaxNoise \in Nat
    /\ SocketSize \in Nat \ {0}
    /\ {GiveUp, CallbackFails} \subseteq BOOLEAN

VARIABLES stream,   \* the VarlinkStream; meaningful while open
          open,     \* connection->stream is not NULL
          events,   \* what the program polls for
          pending,  \* the queue of ReplyCallbacks
          pc, reply,  \* the process_events in progress, the message it handles
          program,  \* the program: the calls it made, what it was told
          server,   \* the server at the other end
          sock      \* the socket's cells, to (up) and from (down) the server

vars == <<stream, open, events, pending, pc, reply, program, server, sock>>

CallNo   == 1..MaxCalls
NoCall   == 0
NoReply  == [call |-> NoCall, kind |-> "none"]
Messages == [call : CallNo \cup {NoCall},
             kind : {"final", "continues"} \cup AllNoise]

RequestSize == 2
ReplySize(m) == IF m.kind = "endless" THEN BufferSize + 1 ELSE 2

ServerGone == server.peer = "closed"
Room == SocketSize - Len(sock.up)

\* The program is told of an error, by the return value of a call or of
\* process_events.
Told(p) == [p EXCEPT !.failed = TRUE]

-----------------------------------------------------------------------------
(* varlink_connection_call                                                 *)

InProgram == pc \in {"idle", "callback"}

\* The callback is queued, and replies are polled for, before the message is
\* written.
QueueHead(queue, entry) == <<entry>> \o queue
QueueTail(queue, entry) == Append(queue, entry)
Queued(kind) ==
    IF kind = "oneway" THEN pending
    ELSE QueueTail(pending, [call |-> Len(program.calls) + 1, more |-> kind = "more"])

\* The message does not fit behind the output that waits.
CallFails(kind) ==
    /\ ~Fits(stream, RequestSize)
    /\ program' = [Told(program) EXCEPT !.calls = Append(@, [kind |-> kind, sent |-> FALSE])]
    /\ events' = events \cup (IF kind = "oneway" THEN {} ELSE {"IN"})
    /\ UNCHANGED <<stream, sock>>

CallNoOut(o) == {}
CallOut(o) == IF o.whole THEN {} ELSE {"OUT"}

CallSent(kind) ==
    /\ Fits(stream, RequestSize)
    /\ \E o \in WriteOutcomes(stream, Len(program.calls) + 1, RequestSize, Room, ServerGone) :
         /\ stream' = o.stream
         /\ sock' = [sock EXCEPT !.up = @ \o o.sent]
         /\ events' = events \cup (IF kind = "oneway" THEN {} ELSE {"IN"}) \cup CallOut(o)
    /\ program' = [program EXCEPT !.calls = Append(@, [kind |-> kind, sent |-> TRUE])]

Call(kind) ==
    /\ InProgram /\ open
    /\ Len(program.calls) < MaxCalls
    /\ GiveUp => ~program.failed
    /\ CallFails(kind) \/ CallSent(kind)
    /\ pending' = Queued(kind)
    /\ UNCHANGED <<open, pc, reply, server>>

-----------------------------------------------------------------------------
(* varlink_connection_close, and what happens to the socket: the server    *)
(* sees its end, what it sent is lost.                                     *)

Freed == /\ open' = FALSE
         /\ stream' = NewStream
         /\ sock' = [sock EXCEPT !.down = <<>>]

Close ==
    /\ InProgram /\ open
    /\ Freed
    /\ program' = [program EXCEPT !.closedCallback = TRUE]
    /\ UNCHANGED <<events, pending, pc, reply, server>>

-----------------------------------------------------------------------------
(* varlink_connection_process_events                                       *)

\* What poll reports; HUP is reported whatever the program polls for.
Ready ==
    (events \cap ((IF sock.down # <<>> \/ ServerGone THEN {"IN"} ELSE {})
                  \cup (IF Room > 0 \/ ServerGone THEN {"OUT"} ELSE {})))
    \cup (IF ServerGone THEN {"HUP"} ELSE {})

\* It returns a negative value.
ReturnError ==
    /\ pc' = "idle" /\ reply' = NoReply
    /\ program' = Told(program)

\* It begins with the output that waits.
ProcessEvents ==
    /\ pc = "idle" /\ open /\ Ready # {}
    /\ pc' = "read"
    /\ "OUT" \notin Ready
    /\ UNCHANGED <<stream, open, events, pending, reply, program, server, sock>>

FlushedMaskAlways(mask, result) == mask \ {"OUT"}
FlushedMask(mask, result) == IF result = "empty" THEN mask \ {"OUT"} ELSE mask

ProcessOutput ==
    /\ pc = "idle" /\ open /\ "OUT" \in Ready
    /\ \E o \in FlushOutcomes(stream, Room, ServerGone) :
         /\ stream' = o.stream
         /\ sock' = [sock EXCEPT !.up = @ \o o.sent]
         /\ events' = FlushedMask(events, o.result)
         /\ IF o.result = "error" THEN ReturnError
            ELSE pc' = "read" /\ UNCHANGED <<reply, program>>
    /\ UNCHANGED <<open, pending, server>>

\* The end of the loop: no call is pending, nothing is polled for.
EndMask(queue) == IF queue = <<>> THEN events \ {"IN"} ELSE events

\* The end of the socket was seen by this read or by an earlier write: the
\* stream is freed.
HangUp ==
    /\ Freed /\ ReturnError
    /\ UNCHANGED <<events, pending, server>>

\* varlink_stream_read without a message in its buffer
ReadSocket ==
    /\ pc = "read"
    /\ ~HasMessage(stream) /\ ~Overlong(stream) /\ sock.down # <<>>
    /\ stream' = Received(stream, sock.down)
    /\ sock' = [sock EXCEPT !.down = Drop(@, ReadSize(stream, sock.down))]
    /\ UNCHANGED <<open, events, pending, pc, reply, program, server>>

ReadNothing ==
    /\ pc = "read"
    /\ ~HasMessage(stream) /\ ~Overlong(stream) /\ sock.down = <<>>
    /\ IF ServerGone \/ stream.hup
       THEN HangUp
       ELSE /\ pc' = "idle"
            /\ events' = EndMask(pending)
            /\ UNCHANGED <<stream, open, pending, reply, program, server, sock>>

\* A full buffer without a message, or text that is not a JSON object.  The
\* text stays in the buffer.
ReadInvalid ==
    /\ pc = "read"
    /\ \/ Overlong(stream)
       \/ \E o \in Delivered(stream) : o.message.kind = "badjson"
    /\ ReturnError
    /\ UNCHANGED <<stream, open, events, pending, server, sock>>

\* A message after the end of the socket is dropped.
ReadTooLate ==
    /\ pc = "read" /\ stream.hup
    /\ \E o \in Delivered(stream) : o.message.kind # "badjson"
    /\ HangUp

\* There is no call for the reply, it is no reply, or it continues what did
\* not ask for more.
WantsMore == pending # <<>> /\ Head(pending).more

UnexpectedUnchecked(m) == pending = <<>> \/ (m.kind = "continues" /\ ~WantsMore)
Unexpected(m) ==
    \/ pending = <<>>
    \/ m.kind = "badreply"
    \/ m.kind = "continues" /\ ~WantsMore

ReadUnexpected ==
    /\ pc = "read" /\ ~stream.hup
    /\ \E o \in Delivered(stream) :
         /\ o.message.kind # "badjson" /\ Unexpected(o.message)
         /\ stream' = o.stream
    /\ ReturnError
    /\ UNCHANGED <<open, events, pending, server, sock>>

\* The callback of the oldest call is executed.
ReadReply ==
    /\ pc = "read" /\ ~stream.hup
    /\ \E o \in Delivered(stream) :
         /\ o.message.kind # "badjson" /\ ~Unexpected(o.message)
         /\ stream' = o.stream
         /\ reply' = o.message
         /\ program' = [program EXCEPT !.got =
                          Append(@, [call |-> Head(pending).call, kind |-> o.message.kind])]
    /\ pc' = "callback"
    /\ UNCHANGED <<open, events, pending, server, sock>>

\* It returns, and leaves the queue with its last reply.
RetiredAlways == Tail(pending)
Retired == IF reply.kind = "continues" THEN pending ELSE Tail(pending)

CallbackReturns(ok) ==
    /\ pc = "callback"
    /\ ok \/ CallbackFails
    /\ pending' = Retired
    /\ IF ok /\ open
       THEN pc' = "read" /\ UNCHANGED events
       ELSE pc' = "idle" /\ events' = EndMask(Retired)
    /\ reply' = NoReply
    /\ program' = IF ok THEN program ELSE Told(program)
    /\ UNCHANGED <<stream, open, server, sock>>

Library == \/ ProcessEvents \/ ProcessOutput \/ ReadSocket \/ ReadNothing \/ ReadInvalid
           \/ ReadTooLate \/ ReadUnexpected \/ ReadReply

Program == \/ \E kind \in Kinds : Call(kind)
           \/ Close
           \/ \E ok \in BOOLEAN : CallbackReturns(ok)

-----------------------------------------------------------------------------
(* The server at the other end.                                            *)

\* It takes what the client sent, cell by cell.
ServerReads ==
    /\ server.peer = "open" /\ sock.up # <<>>
    /\ server' = [server EXCEPT !.todo =
                    IF Head(sock.up).nul THEN Append(@, Head(sock.up).msg) ELSE @]
    /\ sock' = [sock EXCEPT !.up = Tail(@)]
    /\ UNCHANGED <<stream, open, events, pending, pc, reply, program>>

Reply(kind, todo, replies) ==
    server' = [server EXCEPT !.todo = todo, !.replies = replies,
                 !.out = @ \o Frame([call |-> Head(server.todo), kind |-> kind], 2)]

\* It replies to the oldest call it has.
ServerReplies ==
    /\ server.peer = "open" /\ server.out = <<>> /\ server.todo # <<>>
    /\ LET kind == program.calls[Head(server.todo)].kind IN
       \/ kind = "oneway" /\ server' = [server EXCEPT !.todo = Tail(@)]
       \/ kind # "oneway" /\ Reply("final", Tail(server.todo), 0)
       \/ /\ kind = "more" /\ server.replies + 1 < MaxReplies
          /\ Reply("continues", server.todo, server.replies + 1)
    /\ UNCHANGED <<stream, open, events, pending, pc, reply, program, sock>>

\* It breaks the protocol.
ServerNoise ==
    /\ server.peer = "open" /\ server.out = <<>> /\ server.noise < MaxNoise
    /\ \E kind \in Noise :
         LET m == [call |-> NoCall, kind |-> kind]
         IN server' = [server EXCEPT !.noise = @ + 1, !.out = Frame(m, ReplySize(m))]
    /\ UNCHANGED <<stream, open, events, pending, pc, reply, program, sock>>

\* Its socket takes what it has room for.
ServerWrites ==
    LET k == Smaller(Len(server.out), SocketSize - Len(sock.down)) IN
    /\ server.peer = "open" /\ open /\ k > 0
    /\ server' = [server EXCEPT !.out = Drop(@, k)]
    /\ sock' = [sock EXCEPT !.down = @ \o Take(server.out, k)]
    /\ UNCHANGED <<stream, open, events, pending, pc, reply, program>>

\* It closes the connection; the reset of the connection may take what it
\* sent before.
ServerCloses ==
    /\ server.peer = "open"
    /\ server' = [server EXCEPT !.peer = "closed", !.out = <<>>, !.todo = <<>>]
    /\ \E down \in {sock.down, <<>>} : sock' = [up |-> <<>>, down |-> down]
    /\ UNCHANGED <<stream, open, events, pending, pc, reply, program>>

Server == ServerReads \/ ServerReplies \/ ServerNoise \/ ServerWrites \/ ServerCloses

-----------------------------------------------------------------------------

Init ==
    /\ stream = NewStream /\ open = TRUE
    /\ events = {} /\ pending = <<>>
    /\ pc = "idle" /\ reply = NoReply
    /\ program = [calls |-> <<>>, got |-> <<>>, failed |-> FALSE, closedCallback |-> FALSE]
    /\ server = [peer |-> "open", todo |-> <<>>, replies |-> 0, out |-> <<>>, noise |-> 0]
    /\ sock = [up |-> <<>>, down |-> <<>>]

Next == Library \/ Program \/ Server

Spec == Init /\ [][Next]_vars

\* The program's main loop calls process_events when poll reports events,
\* its callbacks return, and the server takes its calls and answers them.
Fairness ==
    /\ WF_vars(Library)
    /\ WF_vars(\E ok \in BOOLEAN : CallbackReturns(ok))
    /\ WF_vars(ServerReads) /\ WF_vars(ServerReplies) /\ WF_vars(ServerWrites)

FairSpec == Spec /\ Fairness

-----------------------------------------------------------------------------
(* Properties.                                                             *)

RequestCells == [msg : CallNo, nul : BOOLEAN]
ReplyCells == [msg : Messages, nul : BOOLEAN]
Entries == [call : CallNo, more : BOOLEAN]

\* Every variable has its type.
TypeOK ==
    /\ stream \in [in : Seq(ReplyCells), out : Seq(RequestCells), hup : BOOLEAN]
    /\ open \in BOOLEAN
    /\ events \subseteq {"IN", "OUT"}
    /\ pending \in Seq(Entries)
    /\ pc \in {"idle", "read", "callback"}
    /\ reply \in Messages \cup {NoReply}
    /\ program \in [calls : Seq([kind : Kinds, sent : BOOLEAN]),
                    got : Seq([call : CallNo, kind : {"final", "continues"}]),
                    failed : BOOLEAN, closedCallback : BOOLEAN]
    /\ server \in [peer : {"open", "closed"}, todo : Seq(CallNo), replies : 0..MaxReplies,
                   out : Seq(ReplyCells), noise : 0..MaxNoise]
    /\ sock \in [up : Seq(RequestCells), down : Seq(ReplyCells)]

\* In the main loop, a connection that waits for a reply or has output left
\* is polled for it: it cannot stall (varlink_connection_get_events).
WaitsAreArmed ==
    open => /\ pending # <<>> => "IN" \in events
            /\ stream.out # <<>> => "OUT" \in events

\* Outside the callbacks, the calls that are queued are those that got no
\* last reply, whatever the server sends and whichever callbacks fail: a
\* callback is neither freed early nor executed after the last reply
\* (varlink_connection_process_events).
QueueIsUnanswered ==
    LET over(i) == \E j \in DOMAIN program.got :
                      program.got[j].call = i /\ program.got[j].kind = "final"
        queued == {pending[k].call : k \in DOMAIN pending}
    IN pc # "callback" =>
         queued = {i \in DOMAIN program.calls : program.calls[i].kind # "oneway" /\ ~over(i)}

\* The reply that executes a callback is the reply to its call
\* (varlink.h:416), as long as the server keeps to the protocol.
ReplyReachesItsCallback ==
    pc = "callback" /\ server.noise = 0 => reply.call = Head(pending).call

\* The program learns through its closed callback that the connection is
\* closed (varlink.h:386).
ClosedIsReported == ~open => program.closedCallback

\* A call that was sent gets its last reply, unless the connection ends or
\* an error is reported.
EveryCallAnswered ==
    \A i \in CallNo :
       (i \in DOMAIN program.calls /\ program.calls[i].kind # "oneway")
       ~> \/ \E j \in DOMAIN program.got :
               program.got[j].call = i /\ program.got[j].kind = "final"
          \/ ~open \/ ServerGone \/ program.failed

\* The program sees its calls answered as Replies promises, as long as the
\* server keeps to the protocol and the connection is open.
Over == ~open \/ server.noise > 0

Promise == INSTANCE Replies WITH
    issued <- IF Over THEN <<>>
              ELSE [i \in DOMAIN program.calls |->
                      IF program.calls[i].sent THEN program.calls[i].kind ELSE "void"],
    got    <- IF Over THEN <<>> ELSE program.got

KeepsPromise == Promise!Spec
=============================================================================
