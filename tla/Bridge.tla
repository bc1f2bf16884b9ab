------------------------------- MODULE Bridge -------------------------------
(***************************************************************************)
(* The command bridge (tool/command-bridge.c): a client on standard in and *)
(* out reaches every service of a machine.  Each call is forwarded on a    *)
(* connection of its own to the service that the resolver names            *)
(* (handleBridge), or, with the address of one service, bytes are copied   *)
(* in both directions (handleDirectBridge, varlink_stream_bridge).         *)
(*                                                                         *)
(* A message is one cell of a pipe or a socket here: how streams put       *)
(* messages together is the subject of Stream.                             *)
(***************************************************************************)
EXTENDS Cli, SequencesExt

CONSTANTS Garbage,      \* what is no call: badjson, badcall
          Methods,      \* how a method is found, see Forward
          MaxCalls,     \* bound: messages of the client
          CopySize,     \* messages that fit in the buffer of the copy
          SocketSize,   \* messages that the service's socket takes, each way
          ShortWrites   \* write(2) to a blocking descriptor may take a part

AllMethods == {"near", "far", "bad", "incomplete"}

ASSUME BridgeAssumption ==
    /\ Garbage \subseteq {"badjson", "badcall"} /\ Methods \subseteq AllMethods
    /\ MaxCalls \in Nat \ {0} /\ CopySize \in Nat \ {0} /\ SocketSize \in Nat \ {0}
    /\ ShortWrites \in BOOLEAN

VARIABLES asked,  \* the kinds of the client's messages, oldest first
          stdin,  \* those that are in the pipe, and in the stream's buffer
          copy,   \* the copy in progress of varlink_stream_bridge
          server  \* the service at the other end of the direct bridge

vars == <<command, pc, goal, status, task, link, reply, signals, peer, faults, client,
          answers, asked, stdin, copy, server>>

cliOnly    == <<asked, stdin, copy, server>>
directOnly == <<copy, server>>

NoCopy   == [events |-> <<>>, holding |-> <<>>]
NoServer == [up |-> <<>>, got |-> <<>>, sent |-> 0, down |-> <<>>, gone |-> FALSE]

-----------------------------------------------------------------------------
(* handleBridge                                                            *)

AtEndNever == FALSE
AtEnd == stdin.pipe = <<>> /\ stdin.closed

\* varlink_stream_read: a message, more of them, the end, or nothing.
BridgeRead ==
    /\ pc = "read" /\ stdin.buffer = <<>>
    /\ \/ /\ stdin.pipe # <<>>
          /\ \E n \in DOMAIN stdin.pipe :
               stdin' = [stdin EXCEPT !.buffer = SubSeq(stdin.pipe, 1, n),
                                      !.pipe = SubSeq(@, n + 1, Len(@))]
          /\ UNCHANGED <<pc, status>>
       \/ /\ AtEnd
          /\ Exit("ok") /\ UNCHANGED stdin
       \/ /\ stdin.pipe = <<>> /\ ~AtEnd
          /\ pc' = "wait" /\ UNCHANGED <<status, stdin>>
    /\ UNCHANGED <<command, goal, task, link, reply, signals, peer, faults, client,
                   answers, asked, directOnly>>

\* epoll_wait on standard in and the signals, without a timeout.
BridgeWake ==
    /\ pc = "wait" /\ (stdin.pipe # <<>> \/ stdin.closed)
    /\ pc' = "read"
    /\ UNCHANGED <<command, goal, status, task, link, reply, signals, peer, faults,
                   client, answers, asked, stdin, directOnly>>

BridgeSignal ==
    /\ pc = "wait" /\ signals # {}
    /\ Exit("canceled")
    /\ UNCHANGED <<command, goal, task, link, reply, signals, peer, faults, client,
                   answers, asked, stdin, directOnly>>

\* What becomes of a call.  GetInfo, and everything of the resolver, has an
\* address ("near"); a method that is no name is answered, and one that asks
\* for the description of no interface is not.
Forward(t) ==
    CASE t.method = "bad"        -> pc' = "refuse" /\ status' = "invalid"
      [] t.method = "incomplete" -> Exit("missing")
      [] OTHER                   -> pc' = "connect" /\ UNCHANGED status

\* A message is taken from the buffer and unpacked.
BridgeTake ==
    /\ pc = "read" /\ stdin.buffer # <<>>
    /\ stdin' = [stdin EXCEPT !.buffer = Tail(@)]
    /\ LET m == Head(stdin.buffer)
       IN  \/ /\ m.kind \in Garbage
              /\ Exit(IF m.kind = "badjson" THEN "panic" ELSE "invalid")
              /\ UNCHANGED <<task, goal>>
           \/ /\ m.kind \in CallKinds
              /\ task' = m /\ goal' = FirstGoal(m)
              /\ Forward(m)
    /\ UNCHANGED <<command, link, reply, signals, peer, faults, client, answers,
                   asked, directOnly>>

\* The bridge answers by itself, and then gives up.
BridgeRefuse ==
    /\ pc = "refuse"
    /\ Print_("error")
    /\ pc' = "refused"
    /\ UNCHANGED <<command, goal, status, task, link, reply, peer, faults, asked,
                   stdin, directOnly>>

BridgeGivesUp ==
    /\ pc = "refused"
    /\ pc' = "exit"
    /\ UNCHANGED <<command, goal, status, task, link, reply, signals, peer, faults,
                   client, answers, asked, stdin, directOnly>>

MayGoOnAlways == TRUE
MayGoOn == status = "ok"

\* cli_process_all_events returns: on with the next call, or not.
BridgeReturn ==
    /\ pc = "return" /\ goal = "call" /\ Bridging
    /\ FreeConnection
    /\ IF MayGoOn THEN pc' = "read" /\ task' = NoTask ELSE pc' = "exit" /\ UNCHANGED task
    /\ UNCHANGED <<command, goal, status, reply, signals, faults, client, answers,
                   asked, stdin, directOnly>>

-----------------------------------------------------------------------------
(* varlink_stream_bridge                                                   *)

\* The connection to the service is made, or not.
CopyBegin ==
    /\ pc = "begin" /\ command = "direct"
    /\ \/ pc' = "copy" /\ UNCHANGED status
       \/ Exit("connect")
    /\ UNCHANGED <<command, goal, task, link, reply, signals, peer, faults, client,
                   answers, asked, stdin, directOnly>>

HungUp(side) == IF side = "client" THEN stdin.closed ELSE server.gone
Source(side) == IF side = "client" THEN stdin.pipe ELSE server.down

CopyReadyServer ==
    {side \in {"server"} : Source(side) # <<>> \/ HungUp(side)}
      \cup (IF signals # {} THEN {"signal"} ELSE {})
CopyReady == {side \in {"client", "server"} : Source(side) # <<>> \/ HungUp(side)}
               \cup (IF signals # {} THEN {"signal"} ELSE {})

\* epoll_wait returns everything that is ready, and whether it hung up, which a
\* pipe does, but not a socket of which only one direction was shut down.
CopyWait ==
    /\ pc = "copy" /\ copy.events = <<>> /\ CopyReady # {}
    /\ \E order \in SetToSeqs(CopyReady), hups \in SUBSET {"client", "server"} :
         /\ \A side \in hups : HungUp(side)
         /\ copy' = [copy EXCEPT !.events =
                       [i \in DOMAIN order |-> [side |-> order[i], hup |-> order[i] \in hups]]]
    /\ UNCHANGED <<command, pc, goal, status, task, link, reply, signals, peer,
                   faults, client, answers, asked, stdin, server>>

\* A signal, and an end before which there is nothing to read.
EndsOnHangUp(e) == e.side = "signal" \/ Source(e.side) = <<>> \/ e.hup
Ends(e) == e.side = "signal" \/ Source(e.side) = <<>>

CopyEnd ==
    /\ pc = "copy" /\ copy.events # <<>>
    /\ Ends(Head(copy.events))
    /\ Exit("ok")
    /\ UNCHANGED <<command, goal, task, link, reply, signals, peer, faults, client,
                   answers, asked, stdin, directOnly>>

CopyLength(avail) == IF avail < CopySize THEN avail ELSE CopySize

CopyRead ==
    /\ pc = "copy" /\ copy.events # <<>>
    /\ LET side == Head(copy.events).side
           from == Source(side)
           n    == CopyLength(Len(from))
           rest == SubSeq(from, n + 1, Len(from))
       IN  /\ side # "signal" /\ from # <<>>
           /\ copy' = [copy EXCEPT !.holding = SubSeq(from, 1, n)]
           /\ IF side = "client"
              THEN stdin' = [stdin EXCEPT !.pipe = rest] /\ UNCHANGED server
              ELSE server' = [server EXCEPT !.down = rest] /\ UNCHANGED stdin
    /\ pc' = "push"
    /\ UNCHANGED <<command, goal, status, task, link, reply, signals, peer, faults,
                   client, answers, asked>>

Minimum(a, b) == IF a < b THEN a ELSE b

\* What is written goes to the server's socket, or to standard out.
Put(cells) ==
    IF Head(copy.events).side = "client"
    THEN /\ server' = [server EXCEPT !.up = @ \o cells]
         /\ UNCHANGED <<client, answers>>
    ELSE /\ client' = [client EXCEPT !.unread = @ + Len(cells)]
         /\ answers' = answers \o cells
         /\ UNCHANGED server

Room == IF Head(copy.events).side = "client" THEN SocketSize - Len(server.up)
                                             ELSE PipeSize - client.unread
Broken == IF Head(copy.events).side = "client" THEN server.gone ELSE client.gone

\* write(2) blocks until everything is taken.  If it takes a part, the loop
\* counts what it took, but writes the start of its buffer again.
AfterWriteSame(cells, n) == SubSeq(cells, 1, Len(cells) - n)
AfterWrite(cells, n) ==
    IF ShortWrites THEN SubSeq(cells, 1, Len(cells) - n) ELSE SubSeq(cells, n + 1, Len(cells))

CopyWrite ==
    /\ pc = "push" /\ copy.holding # <<>> /\ ~Broken
    /\ \E n \in 1..Minimum(Room, Len(copy.holding)) :
         /\ Put(SubSeq(copy.holding, 1, n))
         /\ copy' = [copy EXCEPT !.holding = AfterWrite(copy.holding, n)]
    /\ UNCHANGED <<command, pc, goal, status, task, link, reply, signals, peer,
                   faults, asked, stdin>>

\* The side that was read hung up, or the other does not take the data.
CopyWritten ==
    /\ pc = "push" /\ (copy.holding = <<>> \/ Broken)
    /\ IF copy.holding # <<>> \/ Head(copy.events).hup
       THEN Exit("ok") /\ UNCHANGED copy
       ELSE /\ pc' = "copy" /\ UNCHANGED status
            /\ copy' = [copy EXCEPT !.events = Tail(@)]
    /\ UNCHANGED <<command, goal, task, link, reply, signals, peer, faults, client,
                   answers, asked, stdin, server>>

CopySteps == CopyBegin \/ CopyWait \/ CopyEnd \/ CopyRead \/ CopyWrite \/ CopyWritten

-----------------------------------------------------------------------------
(* The client, and the service at the other end of the direct bridge.      *)

ToolRuns == pc # "exit"

\* What comes while the tool does not look at standard in makes no difference
\* before it looks again.
Looks == pc \in {"read", "wait", "copy"}

Ask(kind, method) ==
    /\ Looks /\ ~stdin.closed /\ Len(asked) < MaxCalls
    /\ LET m == [no |-> Len(asked) + 1, kind |-> kind, method |-> method]
       IN  /\ asked' = Append(asked, kind)
           /\ stdin' = [stdin EXCEPT !.pipe = Append(@, m)]
    /\ UNCHANGED <<command, pc, goal, status, task, link, reply, signals, peer,
                   faults, client, answers, directOnly>>

CloseIn ==
    /\ Looks /\ ~stdin.closed
    /\ stdin' = [stdin EXCEPT !.closed = TRUE]
    /\ UNCHANGED <<command, pc, goal, status, task, link, reply, signals, peer,
                   faults, client, answers, asked, directOnly>>

\* The client goes away, with both ends.
Leave ==
    /\ ToolRuns /\ ~client.gone /\ Fault
    /\ client' = [client EXCEPT !.gone = TRUE]
    /\ stdin' = [stdin EXCEPT !.closed = TRUE]
    /\ UNCHANGED <<command, pc, goal, status, task, link, reply, signals, peer,
                   answers, asked, directOnly>>

ReadOut ==
    /\ ~client.gone /\ client.unread > 0
    /\ client' = [client EXCEPT !.unread = @ - 1]
    /\ UNCHANGED <<command, pc, goal, status, task, link, reply, signals, peer,
                   faults, answers, asked, stdin, directOnly>>

ServerReads ==
    /\ server.up # <<>> /\ ~server.gone
    /\ server' = [server EXCEPT !.up = Tail(@), !.got = Append(@, Head(server.up))]
    /\ UNCHANGED <<command, pc, goal, status, task, link, reply, signals, peer,
                   faults, client, answers, asked, stdin, copy>>

Output(i) == [call |-> 0, n |-> i, kind |-> "bytes"]

ServerSends ==
    /\ ~server.gone /\ Len(server.down) < SocketSize /\ server.sent < MaxReplies
    /\ server' = [server EXCEPT !.sent = @ + 1, !.down = Append(@, Output(server.sent + 1))]
    /\ UNCHANGED <<command, pc, goal, status, task, link, reply, signals, peer,
                   faults, client, answers, asked, stdin, copy>>

ServerCloses ==
    /\ ~server.gone
    /\ server' = [server EXCEPT !.gone = TRUE]
    /\ UNCHANGED <<command, pc, goal, status, task, link, reply, signals, peer,
                   faults, client, answers, asked, stdin, copy>>

DirectEnv == command = "direct" /\ ToolRuns /\ (ServerReads \/ ServerSends \/ ServerCloses)

-----------------------------------------------------------------------------
\* A command line asks for one call, whose address is given or not.
Started(t) == CASE command = "call"              -> t.kind \in {"plain", "more"}
                [] command \in {"help", "resolve"} -> t.kind = "plain"
                [] OTHER                         -> t = NoTask

Init ==
    /\ command \in Commands
    /\ task \in {NoTask} \cup [no : {1}, kind : {"plain", "more"}, method : {"near", "far"}]
    /\ Started(task)
    /\ pc = (IF command = "bridge" THEN "read" ELSE "begin")
    /\ goal = "call" /\ status = "ok" /\ reply = "none"
    /\ link = NoLink /\ peer = NoPeer /\ faults = 0 /\ signals = {}
    /\ client = [unread |-> 0, gone |-> FALSE] /\ answers = <<>>
    /\ asked = <<>> /\ stdin = [pipe |-> <<>>, buffer |-> <<>>, closed |-> FALSE]
    /\ copy = NoCopy /\ server = NoServer

BridgeSteps == \/ BridgeRead \/ BridgeWake \/ BridgeTake \/ BridgeRefuse
               \/ BridgeGivesUp \/ BridgeReturn

Program == \/ CliSteps /\ UNCHANGED cliOnly
           \/ BridgeSteps
           \/ CopySteps
Signaled == (LoopSignal /\ UNCHANGED cliOnly) \/ BridgeSignal
Services == PeerSteps /\ UNCHANGED cliOnly
Client   == \/ command = "bridge" /\ \E kind \in CallKinds, method \in Methods : Ask(kind, method)
            \/ command = "bridge" /\ \E kind \in Garbage : Ask(kind, "none")
            \/ command = "direct" /\ Ask("plain", "near")
            \/ CloseIn \/ Leave \/ ReadOut

Next == \/ Program \/ Signaled \/ Services \/ Client
        \/ DirectEnv
        \/ ((SendSignal \/ LoopTimeout) /\ UNCHANGED cliOnly)

Spec == Init /\ [][Next]_vars

\* The process runs; epoll hands out a signal sooner or later; services read
\* and answer; who reads standard out goes on reading.
Fairness ==
    /\ WF_vars(Program) /\ SF_vars(Signaled)
    /\ SF_vars(PeerReads /\ UNCHANGED cliOnly)
    /\ SF_vars(PeerAnswers /\ UNCHANGED cliOnly)
    /\ WF_vars(ReadOut)
    /\ WF_vars(command = "direct" /\ ToolRuns /\ ServerReads)

FairSpec == Spec /\ Fairness

-----------------------------------------------------------------------------
(* Properties                                                              *)

Requests == [no : 1..MaxCalls, kind : AllCallKinds \cup Garbage, method : AllMethods \cup {"none"}]
Outputs  == [call : {0}, n : 1..MaxReplies, kind : {"bytes"}]
Answers  == [call : 0..MaxCalls, n : Nat, kind : ReplyKinds \cup {"bytes"}]
Events   == [side : {"client", "server", "signal"}, hup : BOOLEAN]

TypeOK ==
    /\ command \in Commands
    /\ pc \in {"begin", "connect", "write", "loop", "handle", "return", "exit", "read",
               "wait", "refuse", "refused", "copy", "push"}
    /\ goal \in {"resolve", "call"} /\ status \in Codes
    /\ task \in Requests \cup {NoTask}
    /\ link \in [open : BOOLEAN, pending : BOOLEAN, events : SUBSET {"IN", "OUT"}]
    /\ reply \in ReplyKinds \cup {"none"}
    /\ signals \subseteq {"TERM", "PIPE"}
    /\ peer \in [asked : BOOLEAN, room : BOOLEAN, replies : Seq(ReplyKinds \cup Noise),
                 given : Nat, over : BOOLEAN, gone : BOOLEAN]
    /\ faults \in 0..MaxFaults
    /\ client \in [unread : 0..PipeSize, gone : BOOLEAN]
    /\ answers \in Seq(Answers)
    /\ asked \in Seq(AllCallKinds \cup Garbage) /\ Len(asked) <= MaxCalls
    /\ stdin \in [pipe : Seq(Requests), buffer : Seq(Requests), closed : BOOLEAN]
    /\ copy \in [events : Seq(Events), holding : Seq(Requests) \cup Seq(Outputs)]
    /\ server \in [up : Seq(Requests), got : Seq(Requests), sent : 0..MaxReplies,
                   down : Seq(Outputs), gone : BOOLEAN]
    /\ Len(server.up) <= SocketSize /\ Len(server.down) <= SocketSize
    /\ Len(copy.holding) <= CopySize

Answered(i) == \E j \in DOMAIN answers : answers[j].call = i /\ answers[j].kind # "continues"

\* The exit code tells what became of the calls.  A bridge that ends well has
\* answered every call it was sent; a bridge or a call that fails for the
\* connection, the time or a signal has not printed a last reply to the call
\* it was working on; help that ends well has what it asked for, and tells an
\* error of the service from one of the connection.
ExitTellsOutcome ==
    pc = "exit" =>
       /\ command = "bridge" /\ status = "ok" /\ ~client.gone =>
            \A i \in DOMAIN asked : asked[i] \in {"plain", "more"} => Answered(i)
       /\ command \in {"bridge", "call"} /\ status \in {"timeout", "closed", "callfailed", "canceled"}
            => ~Answered(task.no) \/ goal = "resolve"
       /\ command = "help" => /\ status = "ok" <=> reply = "final" /\ goal = "call"
                              /\ status = "remote" => reply = "error"

HeldFrom(side) ==
    IF copy.events # <<>> /\ Head(copy.events).side = side THEN copy.holding ELSE <<>>

\* The direct bridge neither loses, nor repeats, nor reorders what it copies,
\* in either direction, as long as it runs.
CopyKeepsAll ==
    command = "direct" /\ pc # "exit" =>
       LET up   == server.got \o server.up \o HeldFrom("client") \o stdin.pipe
           down == answers \o HeldFrom("server") \o server.down
       IN  /\ Len(up) = Len(asked) /\ \A i \in DOMAIN up : up[i].no = i
           /\ Len(down) = server.sent /\ \A i \in DOMAIN down : down[i].n = i

\* When the client of a direct bridge shuts down standard in, what it sent before
\* still reaches the service, unless a signal or the other side ended the copy.
\* That is so as long as it all fits in the buffer: one read follows a hang-up.
HangUpIsDrained ==
    (command = "direct" /\ pc = "exit" /\ status = "ok"
       /\ signals = {} /\ ~server.gone /\ ~client.gone /\ Len(asked) <= CopySize)
    => Len(server.got) + Len(server.up) = Len(asked)

\* To its client, a bridge is a service: it serves calls one at a time and in
\* order, and answers them as Sessions says, whatever the resolver and the
\* services behind it do.  A call with both flags gets one last reply, if any.
Promised(kind) == IF kind = "both" THEN "plain" ELSE kind
Over  == pc = "exit" \/ client.gone
Taken == Len(asked) - Len(stdin.pipe) - Len(stdin.buffer)
Active == IF Over \/ task.kind \notin CallKinds \/ Answered(task.no)
          THEN 0 ELSE task.no
OfBridge(value, otherwise) ==
    [c \in {"client"} |-> IF command = "bridge" THEN value ELSE otherwise]

Requested  == OfBridge([i \in DOMAIN asked |-> Promised(asked[i])], <<>>)
Phase      == OfBridge(IF Over THEN "over" ELSE "open", "open")
ActiveCall == OfBridge(Active, 0)
Served     == OfBridge(IF Over THEN {} ELSE {i \in 1..Taken : asked[i] \in CallKinds}, {})
Printed    == OfBridge(answers, <<>>)

Promise == INSTANCE Sessions WITH
    Connections <- {"client"},
    Kinds       <- AllCallKinds \cup Garbage,
    requests    <- Requested,
    phase       <- Phase,
    active      <- ActiveCall,
    served      <- Served,
    answers     <- Printed

KeepsPromise == Promise!Spec

\* A oneway call that was not written at once: its connection has no events
\* any more when it is, and cli_process_all_events waits for them.
Stalled == pc = "loop" /\ Kind = "oneway" /\ link.events = {}

\* A call that a client sends to the bridge is answered, unless the bridge
\* gives up, its client leaves, or a oneway call before it stalls.
EveryCallAnswered ==
    \A i \in 1..MaxCalls :
       (command = "bridge" /\ i <= Len(asked) /\ asked[i] \in {"plain", "more"})
          ~> (Answered(i) \/ Over \/ Stalled)

\* SIGTERM and SIGINT, which are blocked and read from a descriptor, end the
\* tool whatever it is waiting for; so does SIGPIPE, if the tool waits again.
SignalEndsIt == (signals # {}) ~> (pc = "exit")

\* A bridge does not outlive its client, whichever of its loops it is in.
GoneClientEndsIt == (command \in {"bridge", "direct"} /\ client.gone) ~> (pc = "exit" \/ Stalled)

\* What the client of a direct bridge sends reaches the service.
EveryMessageCopied ==
    \A i \in 1..MaxCalls :
       (command = "direct" /\ i <= Len(asked)) ~> (i <= Len(server.got) \/ pc = "exit")
=============================================================================
