-------------------------------- MODULE Cli ---------------------------------
(***************************************************************************)
(* The command line tool (tool/cli.c and the commands call, help and       *)
(* resolve): one process that resolves an interface, connects, makes one   *)
(* call, and waits in an event loop for its replies, a signal or the       *)
(* timeout.                                                                *)
(*                                                                         *)
(* pc is where the process is between two system calls; goal is what its   *)
(* connection is for: "resolve" is the call of cli_resolve to the          *)
(* resolver, "call" the call itself.  The resolver and the services are    *)
(* external: they answer in order, break the protocol, or close.           *)
(* A connection carries one call, and so its queue of callbacks is a flag. *)
(***************************************************************************)
EXTENDS Naturals, Sequences, FiniteSets

CONSTANTS Commands,    \* the commands that are run
          CallKinds,   \* the kinds of calls: plain, more, oneway, both
          MaxReplies,  \* bound: continued replies to a call
          MaxFaults,   \* bound: messages of Noise, ends and signals, for the whole run
          Noise,       \* messages of a service that break the protocol
          PipeSize     \* replies that standard out takes unread

AllCommands  == {"call", "help", "resolve", "bridge", "direct"}
AllCallKinds == {"plain", "more", "oneway", "both"}
AllNoise     == {"badjson", "badreply", "continues"}
ReplyKinds   == {"continues", "final", "error", "address", "empty"}
Codes == {"ok", "canceled", "callfailed", "timeout", "closed", "invalid", "panic",
          "cannotresolve", "connect", "remote", "missing"}

ASSUME CliAssumption ==
    /\ Commands \subseteq AllCommands /\ CallKinds \subseteq AllCallKinds
    /\ Noise \subseteq AllNoise
    /\ MaxReplies \in Nat /\ MaxFaults \in Nat /\ PipeSize \in Nat \ {0}

VARIABLES command,           \* how the tool was started
          pc, goal, status,  \* where it is, what for, and its last result
          task,              \* the call it works on
          link,              \* the VarlinkConnection it waits for
          reply,             \* the Reply of cli_call
          signals,           \* signals that wait in the signalfd
          peer, faults,      \* the other end of link; how often things went wrong
          client, answers    \* who reads standard out; what was written to it

cliVars == <<command, pc, goal, status, task, link, reply, signals,
             peer, faults, client, answers>>

NoTask == [no |-> 0, kind |-> "none", method |-> "none"]
NoLink == [open |-> FALSE, pending |-> FALSE, events |-> {}]
NoPeer == [asked |-> FALSE, room |-> TRUE, replies |-> <<>>, given |-> 0,
           over |-> FALSE, gone |-> FALSE]

\* The tool exits with a code.
Exit(code) == pc' = "exit" /\ status' = code

\* varlink_connection_close by the callback of a last reply.
ClosedNot(l) == [l EXCEPT !.pending = FALSE]
Closed(l) == [l EXCEPT !.open = FALSE, !.pending = FALSE]

-----------------------------------------------------------------------------
(* Standard out.                                                           *)

Given(i) == Cardinality({j \in DOMAIN answers : answers[j].call = i})

\* printf blocks while standard out is full.
MayPrintAlways == TRUE
MayPrint == client.unread < PipeSize

\* A reply is printed.  Nobody is told when standard out is closed, but
\* SIGPIPE is.
Print_(kind) ==
    IF client.gone
    THEN signals' = signals \cup {"PIPE"} /\ UNCHANGED <<answers, client>>
    ELSE /\ MayPrint
         /\ client' = [client EXCEPT !.unread = @ + 1]
         /\ answers' = Append(answers, [call |-> task.no, n |-> Given(task.no) + 1,
                                        kind |-> kind])
         /\ UNCHANGED signals

-----------------------------------------------------------------------------
(* cli_run, cli_connect and varlink_connection_call                        *)

\* Whether an address must be asked for: not when the command line has one
\* ("near"), nor for the resolver itself.
FirstGoal(t) == IF t.method = "far" THEN "resolve" ELSE "call"

Begin ==
    /\ pc = "begin" /\ command \in {"call", "help", "resolve"}
    /\ goal' = FirstGoal(task) /\ pc' = "connect"
    /\ UNCHANGED <<command, status, task, link, reply, signals, peer, faults,
                   client, answers>>

Bridging == command = "bridge"

\* What the tool exits with when it cannot connect or resolve.
ConnectCode(code) ==
    CASE command = "call"    -> "connect"
      [] command = "resolve" -> "cannotresolve"
      [] OTHER               -> code

\* A bridge answers a call that it cannot resolve, and then gives up.
Refuse == pc' = "refuse" /\ status' = "panic"

ConnectFails ==
    /\ pc = "connect"
    /\ IF Bridging
       THEN IF goal = "resolve" THEN Refuse ELSE Exit("panic")
       ELSE Exit(ConnectCode("connect"))
    /\ UNCHANGED <<command, goal, task, link, reply, signals, peer, faults,
                   client, answers>>

\* The socket of a service that is slow may have no room for the call.
Connect ==
    /\ pc = "connect"
    /\ link' = [NoLink EXCEPT !.open = TRUE]
    /\ \E room \in BOOLEAN : peer' = [NoPeer EXCEPT !.room = room]
    /\ pc' = "write"
    /\ UNCHANGED <<command, goal, status, task, reply, signals, faults,
                   client, answers>>

\* The call that is made: cli_call and cli_resolve make plain ones.
Kind == IF goal = "resolve" \/ command \in {"help", "resolve"} THEN "plain" ELSE task.kind

\* varlink_connection_call.  An error of the write is not seen, and looks
\* like output that waits; EPIPE raises SIGPIPE.
WriteCall ==
    /\ pc = "write" /\ Kind # "both"
    /\ \E epipe \in BOOLEAN :
         /\ epipe => peer.gone
         /\ link' = [link EXCEPT !.pending = Kind # "oneway",
                                 !.events = (IF Kind # "oneway" THEN {"IN"} ELSE {})
                                       \cup (IF peer.gone \/ ~peer.room THEN {"OUT"} ELSE {})]
         /\ signals' = signals \cup (IF epipe THEN {"PIPE"} ELSE {})
    /\ peer' = [peer EXCEPT !.asked = ~peer.gone /\ peer.room]
    /\ reply' = "none"
    /\ IF link'.events = {} THEN pc' = "return" /\ status' = "ok"
                            ELSE pc' = "loop" /\ UNCHANGED status
    /\ UNCHANGED <<command, goal, task, faults, client, answers>>

\* A call that asks for more and for nothing is not made.
WriteNothing ==
    /\ pc = "write" /\ Kind = "both"
    /\ Exit(IF Bridging THEN "panic" ELSE "callfailed")
    /\ link' = NoLink /\ peer' = NoPeer
    /\ UNCHANGED <<command, goal, task, reply, signals, faults, client, answers>>

-----------------------------------------------------------------------------
(* cli_process_all_events and, in it, varlink_connection_process_events    *)

\* A peer that is gone is reported whatever was asked for.
Readable == "IN" \in link.events /\ (peer.replies # <<>> \/ peer.gone)
Writable == "OUT" \in link.events /\ (peer.room \/ peer.gone)
Ready    == Readable \/ Writable \/ peer.gone

Returns(code) == pc' = "return" /\ status' = code

OnSignalNothing(s) == UNCHANGED <<pc, status>>
OnSignal(s) == Returns(IF s = "TERM" THEN "canceled" ELSE "callfailed")

LoopSignal ==
    /\ pc = "loop"
    /\ \E s \in signals : signals' = signals \ {s} /\ OnSignal(s)
    /\ UNCHANGED <<command, goal, task, link, reply, peer, faults, client, answers>>

\* epoll_wait returns nothing: the time is over, if --timeout gave one.
LoopTimeout ==
    /\ pc = "loop" /\ ~Ready /\ signals = {}
    /\ Returns("timeout")
    /\ UNCHANGED <<command, goal, task, link, reply, signals, peer, faults,
                   client, answers>>

\* The connection has an event; what waits is flushed before replies are
\* read.  An error of this flush is seen.
LoopEvent ==
    /\ pc = "loop" /\ Ready
    /\ \/ ~Writable /\ pc' = "handle" /\ UNCHANGED <<status, link, signals, peer>>
       \/ /\ Writable /\ ~peer.gone
          /\ link' = [link EXCEPT !.events = @ \ {"OUT"}]
          /\ peer' = [peer EXCEPT !.asked = TRUE]
          /\ pc' = "handle" /\ UNCHANGED <<status, signals>>
       \/ /\ Writable /\ peer.gone
          /\ \/ Returns("closed") /\ signals' = signals \cup {"PIPE"}
             \/ Returns("panic") /\ UNCHANGED signals
          /\ UNCHANGED <<link, peer>>
    /\ UNCHANGED <<command, goal, task, reply, faults, client, answers>>

\* What a message does to the program, when it is a reply that is expected.
Callback(kind) ==
    \/ /\ goal = "resolve" \/ command \in {"help", "resolve"}
       /\ reply' = kind
       /\ link' = Closed(link)
       /\ UNCHANGED <<signals, client, answers>>
    \/ /\ goal = "call" /\ command \in {"call", "bridge"}
       /\ Print_(kind)
       /\ link' = IF kind = "continues" THEN link ELSE Closed(link)
       /\ UNCHANGED reply

ExpectedAny(kind) == kind \in ReplyKinds
Expected(kind) == /\ link.pending /\ kind \in ReplyKinds
                  /\ kind = "continues" => Kind = "more"

\* One message is read and handled.  The callback that closes the connection
\* ends the loop of process_events and that of the tool.
HandleReply ==
    /\ pc = "handle" /\ peer.replies # <<>>
    /\ Expected(Head(peer.replies))
    /\ Callback(Head(peer.replies))
    /\ peer' = [peer EXCEPT !.replies = Tail(@)]
    /\ IF link'.open THEN UNCHANGED <<pc, status>> ELSE Returns("ok")
    /\ UNCHANGED <<command, goal, task, faults>>

\* A message that is not JSON is an error the tool has no name for.
HandleNoise ==
    /\ pc = "handle" /\ peer.replies # <<>>
    /\ ~Expected(Head(peer.replies))
    /\ Returns(IF Head(peer.replies) = "badjson" THEN "panic" ELSE "invalid")
    /\ UNCHANGED <<command, goal, task, link, reply, signals, peer, faults,
                   client, answers>>

\* Nothing more to read: the end of the connection, or the next epoll_wait.
HandleNothing ==
    /\ pc = "handle" /\ peer.replies = <<>>
    /\ IF peer.gone
       THEN Returns("closed") /\ UNCHANGED link
       ELSE /\ pc' = "loop"
            /\ link' = [link EXCEPT !.events = IF link.pending THEN @ ELSE @ \ {"IN"}]
            /\ UNCHANGED status
    /\ UNCHANGED <<command, goal, task, reply, signals, peer, faults, client, answers>>

-----------------------------------------------------------------------------
(* What the commands do with the result.                                   *)

FreeConnection == link' = NoLink /\ peer' = NoPeer

\* cli_resolve returns: an address is connected to.
ResolveReturn ==
    /\ pc = "return" /\ goal = "resolve"
    /\ FreeConnection
    /\ LET resolved == status = "ok" /\ reply = "address"
           code     == IF status = "ok" THEN "cannotresolve" ELSE status
       IN  \/ /\ resolved /\ command = "resolve"
              /\ Exit("ok") /\ UNCHANGED goal
           \/ /\ resolved /\ command # "resolve"
              /\ pc' = "connect" /\ goal' = "call" /\ UNCHANGED status
           \/ /\ ~resolved
              /\ IF Bridging THEN Refuse ELSE Exit(ConnectCode(code))
              /\ UNCHANGED goal
    /\ UNCHANGED <<command, task, reply, signals, faults, client, answers>>

\* call_run ends with 0 when it is canceled, and whatever the reply was.
CallReturn ==
    /\ pc = "return" /\ goal = "call" /\ command = "call"
    /\ FreeConnection
    /\ Exit(IF status = "canceled" THEN "ok" ELSE status)
    /\ UNCHANGED <<command, goal, task, reply, signals, faults, client, answers>>

\* The reply of cli_call, in help_run and print_interfaces.
HelpReturn ==
    /\ pc = "return" /\ goal = "call" /\ command \in {"help", "resolve"}
    /\ FreeConnection
    /\ LET code == CASE status # "ok"   -> status
                     [] reply = "error" -> "remote"
                     [] reply = "empty" -> "invalid"
                     [] OTHER           -> "ok"
       IN  Exit(IF command = "resolve" /\ code # "ok" THEN "cannotresolve" ELSE code)
    /\ UNCHANGED <<command, goal, task, reply, signals, faults, client, answers>>

CliSteps == \/ Begin \/ ConnectFails \/ Connect \/ WriteCall \/ WriteNothing
            \/ LoopEvent
            \/ HandleReply \/ HandleNoise \/ HandleNothing
            \/ ResolveReturn \/ CallReturn \/ HelpReturn

-----------------------------------------------------------------------------
(* The resolver and the services.                                          *)

PeerReads ==
    /\ link.open /\ ~peer.gone /\ ~peer.room
    /\ peer' = [peer EXCEPT !.room = TRUE]
    /\ UNCHANGED <<command, pc, goal, status, task, link, reply, signals, faults,
                   client, answers>>

LastReplies == CASE goal = "resolve" -> {"address", "error", "empty"}
                 [] command \in {"help", "resolve"} -> {"final", "error", "empty"}
                 [] OTHER -> {"final", "error"}

PeerReplies(kind) ==
    /\ link.open /\ peer.asked /\ ~peer.gone /\ ~peer.over /\ Kind # "oneway"
    /\ \/ kind \in LastReplies
       \/ kind = "continues" /\ Kind = "more" /\ peer.given < MaxReplies
    /\ peer' = [peer EXCEPT !.replies = Append(@, kind), !.given = @ + 1,
                            !.over = kind # "continues"]
    /\ UNCHANGED <<command, pc, goal, status, task, link, reply, signals, faults,
                   client, answers>>

Fault == faults < MaxFaults /\ faults' = faults + 1

PeerErrs(kind) ==
    /\ link.open /\ peer.asked /\ ~peer.gone /\ Fault
    /\ peer' = [peer EXCEPT !.replies = Append(@, kind)]
    /\ UNCHANGED <<command, pc, goal, status, task, link, reply, signals, client,
                   answers>>

\* The end of a connection may overtake what was sent before.
PeerCloses ==
    /\ link.open /\ ~peer.gone /\ Fault
    /\ \E lost \in BOOLEAN :
         peer' = [peer EXCEPT !.gone = TRUE, !.replies = IF lost THEN <<>> ELSE @]
    /\ UNCHANGED <<command, pc, goal, status, task, link, reply, signals,
                   client, answers>>

PeerAnswers == \E kind \in ReplyKinds : PeerReplies(kind)
PeerSteps == \/ PeerReads \/ PeerAnswers \/ PeerCloses
             \/ \E kind \in Noise : PeerErrs(kind)

SendSignal ==
    /\ pc # "exit" /\ "TERM" \notin signals /\ Fault
    /\ signals' = signals \cup {"TERM"}
    /\ UNCHANGED <<command, pc, goal, status, task, link, reply, peer,
                   client, answers>>
=============================================================================
