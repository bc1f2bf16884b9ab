# libvarlink in TLA+

A verification development of libvarlink (`src/lib`, `src/tool`): models of its
event loops, its stream buffers and its data structures, checked with TLC on
small instances, and proofs checked with TLAPS for every instance.

## 1. The system

libvarlink speaks varlink: JSON objects, each ended by a NUL byte, over a
stream socket.  A *service* answers *calls*; a *connection* makes them.  A call
is answered by one reply, by many (`more`), or not at all (`oneway`).  Everything
is single threaded and nonblocking: the program owns a main loop, polls the
descriptors of the library, and calls `varlink_service_process_events` or
`varlink_connection_process_events`.  The concurrency is between the peers, and
between the library, its callbacks and what the program does between two events.

| component | source | state it keeps | operations |
|---|---|---|---|
| service | `lib/service.c` | a tree of connections by fd; per connection a stream, the pending call, two event masks; per call a reference count and a closed callback; a tree of interfaces | accept, dispatch (flush, read, call the method callback, close), reply, reply with an error, reference counting, interface registry |
| client connection | `lib/connection.c` | a stream, the events to poll for, a queue of callbacks | call, process events, close |
| stream | `lib/stream.c` | an input and an output buffer of 16 MiB with start and end, `hup` | read a message, write a message, flush; bridge two streams |
| messages | `lib/message.c` | none | pack and unpack calls and replies |
| AVL tree | `lib/avltree.c` | nodes with parent pointers and heights | insert, remove, find, walk |
| JSON values | `lib/object.c`, `array.c`, `value.c` | reference counted objects and arrays | get, set, parse, print |
| scanner | `lib/scanner.c` | a position in a text | tokens, strings, numbers |
| interfaces, types | `lib/interface.c`, `type.c` | parsed members and types | parse, look up, print |
| URIs | `lib/uri.c` | protocol, host, path, interface, member | parse |
| transports | `lib/transport*.c` | none | connect, listen, accept |
| tool | `tool/cli.c` | epoll and signal descriptors, resolver address, timeout | call and wait, resolve, connect |
| bridge | `tool/command-bridge.c` | input stream, status | forward messages to the service that a resolver names; copy bytes |
| other commands | `tool/command-*.c` | none | print |

How they interact: the service and the connection each own a stream per socket
and meet only through the socket; `process_events` runs callbacks of the
program, which call back into the library (reply, call, close); the service finds
connections and interfaces in AVL trees; the tool and the bridge are programs
on top of a connection.

What is hard in it, and what makes it correct:

* **service** - replies from inside and outside the dispatch, partial writes,
  clients that pipeline, do not read, send garbage, half-close or disappear at
  any time.  Calls are served one at a time and in order; a call is answered once;
  reference counts are the owners; a call that the application keeps never
  outlives its connection unnoticed; an idle connection is listened to, waiting
  output is polled for; a sent call is answered; dead connections are freed.
* **connection** - callbacks that call or close, a server that breaks the
  protocol, partial writes, a call that fails.  Replies execute the callback of
  their call, in order; what is waited for is polled for; the program hears of the
  end of the connection.
* **stream** - messages in pieces, buffers that are full, two sides that are
  copied to each other.  Windows stay in their buffers, a message is delivered
  once and whole, and a copy loses and repeats nothing.
* **AVL tree** - long sequences of operations on pointers in both directions.
* **values, messages** - shared, nested, replaced and dropped in any order by the
  program; texts that end or go wrong at any depth.  References are counted, what
  is written can be read and is the same, what is accepted is JSON.
* **scanner, types, interfaces** - sequential; names that must be new, references
  to types that come later, comments that stand between other tokens.  What is
  accepted is an interface, and it survives being written and read.
* **tool, bridge** - a timeout racing an answer, signals that are only read in
  some loops, services that err, stall or go away, a client that leaves.  Exit
  codes tell what happened; a bridge is to its client what a service is; whatever
  it waits for, a signal or the end of its client ends it.

The hazards, each at its line and with the properties that watch it, are in
`PROJECT.json`.

## 2. The modules

| module | models | about |
|---|---|---|
| `Stream` | `stream.c` | a stream as a record; reading, writing and flushing as sets of outcomes |
| `Service` | `service.c` | the event loop, one action per part between two system calls; the application; the clients |
| `Sessions` | - | what a service promises to each connection (abstract) |
| `Connection` | `connection.c` | `process_events`, call and close; the program; the server |
| `Replies` | - | what a connection promises to its program (abstract) |
| `AvlTree` | `avltree.c` | the tree on a heap of nodes |
| `Cli` | `cli.c`, `command-call.c`, `-help.c`, `-resolve.c` | the tool: resolve, connect, call, and the event loop that waits for it; the resolver and the services |
| `Bridge` | `command-bridge.c`, `varlink_stream_bridge` | the two bridges, on top of `Cli`; their client, and the service behind the direct one |
| `Values` | `object.c`, `array.c`, `value.c`, `message.c` | objects and arrays on a heap, and every use of them by a program |
| `JsonText` | `value.c`, `scanner.c`, `*_new_from_scanner`, `*_write_json` | writing values as texts and reading texts, among these uses |
| `JsonGrammar` | - | the grammar of JSON, and that only it is accepted |
| `Interface` | `interface.c`, `type.c`, `scanner.c`, registry of `service.c`, `command-format.c` | reading and writing of interfaces; what services, clients and `varlink format` do with them |
| `Documents` | - | what is asked of interfaces as a whole: comments, writing and reading again |
| `MCService`, `MCConnection`, `MCAvlTree`, `MCJsonText`, `MCInterface` | - | instances for TLC |
| `StreamProofs` | - | lemmas about buffers, for every component that has one |
| `ServiceProofs`, `ServiceOrder` | - | proofs about `Service`: its memory; the order of its replies, and what epoll watches |
| `ConnectionProofs` | - | proofs about `Connection`: what it queues and polls for; the order of replies |
| `BridgeProofs` | - | proofs about `Bridge`: what is copied; exit codes and the promise to the client |
| `AvlProofs` | - | proofs about `AvlTree`: the tree that insertions and removals keep; searches and walks |
| `JsonProofs` | - | proofs about `Values` and `JsonText`: reference counts, kinds |
| `InterfaceProofs` | - | proofs about `Interface`: what is accepted is an interface |

### Stream

A message is a sequence of *cells*: a cell stands for a piece of its bytes, and
the last cell carries the NUL.  `read(2)` and `write(2)` may stop between any two
cells.  The socket takes nothing only when it has no room (EAGAIN), and fails
when the peer is gone, also a write of no bytes; EINTR is a retry and does not appear.  `memory exhausted`
(VARLINK_ERROR_PANIC) is not modelled anywhere.  `varlink_stream_write` keeps the
result of its flush in a `size_t`, so that its error branch is never taken:
`WriteOutcomes` says so.

### Service

`pc` follows `varlink_service_process_events`: `idle` is `epoll_wait` and everything
outside the library, `flush`, `read`, `end` are the parts of `dispatch_connection`
(service.c:534, 544, 570), `handle` is the method callback.  `conn[c]` is the
`ServiceConnection`; `events_mask` and `current_events_mask` are both there because
the code confuses them.  `calls[c][i]` is the `VarlinkCall` of message `i`; its
`replies` and `done` are history.  `held` are the references of the application.

The application is any program that follows the API: it replies in the
callback or, when `Async`, takes a reference and a closed callback and replies
later; it makes continued replies only to a call that asked for more; it drops
its reference when the closed callback tells it that the call is over.  The method
callback of `varlink_service_new`, which looks up the method and replies with
an error when there is none, is one such program.

Messages have the kinds the code tells apart: `plain`, `more`, `oneway` calls,
`badcall` (an object that is no call), `badjson`, and `endless` (no NUL within a
buffer).  Clients are external: they connect, send cell by cell, read, shut down
their side (`HalfClose`), and close.  A peer that closed a TCP socket looks
half-closed until its reset arrives, which is `Shutdown` and then `Disconnect`.

### Connection

`pc` follows `varlink_connection_process_events`; `callback` is a callback of the
program, in which it may call and close.  `pending` is the STAILQ of callbacks.
A message from the server says which call it answers; the code never sees
that, which is how a property can.  The server is external: it reads, replies
in order, closes (with or without losing what it sent), and up to `MaxNoise`
times sends a message of `Noise` that breaks the protocol.

### AvlTree

`heap` maps addresses to nodes, which have the fields of the C struct.  Left and
right are symmetric in the code, and one operator with a `side` here.
`avl_tree_insert` rebalances the nodes of its recursion, `avl_tree_remove` walks
the parent pointers; `RebalanceAll` is given the nodes of the one or the other.  Values are their
own keys, as the connections of a service are by their fd.

### Cli and Bridge

One process: `command` is how it was started, `pc` where it is.  `loop` is the
`epoll_wait` of `cli_process_all_events` and `handle` the `process_events` after it;
`begin`, `connect`, `write` and `return` are before and after; `read`, `wait`,
`refuse` and `refused` belong to `handleBridge`, `copy` and `push` to
`varlink_stream_bridge`.  `goal` tells the call of `cli_resolve` to the resolver from
the call that the user wants; both use the same loop.  `link` is the connection,
of which only what one call can tell apart is left (`Connection` has the rest):
whether it is open, whether its callback is queued, what it polls for.  `status`
is the last result and at the end the exit code; results that the tool does not
tell apart have one name.

`Methods` are what an address can lead to: `near` has an address (that of the
command line, or the resolver's own), `far` must be resolved, `bad` is no name of a
method, `incomplete` a GetInterfaceDescription of no interface.  Services are
external: slow to read, they reply, err, send `Noise`, or close, with or without
losing what they sent.  `faults` counts noise, ends, signals and a client that
leaves, for the whole run.  A timeout can happen whenever nothing is ready; that
it starts again at every event is why it needs no clock.

Messages are single cells here, in pipes and sockets of `PipeSize` and `SocketSize`
that make both sides wait.  `answers` and `asked` are history.  `Promise` maps a
bridge to `Sessions`, the specification that `Service` implements: `phase` is over when
the bridge exits or its client is gone, `active` is the call it works on.

In the direct bridge, a step of `CopyWrite` with `ShortWrites = FALSE` is the kernel
taking a part of one blocking `write(2)`, which goes on until it has everything;
with `ShortWrites = TRUE` it is a call that returned early, after which the loop
writes the start of its buffer again (stream.c:195).

### Values and JsonText

`heap` maps addresses to objects and arrays with their reference count, `handles`
counts the references of the program.  `Use` is any call of the API by a program
that owns what it uses: it puts no node into itself (a cycle is never freed) and
no node into a field whose old value is the node's only owner.  Scalars carry only
what the properties need.  `Pack` and `Unpack` are `message.c`.

A text is a sequence of tokens.  `reader.stack` is the C stack of the recursive
descent, a frame for every object or array that is half read; `slot` is the field or
element that waits for its value.  A text is one that was written from an object, which is
then dropped (so that reading has to make it again), or free: each token is
chosen as it is read.  A name of a field is written as it is, without the escapes that the
scanner took apart (object.c:486): `InQuotes` is what a name becomes when it stands
between quotation marks, one string or something else.  `written` is what the
object held, as tokens with its own names, to compare with.  Numbers are kinds: `extreme` is LONG_MIN or LONG_MAX, for
which `scanner_read_number` looks at `errno`; `wide` is a float whose first digits
overflow `strtol`, `huge` one that overflows `strtod`; `loose` is a number that
`strtol` or `strtod` takes but RFC 8259 does not have.  `errno` is a variable,
because nobody clears it.  `Broken` is a string with an error in it: the negative
result of reading it counts as success (value.c:76), and the next token, which is
the same string, is what refuses the text.

### Interface

A text is a sequence of tokens: words, operators, comments, empty lines and lines
of spaces.  `parser.open` is the stack of the descent, with the arrays, maps and
maybes around the type of each field in `wraps`; `comment` is the text from
`last_comment_start` on.  A comment is known by its place in the text (`Place`), counted over
tokens and lines, so that two are neighbours exactly when nothing is between them.  An accepted text is written again, in one of two ways:
with indentation, as `varlink format` does, or without, as
`GetInterfaceDescription` does for a client of a service that it was added to.
Both are read again.  `Answer` is `varlink_service_method_callback`; `Unqualified` is what a name without a dot
gives it.

The recursions over a type (`Resolved`, `WrittenType`) are functions on `Parts`: the
type, the types in it, and so on, level by level down to `MaxTokens`.  No type is
deeper than that, because every level of it took a token to read.

## 3. The runs

| run | instance | shows |
|---|---|---|
| `service_async` | 1 connection, 2 messages of every kind, 2 replies to each, buffer 6, socket 2 cells | types, bounded buffers, exact reference counts, no dangling calls; a busy connection is not watched for requests (`BusyIsNotWatched`); refinement of `Sessions` (`KeepsPromise`) |
| `service_lockstep` | 2 connections, 2 calls each, buffer 5, socket 1 cell, fair | an idle connection is (`IdleListens`), `OutputArmed`, and `EveryCallAnswered` |
| `service_idle` | 1 connection, replies from outside the callback | `IdleListens` fails |
| `service_output` | 1 connection that pipelines | `OutputArmed` fails |
| `service_gone` | 1 connection, the client closes at any time, fair | `GoneIsFreed` fails |
| `connection` | 2 calls of every kind, 3 replies, buffer 4, socket 3, one protocol error, fair | `WaitsAreArmed`, `QueueIsUnanswered`, `ReplyReachesItsCallback`, refinement of `Replies`, `EveryCallAnswered` |
| `connection_closed` | 1 call | `ClosedIsReported` fails |
| `connection_failed` | 3 calls, the program goes on after an error | `ReplyReachesItsCallback` fails |
| `avl_tree` | 12 keys | `LinksAgree`, `Balanced`, `ElementsAreFound`, `OnlyTheKeyChanges` |
| `bridge` | every command, 2 messages of a client, 1 continued reply, 1 fault, pipe 1, socket 1, copy buffer 2, fair | exit codes (`ExitTellsOutcome`); the direct bridge copies all (`CopyKeepsAll`, `HangUpIsDrained`, `EveryMessageCopied`); the bridge refines `Sessions` (`KeepsPromise`); `EveryCallAnswered`, `SignalEndsIt`, `GoneClientEndsIt` |
| `json` | 3 nodes, 2 names, arrays of 2, depth 3, texts of 10 tokens | reference counts (`OwnersAreCounted`), kinds (`ValuesAreProper`), the grammar of JSON (`AcceptsOnlyJson`), write and read (`RoundTrip`) |
| `interfaces` | texts of 13 tokens and lines, 3 of them lines, 2 members, 2 interfaces | `AcceptsInterfaces`, `CommentsInOrder`, `RoundTrip`, `DescribedIsCallable` |

**Bounds.**  A request and a reply have two cells, so that they can be cut;
sockets of one to three cells cut them everywhere; buffers of four to six cells
hold two messages and not three, so that they fill up with two messages of a
client or two replies.  Two messages on a connection are enough for a call that
is pending while the next waits, in the socket or the buffer, and for the reply
to a finished call.  Two connections are enough for one to be served between two
steps of the other.  Twelve is the size of the smallest tree in which one removal
rotates at two levels; states that differ only in the addresses of nodes are
explored once (VIEW).  CHECK_DEADLOCK is off in the service, connection and bridge
runs: when every client has sent its bounded number of messages, or the tool has
exited, the system rests.

Two messages of a client of the bridge are enough for one that waits while the
other is forwarded; a pipe and a socket of one cell fill up with every message; a
copy buffer of two cells can be written in two parts.  One fault is enough to
meet every state once with a signal, an end, or a message that breaks the
protocol.  The client of the bridge acts while the bridge looks at it: what is
sent at other times is found at the next look.  Three nodes are an object in an
array in an object, and one that two others share; with a depth of three, the
innermost of three nested ones is read only when it is empty.  Ten tokens nest three containers and
leave some to go wrong with.  Thirteen tokens are an interface with a method
and another member, or a type with a field that refers to another member.  Ten leave three
lines between two members, which are enough for a comment whose two halves are
torn apart by a line of spaces, and for comments of several members or fields.
`MCWordsAt` gives each place in a text its right words and a wrong one.

**Fairness.**  The program's main loop calls `process_events` again when its
descriptor is ready (weak fairness of `Loop` and `Library`); epoll hands out its
ready descriptors in turn, so a connection that is ready again and again is
dispatched (strong fairness of `Dispatch` and `Accept`); the application finishes
its calls and its callbacks return; the peer finishes sending what it began,
reads, and, when it is a server, answers.  Nothing forces a client to send, to
close or to half-close, or a server to close or to break the protocol.

In `bridge` the process runs (weak fairness of `Program`); a signal that waits in the
signalfd is handed out by one of the `epoll_wait`s that find it (strong, as other
descriptors may be ready too); a service that has room or a call comes to read and
to answer it (strong, as the process may look away in between), and whoever reads
standard out goes on reading.  A timeout is never forced: there may be none.

## 4. What the code does otherwise than it says

Five runs end in a counterexample to a sentence of the code's own comments.

1. `service_idle` - *"Listen for incoming data whenever the connection is idle."*
   (service.c:574).  `varlink_call_reply` (672) makes the connection idle, but only
   `dispatch_connection` adds EPOLLIN.  After a reply from outside a dispatch
   the connection is not read again.
2. `service_output` - *"We did not write all data, wake up when we can write to the
   socket."* (539, 660).  `dispatch_connection` begins with `events_mask = 0` (532) and
   sets the result: when it was called for EPOLLIN alone, waiting output is forgotten.
3. `service_gone` - *"Catch POLLHUP, we never try to read the EOF from a busy
   connection."* (570).  With output waiting and the peer gone, the flush fails and
   `dispatch_connection` returns (537) before it gets there, every time.
4. `connection_closed` - *"Register function to be called when the server closes the
   connection."* (varlink.h:386).  `process_events` frees the stream (connection.c:145)
   without calling it.
5. `connection_failed` - *"The reply will execute the given callback."*
   (varlink.h:417).  A callback is queued before the write (connection.c:233) and
   stays there when it fails; every later reply executes the callback of the
   call before.

`IdleListens`, `OutputArmed` and `EveryCallAnswered` hold for what the library is
mostly used for: clients that wait, and methods that reply at once
(`service_lockstep`).

Modelling showed more, which no run of its own shows.  Where a property would
fail, it names the exception:

* a oneway call of the bridge that is not written at once is never finished
  (`Stalled`; command-bridge.c:263);
* the direct bridge repeats the start of its buffer after a write that took a part
  (stream.c:195, `ShortWrites`), and leaves data unread when a hang-up comes with more
  than one buffer of it (stream.c:214, `HangUpIsDrained`);
* `varlink call` exits with 0 when the reply was an error or it was canceled
  (`CallReturn`);
* a number at the end of the range is refused after one beyond it, in any text
  (scanner.c:641), and objects can be built and written deeper than they can be read
  (both in `RoundTrip`);
* the scanner takes numbers that RFC 8259 does not have (`+1`, `01`, `2.e3`, which
  `tests-json/y_number_*.json` ask for), and control characters in strings: `AcceptsOnlyJson`
  is about the grammar of objects and arrays over the scanner's own tokens;
* names of fields are written without escapes (object.c:486): one with a quotation mark,
  which can be read and set, makes a text that is no JSON, although varlink.h:145 says *"Write
  the data of an object formatted as JSON"*; with a backslash it is another name when it is
  read again, or refused, as with the end of a line (`HasOnlyPlainNames` in `RoundTrip`);
* references to types below a maybe are not looked at (interface.c:56), although
  interface.c:292 says *"check if all referenced types exist"* (`Resolved` does as the code
  does, and no property says otherwise);
* types with a qualified name never resolve;
* `GetInterfaceDescription` leaves out the comments of fields (`RoundTrip`).

## 5. The proofs

`ServiceProofs` proves, for any set of connections, any number of calls and
replies, and buffers and sockets of any size:

* `TypeCorrect`, `BuffersStayBounded`, `RefcountsAreExact`, `KeptCallsStayAttached`:
  `Spec => []P` for the invariants of `service_async` but one.

The assumptions are `BufferSizeAssumption` and `ServiceAssumption`: the sizes and
bounds are positive, the flags are Booleans.

The invariants are not inductive.  That a reference count is the number of
owners breaks if a message can become a call twice, since `varlink_call_new` sets
the count to one; that a kept call is attached breaks if a call can be pending
after its last reply.  `IInv` adds

* `Pending` - a pending call is unfinished and its connection open;
* `Dispatching` - the dispatch in progress works on an open connection;
* `Fresh` - a message that is still to come (not sent whole, or its NUL is in the
  socket or in the buffer) has made no call;
* `Once` - the NUL of a message is in one place only;
* `Numbered` - the bound on messages.

`Fresh` and `Once` follow the NULs through `Send`, `SendMore`, `Received` and
`Delivered`; `StreamProofs` has the lemmas about windows they rest on: `DeliveredOnce`
says that the message `varlink_stream_read` returns is gone from the buffer and
that no other one is, `MovedEnds` that a `read(2)` moves each end from the socket to
the buffer.  `NextInvariant` has one step per action, grouped into types
(`LoopType`, `ApplicationType`, `ClientStepType`), owners (`OwnedStep`), messages
(`FreshStep`) and control (`DispatchingStep`).

`ServiceOrder` proves

* `ServiceKeepsPromise` - the refinement of `Sessions`, for any number of connections:
  whatever the buffers, the application and the clients do, calls are taken one at a
  time and in the order in which they were sent, each gets its replies in order, and
  none is missing between two that arrive.

The mapping of `Promise` takes the replies from the cells in `Outbox`: what the client has
read, what is in its socket and what waits in the buffer, laid end to end.  A step moves
cells from one window to the next, which leaves them where they are; makes a reply,
which is appended as one message (`MessagesGrown`); or cuts the row at its end
(`MessagesLost`).  `StepMoves` sorts the steps by what `Sessions` sees of them (`Asks`,
`Takes`, `Answers`, `Completes`, `Leaves`, or nothing), and there is one simulation
lemma for each.  `InTurn` adds to `IInv` what they need: the messages of a client, in
the buffer and the socket together, are in order and behind those that were taken
(`InboxOrdered`); a call has counted the replies that are in its outbox
(`RepliesCounted`), so that the next one has the next number; and a connection that is
not open has nothing in its stream (`ClosedIsEmpty`), or accepting one could lose
replies.

`ServiceOrder` also proves, for any number of connections, what holds of the epoll masks
outside `dispatch_connection`:

* `ServiceIgnoresBusy` - `BusyIsNotWatched`: no connection with a pending call is watched for
  requests, for any application and any clients.
* `ServiceListens` - `IdleListens`, if `AtOnce`: the application replies in its callbacks,
  and every object that clients send is a call.  `service_idle` shows that the first is
  needed; without the second `ReadNoCall` leaves before the mask is set again.
* `ServiceArms` - `OutputArmed`, if `Polite`: moreover clients wait for the last reply
  before they send the next call, and make no oneway calls.  `service_output` shows a
  client that does not wait.

The conditions of the last two are about the constants (`Async`, `Lockstep`, `Kinds`) and are those of
`service_lockstep`; buffers, sockets, several calls, hang-ups and half-closed sockets are
free.  `Unwatched` is the invariant of the first: a dispatch starts with an empty mask, to which only
its end adds EPOLLIN and replies add EPOLLOUT; the masks of a busy connection are therefore
without EPOLLIN whenever its dispatch is over, however late it is replied to.
`Listens` says which mask each stage of a dispatch leaves, and that no call is
pending between two dispatches.  `OutputArmed` needs far more, because `dispatch_connection`
starts by forgetting `events_mask` (service.c:532): it holds only because nothing can be
read while something waits to be written.  `ServesLast` says so: all messages but the last
are taken, when the last is taken the socket is empty, and until it is taken nothing waits.
`AnswersLast` is what `ServesLast` needs when the client sends: the last reply to the last
message is the last thing in the outbox, so that a client that has it has everything, and
`SettledIsDone`.  `ArmedAt` follows what waits through the stages of a dispatch; with
`WaitsAlone` one that is not flushed can only be for an end of file or a hang-up, and ends
in a close.

`ConnectionProofs` proves, whatever the program and the server do and however the
server breaks the protocol:

* `ConnectionTypes`, `ConnectionIsArmed` (`WaitsAreArmed`), `ConnectionQueue`
  (`QueueIsUnanswered`).

Its invariant `Queues` adds to them that the queue is in the order of the calls
(`QueueOrdered`), that what is in it waits (`QueueWaits`) and what waits is in it
(`WaitsQueued`): the properties speak of the whole queue, but a step retires its
head, and only the order tells that this is the call whose last reply came.  During
a callback the call is still at the head (`HeadIsReplied`, `Retires`).  `ReadsOpen` keeps
the loop away from a freed stream, and `Kept` says that a message without a NUL
within a buffer is never delivered, which follows its cells from the server
through the socket (`EndlessFits`).

Its second half assumes `GiveUp`, that the program makes no call after an error
(`connection_failed` shows what happens otherwise), and proves

* `ConnectionRepliesReach` - `ReplyReachesItsCallback`, as long as the server keeps to
  the protocol;
* `ConnectionKeepsPromise` - the refinement of `Replies`, step by step.

Its invariant `Order` describes the pipeline from the program to the server and
back: the replies on their way (in the buffer, in the socket, or half sent) are
for calls that wait, in the order of the calls (`RepliesOrdered`), and no call is
skipped (`NoneSkipped`); behind them come the calls that the server has to do and
those on their way to it, in order (`TodoOrdered`, `RequestsOrdered`); a call that
waits is somewhere (`NoneLost`); only the last call can be unsent (`UnsentIsLast`).  That
the first reply is for the head of the queue needs all of it: without `NoneSkipped` an
older call could be at the head, without `NoneLost` a step could make one that is
skipped.

`BridgeProofs` is about the direct bridge, for messages, pipes, sockets and copy
buffers of any number and size:

* `BridgeIsTyped` - types and bounds of all of `Cli` and `Bridge`;
* `BridgeCopiesAll` - `CopyKeepsAll`, from the assumption `~ShortWrites` (with it the
  property is false, see section 4);
* `BridgeDrains` - `HangUpIsDrained`.

`Copies` gives every message a number and says that the four windows it moves through
hold all of them together (`Counted`) and count on from one to the next (`Chained`).  That
a bridge that ends on a hang-up has drained its client needs what epoll
reported to be still true when it is looked at, several reads later (`EventsHold`), once
per descriptor (`EventsDiffer`), and that one read was enough (`LastRead`).

Its second half is about every command, whatever the resolver, the services, the client
and signals do:

* `ToolTellsOutcome` - `ExitTellsOutcome`;
* `BridgeKeepsPromise` - a bridge implements `Sessions` for its client: a step simulation
  under the mapping of `Promise`.

`Outcome` says that the messages of a client are known by their place in what it asked
(`InboxKnown`), that the task is the last one taken (`TaskIsLast`) and that all before it
are answered (`OthersAreDone`); that there is no last reply to a call as long as
something is to be done for it (`CallInv`, `HelpInv`); and, for these, that what a
connection holds is for the call that it was made for (`LinkInv`).

`AvlProofs` proves every property of the `avl_tree` run, for any set of
integer keys and any number of nodes:

* `TreeTyped` (`TypeOK`), `LinksKept` (`LinksAgree`), `BalanceKept` (`Balanced`);
* `KeysAreExact` - `OnlyTheKeyChanges`;
* `WalksAreExact` - `ElementsAreFound`.

None of these is inductive alone.  A rotation keeps the links only if the nodes it
relinks are different ones, which the order of their values tells; a removal keeps the
order only if the node it frees has no children, which the balance tells; and the
balance is restored only if the nodes that are balanced are all the nodes above the
change, which the links tell.  The invariant `TreeInv` is all of it at once (`TreeIsKept`).
`Sound` says of a heap that there is a *span* for every node, a set of keys that holds its value and
the spans of its children, each on its side (`Ordered`); that the links agree in both
directions (`Linked`); and that every node is `Good`, of exact height and balanced.  Spans are
not unique and need not be exact: a rotation gives the spans of the two nodes it
turns, an insertion adds its key to the spans on its path, and a removal takes from the
spans between a node and the value that replaces its own what would come behind it (`HoistOrdered`).

The argument for balancing goes upwards.  After an insertion or a removal one node is
only `Nearly` good: one side of it became one higher or lower.  `BalanceStep` is the
step of `rebalance_from`: it makes that node good, by no rotation, one (`StraightRestores`) or
two (`BentRestores`), after which its parent is the only one that is nearly good.
`BalanceAll` follows the chain of nodes to the root.  The chain of an insertion is the
path of its search (`PathChain`), that of a removal the parents (`AncestorsChain`).

What follows links is a recursive function in `AvlTree`, and the proofs need to know what
it computes.  `FollowExists` and `ListExists` show once that a function that follows links to
lower ranks exists; for each operator the rank is named and its equation derived
(`PathSteps`, `EndSteps`, `AncestorsSteps`, `NeighbourSteps`, `ElementsSteps`).  On the way down the
rank is the height; that heights are at most the number of nodes (`HeightBound`) bounds
the way up; for a walk it is the number of elements that are still to come.  Induction along such
links is a choice of the node of least rank that would be an exception (`LeastRank`), which rests on the
well-foundedness of finite subsets in the library.

A search passes every node whose span holds the key (`SearchPasses`), so it finds the one
node that can hold it.  For the walks, the values below a node are an interval among all
values (`UnderBetween`): the next node is therefore the first of the subtree on the
right or, when there is none, the first parent reached from its left (`ClimbLeaves`), and it
has the next value (`NeighbourIsNext`).  Walks in opposite directions are each other's
reverse because a set has only one ascending sequence (`OneWalk`).

The assumptions on the constants are `AvlAssumption`: keys are integers, there are
finitely many keys and nodes, `NULL` is neither an address nor a node, and there are as
many nodes as keys, because allocation does not fail in the model.

`JsonProofs` is about `Values` with the reader of `JsonText` among its uses, for any nodes,
fields, scalars, tokens and bounds:

* `OwnersCounted` - `OwnersAreCounted`: every reference count is the number of owners, at
  every depth of a text that is refused as well;
* `ValuesProper` - `ValuesAreProper`: what may be in an array or an object.

Counting is proved once for all functions.  `Counted(h, own)` says that the heap `h` counts
right when the nodes have the owners `own` from outside it, which are the handles of the
program, the open objects and arrays of the reader, and its result (`Outside`); the other owners are
*places* in the heap, a node and an index in it.  Each function then moves owners: into a place
(`Placed`, `AppendValue`), out of one (`RemoveField`), from the program to the heap.  `Unref`
starts where some owners are already gone from the outside and their references are still to
be given back: they are a list, and the count is right with it (`Owing`).  One call gives back
the first: it decrements, or it frees the node and puts what the node referred to at the head
of the list.  The places and the list together get shorter by one (`Left`), so as many calls as
there were references at the start are enough, and `Keeps` says that the nodes that
are left lost nothing but references.

The reader needs more than counts.  When it fails it frees what is open, and what is
*in* it: `Opening` says that open nodes are allocated, and that the reader is their only owner (so
they are different, and nothing refers to them, `OpenAlone`), that every frame
but the innermost has an empty place for its value (`Waiting`), and that a name before
a colon is in an object.  A value without a kind can only be in such a place, which is why
`Proper` is relative to `Waiting`; when a text ends in a string with an error in it, the place stays empty
until the next token fails (`stuck`).  `Holds` is all of it (`InvariantHolds`).

The assumptions on the constants are `ValuesAssumption` and `JsonAssumption`.

`InterfaceProofs` is about every text, of any number of tokens and with any names:

* `InterfaceTyped` - `TypeOK`;
* `InterfacesAccepted` - `AcceptsInterfaces`.

A type is built from the inside out, while the objects around it are half read, so
nothing can be said of a type when its first token is read.  The invariant
(`InterfaceKept`) says that there is a set of types, each `IsType` and with the types in it also
in the set (`Sound`), that has everything that was read so far: the types of the members,
those of the last member, and those of the fields of everything that is open
(`Reads`).  A token that completes a type adds that type to the set (`CompleteHolds`), and with it
the arrays, maps and maybes around it, whose order is that of the tokens;
since the reader refuses a maybe in a maybe, each of them is a proper type too (`WrappedSound`).
With the set, no induction over types is needed: what is in an accepted type is in the set at whatever
level it is (`PartsWithin`).

`Frames` is the nesting of what is open: the outermost is the place of a type of
the member, the others are objects, and only the innermost can have turned out to be an enum,
because an enum ends with names alone.  What the place in the text says of the innermost
(`Opens`), and of the last member (`Awaits`), is what the checks at the end of a member rest on:
a method that has one type is waiting for its arrow.  That a text of `MaxTokens` tokens is not
read any further needs that its end is accepted or refused, wherever it stands (`EndStops`).

The assumption on the constants is `InterfaceAssumption`: names of members are
no keywords, no name is an operator, a line of the layout, the end of the text or empty.

**Only model-checked.**  Beyond the prover: the liveness properties
(`EveryCallAnswered`, `EveryMessageCopied`, `SignalEndsIt`, `GoneClientEndsIt`), which need
fairness.  What texts contain is the result of a recursion over heaps (`Json`), with as many
branches as a node has items: so `AcceptsOnlyJson` and `RoundTrip`, and with them the names of
fields in `TypeOK`, stay with TLC.  Of `Interface`, `CommentsInOrder` and
`RoundTrip` compare what recursions over types give (`AllDocs`, `Bare`, `WrittenType`),
for every depth at once, and `RoundTrip` and `DescribedIsCallable` need that a text that was written is
read as what it was written from.

## 6. Not modelled, and the plan

Not modelled: allocation failures, but for running out of nodes while a text is
read; URIs, which split one string into parts and keep nothing; the characters of
words, strings and numbers; the vendored UTF-8 decoder and queue macros; opening
sockets, forking and executing; option parsing and layout; the reply to GetInfo;
freeing a service or a whole tree.  In the `json` run the names of fields are
`method` and `parameters`, so that calls are packed and unpacked, but without flags; names
that are not written as they are read (`InQuotes`) are not among them.

Done: `Stream`, `Service` with `Sessions`, `Connection` with `Replies`, `AvlTree`, `Cli` and
`Bridge`, `Values` and `JsonText`, `Interface`; proofs about `Service`, `Connection`,
`Bridge`, `AvlTree`, `Values` with `JsonText`, and `Interface`.  What would come next: `ClientServer`, which is `Service`
and `Connection` on the two ends of one socket, a program and an application without an external
peer, and what a caller can rely on.
