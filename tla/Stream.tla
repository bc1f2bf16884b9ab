------------------------------- MODULE Stream -------------------------------
(***************************************************************************)
(* VarlinkStream (lib/stream.c): the buffers between varlink messages and  *)
(* a nonblocking stream socket.  A message travels as its JSON text and a  *)
(* terminating NUL byte.  The text is abstracted to cells: a cell is a     *)
(* piece of the bytes of one message, and the last cell of a message       *)
(* carries its NUL.  A stream is the record                                *)
(*    in   the window in_start .. in_end of the input buffer               *)
(*    out  the window out_start .. out_end of the output buffer            *)
(*    hup  the peer was found gone                                         *)
(* The functions of stream.c that call the kernel are given as the set of  *)
(* their outcomes: the kernel decides how much of a buffer it takes.       *)
(***************************************************************************)
EXTENDS Naturals, Sequences

\* CONNECTION_BUFFER_SIZE, in cells
CONSTANT BufferSize

ASSUME BufferSizeAssumption == BufferSize \in Nat \ {0}

-----------------------------------------------------------------------------

\* The bytes of message m cut into n cells (its JSON text and its NUL).
Frame(m, n) == [i \in 1..n |-> [msg |-> m, nul |-> i = n]]

NewStream == [in |-> <<>>, out |-> <<>>, hup |-> FALSE]

\* The first n cells of a window, and the window without them.
Take(s, n) == SubSeq(s, 1, n)
Drop(s, n)  == SubSeq(s, n + 1, Len(s))

Smaller(a, b) == IF a < b THEN a ELSE b

-----------------------------------------------------------------------------
(* Writing.                                                                *)

\* The length checks of varlink_stream_write: a text as long as the buffer
\* is an invalid message, one that does not fit behind what still waits is
\* not sent.  n counts the NUL.
FitsAlone(s, n) == n < BufferSize
Fits(s, n) == /\ n < BufferSize
              /\ Len(s.out) + n < BufferSize

\* What write(2) may take of `waiting` cells when the socket has room for
\* `room` more: nothing (EAGAIN) only when there is no room.
Taken(waiting, room) ==
    IF waiting = 0 \/ room = 0 THEN {0} ELSE 1..Smaller(waiting, room)

\* varlink_stream_flush: `sent` reaches the socket, `rest` is what it
\* returns.  A socket whose peer is gone gives EPIPE (hup is set) or another
\* error, also to a write(2) of no bytes, and nothing leaves the buffer.
FlushOutcomes(s, room, peerGone) ==
    IF peerGone
    THEN {[stream |-> [s EXCEPT !.hup = s.hup \/ epipe],
           sent   |-> <<>>,
           result |-> "error"] : epipe \in BOOLEAN}
    ELSE {[stream |-> [s EXCEPT !.out = Drop(s.out, k)],
           sent   |-> Take(s.out, k),
           result |-> IF k = Len(s.out) THEN "empty" ELSE "rest"] :
          k \in Taken(Len(s.out), room)}

\* varlink_stream_write of a message that Fits: it is appended and flushed.
\* The result of the flush is kept in an unsigned variable, so its error is
\* not seen: the caller learns only whether the buffer is empty.
WriteOutcomes(s, m, n, room, peerGone) ==
    {[stream |-> o.stream, sent |-> o.sent, whole |-> o.result = "empty"] :
     o \in FlushOutcomes([s EXCEPT !.out = @ \o Frame(m, n)], room, peerGone)}

-----------------------------------------------------------------------------
(* Reading.                                                                *)

\* The place of the first NUL, as memchr finds it.
FirstNul(s) == {i \in DOMAIN s.in : s.in[i].nul /\ \A j \in 1..(i - 1) : ~s.in[j].nul}

HasMessage(s) == FirstNul(s) # {}

\* The message varlink_stream_read returns, and the stream it leaves:
\* in_start moves behind the NUL.
Delivered(s) == {[message |-> s.in[i].msg, stream |-> [s EXCEPT !.in = Drop(s.in, i)]] :
                 i \in FirstNul(s)}

\* There is no NUL in a full buffer: move_rest can free nothing.
Overlong(s) == ~HasMessage(s) /\ Len(s.in) = BufferSize

\* The cells read(2) returns of those the socket holds.
ReadSize(s, wire) == Smaller(Len(wire), BufferSize - Len(s.in))

Received(s, wire) == [s EXCEPT !.in = @ \o Take(wire, ReadSize(s, wire))]

HungUp(s) == [s EXCEPT !.hup = TRUE]
=============================================================================
