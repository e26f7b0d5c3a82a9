----------------------------- MODULE Connection -----------------------------
(***************************************************************************)
(* One server-side connection (common/conn.cxx), byte by byte: the read    *)
(* buffer and its memmove, the write buffer, and the loops of io() down to *)
(* one read() or write() per step.  The two kernel socket buffers and the  *)
(* client at the other end are the environment.                            *)
(*                                                                         *)
(* The client's byte stream is a sequence of frames.  Byte number p of the *)
(* stream is represented by p itself, so a buffer shows which part of the  *)
(* stream it holds.  Byte j of the reply to frame k is <<k, j>>.           *)
(***************************************************************************)
EXTENDS Integers, Sequences

CONSTANTS
    HeaderSize,      \* bytes of the length prefix
    MaxMessageSize,  \* MAX_MESSAGE_SIZE
    NumFrames,       \* frames in the client's stream
    Length,          \* Length[k]: the length prefix of frame k
    FrameStart,      \* FrameStart[k]: stream position after the first k frames
    MayParse,        \* the frames whose contents Request::parse may accept
    MayFail,         \* the frames whose contents it may refuse
    Output,          \* Output[k]: size of what the command of frame k returns
    ErrorSize,       \* size of the "response is too big" reply
    SendSpace        \* bytes the kernel's send buffer holds

Frames == 1 .. NumFrames

ASSUME SizesAssumption ==
    /\ HeaderSize \in Nat \ {0}
    /\ MaxMessageSize \in Nat
    /\ NumFrames \in Nat
    /\ ErrorSize \in Nat
    /\ HeaderSize + ErrorSize <= MaxMessageSize
    /\ SendSpace \in Nat \ {0}

ASSUME StreamAssumption ==
    /\ Length \in [Frames -> Nat]
    /\ Output \in [Frames -> Nat]
    /\ MayParse \subseteq Frames
    /\ MayFail \subseteq Frames
    /\ FrameStart \in [0 .. NumFrames -> Nat]
    /\ FrameStart[0] = 0
    /\ \A k \in Frames :
          FrameStart[k] = FrameStart[k - 1] + HeaderSize + Length[k]

\* The capacity both buffers reserve.
Capacity == HeaderSize + MaxMessageSize

Garbage == -1       \* a buffer byte nothing has been written to

VARIABLES
    state,            \* ConnectionState
    pc,               \* the next step of the handler that is running
    caller,           \* who called stateResponse
    readBuffer,
    readBufferSize,
    writeBuffer,      \* the frame whose reply the write buffer holds
    writeBufferSize,
    writeBufferSent,
    executed,         \* frames whose command has run, in order
    sent,             \* bytes the client has sent
    received,         \* bytes read() has returned
    wire,             \* bytes write() has accepted, in order
    taken,            \* bytes the client has taken off the wire
    peer              \* the client's end of the socket

conn == <<state, pc, caller, readBuffer, readBufferSize, writeBuffer,
          writeBufferSize, writeBufferSent, executed>>
sockets == <<sent, received, wire, taken, peer>>
vars == <<state, pc, caller, readBuffer, readBufferSize, writeBuffer,
          writeBufferSize, writeBufferSent, executed,
          sent, received, wire, taken, peer>>

------------------------------------------------------------------------------
\* Helpers

Least(a, b) == IF a <= b THEN a ELSE b

\* Mutant: the output is packed without the size check.
ReplySizeUnchecked(k) == Output[k]

\* The size of the payload tryOneRequest packs for frame k: the command's
\* output, or the error that replaces an output that does not fit.
ReplySize(k) ==
    IF HeaderSize + Output[k] > MaxMessageSize THEN ErrorSize ELSE Output[k]

\* The first HeaderSize bytes of the read buffer are the header of frame k.
HeaderIs(k) == \A i \in 0 .. HeaderSize - 1 : readBuffer[i] = FrameStart[k-1] + i

\* Mutant: the four bytes of the prefix are left in the buffer.
FrameSizeNoHeader(k) == Length[k]

FrameSize(k) == HeaderSize + Length[k]

\* Mutant: the limit is compared with one byte too many.
TooLongByOne(k) == Length[k] > MaxMessageSize + 1

TooLong(k) == Length[k] > MaxMessageSize
Complete(k) == FrameSize(k) <= readBufferSize

\* The read buffer after the memmove that drops frame k.
Remaining(k) == readBufferSize - FrameSize(k)

\* Mutant: the memmove is skipped, as when it depends on the wrong size.
MovedNot(k) == readBuffer

Moved(k) == [i \in 0 .. Capacity - 1 |->
                IF i < Remaining(k) THEN readBuffer[i + FrameSize(k)]
                                    ELSE readBuffer[i]]

\* Mutant: any successful write() counts as having sent everything.
FlushedAlways(n) == TRUE

\* A write() that took n bytes took the last ones; the offset it leaves.
Flushed(n) == writeBufferSent + n = writeBufferSize

SentAfter(n) == IF Flushed(n) THEN 0 ELSE writeBufferSent + n

Unread == sent - received                   \* bytes in the receive buffer

\* Mutant: read() is offered the whole capacity, not what is left of it.
RoomWhole == Capacity

Room == Capacity - readBufferSize           \* free bytes of the read buffer
Free == SendSpace - (Len(wire) - taken)     \* free bytes of the send buffer

------------------------------------------------------------------------------
Init ==
    /\ state = "REQ"
    /\ pc = "idle"
    /\ caller = "io"
    /\ readBuffer = [i \in 0 .. Capacity - 1 |-> Garbage]
    /\ readBufferSize = 0
    /\ writeBuffer = 0
    /\ writeBufferSize = 0
    /\ writeBufferSent = 0
    /\ executed = <<>>
    /\ sent = 0
    /\ received = 0
    /\ wire = <<>>
    /\ taken = 0
    /\ peer = "open"

------------------------------------------------------------------------------
(* io(): the event loop calls it when the socket is readable.              *)

IoRequest ==
    /\ pc = "idle" /\ state = "REQ"
    /\ Unread > 0 \/ peer # "open"
    /\ pc' = "fill"
    /\ UNCHANGED <<state, caller, readBuffer, readBufferSize, writeBuffer,
                   writeBufferSize, writeBufferSent, executed>>
    /\ UNCHANGED sockets

IoResponse ==
    /\ pc = "idle" /\ state = "RES"
    /\ Unread > 0 \/ peer # "open"
    /\ pc' = "flush"
    /\ caller' = "io"
    /\ UNCHANGED <<state, readBuffer, readBufferSize, writeBuffer,
                   writeBufferSize, writeBufferSent, executed>>
    /\ UNCHANGED sockets

\* The event loop drops a connection that io() left in state END.
Destroy ==
    /\ pc = "idle" /\ state = "END"
    /\ pc' = "destroyed"
    /\ UNCHANGED <<state, caller, readBuffer, readBufferSize, writeBuffer,
                   writeBufferSize, writeBufferSent, executed>>
    /\ UNCHANGED sockets

------------------------------------------------------------------------------
(* tryFillBuffer(): one read().  EINTR retries and changes nothing.        *)

FillRead ==
    /\ pc = "fill"
    /\ \E n \in 1 .. Least(Unread, Room) :
          /\ readBuffer' = [i \in 0 .. Capacity - 1 |->
                 IF i \in readBufferSize .. readBufferSize + n - 1
                 THEN received + (i - readBufferSize)
                 ELSE readBuffer[i]]
          /\ readBufferSize' = readBufferSize + n
          /\ received' = received + n
    /\ pc' = "parse"
    /\ UNCHANGED <<state, caller, writeBuffer, writeBufferSize,
                   writeBufferSent, executed, sent, wire, taken, peer>>

FillAgain ==
    /\ pc = "fill"
    /\ Unread = 0 /\ peer = "open"
    /\ pc' = "idle"
    /\ UNCHANGED <<state, caller, readBuffer, readBufferSize, writeBuffer,
                   writeBufferSize, writeBufferSent, executed>>
    /\ UNCHANGED sockets

\* EOF after the client closed, or a read error after it reset.
FillEnd ==
    /\ pc = "fill"
    /\ Unread = 0 /\ peer # "open"
    /\ state' = "END"
    /\ pc' = "idle"
    /\ UNCHANGED <<caller, readBuffer, readBufferSize, writeBuffer,
                   writeBufferSize, writeBufferSent, executed>>
    /\ UNCHANGED sockets

------------------------------------------------------------------------------
(* tryOneRequest(): it reads the length prefix, then the whole frame.      *)

\* Not enough bytes: back to tryFillBuffer, which the state REQ makes read on.
ParseShort ==
    /\ pc = "parse"
    /\ \/ readBufferSize < HeaderSize
       \/ /\ readBufferSize >= HeaderSize
          /\ \E k \in Frames : HeaderIs(k) /\ ~TooLong(k) /\ ~Complete(k)
    /\ pc' = "fill"
    /\ UNCHANGED <<state, caller, readBuffer, readBufferSize, writeBuffer,
                   writeBufferSize, writeBufferSent, executed>>
    /\ UNCHANGED sockets

\* "too long", as soon as the prefix is there.
ParseTooLong ==
    /\ pc = "parse"
    /\ readBufferSize >= HeaderSize
    /\ \E k \in Frames : HeaderIs(k) /\ TooLong(k)
    /\ state' = "END"
    /\ pc' = "idle"
    /\ UNCHANGED <<caller, readBuffer, readBufferSize, writeBuffer,
                   writeBufferSize, writeBufferSent, executed>>
    /\ UNCHANGED sockets

\* "bad request"
ParseBad ==
    /\ pc = "parse"
    /\ readBufferSize >= HeaderSize
    /\ \E k \in MayFail : HeaderIs(k) /\ ~TooLong(k) /\ Complete(k)
    /\ state' = "END"
    /\ pc' = "idle"
    /\ UNCHANGED <<caller, readBuffer, readBufferSize, writeBuffer,
                   writeBufferSize, writeBufferSent, executed>>
    /\ UNCHANGED sockets

\* Run the command, pack its reply, move the rest of the read buffer to its
\* front, and call stateResponse.
ParseExecute ==
    /\ pc = "parse"
    /\ readBufferSize >= HeaderSize
    /\ \E k \in MayParse :
          /\ HeaderIs(k) /\ ~TooLong(k) /\ Complete(k)
          /\ executed' = Append(executed, k)
          /\ writeBuffer' = k
          /\ writeBufferSize' = HeaderSize + ReplySize(k)
          /\ readBuffer' = Moved(k)
          /\ readBufferSize' = Remaining(k)
    /\ state' = "RES"
    /\ pc' = "flush"
    /\ caller' = "tryOneRequest"
    /\ UNCHANGED writeBufferSent
    /\ UNCHANGED sockets

------------------------------------------------------------------------------
(* tryFlushBuffer(): one write().                                          *)

\* write() takes n bytes; the last ones turn the connection back to REQ and
\* return to the request loop, or to the event loop when io() was the caller.
FlushWrite ==
    /\ pc = "flush"
    /\ peer # "reset"
    /\ \E n \in 1 .. Least(writeBufferSize - writeBufferSent, Free) :
          /\ wire' = wire \o [i \in 1 .. n |-> <<writeBuffer, writeBufferSent + i>>]
          /\ writeBufferSent' = SentAfter(n)
          /\ IF Flushed(n)
             THEN /\ state' = "REQ"
                  /\ writeBufferSize' = 0
                  /\ pc' = IF caller = "io" THEN "idle" ELSE "parse"
             ELSE UNCHANGED <<state, writeBufferSize, pc>>
    /\ UNCHANGED <<caller, readBuffer, readBufferSize, writeBuffer, executed,
                   sent, received, taken, peer>>

\* EAGAIN: every loop up to the event loop returns, the state stays RES.
FlushAgain ==
    /\ pc = "flush"
    /\ peer # "reset" /\ Free = 0
    /\ pc' = "idle"
    /\ UNCHANGED <<state, caller, readBuffer, readBufferSize, writeBuffer,
                   writeBufferSize, writeBufferSent, executed>>
    /\ UNCHANGED sockets

FlushError ==
    /\ pc = "flush"
    /\ peer = "reset"
    /\ state' = "END"
    /\ pc' = "idle"
    /\ UNCHANGED <<caller, readBuffer, readBufferSize, writeBuffer,
                   writeBufferSize, writeBufferSent, executed>>
    /\ UNCHANGED sockets

------------------------------------------------------------------------------
(* The client: bytes arrive in any portions, and it may go at any time,    *)
(* in the middle of a frame too.                                           *)

ClientSend ==
    /\ peer = "open"
    /\ \E n \in 1 .. FrameStart[NumFrames] - sent : sent' = sent + n
    /\ UNCHANGED <<received, wire, taken, peer>> /\ UNCHANGED conn

ClientTake ==
    /\ peer = "open"
    /\ taken < Len(wire)
    /\ \E n \in 1 .. Len(wire) - taken : taken' = taken + n
    /\ UNCHANGED <<sent, received, wire, peer>> /\ UNCHANGED conn

ClientLeave ==
    /\ peer # "reset"
    /\ \/ peer = "open" /\ peer' = "closed"
       \/ peer' = "reset"
    /\ UNCHANGED <<sent, received, wire, taken>> /\ UNCHANGED conn

------------------------------------------------------------------------------
tryFillBuffer == FillRead \/ FillAgain \/ FillEnd
tryOneRequest == ParseShort \/ ParseTooLong \/ ParseBad \/ ParseExecute
tryFlushBuffer == FlushWrite \/ FlushAgain \/ FlushError
Client == ClientSend \/ ClientTake \/ ClientLeave

Next ==
    \/ IoRequest \/ IoResponse \/ Destroy
    \/ tryFillBuffer \/ tryOneRequest \/ tryFlushBuffer
    \/ Client

Spec == Init /\ [][Next]_vars
------------------------------------------------------------------------------
TypeOK ==
    /\ state \in {"REQ", "RES", "END"}
    /\ pc \in {"idle", "fill", "parse", "flush", "destroyed"}
    /\ caller \in {"io", "tryOneRequest"}
    /\ readBuffer \in [0 .. Capacity - 1 -> Int]
    /\ readBufferSize \in 0 .. Capacity
    /\ writeBuffer \in 0 .. NumFrames
    /\ writeBufferSize \in Nat
    /\ writeBufferSent \in Nat
    /\ executed \in Seq(Frames)
    /\ sent \in 0 .. FrameStart[NumFrames]
    /\ received \in 0 .. sent
    /\ wire \in Seq(Frames \X Nat)
    /\ taken \in 0 .. Len(wire)
    /\ peer \in {"open", "closed", "reset"}

\* However the stream was cut into reads, the read buffer holds exactly the
\* unparsed bytes received so far, starting with the first byte of a frame:
\* the server never loses its place in the stream.
Framed ==
    /\ received = FrameStart[Len(executed)] + readBufferSize
    /\ \A i \in 0 .. readBufferSize - 1 :
          readBuffer[i] = FrameStart[Len(executed)] + i

\* assert(readBufferSize < readBuffer.capacity()) in tryFillBuffer: there is
\* always room for another byte, so a read() of 0 bytes really is EOF.
ReadRoom == pc = "fill" => readBufferSize < Capacity

\* assert(writeBufferSent <= writeBufferSize), and the two memcpy of
\* tryOneRequest stay in what the write buffer reserved.
WriteBounds == writeBufferSent <= writeBufferSize /\ writeBufferSize <= Capacity

\* Commands run in the order of the stream, none twice and none skipped.
ExecutedInOrder == \A i \in 1 .. Len(executed) : executed[i] = i

\* The bytes on the wire are reply 1, reply 2, ... with no byte missing,
\* doubled or out of place, wherever the partial writes stopped.
NextByte(b) ==
    IF b[2] < HeaderSize + ReplySize(b[1]) THEN <<b[1], b[2] + 1>>
                                           ELSE <<b[1] + 1, 1>>
ReplyStream ==
    /\ wire # <<>> => wire[1] = <<1, 1>>
    /\ \A p \in 1 .. Len(wire) - 1 : wire[p + 1] = NextByte(wire[p])

\* How many replies are on the wire to their last byte.
Answered ==
    IF wire = <<>> THEN 0
    ELSE LET b == wire[Len(wire)]
         IN  IF b[2] = HeaderSize + ReplySize(b[1]) THEN b[1] ELSE b[1] - 1

\* A connection that is ready for another request owes no reply, and one that
\* is in state RES owes exactly one.
NothingOwed ==
    /\ state = "REQ" => Answered = Len(executed)
    /\ state = "RES" => Answered = Len(executed) - 1

\* The connection implements a session: one request at a time, each answered
\* in full before the next one runs, and nothing after the end.
Abstract == INSTANCE Session WITH
    Requests <- NumFrames,
    executedCount <- Len(executed),
    answeredCount <- Answered,
    over <- state = "END"
ImplementsSession == Abstract!Spec
------------------------------------------------------------------------------
\* The inductive invariant behind these properties.

\* Which handler runs in which state.
Control ==
    /\ pc \in {"fill", "parse"} => state = "REQ"
    /\ pc = "flush" => state = "RES"
    /\ pc = "destroyed" => state = "END"

\* Room is lost only by reading and regained by parsing.
SpareRoom ==
    /\ state = "REQ" /\ pc # "parse" => readBufferSize < Capacity
    /\ state = "RES" => readBufferSize + HeaderSize <= Capacity

\* The wire ends with the last byte of the reply to the n-th frame.
WireEnds(n) ==
    IF n = 0 THEN wire = <<>>
    ELSE /\ Len(wire) > 0
         /\ wire[Len(wire)] = <<n, HeaderSize + ReplySize(n)>>

\* What the write buffer holds continues what is on the wire.
Outgoing ==
    /\ state = "REQ" =>
          /\ writeBufferSize = 0 /\ writeBufferSent = 0
          /\ WireEnds(Len(executed))
    /\ state = "RES" =>
          /\ Len(executed) > 0
          /\ writeBuffer = Len(executed)
          /\ writeBufferSize = HeaderSize + ReplySize(writeBuffer)
          /\ writeBufferSent < writeBufferSize
          /\ IF writeBufferSent = 0
             THEN WireEnds(Len(executed) - 1)
             ELSE /\ Len(wire) > 0
                  /\ wire[Len(wire)] = <<Len(executed), writeBufferSent>>

IInv ==
    /\ TypeOK
    /\ Control
    /\ Framed
    /\ SpareRoom
    /\ ExecutedInOrder
    /\ WriteBounds
    /\ Outgoing
    /\ ReplyStream
==============================================================================
