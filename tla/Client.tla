------------------------------- MODULE Client -------------------------------
(***************************************************************************)
(* One run of a client (client/client.cxx) with the blocking helpers of    *)
(* common/socket.cxx, from connect() to its end, and the server it talks   *)
(* to.  Both directions of the connection deliver bytes in order and in    *)
(* pieces of any size; the server may die at any point.                    *)
(*                                                                         *)
(* The server is seen from the outside; what it does inside, byte by byte, *)
(* is module Connection's.  Some requests come from other programs on the  *)
(* same helpers, like those in tests/, which send any message.             *)
(***************************************************************************)
EXTENDS Requests

CONSTANTS
    Commands,     \* what users give to Client::run
    Messages,     \* what other programs send
    WellFormed,   \* commands whose messages are among them
    ReplySizes,   \* sizes of replies
    SendSpace     \* bytes that fit between the client and the server

ASSUME ClientAssumption ==
    /\ \A n \in ReplySizes : n \in 1 .. MaxMessageSize
    /\ \A c \in Commands \cup WellFormed : c \in Seq(Seq(Byte))
    /\ \A m \in Messages : m \in Seq(Byte) /\ Len(m) <= MaxMessageSize
    /\ SendSpace \in Nat \ {0}

VARIABLES
    request,     \* the command, and the bytes that stand for it
    pc,          \* where the client is
    bytesWrote,  \* bytes writeAll has written
    readBuffer,  \* bytes readFull has read: the header, then the body
    outcome,     \* what the client prints
    toServer, toClient,   \* bytes under way
    server,      \* the server's end of the connection
    received,    \* the read buffer of its Connection
    parsed,      \* the results of Request::parse
    answer,      \* the reply
    unsent       \* the bytes of the reply that are not written yet

client == <<request, pc, bytesWrote, readBuffer, outcome>>
connection == <<received, parsed, answer, unsent>>
vars == <<client, toServer, toClient, server, connection>>

Least(a, b) == IF a <= b THEN a ELSE b
After(s, n) == SubSeq(s, n + 1, Len(s))

ByClient(command) ==
    [program |-> "client", command |-> command, bytes |-> Frame(command)]
ByOther(message) ==
    [program |-> "other", command |-> <<>>, bytes |-> Word(Len(message)) \o message]

\* sendRequest returns -1 and writes nothing.
Unsendable == request.program = "client" /\ TooLong(request.command)

\* Mutant: every write() starts at the beginning of the buffer.
PieceFromStart(k) == SubSeq(request.bytes, 1, k)

\* The next k bytes that writeAll passes to write().
Piece(k) == SubSeq(request.bytes, bytesWrote + 1, bytesWrote + k)

\* Where readFull's present call ends: behind the header, then behind the body.
Total(b) == IF Len(b) < WordSize THEN WordSize ELSE WordSize + WordAt(b, 0)

Overlong(b) == Len(b) = WordSize /\ WordAt(b, 0) > MaxMessageSize

\* Mutant: read() returning 0 is not taken for the end of the stream.
StreamFailedOnError == server = "reset"

\* read() returns 0 or -1 once the bytes under way are read.
StreamFailed == server # "up"

Init ==
    /\ request \in {ByClient(c) : c \in Commands} \cup {ByOther(m) : m \in Messages}
    /\ pc = "connect"
    /\ bytesWrote = 0
    /\ readBuffer = <<>>
    /\ outcome = "none"
    /\ toServer = <<>> /\ toClient = <<>>
    /\ server = "up"
    /\ received = <<>>
    /\ parsed = {}
    /\ answer = <<>> /\ unsent = <<>>
------------------------------------------------------------------------------
(* The client.                                                             *)

\* Copying the count of arguments takes as many bytes as the whole message has.
\* The arguments overwrite what is copied too much, unless reading that much
\* behind the count ends the client.
Overread == request.program = "client" /\ request.command # <<>>

\* connect(), and sendRequest up to writeAll.  run() goes on to readResponse
\* whatever sendRequest returns.
Connect ==
    /\ pc = "connect" /\ server = "up"
    /\ \/ Unsendable /\ pc' = "read"
       \/ ~Unsendable /\ pc' = "write"
       \/ ~Unsendable /\ Overread /\ pc' = "killed"
    /\ UNCHANGED <<request, bytesWrote, readBuffer, outcome>>
    /\ UNCHANGED <<toServer, toClient, server, connection>>

\* connect() is refused, and configureConnection throws.
ConnectFails ==
    /\ pc = "connect" /\ server # "up"
    /\ pc' = "done"
    /\ outcome' = "Failed to connect to port"
    /\ UNCHANGED <<request, bytesWrote, readBuffer>>
    /\ UNCHANGED <<toServer, toClient, server, connection>>

Wrote(k) ==
    /\ bytesWrote' = bytesWrote + k
    /\ pc' = IF bytesWrote + k = Len(request.bytes) THEN "read" ELSE "write"
    /\ UNCHANGED <<request, readBuffer, outcome>>

WriteSome ==
    /\ pc = "write" /\ server = "up"
    /\ \E k \in 1 .. Least(Len(request.bytes) - bytesWrote, SendSpace - Len(toServer)) :
          Wrote(k) /\ toServer' = toServer \o Piece(k)
    /\ UNCHANGED <<toClient, server, connection>>

\* The server has closed: the bytes are answered with a reset.
WriteLost ==
    /\ pc = "write" /\ server = "closed"
    /\ \E k \in 1 .. Len(request.bytes) - bytesWrote : Wrote(k)
    /\ server' = "broken"
    /\ UNCHANGED <<toServer, toClient, connection>>

\* ECONNRESET: writeAll and sendRequest return -1.  The error is reported once.
WriteFails ==
    /\ pc = "write" /\ server = "reset"
    /\ pc' = "read"
    /\ server' = "closed"
    /\ UNCHANGED <<request, bytesWrote, readBuffer, outcome>>
    /\ UNCHANGED <<toServer, toClient, connection>>

\* EPIPE, with SIGPIPE, whose default action ends the client.
WriteKilled ==
    /\ pc = "write" /\ server = "broken"
    /\ pc' = "killed"
    /\ UNCHANGED <<request, bytesWrote, readBuffer, outcome>>
    /\ UNCHANGED <<toServer, toClient, server, connection>>

\* readFull, called for the header and then for the body.
Read ==
    /\ pc = "read"
    /\ \E k \in 1 .. Least(Total(readBuffer) - Len(readBuffer), Len(toClient)) :
          LET got == readBuffer \o SubSeq(toClient, 1, k)
              complete == Len(got) = Total(got)
          IN  /\ readBuffer' = got
              /\ toClient' = After(toClient, k)
              /\ pc' = IF complete \/ Overlong(got) THEN "done" ELSE "read"
              /\ outcome' = IF Overlong(got) THEN "too long"
                            ELSE IF complete THEN "reply" ELSE outcome
    /\ UNCHANGED <<request, bytesWrote, toServer, server, connection>>

\* "EOF" stands for an error too: errno is cleared before it is looked at.
ReadFails ==
    /\ pc = "read" /\ toClient = <<>> /\ StreamFailed
    /\ pc' = "done"
    /\ outcome' = IF Len(readBuffer) < WordSize THEN "EOF" ELSE "read() error"
    /\ UNCHANGED <<request, bytesWrote, readBuffer>>
    /\ UNCHANGED <<toServer, toClient, server, connection>>
------------------------------------------------------------------------------
(* The server.                                                             *)

ServerReads ==
    /\ server = "up" /\ toServer # <<>>
    /\ received' = received \o toServer
    /\ toServer' = <<>>
    /\ UNCHANGED <<client, toClient, server, parsed, answer, unsent>>

Complete == Len(received) >= WordSize /\ Len(received) >= WordSize + WordAt(received, 0)

\* tryOneRequest with a whole frame: the command runs and has a reply, or the
\* connection ends.  Behind the frame, the read buffer holds anything.
ServerHandles ==
    /\ server = "up" /\ parsed = {} /\ Complete
    /\ LET stale == [i \in 1 .. MaxMessageSize |-> 0]
           p == Parse(After(received, WordSize) \o stale, WordAt(received, 0))
       IN  /\ parsed' = {p}
           /\ \/ p.ok /\ \E n \in ReplySizes :
                            answer' = Word(n) \o [i \in 1 .. n |-> i]
                 /\ unsent' = answer' /\ UNCHANGED server
              \/ ~p.ok /\ server' = "closed" /\ UNCHANGED <<answer, unsent>>
    /\ UNCHANGED <<client, toServer, toClient, received>>

\* A send buffer holds a whole reply.
ServerWrites ==
    /\ server = "up"
    /\ \E k \in 1 .. Len(unsent) :
          /\ toClient' = toClient \o SubSeq(unsent, 1, k)
          /\ unsent' = After(unsent, k)
    /\ UNCHANGED <<client, toServer, server, received, parsed, answer>>

\* The process ends.  Bytes it has not read make that a reset, which may
\* overtake bytes on their way to the client.
ServerDies ==
    /\ server = "up"
    /\ \/ toServer = <<>> /\ server' = "closed" /\ UNCHANGED toClient
       \/ /\ toServer # <<>> /\ server' = "reset"
          /\ \E n \in 0 .. Len(toClient) : toClient' = SubSeq(toClient, 1, n)
    /\ toServer' = <<>>
    /\ UNCHANGED <<client, connection>>
------------------------------------------------------------------------------
Run ==
    \/ Connect \/ ConnectFails
    \/ WriteSome \/ WriteLost \/ WriteFails \/ WriteKilled
    \/ Read \/ ReadFails
Serve == ServerReads \/ ServerHandles \/ ServerWrites

Next == Run \/ Serve \/ ServerDies

Spec == Init /\ [][Next]_vars

\* Both processes are scheduled.  The server need not die.
FairSpec == Spec /\ WF_vars(Run) /\ WF_vars(Serve)
------------------------------------------------------------------------------
\* Request::parse accepts exactly the messages that stand for a command, and
\* returns that command: a wrong or a lying length, of the message or of an
\* argument, is never read past and never gives another command.
ParseExact ==
    LET message == After(request.bytes, WordSize)
    IN  \A p \in parsed : IF p.ok THEN Message(p.command) = message
                                  ELSE \A c \in WellFormed : Message(c) # message

\* The server runs what the client was given and nothing else, in whatever
\* pieces it came.
Understood ==
    request.program = "client" => \A p \in parsed : p.ok /\ p.command = request.command

\* A reply that is printed is the whole reply to what the server ran, and where
\* none is printed, the server is gone.
ReplyPrinted ==
    pc = "done" => IF outcome = "reply" THEN parsed # {} /\ readBuffer = answer
                                        ELSE server # "up"

\* What the client prints is true.
Truthful == Understood /\ ReplyPrinted

\* A client whose request could be sent comes to its end: with a reply, or
\* because the server refused, closed, was reset or was never there.
Ends == ~Unsendable ~> pc \in {"done", "killed"}
==============================================================================
