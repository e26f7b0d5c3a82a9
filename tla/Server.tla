------------------------------- MODULE Server -------------------------------
(***************************************************************************)
(* The event loop (server/server.cxx) driving its connections              *)
(* (common/conn.cxx) through one epoll instance: a single thread, one      *)
(* system call per step, with the clients and the kernel moving in         *)
(* between.                                                                *)
(*                                                                         *)
(* Module Connection follows a connection byte by byte.  Here the unit is  *)
(* a whole request, a reply is ReplySize units, and what matters is which  *)
(* events the loop gets, in which order, and what it does with them.       *)
(***************************************************************************)
EXTENDS Integers, Sequences, FiniteSets

CONSTANTS
    Clients,         \* client processes, each of which connects once
    NoClient,        \* a file descriptor that is not open
    NumFds,          \* descriptors left to the process for connections
    MaxEvents,       \* MAX_EVENTS
    NumRequests,     \* NumRequests[c]: requests c sends
    Window,          \* Window[c]: requests c sends ahead of their replies
    BufferRequests,  \* requests the read buffer holds
    ReplySize,       \* units of a reply
    SendSpace,       \* units the kernel's send buffer holds
    BadClients,      \* clients that may send what the server refuses
    Quitters,        \* clients that may close at any time
    HalfClosers,     \* clients that may shut their sending side down
    OneAtATime       \* clients connect only when none waits to be accepted

ASSUME ServerAssumption ==
    /\ NoClient \notin Clients
    /\ NumFds \in Nat /\ NumRequests \in [Clients -> Nat]
    /\ MaxEvents \in Nat \ {0}
    /\ BufferRequests \in Nat \ {0}
    /\ ReplySize \in Nat \ {0}
    /\ SendSpace \in Nat \ {0}
    /\ Window \in [Clients -> Nat]
    /\ HalfClosers \subseteq Clients
    /\ OneAtATime \in BOOLEAN

Listener == 0
Fds == 1 .. NumFds

VARIABLES
    backlog,   \* clients waiting in the listening socket's queue
    table,     \* whose socket each descriptor is
    ready,     \* epoll's ready list
    batch,     \* the events epoll_wait returned that are not handled yet
    conns,     \* connectionByFileDescriptor
    pc,        \* where the thread is
    caller,    \* who called stateResponse
    peer,      \* what the server's side knows of each client's end
    rx, tx,    \* requests in the receive buffer, units in the send buffer
    sent,      \* requests each client has sent
    served,    \* requests whose command has run
    got,       \* units each client has received
    accepted   \* clients that were accepted

loop == <<table, batch, conns, pc, caller>>
vars == <<backlog, table, ready, batch, conns, pc, caller, peer, rx, tx,
          sent, served, got, accepted>>

------------------------------------------------------------------------------
Least(a, b) == IF a <= b THEN a ELSE b
InSeq(x, s) == \E i \in 1 .. Len(s) : s[i] = x

\* The elements of s that are in keep, in their order.  The provers know
\* nothing of SelectSeq.
Filtered(s, keep) ==
    LET at == {i \in 1 .. Len(s) : s[i] \in keep}
        nth(k) == CHOOSE i \in at : Cardinality({j \in at : j <= i}) = k
    IN  [k \in 1 .. Cardinality(at) |-> s[nth(k)]]

NoConn == [state |-> "NONE", buffered |-> 0, left |-> 0]
Fresh == [state |-> "REQ", buffered |-> 0, left |-> 0]

\* A wake-up puts a descriptor on the ready list once.
Enqueued(fd) == IF InSeq(fd, ready) THEN ready ELSE Append(ready, fd)

FdOf(c) == {fd \in Fds : table[fd] = c}
Woken(c) == IF FdOf(c) = {} THEN ready
            ELSE Enqueued(CHOOSE fd \in FdOf(c) : TRUE)

Readable(c) == rx[c] > 0 \/ peer[c] # "open"

\* What poll finds when epoll_wait visits the ready list.
HasEvent(fd) ==
    IF fd = Listener THEN backlog # <<>>
    ELSE table[fd] # NoClient /\ Readable(table[fd])

\* The event: EPOLLIN is always part of it, EPOLLRDHUP or EPOLLHUP once the
\* client's end is closed.  The last field records whose event it is.
Event(fd) ==
    IF fd = Listener THEN [fd |-> fd, hup |-> FALSE, client |-> NoClient]
    ELSE [fd |-> fd, hup |-> peer[table[fd]] # "open", client |-> table[fd]]

FreeFds == {fd \in Fds : table[fd] = NoClient}

\* close(fd); on a descriptor that is not open it does nothing.
CloseFd(fd) ==
    /\ table' = [table EXCEPT ![fd] = NoClient]
    /\ ready' = Filtered(ready, (Fds \cup {Listener}) \ {fd})
    /\ rx' = IF table[fd] = NoClient THEN rx ELSE [rx EXCEPT ![table[fd]] = 0]

\* Mutant: the listening socket's event is kept for another accept().
RestKeepsListener(b) == IF Head(b).fd = Listener THEN b ELSE Tail(b)

\* The events left after the one at the front.
Rest(b) == Tail(b)

Current == Head(batch).fd
Conn == conns[Current]
Owner == table[Current]

\* Mutant: the hang-up branch closes the socket and keeps the object.
SlotAfterHangUpKept == Conn

\* connectionByFileDescriptor[fd] after the hang-up branch.
SlotAfterHangUp == NoConn

\* Mutant: the loop does not look at the state io() leaves.
EndedNever == FALSE

Ended == Conn.state = "END"

\* Mutant: a partial write() drops the rest of the reply.
LeftAfterDropped(n) == 0

\* Units of the reply left after write() took n of them.
LeftAfter(n) == Conn.left - n

\* Where tryOneRequest returns to when the read buffer holds no request.
AfterShort == "fill"

\* Mutant: a flushed reply ends tryOneRequest's loop too.
AfterReplyStops == "after"

\* Mutant: a flushed reply makes stateResponse write again.
AfterReplyAgain == "flush"

\* Where a flushed reply returns to: the request loop, or the event loop when
\* io() itself was flushing.
AfterReply == IF caller = "io" THEN "after" ELSE "parse"

\* Mutant: tryOneRequest does not see that the read buffer is empty.
HasRequestAlways == TRUE

\* tryOneRequest has a whole request.
HasRequest == Conn.buffered > 0
------------------------------------------------------------------------------
Init ==
    /\ backlog = <<>>
    /\ table = [fd \in Fds |-> NoClient]
    /\ ready = <<>>
    /\ batch = <<>>
    /\ conns = [fd \in Fds |-> NoConn]
    /\ pc = "loop"
    /\ caller = "io"
    /\ peer = [c \in Clients |-> "new"]
    /\ rx = [c \in Clients |-> 0]
    /\ tx = [c \in Clients |-> 0]
    /\ sent = [c \in Clients |-> 0]
    /\ served = [c \in Clients |-> 0]
    /\ got = [c \in Clients |-> 0]
    /\ accepted = {}
------------------------------------------------------------------------------
(* The event loop.                                                         *)

\* epoll_wait, which blocks until an event is there.  Every registration is
\* edge-triggered: an entry leaves the ready list when it is visited.
EpollWait ==
    /\ pc = "loop" /\ batch = <<>>
    /\ LET pending == Filtered(ready, {fd \in Fds \cup {Listener} : HasEvent(fd)})
           n == Least(MaxEvents, Len(pending))
       IN  /\ pending # <<>>
           /\ batch' = [i \in 1 .. n |-> Event(pending[i])]
           /\ ready' = SubSeq(pending, n + 1, Len(pending))
    /\ UNCHANGED <<backlog, table, conns, pc, caller, peer, rx, tx, sent,
                   served, got, accepted>>

\* registerEpollEvent: EPOLL_CTL_ADD finds what has already arrived.
Registered(fd, c) == IF Readable(c) THEN Enqueued(fd) ELSE ready

\* accept() takes the first client in the queue and the lowest descriptor;
\* the new object replaces, and so destroys, one left at that index.
AcceptConnection ==
    /\ pc = "loop" /\ batch # <<>> /\ Current = Listener
    /\ FreeFds # {} /\ backlog # <<>>
    /\ LET fd == CHOOSE f \in FreeFds : \A g \in FreeFds : f <= g
           c == Head(backlog)
           replaced == conns[fd] # NoConn
       IN  /\ table' = IF replaced THEN table ELSE [table EXCEPT ![fd] = c]
           /\ ready' = IF replaced THEN ready ELSE Registered(fd, c)
           /\ conns' = [conns EXCEPT ![fd] = Fresh]
           /\ accepted' = accepted \cup {c}
    /\ backlog' = Tail(backlog)
    /\ batch' = Rest(batch)
    /\ UNCHANGED <<pc, caller, peer, rx, tx, sent, served, got>>

\* "accept() error": no descriptor is left, and the client stays in the queue.
AcceptFails ==
    /\ pc = "loop" /\ batch # <<>> /\ Current = Listener
    /\ FreeFds = {}
    /\ batch' = Rest(batch)
    /\ UNCHANGED <<backlog, table, ready, conns, pc, caller, peer, rx, tx,
                   sent, served, got, accepted>>

\* conn->io()
Io ==
    /\ pc = "loop" /\ batch # <<>> /\ Current # Listener
    /\ \/ /\ Conn.state = "REQ"
          /\ pc' = "fill"
          /\ UNCHANGED caller
       \/ /\ Conn.state = "RES"
          /\ pc' = "flush"
          /\ caller' = "io"
    /\ UNCHANGED <<backlog, table, ready, batch, conns, peer, rx, tx, sent,
                   served, got, accepted>>

\* A connection in state END is taken off epoll and destroyed.
AfterIo ==
    /\ pc = "after"
    /\ \/ /\ Ended
          /\ CloseFd(Current)
          /\ conns' = [conns EXCEPT ![Current] = NoConn]
       \/ ~Ended /\ UNCHANGED <<table, ready, rx, conns>>
    /\ pc' = "hangup"
    /\ UNCHANGED <<backlog, batch, caller, peer, tx, sent, served, got, accepted>>

\* EPOLLRDHUP or EPOLLHUP: close the descriptor, then destroy the object, which
\* closes the same descriptor once more.
HangUp ==
    /\ pc = "hangup"
    /\ \/ /\ Head(batch).hup
          /\ CloseFd(Current)
          /\ conns' = [conns EXCEPT ![Current] = SlotAfterHangUp]
       \/ ~Head(batch).hup /\ UNCHANGED <<table, ready, rx, conns>>
    /\ batch' = Rest(batch)
    /\ pc' = "loop"
    /\ UNCHANGED <<backlog, caller, peer, tx, sent, served, got, accepted>>
------------------------------------------------------------------------------
(* tryFillBuffer: one read().                                              *)

FillData ==
    /\ pc = "fill" /\ rx[Owner] > 0
    /\ LET n == Least(rx[Owner], BufferRequests - Conn.buffered)
       IN  /\ rx' = [rx EXCEPT ![Owner] = @ - n]
           /\ conns' = [conns EXCEPT ![Current].buffered = @ + n]
    /\ pc' = "parse"
    /\ UNCHANGED <<backlog, table, ready, batch, caller, peer, tx, sent,
                   served, got, accepted>>

FillAgain ==
    /\ pc = "fill" /\ ~Readable(Owner)
    /\ pc' = "after"
    /\ UNCHANGED <<backlog, table, ready, batch, conns, caller, peer, rx, tx,
                   sent, served, got, accepted>>

\* EOF, or ECONNRESET.
FillEnd ==
    /\ pc = "fill" /\ rx[Owner] = 0 /\ peer[Owner] # "open"
    /\ conns' = [conns EXCEPT ![Current].state = "END"]
    /\ pc' = "after"
    /\ UNCHANGED <<backlog, table, ready, batch, caller, peer, rx, tx, sent,
                   served, got, accepted>>
------------------------------------------------------------------------------
(* tryOneRequest.                                                          *)

ParseShort ==
    /\ pc = "parse" /\ ~HasRequest
    /\ pc' = AfterShort
    /\ UNCHANGED <<backlog, table, ready, batch, conns, caller, peer, rx, tx,
                   sent, served, got, accepted>>

\* "too long" or "bad request"
ParseBad ==
    /\ pc = "parse" /\ HasRequest /\ Owner \in BadClients
    /\ conns' = [conns EXCEPT ![Current].state = "END"]
    /\ pc' = "after"
    /\ UNCHANGED <<backlog, table, ready, batch, caller, peer, rx, tx, sent,
                   served, got, accepted>>

ParseExecute ==
    /\ pc = "parse" /\ HasRequest
    /\ conns' = [conns EXCEPT ![Current] =
                    [state |-> "RES", buffered |-> @.buffered - 1,
                     left |-> ReplySize]]
    /\ served' = [served EXCEPT ![Owner] = @ + 1]
    /\ pc' = "flush"
    /\ caller' = "tryOneRequest"
    /\ UNCHANGED <<backlog, table, ready, batch, peer, rx, tx, sent, got, accepted>>
------------------------------------------------------------------------------
(* tryFlushBuffer: one write(), which takes what fits.                     *)

FlushWrite ==
    /\ pc = "flush" /\ peer[Owner] \in {"open", "half", "fin"}
    /\ tx[Owner] < SendSpace
    /\ LET n == Least(Conn.left, SendSpace - tx[Owner])
           left == LeftAfter(n)
       IN  /\ tx' = [tx EXCEPT ![Owner] = @ + n]
           /\ conns' = [conns EXCEPT ![Current].left = left,
                                     ![Current].state = IF left = 0 THEN "REQ" ELSE "RES"]
           /\ pc' = IF left = 0 THEN AfterReply ELSE "flush"
    /\ UNCHANGED <<backlog, table, ready, batch, caller, peer, rx, sent,
                   served, got, accepted>>

\* EAGAIN.  The registration has no EPOLLOUT, and nothing modifies it.
FlushAgain ==
    /\ pc = "flush" /\ peer[Owner] \in {"open", "half", "fin"}
    /\ tx[Owner] = SendSpace
    /\ pc' = "after"
    /\ UNCHANGED <<backlog, table, ready, batch, conns, caller, peer, rx, tx,
                   sent, served, got, accepted>>

\* ECONNRESET
FlushError ==
    /\ pc = "flush" /\ peer[Owner] = "rst"
    /\ conns' = [conns EXCEPT ![Current].state = "END"]
    /\ pc' = "after"
    /\ UNCHANGED <<backlog, table, ready, batch, caller, peer, rx, tx, sent,
                   served, got, accepted>>

\* EPIPE, when a reset follows the client's close: write() also raises
\* SIGPIPE, whose default action the program never changes.
FlushKilled ==
    /\ pc = "flush" /\ peer[Owner] = "epipe"
    /\ pc' = "killed"
    /\ UNCHANGED <<backlog, table, ready, batch, conns, caller, peer, rx, tx,
                   sent, served, got, accepted>>
------------------------------------------------------------------------------
(* The clients and the kernel.                                             *)

Connect(c) ==
    /\ pc # "killed" /\ peer[c] = "new"
    /\ OneAtATime => backlog = <<>> /\ FreeFds # {}
    /\ peer' = [peer EXCEPT ![c] = "open"]
    /\ backlog' = Append(backlog, c)
    /\ ready' = Enqueued(Listener)
    /\ UNCHANGED <<rx, tx, sent, served, got, accepted>> /\ UNCHANGED loop

Dropped(c) == c \in accepted /\ FdOf(c) = {}

Send(c) ==
    /\ peer[c] = "open" /\ ~Dropped(c)
    /\ sent[c] < NumRequests[c]
    /\ ReplySize * (sent[c] - Window[c]) < got[c]
    /\ sent' = [sent EXCEPT ![c] = @ + 1]
    /\ rx' = [rx EXCEPT ![c] = @ + 1]
    /\ ready' = Woken(c)
    /\ UNCHANGED <<backlog, peer, tx, served, got, accepted>> /\ UNCHANGED loop

Receive(c) ==
    /\ peer[c] \in {"open", "half"} /\ tx[c] > 0
    /\ tx' = [tx EXCEPT ![c] = @ - 1]
    /\ got' = [got EXCEPT ![c] = @ + 1]
    /\ UNCHANGED <<backlog, ready, peer, rx, sent, served, accepted>>
    /\ UNCHANGED loop

\* shutdown(SHUT_WR) after the last request: the server sees an end of stream,
\* the client goes on reading.
HalfClose(c) ==
    /\ peer[c] = "open" /\ ~Dropped(c)
    /\ c \in HalfClosers /\ sent[c] = NumRequests[c]
    /\ peer' = [peer EXCEPT ![c] = "half"]
    /\ ready' = Woken(c)
    /\ UNCHANGED <<backlog, rx, tx, sent, served, got, accepted>> /\ UNCHANGED loop

\* Closing with replies unread resets the connection.
Close(c) ==
    /\ peer[c] \in {"open", "half"}
    /\ \/ c \in Quitters
       \/ got[c] = ReplySize * NumRequests[c]
       \/ Dropped(c) /\ tx[c] = 0
    /\ peer' = [peer EXCEPT ![c] = IF tx[c] = 0 THEN "fin"
                                       ELSE IF peer[c] = "half" THEN "epipe" ELSE "rst"]
    /\ tx' = [tx EXCEPT ![c] = 0]
    /\ ready' = Woken(c)
    /\ UNCHANGED <<backlog, rx, sent, served, got, accepted>> /\ UNCHANGED loop

\* A reply reaches a client that has closed, which answers with a reset.
Reset(c) ==
    /\ peer[c] = "fin" /\ tx[c] > 0
    /\ peer' = [peer EXCEPT ![c] = "epipe"]
    /\ tx' = [tx EXCEPT ![c] = 0]
    /\ ready' = Woken(c)
    /\ UNCHANGED <<backlog, rx, sent, served, got, accepted>> /\ UNCHANGED loop
------------------------------------------------------------------------------
EventLoop == EpollWait \/ AcceptConnection \/ AcceptFails \/ Io \/ AfterIo \/ HangUp
Handler ==
    \/ FillData \/ FillAgain \/ FillEnd
    \/ ParseShort \/ ParseBad \/ ParseExecute
    \/ FlushWrite \/ FlushAgain \/ FlushError \/ FlushKilled
Environment(c) ==
    \/ Connect(c) \/ Send(c) \/ Receive(c)
    \/ HalfClose(c) \/ Close(c) \/ Reset(c)

Next == EventLoop \/ Handler \/ \E c \in Clients : Environment(c)

Spec == Init /\ [][Next]_vars

\* The thread is scheduled, clients read what has arrived and resets are
\* delivered.  Nobody has to connect, send or close.
Fairness ==
    /\ WF_vars(EventLoop \/ Handler)
    /\ \A c \in Clients : WF_vars(Receive(c)) /\ WF_vars(Reset(c))

FairSpec == Spec /\ Fairness
------------------------------------------------------------------------------
TypeOK ==
    /\ backlog \in Seq(Clients)
    /\ table \in [Fds -> Clients \cup {NoClient}]
    /\ ready \in Seq(Fds \cup {Listener})
    /\ batch \in Seq([fd : Fds \cup {Listener}, hup : BOOLEAN,
                      client : Clients \cup {NoClient}])
    /\ conns \in [Fds -> [state : {"NONE", "REQ", "RES", "END"},
                          buffered : 0 .. BufferRequests,
                          left : 0 .. ReplySize]]
    /\ pc \in {"loop", "fill", "parse", "flush", "after", "hangup", "killed"}
    /\ caller \in {"io", "tryOneRequest"}
    /\ peer \in [Clients -> {"new", "open", "half", "fin", "rst", "epipe"}]
    /\ rx \in [Clients -> Nat]
    /\ tx \in [Clients -> 0 .. SendSpace]
    /\ sent \in [Clients -> Nat] /\ served \in [Clients -> Nat]
    /\ got \in [Clients -> Nat]
    /\ \A c \in Clients : sent[c] <= NumRequests[c] /\ rx[c] <= sent[c]
    /\ accepted \subseteq Clients

\* An event is never stale when its turn comes: handling the events before it
\* has not closed its socket, given its descriptor to another client or left
\* io() a connection it must not be called on; and accept() finds a client.
EventsLive ==
    \A i \in (IF pc = "loop" THEN 1 ELSE 2) .. Len(batch) :
        LET e == batch[i]
        IN  IF e.fd = Listener THEN backlog # <<>>
            ELSE /\ table[e.fd] = e.client
                 /\ conns[e.fd].state \in {"REQ", "RES"}

\* Between two events, a connection object stands for every open socket and
\* for no other, and none is kept in state END.
ObjectPerSocket ==
    pc = "loop" => \A fd \in Fds :
        IF table[fd] = NoClient THEN conns[fd] = NoConn
        ELSE conns[fd].state \in {"REQ", "RES"}

\* The server keeps the connection of every client that has not closed its
\* end and sends nothing it refuses: no close() of a reused descriptor, no
\* destroyed object ever hits a connection other than the one it was meant for.
Kept ==
    \A c \in accepted \ BadClients : peer[c] = "open" => FdOf(c) # {}

Reading(c) == peer[c] \in {"open", "half"}
Delivered(c) == got[c] + tx[c]

\* While the server has the socket of a client that still reads, each of its
\* requests is in the receive buffer, in the read buffer or executed, once,
\* and each unit of a reply is received, in the send buffer or left to write.
ServedWhole ==
    \A fd \in Fds : LET c == table[fd] IN
        c # NoClient /\ Reading(c) =>
            /\ sent[c] = rx[c] + conns[fd].buffered + served[c]
            /\ ReplySize * served[c] = Delivered(c) + conns[fd].left

\* What the server may lose by closing the socket of a client that still
\* reads, as the hang-up branch does with one that has shut its sending side
\* down: of what was executed at most the last reply or the end of it, and,
\* unless it refused the client, no request and no unit at all as long as its
\* replies have not filled the send buffer.
CutShort ==
    \A c \in accepted : FdOf(c) = {} /\ Reading(c) =>
        /\ served[c] <= sent[c]
        /\ ReplySize * (served[c] - 1) <= Delivered(c)
        /\ Delivered(c) <= ReplySize * served[c]
        /\ Delivered(c) < SendSpace =>
              /\ Delivered(c) = ReplySize * served[c]
              /\ c \in BadClients \/ served[c] = sent[c]

\* Requests are executed once each and no unit of a reply is lost or sent
\* twice, across partial writes, EAGAIN and the event loop's turns, up to
\* what CutShort says of a socket that is closed too early.
Conservation == ServedWhole /\ CutShort

\* An idle connection has no request left to look at, in the read buffer or
\* in the socket, unless an event for it is under way.
NoLostWakeup ==
    pc = "loop" => \A fd \in Fds :
        /\ table[fd] # NoClient
        /\ conns[fd].state = "REQ"
        /\ ~\E i \in 1 .. Len(batch) : batch[i].fd = fd
        => /\ conns[fd].buffered = 0
           /\ InSeq(fd, ready) \/ ~Readable(table[fd])

\* A client that connects is accepted.
Accepted == \A c \in Clients : InSeq(c, backlog) ~> c \in accepted

Patient == Clients \ (Quitters \cup BadClients)

\* Every request of a patient client is answered in full, also when the client
\* has shut down its sending side: the event that brings its last requests may
\* be the one that makes the loop close the connection.
Answered ==
    \A c \in Patient : \A n \in 1 .. NumRequests[c] :
        sent[c] >= n ~> got[c] >= ReplySize * n

\* The descriptor of a client that has closed its end, or that the server has
\* refused while it was open, is freed.
Released ==
    \A c \in Clients :
        c \in accepted /\ (peer[c] # "open" \/ \E fd \in FdOf(c) : conns[fd].state = "END")
            ~> c \in accepted /\ FdOf(c) = {}

\* The process does not die of one client's write error.
Survives == pc # "killed"
==============================================================================
