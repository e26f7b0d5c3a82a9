# coxx: a verification project

coxx is a small key-value server in C++ in the manner of Redis: one thread,
one `epoll` instance, a length-prefixed request protocol, a hash map with
progressive resizing and sorted sets on an AVL tree.  This directory holds
TLA+ modules translated from that code, TLC configurations that check them on
small instances, and proofs, checked by TLAPS, of what matters most about a
connection, the event loop, the hash map, the sorted set, the key space and
the client.  Paths below are relative to the repository.

    tlc -config MCConnection.cfg MCConnection     # any run, see "The runs"
    tlapm ConnectionProofs.tla                    # the proofs, see section 5;
    tlapm ServerProofs.tla                        # some 17 000 obligations
    tlapm HashMapProofs.tla
    tlapm AVLTreeProofs.tla                       # the longest, about eight minutes
    tlapm ZSetProofs.tla
    tlapm CommandsProofs.tla
    tlapm ClientProofs.tla
    tlapm Recursion.tla

## 1. The system

| component | state | operations | called by |
|---|---|---|---|
| event loop, `server/server.cxx` | the listening socket, the epoll registrations, `connectionByFileDescriptor` | one iteration per event: accept, `io()`, the END branch, the hang-up branch | the process; wakes on what clients do |
| connection, `common/conn.cxx` | `state` (REQ, RES, END), the read buffer and its size, the write buffer, its size and how much of it is sent | `io`, and the loops `stateRequest`, `tryFillBuffer`, `tryOneRequest`, `stateResponse`, `tryFlushBuffer`, which call each other | the event loop |
| commands, `common/req.cxx`, `entry.cxx` | the key space: a hash map of typed entries | `parse`, and get, set, del, keys, zadd, zrem, zscore, zquery | `tryOneRequest` |
| hash map, `map/c/map.c` | two tables of chains with their sizes, the position of the resizing | lookup, insert, pop, size, destroy, each helping a resizing under way | commands and sorted sets |
| sorted set, `zset/zset.cxx` | a map by name and a tree by (score, name), through two links of one `ZNode` | add, update, lookup, pop, query, offset | commands |
| AVL tree, `avl/c/avl.c` | left, right and parent pointers, depth and count in each node | `fixAVL`, `delAVL`, `offsetAVL`, the rotations | sorted sets |
| serialization, `common/serialize.cxx` | none | tagged values appended to a reply | commands, read back by the client |
| client, `client/client.cxx`, helpers in `common/socket.cxx` | one blocking connection, the request, what was read of the reply | `run`: connect, `sendRequest`, `readResponse`, over `writeAll` and `readFull` | a user; other programs, like those in `tests/`, use the helpers alone |
| ports `map/cxx`, `avl/cxx` | as their C versions | | their unit tests only |

A request travels: client, socket, epoll event, `io()`, read buffer,
`parse`, command, hash map and tree, write buffer, socket, client.  All of the
server is one thread; it blocks in `epoll_wait` only.

What is hard here, and is listed line by line under `hazards` in
`PROJECT.json`:

- **Splits.** `read` and `write` stop anywhere.  What the next frame parses as
  depends on every `memmove` before it; what goes out next depends on a pair
  of counters kept across calls of `io()`.
- **Edge-triggered events.** An event comes once.  Whoever returns to the
  event loop with work left needs a reason to be called again.
- **Stale events.** Events of one `epoll_wait` are handled one after the
  other, while sockets are closed and their descriptors reused.
- **Two owners.** A connection is closed by the END branch, by the hang-up
  branch and by its destructor.
- **Limits.** Frames, replies and descriptors at their maximum.
- **Progressive resizing.** For many calls the map is two tables with different
  masks, and a bounded share of the move must suffice.
- **Pointer surgery.** Removing a tree node copies a node's links after a
  rebalancing that may have moved that very node.

What makes each component correct:

- connection: the buffer is always cut at frame boundaries; commands run once, in
  order; the reply stream is the replies, whole and in order; the assertions
  on buffer space hold; together, it *is* a session (below);
- event loop: no stale event is acted on; one object for each open socket;
  no connection is hit by another one's close; every client is accepted,
  answered and finally released;
- hash map: it is a dictionary at every step of a resizing; it never reads
  outside a table; a resizing ends before the next is due; calls return;
- commands: a reply is one whole value, and tells truly whether something
  changed; an error, of whatever kind, means that nothing did; what could be
  stored can be read back;
- client and protocol: the server parses what the user gave and nothing that
  is malformed; what is printed as a reply is the whole reply to that; the
  client ends, whatever becomes of the server;
- sorted set and tree: both indexes hold the same members; the tree is
  balanced with true heights and counts; the order changes only by the pair a
  call is about; offsets and queries agree with a sorted list.

## 2. The modules

    Session     <--implements--  Connection  <-- ConnectionProofs
    Dictionary  <--implements--  HashMap     <-- HashMapProofs
    Ranking     <--implements--  ZSet        <-- ZSetProofs
                                 ZSet      --extends-->  AVLTree  <-- AVLTreeProofs
                                 Server      <-- ServerProofs
                                 Commands    <-- CommandsProofs
                                 Commands  --extends-->  Replies
                                 Client      <-- ClientProofs
                                 Client    --extends-->  Requests
                                 CxxMap

The modules of proofs share `Recursion`, the lemmas on induction.

`Session`, `Dictionary` and `Ranking` are the abstract specifications: what a
component promises, in terms its callers see.

**Connection** (`conn.cxx`, `conn.hxx`) is one connection and its client,
byte by byte.  Bytes are represented by their positions in the client's stream,
so that a buffer is a sequence of positions: a wrong offset shows as a gap or
an overlap.  The variables `state`, `readBuffer`, `readBufferSize`,
`writeBuffer` and so on are the members of `Connection`; `pc` is the loop the thread is in.  Each exit of
`tryFillBuffer`, `tryOneRequest` and `tryFlushBuffer` is one action (`FillRead`,
`FillAgain`, `FillEnd`, `ParseShort`, `ParseTooLong`, ..., `FlushError`).
A command is abstract: it returns an output of some size, which may be over the
limit (`ReplySize` is the TOO_BIG replacement).  `read` and `write` may move
any number of bytes, and clients may stop, leave or send frames that are too
long or not to be parsed.

**Server** (`server.cxx`, and `conn.cxx` again) is the event loop over several
connections, with epoll, the descriptor table, the accept queue and the
clients.  Its unit is a whole request, because `Connection` settles the bytes:
`rx` counts requests in a socket, `tx` units of reply.  `EpollWait`,
`AcceptConnection`, `AcceptFails`, `Io`, `AfterIo`, `HangUp` are the branches of
`Server::run`, one system call each; the `Fill`, `Parse` and `Flush` actions
are the connection's exits.  Clients move between any two of them.

The kernel is modelled from what the code relies on: an edge-triggered
registration puts a descriptor on a ready list when something arrives, or at
registration when something is already there; `epoll_wait` re-polls the
entries, reports at most `MaxEvents` and drops them; EPOLLIN is part of every
event, EPOLLRDHUP/EPOLLHUP are added once the peer has closed; `close` takes a
descriptor off epoll and frees it (`Filtered` is a list without its entry);
`accept` returns the lowest free one; a client may close its sending side and
go on reading (`HalfClose`); a `write` after a reset raises SIGPIPE.  `accept`,
`fcntl` and `EPOLL_CTL_ADD` are one step: what arrives between them is found by the poll
that `EPOLL_CTL_ADD` makes.

**HashMap** (`map.c`) keeps the two tables as functions from slots to
chains.  A call is split where `helpResizing` loops: `HelpSkip`, `HelpMove`,
`HelpDone` are its steps, so that every intermediate state is examined.  A
node is its key, since callers insert only what a lookup did not find
(`req.cxx`, `zset.cxx`); `code & mask` is the remainder by the number of slots,
which `initialize` asserts to be a power of two.

**AVLTree** (`avl.c`) is the pointer structure as operators from heap to heap.
The left and right versions of a C function are one operator with the side as a
parameter.  **ZSet** (`zset.cxx`, and `zquery`'s walk in `req.cxx`) is the
sorted set over it: `Create` and `Move` are the two cases of `add`, `Remove` is
`pop`.  `add` with the score a member already has changes nothing.  Names are
numbers in the order in which `less` puts them.

**Commands** (`req.cxx`) is the eight commands on the key space, one action for
each, and what `tryOneRequest` does around them: it refuses requests that are too
long (`Fits`) and replaces an output that is too big (`Packed`).  It rests on
the abstract specifications of the parts below it: the key space is a
function of its keys, as `HashMap` provides by implementing `Dictionary`, and a
sorted set is its set of pairs, as `ZSet` provides by implementing `Ranking`;
what `zquery` lists is what `ZSet`'s property `QueryLists` says, and that
`keys` lists every key once is `HashMap`'s property `KeysListed`.  Texts have
sizes, because that is what limits apply to.  **Replies** is what
`serialize.cxx` writes and how the client's `deserialize` reads it.

**Requests** is the request protocol, byte by byte: the frame
`Client::sendRequest` makes of a command, and `Request::parse`, which is given
the read buffer from the message on, the message's length, and is to stay
within it.  Integers have `WordSize` bytes of `Base` values, the least
significant first.  `sendRequest` copies as many bytes from behind the
four-byte count as the message has (`client.cxx:129`).  That is undefined; either
the arguments overwrite what was copied too much, as `Message` has it, or the
client ends there, which is a disjunct of `Connect`.

**Client** (`client.cxx`, `socket.cxx`) is one run of a client, from `connect()`
on, or of another program that sends any message with the same helpers.  Each
`write` and `read` of `writeAll` and `readFull` is one step with any number of
bytes.  The server is seen from outside, as `Connection` describes its inside: it
reads, handles a whole frame by `Parse`, writes its reply in pieces, closes on
a malformed message, and may die at any time; bytes it has not read then make
a reset, which may overtake bytes on their way to the client.  The variable
`server` is what the client's kernel knows of the other end: `up`, `closed` (end
of stream), `reset` (an error to report once), `broken` (reset after the
close was seen: the next write raises SIGPIPE).

**CxxMap** (`map/cxx/map.cxx`) is the port of the hash map to `std::unique_ptr`
chains.  It has no other threads or callers, so a call is one action, with the
loop of `helpResizing` a recursive function.  `given` holds what the map was
given and has not handed out; `inBounds` turns false when the loop runs behind
the old table.

The `MC*` modules give the constants their values.

## 3. The runs

| run | asks | states | time |
|---|---|---|---|
| `connection` | is a connection a session, under every split? | 37 k | 5 s |
| `server_safety` | can one client's fate hit another's connection, and which data can be lost? | 1157 k | 45 s |
| `server_liveness` | is everybody accepted, answered, released? | 132 k | 60 s |
| `server_accept`, `server_reply`, `server_sigpipe` | three findings, section 4 | | 5 s each |
| `hashmap` | is it a dictionary throughout a resizing? | 48 k | 20 s |
| `zset_tall` | do rotations and removals keep tree, links, counts and order? | 55 k | 80 s |
| `zset_wide` | do moves, offsets and queries agree with a sorted list? | 3.5 k | 20 s |
| `commands` | do replies tell what happened, and can the client read them? | 1.3 k | 5 s |
| `client` | does the server get what the user typed, the user the whole reply, and does the client end? | 134 k | 15 s |
| `cxxmap` | a finding, section 4: does a lookup find what was inserted? | | 2 s |

Bounds, and why they are enough:

- `connection`: a header of 2 bytes, messages of up to 4, and a stream of four
  frames: a short one, one that fills the read buffer, may be refused and has an
  output over the limit, a short one, and one that is too long.  The read
  buffer then holds several frames, or one and part of the next, or part of
  one, which are all the cases `tryOneRequest` tells apart; outputs lie at
  and above the limit.  The send buffer takes 3 bytes, less than most replies.
- `server_safety`: three clients and two descriptors are the fewest with which
  a descriptor is reused while another connection is open and one client finds no
  descriptor; `MaxEvents` 2 makes events of different clients share a batch and
  leaves some for the next.  One client comes and goes at any time, one may be
  refused, and one pipelines three requests, may shut its sending side down after
  the last, and may close at any time.  Replies of 2 units against a send buffer of
  3 give partial writes and EAGAIN at the second reply: the loop then closes
  the half-closed client with a unit, a whole reply or a request unserved, all of
  which happens in the run, and `Conservation` says how much may be lost and when.
- `server_liveness`: three clients, a patient one that pipelines two requests and
  may half-close, one that may quit and one that may be refused, under the
  restrictions of section 4 (replies of one unit against a send buffer of two).
  `MaxEvents` is 1, so that more descriptors are ready than one `epoll_wait`
  returns; batches of several events are those of `server_safety`.
- `hashmap`: five nodes, tables of 2, 4 and 8 slots, load 1, one move for
  each call, in place of 4 slots, load 8 and 128 moves.  Two resizings happen, and
  most states lie in the middle of one.  Codes collide in every table.
- `zset_tall`: twelve nodes, the size of the smallest tree in which one removal
  rotates at two levels; every shape of AVL tree with up to twelve nodes occurs.
  `zset_wide`: five members, three scores, so that order by score and order by
  name disagree; offsets from -3 to 3 and limits around the sizes, odd ones
  included.
- `client`: integers of two bytes of four values, so that lengths carry over
  into the second byte; messages of up to 8 bytes, hence at most 3 arguments.
  As in the code (4 bytes, 4096, 1024) a message that fits cannot hold too many
  arguments, and the test of `MAX_NUM_ARGS` catches lying counts only.  Users
  give commands of none to three arguments, with empty ones, the longest
  that can be sent and one that cannot.  Other programs send all messages of up
  to two bytes of 0 and 1, and all of up to six whose count is 0 to 6 and
  whose other bytes are 0 to 2, which includes every length that lies by a little,
  short or over, and by a second byte.  The send buffer takes 4 bytes, the header and
  two more, so that `writeAll` takes several turns.
- `cxxmap`: the code's own constants and three nodes, two of them in one chain.
- `commands`: a short key that may hold a sorted set of three members, more than
  fit a reply; a long key, so that the list of both does not fit either;
  values of no length, of the greatest length a request has room for, and
  longer.  Every command meets a missing key and one of each type.

Every property of a passing run has a mutant in `PROJECT.json`: an operator,
next to the one it mutates, that changes it as a plausible mistake would and
makes TLC find the property violated.

## 4. Fairness and the liveness results

`Server`: the thread keeps running (weak fairness of `EventLoop \/ Handler`),
a client that has replies waiting reads them, and a reset on its way arrives.
No client has to connect, send or close.  In the model the thread is enabled
exactly when it is not blocked in `epoll_wait` on an empty ready list.

`HashMap`: a call that has begun keeps running; it is a loop of one thread.

`Client`: the client and the server, each one process, are scheduled (weak
fairness of `Run` and of `Serve`).  The server need not die, and `ServerDies` has
no fairness.  `Ends` is stated for requests that can be sent.  For the
others it is false: `sendRequest` returns -1 with nothing written, `run` prints
"send request error" and goes on to `readResponse` (`client.cxx:215-220`), where
the client waits for a reply and the server for a request.  `Ends` also says
nothing of what is printed: `readResponse` clears `errno` before it looks at
it (`client.cxx:158-160`), so that an error while the header is read is
reported as "EOF", as the action `ReadFails` has it.

`server_liveness` proves nothing about two situations in which the code does
not make progress: its clients connect only when no other is waiting and a
descriptor is free (`OneAtATime`), and their replies fit the send buffer.
The restrictions come from the first two findings, and their own runs lift them.
The free descriptor has a reason of its own: an `accept` that fails for want of
one uses the edge up, and the client waits for the next to connect.  A client that
has shut its sending side down is answered in full under the second restriction
only: the hang-up branch (`server.cxx:117-121`) closes its socket whatever
`io()` could not write.  That loss is in `server_safety`.  Its bounds are `CutShort`'s,
a part of `Conservation`: of what was executed at most the last reply or the end of it,
and no request or unit as long as the replies have not filled the send buffer.

1. `server_accept`, `server.cxx:76-90`.  The listening socket is registered
   edge-triggered and accepted from once per event.  Of two clients that
   connect before one `epoll_wait`, the second waits until a third connects.
2. `server_reply`, `server.cxx:93-94`, `conn.cxx:74-76`.  EPOLLOUT is never
   registered.  When a reply meets a full send buffer, its rest is written only
   if the client sends again; the comment above `Server::run` promises a poll
   flag that follows the connection's state.
3. `server_sigpipe`, `conn.cxx:70`.  Writing to a connection whose client has
   closed and reset raises SIGPIPE, which nothing handles or ignores, so that
   the process ends where `conn.cxx:78-82` means to end one connection.

4. `cxxmap`, `map/cxx/map.cxx:33`.  A lookup moves the node out of its chain, and
   the chain behind it with it; those nodes are gone from the map although they
   were never removed.  The size field is not changed, so that a later
   `helpResizing` counts on nodes that are not there and, with enough of them,
   runs behind the old table (`map.cxx:56`).  The tests look up two nodes
   whose codes do not share a slot.

The third makes the process stop, which is why the runs of `Server` that
allow quitting clients do not check for deadlock.  A server all of whose clients
are done blocks in `epoll_wait`, and a session may simply end, so the
others do not either; a client ends, and `CxxMap` stops where its behaviour is
undefined.  A call of `ZSet` or `Commands` is always possible, and
their runs do check it.

## 5. The proofs

Each module of proofs is about one component, for every value of the constants
its assumptions admit.  None of the properties is inductive alone: each module
finds an invariant that is (`IInv`, `HInv` in `HashMapProofs`, `IndexInv` in
`ZSetProofs`), shows `Init => IInv` and its preservation, one lemma or step for each action, and
derives the properties.  All the strengthenings were checked with TLC first.

`Recursion` states induction, and that recursive functions exist, in terms of
sets and functions.  A theorem with an operator as a parameter could not be
used: no backend instantiates it.  So `Induction` says that a *set* which holds
0 and successors holds every number; it is proved from `Smallest`, which the
library's `WFMin` gives.  A recursive function of TLA+ is a `CHOOSE` of one that
satisfies its equation, which says nothing until there is one.
`RankedFunction` shows that there is one when the equation gives a value from
values of smaller rank only, and `Primitive` is its case for `f[i - 1]`.  With these,
lemmas about `FlattenSeq`, `Value`, `Parse` or `Understood` hold for inputs of every
size.

### Connection

`ConnectionProofs` proves, for every header size, message limit, stream of
frames, output size and send buffer that `Connection` admits:

| theorem | states |
|---|---|
| `TypeCorrect` | `Spec => []TypeOK` |
| `StreamFramed` | the read buffer holds exactly the unparsed bytes, from a frame's first byte |
| `RoomToRead` | the assertion of `tryFillBuffer`: there is always room to read |
| `RoomToWrite` | the assertion of `tryFlushBuffer`, and that a reply fits the write buffer |
| `CommandsInOrder` | commands that ran are a prefix of the stream, in order |
| `RepliesWhole` | what is on the wire is the replies in order, no byte lost or doubled |
| `RepliesOwed` | in state REQ every executed command is answered, in RES all but the last |
| `ConnectionIsSession` | `Connection` implements `Session` |

**Assumptions.** `SizesAssumption` and `StreamAssumption` of `Connection`, which
TLC evaluates in run `connection`.  That frames start at increasing positions
follows by induction (`FramesApart`).

**Argument.**  `IInv` is the
conjunction of `TypeOK` with

- `Control`: which `state` goes with which place of the thread;
- `Framed`: `readBuffer` holds consecutive positions, from the next frame's start;
- `SpareRoom`: before a `read` there is a free byte, and while a reply is
  pending there is room for a whole header, because the frame it answers has
  been moved out; this carries `ReadRoom` from one call of `io()` to the next;
- `ExecutedInOrder` and `WriteBounds`;
- `Outgoing`: what is in the write buffer is the last executed command's
  reply, of which the first `writeBufferSent` bytes are on the wire;
- `ReplyStream`: from which, with `Outgoing`, each `write` appends the right
  bytes.

`Invariance` shows `Init => IInv` and its preservation, one step for each
action and under it one for each conjunct the action disturbs.  The properties
follow from `IInv`, and `ConnectionIsSession` maps each action to a step of
`Session` or to a stutter, using `IInv` in both states.

### Event loop

`ServerProofs`, for every set of clients, number of descriptors, size of a batch,
window, buffer and reply size:

| theorem | states |
|---|---|
| `TypeCorrect` | `Spec => []TypeOK` |
| `EventsNeverStale` | an event's socket and object are, when its turn comes, those `epoll_wait` found |
| `OneObjectPerSocket` | between two events, one connection object for each open socket and no other |
| `ConnectionsKept` | only connections whose client has closed, if only its sending side, or was refused are closed |
| `DataConserved` | `Spec => []Conservation`: while the server has the socket of a client that reads, no request is lost or executed twice and no unit of a reply dropped or sent twice; where it closes such a socket, what `CutShort` allows is lost and no more |
| `NeverAsleep` | under `Roomy`: no connection waits for a wake-up that has been used up |

**Assumption.** `ServerAssumption`, which TLC evaluates in each run of `Server`.
`NeverAsleep` has a hypothesis of its own, `Roomy`: the replies that a client's
window lets it leave unread fit the send buffer.  It is what finding 2 of
section 4 is about: without it the property is false, as run `server_reply`
shows of its consequence.  It holds for the constants of `server_liveness`, which
checks the property.  How many clients connect at once does not matter to it.

**Argument.** `IInv` says that the ready list and the batch hold a descriptor
at most once (so that the close of one event leaves no second event for the
same descriptor behind), and that objects go with sockets except for the one connection whose event is
being handled.  `EventsLive` then survives the steps that could break it, a
close in the middle of a batch and an `accept` that reuses the descriptor.  `KInv` adds who may own a descriptor and what a hang-up event says
about its client; `CInv` adds that clients are distinct across
descriptors and the accept queue, that nothing was read from one that waits, and
what each buffer holds (`Balance`).  `LInv` adds what `CutShort` needs at the moment a
socket is closed: between two calls of `tryOneRequest` a connection's buffers are
empty unless the send buffer has been full (`Settled`), and `io()` has emptied a
socket that is about to be closed, unless it met a full send buffer or refused
the client (`Drained`).  So a client that is closed while it reads has lost something
only if it was refused or its replies had filled the send buffer.  The lemmas on `Filtered` rest on the least element of a
set of numbers.

`WInv`, for `NeverAsleep`, has three parts.  `Unread`: by its window a client has
no more unread than the send buffer holds, so that a reply never waits.
`Elsewhere`: a connection that is not being handled has been served to the end
(`Quiet`), and what arrives next is announced, by an event in the batch, an entry of
the ready list, or because nothing is there to read.  `AtCurrent` says what is
known, at each place of the thread, of the connection being handled: it
may only leave `io()` through an empty socket, which is where the edge-triggered
registration begins to hold again.

Liveness has no theorem: it is outside what the prover does.

### Hash map

`HashMapProofs`, for every set of keys, hash codes, size of the first table, load
factor and amount of work (where the run has five keys and two resizings):

| theorem | states |
|---|---|
| `TypeCorrect` | `Spec => []TypeOK` |
| `AlwaysPlaced` | a node is in the chain its code selects in the table it is in |
| `AlwaysInBounds` | `helpResizing` never reads behind the old table |
| `AlwaysCounted` | the size fields count the nodes, and the tables share none |
| `ResizesInTime` | a resizing ends before the new table reaches its own limit |
| `MapIsDictionary` | `HashMap` implements `Dictionary` |
| `AllKeysListed` | a scan lists each stored key once, through both tables, wherever the move stands |

**Assumption.** `MapAssumption`: codes are natural numbers, and sizes, load factor and
work are positive.  That sizes are powers of two is not needed, because the
model's remainder stands for the code's mask.

**Argument.** The first lemmas are about one chain (a node put in front, a node
unlinked), the next about one table: `Sound(t)` says that its nodes lie where
their codes put them, once each, and are counted.  `HInv` is then about the
two tables: both are sound or null, the old one exists only beside a new one,
they share no node, and the slots before `resizingPosition` are empty.  The
last part is what makes the move safe: if the old table counts a node, some slot
holds it, and that slot is not behind the position.  Each step lemma also says
what becomes of the stored nodes, from which the refinement follows.

`ResizesInTime` needs arithmetic of its own, `InTime`.  With W the work of a
call, N the nodes that began the resizing, m and o those in the new and old table,

    W * m + W <= (W + 1) * (N - o)        between two calls:

a call adds one node to the new table, worth W, and moves W nodes, each worth
W + 1.  Within a call the work done takes the place of the second W.  When o
reaches 0, m is therefore below 2 * N, the limit of the new table, for every
W of at least 1.

`AllKeysListed` is about `Scan`, a recursive function.  Its lemma `Gathered` says
by induction on the slots what has been listed from the first i of them: the nodes in
them, each once.  That no node is listed from both tables is the part of `HInv`
that says they share none.

### Sorted set

`AVLTreeProofs` is about the functions of `avl.c`, for every tree; `ZSetProofs` about
the sorted set, for every finite set of names, all integer scores and every
sequence of calls.

| theorem | states |
|---|---|
| `FixAVLFits` | `fixAVL`, started where one subtree has changed by one level, ends with a balanced, linked and counted tree of the same nodes in the same order |
| `DelAVLCuts` | `delAVL` takes exactly its node out of such a tree |
| `Indexed` | `Spec => []IndexInv`, the inductive invariant |
| `TypeCorrect` | `Spec => []TypeOK`: every link of a member leads to a member or is null, never to a removed node, and a node outside the set is as `create` expects it |
| `AlwaysBalanced`, `AlwaysCounted` | `Spec => []Balanced`, `Spec => []Counted` |
| `AlwaysLinked` | `Spec => []Linked`: the tree holds the members of the map, once each, and parents and children agree |
| `RanksByScore` | `Spec => ImplementsRanking`: a call changes the sorted list by the pair it is about |
| `OffsetsCounted` | `Spec => []OffsetCounts`: `offsetAVL` ends at the member that many places on, or at nothing |
| `QueriesListed` | `Spec => []QueryLists`: `zquery` writes consecutive members from the first that is not before its pair |

**Assumptions.** `NodesAssumption` (nodes are finitely many and none is the null
pointer), `MembersAssumption` and `QueriesAssumption` (scores, offsets and limits are integers), which
TLC evaluates in the runs `zset_tall` and `zset_wide`.

**The shape of a tree.**  A rotation moves whole subtrees, so an invariant that
speaks of a node and its children is not enough.  `Tree(h, T, S, root, before)` has a
ghost `T`: `T[n]` is the set of nodes below `n` and with it.  The tree has all of `S`;
each node's set is made of its children's sets and itself; all of the left one is before it
in the order `before`, all of the right one behind; and links and parents agree
(`NodeOK`, `RootOK`).  `Kept` says of one node that its depth and count are right and
its children's depths differ by at most one.  `Fitted` is a `Tree`, for some `T`,
whose nodes are all `Kept`, and whose other nodes nothing has touched.

**Rebalancing.**  `TurnIs` gives a rotation field by field, and `TurnTree` that the
rotated heap is again a `Tree` for the `T` in which two sets have changed.  While
`fixAVL` climbs, only the node it has come to and its parent may be wrong
(`Stale`): the parent still has the depth that fits the subtree as it was, one level higher or
lower (`Climbs`).  One round of the loop, `FixSingle` or `FixDouble` or nothing, makes that
subtree right and hands the same claim to the parent.  This is what shows
that depths never differ by more than two, so that the code's tests
`l == r + 2` and `l + 2 == r` miss nothing.

**Removal.**  `delAVL` calls itself once, for the successor.  `Successor` says that this is
the leftmost node on the right and has no left child, and `AllCut`
follows the recursion by induction on the size of the subtree.  After the inner call
the node to be deleted may stand elsewhere, but it is still in the tree, its fields are right
for the place it is in, and its successor is in no tree.  `PlacedTree` and `PlacedKeeps` show that
copying the node over the successor and renewing three links then puts one in the other's
place; the order is kept because no member lies between the two.

**The sorted set.**  `IndexInv` is `TypeOK` and that the heap is `Fitted` to the members of the
map by score and name.  `create` hangs a leaf where `TreeAdd`'s way down ends
(`CutLeaf` and `LeafClimbs` are what a leaf does to the tree); an update of the score is a removal and an
insertion, with the order changed only between the moved member and the others while it is out.  The
nodes from left to right are the members in order, by induction on subtrees, and a
sorted list of a set is unique, which gives `Linked` and the refinement.

**Offsets and queries.**  `Place` of a node is one more than the number of nodes before it,
and a sorted list has each node at its place (`ListedAtPlace`).  From a node to
its child the place changes by what `offsetAVL` adds to `pos` (`PlaceOfChild`), so that
`pos` is always the distance from the start, and at the root the counts reach to both ends
of the list (`PlaceOfRoot`).  The loop ends because it first climbs to larger subtrees,
until the target is `Within` one, and then only goes down (`WalkRank`).  A query's candidate is
the `First` node of the subtrees searched so far that is not before the pair, by induction on
subtrees, and `zquery`'s loop is an induction on the members left.

### Commands

`CommandsProofs`, for every set of keys, values, names and scores, every size of
their texts and every limit on messages:

| theorem | states |
|---|---|
| `TypeCorrect` | an entry owns a sorted set exactly when its type says so |
| `RepliesUnderstood` | every reply is one value, which `deserialize` reads to its last byte |
| `ValuesRetrievable` | what a request can store fits a reply |
| `RepliesTell` | a reply tells what the command did, and an error means that nothing changed |

**Assumption.** `CommandsAssumption`, which TLC evaluates in run `commands`.

**Argument.**  Sorted sets stay finite (`Finite`), so that what `zquery` and
`keys` list has an end; and every reply is `Told`: one value that is no array, or
an array's header followed by as many of those as it says.  `FiniteAndTold` is
inductive.  The first part of the module, on `Replies` alone, shows that `Understood`, which is recursive over the
values of a reply like `deserialize` over its bytes, is true of every
`Told` reply, by induction on the number of values left.  `Packed` keeps a
reply `Told` because what it puts in place of one that is too big is one error.  For `Retrievable`,
`ValuesShort` says of the stored values what `Fits` checked when they came; a
request has more overhead than a reply, so that the same limit is enough.

### Client

The first part of `ClientProofs` is about the protocol alone, `Requests`, for all
sizes of integers, bytes and messages; the second about a client, a server and what is
between them, for all commands and messages, sizes of replies and send buffers.

| theorem | states |
|---|---|
| `ParseSound` | what `Request::parse` accepts is, to the last byte, the message of the command it returns |
| `ParseComplete` | it returns the command whose message it is given, whatever lies behind it in memory |
| `ParsesExactly` | `Spec => []ParseExact`: the server parses the command the user gave, and accepts nothing malformed |
| `RepliesPrintedWhole` | a reply that is printed is the server's whole reply; where none is printed the server is gone |
| `AlwaysTruthful` | `Spec => []Truthful`: and that reply answers the request the client was given |

**Assumptions.** `RequestsAssumption` and `ClientAssumption`, which TLC evaluates
in run `client`.  The first has two facts about the code's numbers: four bytes
hold more than the length of a message with its header, and a message of
`MAX_MESSAGE_SIZE` cannot hold `MAX_NUM_ARGS` arguments and one more.

**Argument for the request.**  `ValueOfWord` and `WordOfValue`: writing and reading an
integer are inverse to each other, by induction on its bytes.  A message is a
count and a body, and the body of a command is its first argument's field and the body
of the others (`BodyCons`).  `TakesSound` and `TakesAll` follow the loop of
`parse` by induction on the arguments left: accepted bytes are the body
of what is returned, and a body is accepted.  The second needs that a body
determines its fields, which is where `ValueOfWord` comes in.  A message of a
command with too many arguments is too long to arrive.

`RInv` then says of the way there (`Written`): while the server lives, what it has
received and what is under way are the first `bytesWrote` bytes of
the request, and a request that cannot be sent is not written.  So a whole frame at the
server is the request's frame, and its message the client's.

**Argument for the reply.** `Stream` says that what was read, what is under way and, while the
server lives, what is not written yet are the bytes of the reply, in this
order.  A reset may drop the end of what is under way, but then the server no
longer lives, and what is left is still a part of the reply in its place.
Whatever four bytes `readFull` has as its header are therefore the
reply's own, so that its second call ends where the reply ends.

**Model-checked only.** Liveness: `Accepted`, `Answered`, `Released`, `CallsReturn` and
`Ends` are outside what the prover does.  All other properties of the runs that pass are
proved.  Of `CxxMap` there is nothing to prove: its run shows where it fails.

## 6. Not modelled

- `avl/cxx`: nothing but its test uses it.  It is a prototype that orders nodes by
  depth, which insertion changes, and computes counts from depths.
- Memory exhaustion (`calloc` in `map.c` is not tested), errors in setting up the
  listening socket, logging.
- The order in which a reset and data it overtakes reach a client of `Server`;
  `Client` has it for one client.
- `zset::dispose` and `entryDelete`, which nothing calls: the members of
  a deleted sorted set are never freed.
- Byte strings: names with zero bytes inside, which `zadd` truncates on their way
  into `zset::add` while passing their full length.

## 7. Plan

Done: `Session`, `Connection` and its proofs; `Server`, with half-closing clients;
`Dictionary`, `HashMap`; `Ranking`, `AVLTree`, `ZSet`; `Replies`, `Commands`;
`Requests`, `Client`; `CxxMap`; the proofs of section 5.  What could follow:
theorems on how the parts fit together, where `Commands` and `Server` rest on what
`HashMap`, `ZSet` and `Connection` are shown to implement.
