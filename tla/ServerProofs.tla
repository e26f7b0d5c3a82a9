---------------------------- MODULE ServerProofs ----------------------------
(***************************************************************************)
(* The event loop never acts on a stale event, keeps one object for each   *)
(* open socket, loses no data and no wake-up: for every set of clients,    *)
(* number of descriptors and size of a batch.                              *)
(***************************************************************************)
EXTENDS Server, FiniteSetTheorems, SequenceTheorems, Recursion

------------------------------------------------------------------------------
(* Sets of numbers, and what Filtered returns.                             *)

LEMMA Largest ==
    ASSUME NEW n \in Nat, NEW A \in SUBSET (1 .. n), A # {}
    PROVE  \E m \in A : \A j \in A : j <= m
<1> DEFINE T == {n - i : i \in A}
<1>1. \A i \in A : i \in 1 .. n
    OBVIOUS
<1>2. T \in SUBSET Nat /\ T # {}
    <2>1. ASSUME NEW t \in T PROVE t \in Nat
        <3>1. PICK i \in A : t = n - i
            OBVIOUS
        <3>2. QED
            BY <1>1, <3>1
    <2>2. PICK i \in A : TRUE
        OBVIOUS
    <2>3. n - i \in T
        OBVIOUS
    <2>4. QED
        BY <2>1, <2>3
<1>3. PICK x \in T : \A y \in T : x <= y
    BY <1>2, Smallest
<1>4. PICK m \in A : x = n - m
    OBVIOUS
<1>5. \A j \in A : n - m <= n - j
    BY <1>3, <1>4
<1>6. \A j \in A : j <= m
    BY <1>1, <1>5
<1>7. QED
    BY <1>6

\* The k-th smallest element is there.
LEMMA KthExists ==
    ASSUME NEW n \in Nat, NEW A \in SUBSET (1 .. n), NEW k \in 1 .. Cardinality(A)
    PROVE  \E i \in A : Cardinality({j \in A : j <= i}) = k
<1> DEFINE upTo(i) == {j \in A : j <= i}
           T == {i \in A : Cardinality(upTo(i)) >= k}
<1>1. \A B \in SUBSET A : IsFiniteSet(B) /\ Cardinality(B) \in Nat
    <2> TAKE B \in SUBSET A
    <2>1. IsFiniteSet(1 .. n)
        BY FS_Interval
    <2>2. B \subseteq 1 .. n
        OBVIOUS
    <2>3. IsFiniteSet(B)
        BY <2>1, <2>2, FS_Subset
    <2>4. QED
        BY <2>3, FS_CardinalityType
<1>2. T \in SUBSET Nat /\ T # {}
    <2>0. T \in SUBSET Nat
        <3>1. \A i \in A : i \in Nat
            OBVIOUS
        <3>2. QED
            BY <3>1
    <2>1. A # {}
        <3>1. Cardinality({}) = 0
            BY FS_EmptySet
        <3>2. QED
            BY <3>1
    <2>2. PICK m \in A : \A j \in A : j <= m
        BY <2>1, Largest
    <2>3. upTo(m) = A
        BY <2>2
    <2>4. Cardinality(A) \in Nat /\ Cardinality(A) >= k
        BY <1>1
    <2>5. QED
        BY <2>0, <2>3, <2>4
<1>3. PICK i \in T : \A j \in T : i <= j
    BY <1>2, Smallest
<1>4. Cardinality(upTo(i)) <= k
    <2> SUFFICES ASSUME Cardinality(upTo(i)) > k PROVE FALSE
        BY <1>1
    <2> DEFINE B == upTo(i) \ {i}
    <2>1. B \in SUBSET A /\ i \in upTo(i)
        OBVIOUS
    <2>2. Cardinality(B) = Cardinality(upTo(i)) - 1
        BY <1>1, <2>1, FS_RemoveElement
    <2>3. Cardinality(B) >= k
        BY <1>1, <2>2
    <2>4. B # {}
        <3>1. Cardinality({}) = 0
            BY FS_EmptySet
        <3>2. QED
            BY <2>3, <3>1
    <2>5. PICK m \in B : \A j \in B : j <= m
        BY <2>1, <2>4, Largest
    <2>6. m < i /\ m \in A
        <3>1. m \in A /\ i \in A /\ m <= i /\ m # i
            OBVIOUS
        <3>2. m \in 1 .. n /\ i \in 1 .. n
            BY <3>1
        <3>3. QED
            BY <3>1, <3>2
    <2>7. upTo(m) = B
        <3>1. \A j \in A : j <= m => j <= i /\ j # i
            <4>1. \A j \in A : j \in 1 .. n
                OBVIOUS
            <4>2. QED
                BY <2>6, <4>1
        <3>2. QED
            BY <2>5, <3>1
    <2>8. m \in T
        BY <2>3, <2>6, <2>7
    <2>9. QED
        BY <1>3, <2>6, <2>8
<1>5. Cardinality(upTo(i)) = k
    <2>1. Cardinality(upTo(i)) \in Nat /\ Cardinality(upTo(i)) >= k
        BY <1>1
    <2>2. QED
        BY <1>4, <2>1
<1>6. QED
    BY <1>5

LEMMA FilteredFacts ==
    ASSUME NEW S, NEW s \in Seq(S), NEW keep
    PROVE  /\ Filtered(s, keep) \in Seq(S)
           /\ \A k \in 1 .. Len(Filtered(s, keep)) : Filtered(s, keep)[k] \in keep
           /\ (\A i, j \in 1 .. Len(s) : s[i] = s[j] => i = j) =>
                 \A k, l \in 1 .. Len(Filtered(s, keep)) :
                    Filtered(s, keep)[k] = Filtered(s, keep)[l] => k = l
<1> DEFINE at == {i \in 1 .. Len(s) : s[i] \in keep}
           nth(k) == CHOOSE i \in at : Cardinality({j \in at : j <= i}) = k
           n == Cardinality(at)
           f == [k \in 1 .. n |-> s[nth(k)]]
<1>1. Len(s) \in Nat /\ at \in SUBSET (1 .. Len(s))
    OBVIOUS
<1>2. n \in Nat
    <2>1. IsFiniteSet(1 .. Len(s))
        BY <1>1, FS_Interval
    <2>2. IsFiniteSet(at)
        BY <1>1, <2>1, FS_Subset
    <2>3. QED
        BY <2>2, FS_CardinalityType
<1>3. \A k \in 1 .. n : nth(k) \in at /\ Cardinality({j \in at : j <= nth(k)}) = k
    <2> TAKE k \in 1 .. n
    <2>1. \E i \in at : Cardinality({j \in at : j <= i}) = k
        BY <1>1, KthExists
    <2>2. QED
        BY <2>1
<1>4. Filtered(s, keep) = f
    BY DEF Filtered
<1> HIDE DEF at, n, nth
<1>5. \A k \in 1 .. n : s[nth(k)] \in S /\ s[nth(k)] \in keep /\ nth(k) \in 1 .. Len(s)
    BY <1>1, <1>3, ElementOfSeq DEF at
<1>6. f \in Seq(S) /\ Len(f) = n
    BY <1>2, <1>5, SeqDef
<1>7. \A k \in 1 .. n : f[k] \in keep
    BY <1>5
<1>8. ASSUME \A i, j \in 1 .. Len(s) : s[i] = s[j] => i = j,
             NEW k \in 1 .. n, NEW l \in 1 .. n, f[k] = f[l]
      PROVE  k = l
    <2>1. nth(k) = nth(l)
        BY <1>5, <1>8
    <2>2. QED
        BY <1>3, <2>1
<1>9. QED
    BY <1>4, <1>6, <1>7, <1>8
\* A larger element has more elements up to it.
LEMMA RankGrows ==
    ASSUME NEW n \in Nat, NEW A \in SUBSET (1 .. n), NEW i \in A, NEW m \in A, i < m
    PROVE  Cardinality({j \in A : j <= i}) < Cardinality({j \in A : j <= m})
<1> DEFINE upTo(k) == {j \in A : j <= k}
           B == upTo(m) \ {m}
<1>1. \A j \in A : j \in 1 .. n
    OBVIOUS
<1>2. \A C \in SUBSET A : IsFiniteSet(C) /\ Cardinality(C) \in Nat
    <2> TAKE C \in SUBSET A
    <2>1. IsFiniteSet(1 .. n)
        BY FS_Interval
    <2>2. C \subseteq 1 .. n
        OBVIOUS
    <2>3. IsFiniteSet(C)
        BY <2>1, <2>2, FS_Subset
    <2>4. QED
        BY <2>3, FS_CardinalityType
<1>3. upTo(i) \subseteq B /\ B \in SUBSET A /\ upTo(m) \in SUBSET A /\ m \in upTo(m)
    <2>1. B \in SUBSET A /\ upTo(m) \in SUBSET A
        OBVIOUS
    <2>2. m \in 1 .. n
        BY <1>1
    <2>3. m \in upTo(m)
        BY <2>2
    <2>4. ASSUME NEW j \in upTo(i) PROVE j \in B
        <3>1. j \in A /\ j <= i /\ j \in 1 .. n /\ i \in 1 .. n
            BY <1>1
        <3>2. j < m
            BY <2>2, <3>1
        <3>3. QED
            BY <2>2, <3>1, <3>2
    <2>5. QED
        BY <2>1, <2>3, <2>4
<1>4. Cardinality(B) = Cardinality(upTo(m)) - 1
    BY <1>2, <1>3, FS_RemoveElement
<1>5. Cardinality(upTo(i)) <= Cardinality(B)
    BY <1>2, <1>3, FS_Subset
<1>6. upTo(i) \in SUBSET A
    OBVIOUS
<1> HIDE DEF upTo, B
<1>7. Cardinality(upTo(i)) < Cardinality(upTo(m))
    BY <1>2, <1>3, <1>4, <1>5, <1>6
<1>8. QED
    BY <1>7 DEF upTo

LEMMA FilteredKeeps ==
    ASSUME NEW S, NEW s \in Seq(S), NEW keep, NEW i \in 1 .. Len(s), s[i] \in keep
    PROVE  InSeq(s[i], Filtered(s, keep))
<1> DEFINE at == {j \in 1 .. Len(s) : s[j] \in keep}
           upTo(k) == {j \in at : j <= k}
           nth(k) == CHOOSE j \in at : Cardinality(upTo(j)) = k
           n == Cardinality(at)
           f == [k \in 1 .. n |-> s[nth(k)]]
           r == Cardinality(upTo(i))
<1>1. Len(s) \in Nat /\ at \in SUBSET (1 .. Len(s)) /\ i \in at
    OBVIOUS
<1>2. \A C \in SUBSET at : IsFiniteSet(C) /\ Cardinality(C) \in Nat
    <2> TAKE C \in SUBSET at
    <2>1. IsFiniteSet(1 .. Len(s))
        BY <1>1, FS_Interval
    <2>2. C \subseteq 1 .. Len(s)
        BY <1>1
    <2>3. IsFiniteSet(C)
        BY <2>1, <2>2, FS_Subset
    <2>4. QED
        BY <2>3, FS_CardinalityType
<1>3. Filtered(s, keep) = f
    BY DEF Filtered
<1>4. \A k \in 1 .. Len(s) : k \in Nat
    OBVIOUS
<1> HIDE DEF at
<1>5. upTo(i) \in SUBSET at /\ i \in upTo(i) /\ at \in SUBSET at /\ {i} \in SUBSET upTo(i)
    BY <1>1, <1>4
<1>6. n \in Nat /\ r \in 1 .. n
    <2>1. r <= n /\ n \in Nat /\ r \in Nat
        BY <1>2, <1>5, FS_Subset
    <2>2. Cardinality({i}) = 1
        BY FS_Singleton
    <2>3. Cardinality({i}) <= r
        BY <1>2, <1>5, FS_Subset
    <2> HIDE DEF upTo
    <2>4. QED
        BY <2>1, <2>2, <2>3
<1>7. nth(r) \in at /\ Cardinality(upTo(nth(r))) = r
    BY <1>1
<1>8. nth(r) = i
    <2> DEFINE m == nth(r)
    <2>1. m \in at /\ Cardinality(upTo(m)) = r
        BY <1>7
    <2> HIDE DEF m
    <2>2. m \in Nat /\ i \in Nat /\ r \in Nat
        BY <1>1, <1>4, <1>6, <2>1
    <2>3. ~(m < i)
        <3>1. ASSUME m < i PROVE r < r
            BY <1>1, <2>1, <3>1, RankGrows
        <3>2. QED
            BY <2>2, <3>1
    <2>4. ~(i < m)
        <3>1. ASSUME i < m PROVE r < r
            BY <1>1, <2>1, <3>1, RankGrows
        <3>2. QED
            BY <2>2, <3>1
    <2>5. m = i
        BY <2>2, <2>3, <2>4
    <2>6. QED
        BY <2>5 DEF m
<1> HIDE DEF nth, n, r
<1>9. f[r] = s[i] /\ Len(f) = n
    BY <1>6, <1>8
<1>10. QED
    BY <1>3, <1>6, <1>9 DEF InSeq
------------------------------------------------------------------------------
(* The inductive invariant.                                                *)

\* No descriptor is on the ready list twice, and none has two events.
ReadyOnce == \A i, j \in 1 .. Len(ready) : ready[i] = ready[j] => i = j
BatchOnce == \A i, j \in 1 .. Len(batch) : batch[i].fd = batch[j].fd => i = j

EventClients ==
    \A i \in 1 .. Len(batch) : batch[i].fd # Listener => batch[i].client \in Clients

\* The thread is inside the handling of a connection's event.
Busy == pc \in {"fill", "parse", "flush", "after", "hangup"}

ObjectOf(fd) ==
    IF table[fd] = NoClient THEN conns[fd] = NoConn
    ELSE conns[fd].state \in {"REQ", "RES"}

\* ObjectPerSocket, for all but the connection that is being handled.
Objects == \A fd \in Fds : ~(Busy /\ fd = Current) => ObjectOf(fd)

\* The connection that is being handled.
Handled ==
    Busy => /\ batch # <<>> /\ Current \in Fds
            /\ pc = "hangup" => ObjectOf(Current)
            /\ pc # "hangup" => /\ Owner \in Clients
                                /\ Conn.state \in {"REQ", "RES", "END"}
            /\ pc \in {"fill", "parse", "flush"} => Conn.state \in {"REQ", "RES"}

IInv ==
    /\ TypeOK /\ ReadyOnce /\ BatchOnce /\ EventClients
    /\ Objects /\ Handled /\ EventsLive

Descriptors == Fds \cup {Listener}
Events == [fd : Descriptors, hup : BOOLEAN, client : Clients \cup {NoClient}]
Connections == [state : {"NONE", "REQ", "RES", "END"},
                buffered : 0 .. BufferRequests, left : 0 .. ReplySize]

LEMMA ListenerNotConnection == Listener \notin Fds
    BY ServerAssumption DEF Listener, Fds
------------------------------------------------------------------------------
(* The ready list and the batch.                                           *)

LEMMA EnqueuedFacts ==
    ASSUME TypeOK, ReadyOnce, NEW fd \in Descriptors, ready' = Enqueued(fd)
    PROVE  ready' \in Seq(Descriptors) /\ ReadyOnce'
<1>1. ready \in Seq(Descriptors) /\ Len(ready) \in Nat
    BY DEF TypeOK, Descriptors
<1>2. CASE InSeq(fd, ready)
    <2>1. ready' = ready
        BY <1>2 DEF Enqueued
    <2>2. QED
        BY <1>1, <2>1 DEF ReadyOnce
<1>3. CASE ~InSeq(fd, ready)
    <2>1. ready' = Append(ready, fd)
        BY <1>3 DEF Enqueued
    <2>2. /\ ready' \in Seq(Descriptors) /\ Len(ready') = Len(ready) + 1
          /\ \A i \in 1 .. Len(ready) : ready'[i] = ready[i]
          /\ ready'[Len(ready) + 1] = fd
        BY <1>1, <2>1, AppendProperties
    <2>3. \A i \in 1 .. Len(ready) : ready[i] # fd
        BY <1>3 DEF InSeq
    <2>4. ASSUME NEW i \in 1 .. Len(ready'), NEW j \in 1 .. Len(ready'),
                 ready'[i] = ready'[j]
          PROVE  i = j
        <3>1. CASE i \in 1 .. Len(ready) /\ j \in 1 .. Len(ready)
            BY <2>2, <2>4, <3>1 DEF ReadyOnce
        <3>2. CASE i \in 1 .. Len(ready) /\ j = Len(ready) + 1
            BY <2>2, <2>3, <2>4, <3>2
        <3>3. CASE i = Len(ready) + 1 /\ j \in 1 .. Len(ready)
            BY <2>2, <2>3, <2>4, <3>3
        <3>4. QED
            BY <1>1, <2>2, <3>1, <3>2, <3>3
    <2>5. QED
        BY <2>2, <2>4 DEF ReadyOnce
<1>4. QED
    BY <1>2, <1>3

LEMMA WokenFacts ==
    ASSUME TypeOK, ReadyOnce, NEW c \in Clients, ready' = Woken(c)
    PROVE  ready' \in Seq(Descriptors) /\ ReadyOnce'
<1>1. CASE FdOf(c) = {}
    <2>1. ready' = ready
        BY <1>1 DEF Woken
    <2>2. QED
        BY <2>1 DEF TypeOK, Descriptors, ReadyOnce
<1>2. CASE FdOf(c) # {}
    <2> DEFINE fd == CHOOSE fd \in FdOf(c) : TRUE
    <2>1. fd \in Fds
        BY <1>2 DEF FdOf
    <2>2. ready' = Enqueued(fd)
        BY <1>2 DEF Woken
    <2>3. QED
        BY <2>1, <2>2, EnqueuedFacts DEF Descriptors
<1>3. QED
    BY <1>1, <1>2

LEMMA ClosedFacts ==
    ASSUME TypeOK, ReadyOnce, NEW keep, ready' = Filtered(ready, keep)
    PROVE  ready' \in Seq(Descriptors) /\ ReadyOnce'
<1>1. ready \in Seq(Descriptors)
    BY DEF TypeOK, Descriptors
<1>2. QED
    BY <1>1, FilteredFacts DEF ReadyOnce

LEMMA RestFacts ==
    ASSUME TypeOK, batch # <<>>, batch' = Rest(batch)
    PROVE  /\ Len(batch) \in Nat \ {0}
           /\ batch' \in Seq(Events)
           /\ Len(batch') = Len(batch) - 1
           /\ \A i \in 1 .. Len(batch') : batch'[i] = batch[i + 1]
<1>1. batch \in Seq(Events)
    BY DEF TypeOK, Events, Descriptors
<1>2. QED
    BY <1>1, HeadTailProperties, EmptySeq DEF Rest

LEMMA CurrentIsFirst ==
    ASSUME TypeOK, batch # <<>>
    PROVE  1 \in 1 .. Len(batch) /\ Current = batch[1].fd /\ Current \in Descriptors
<1>1. batch \in Seq(Events)
    BY DEF TypeOK, Events, Descriptors
<1>2. Len(batch) \in Nat \ {0}
    BY <1>1, EmptySeq
<1>3. Head(batch) = batch[1] /\ batch[1] \in Events
    BY <1>1, <1>2, ElementOfSeq
<1>4. QED
    BY <1>2, <1>3 DEF Current, Events
------------------------------------------------------------------------------
(* A step of the clients or the kernel.                                    *)

\* The loop's own state does not change.
LEMMA EnvironmentStep ==
    ASSUME IInv, TypeOK', ReadyOnce', UNCHANGED loop, backlog # <<>> => backlog' # <<>>
    PROVE  IInv'
<1> USE DEF IInv, loop
<1>1. BatchOnce' /\ EventClients'
    BY DEF BatchOnce, EventClients
<1>2. Objects' /\ Handled'
    BY DEF Objects, Handled, ObjectOf, Busy, Current, Owner, Conn
<1>3. EventsLive'
    BY DEF EventsLive
<1>4. QED
    BY <1>1, <1>2, <1>3

LEMMA EnvironmentType ==
    ASSUME TypeOK, ReadyOnce, NEW c \in Clients, Environment(c)
    PROVE  TypeOK' /\ ReadyOnce' /\ UNCHANGED loop /\ (backlog # <<>> => backlog' # <<>>)
<1> USE ServerAssumption
<1>1. CASE Connect(c)
    <2>1. ready' \in Seq(Descriptors) /\ ReadyOnce'
        BY <1>1, EnqueuedFacts DEF Connect, Descriptors
    <2>2. backlog' \in Seq(Clients) /\ backlog' # <<>>
        <3>1. backlog \in Seq(Clients) /\ backlog' = Append(backlog, c)
            BY <1>1 DEF Connect, TypeOK
        <3>2. QED
            BY <3>1, AppendProperties
    <2>3. peer' \in [Clients -> {"new", "open", "half", "fin", "rst", "epipe"}]
        BY <1>1 DEF Connect, TypeOK
    <2>4. QED
        BY <1>1, <2>1, <2>2, <2>3 DEF Connect, TypeOK, Descriptors, loop
<1>2. CASE Send(c)
    <2>1. ready' \in Seq(Descriptors) /\ ReadyOnce'
        BY <1>2, WokenFacts DEF Send
    <2>2. /\ sent' \in [Clients -> Nat] /\ rx' \in [Clients -> Nat]
          /\ \A d \in Clients : sent'[d] <= NumRequests[d] /\ rx'[d] <= sent'[d]
        <3>1. /\ sent' = [sent EXCEPT ![c] = @ + 1] /\ rx' = [rx EXCEPT ![c] = @ + 1]
              /\ sent[c] < NumRequests[c]
            BY <1>2 DEF Send
        <3>2. /\ sent \in [Clients -> Nat] /\ rx \in [Clients -> Nat]
              /\ NumRequests \in [Clients -> Nat]
              /\ \A d \in Clients : sent[d] <= NumRequests[d] /\ rx[d] <= sent[d]
            BY DEF TypeOK
        <3> HIDE ServerAssumption
        <3>3. QED
            BY <3>1, <3>2
    <2>3. QED
        BY <1>2, <2>1, <2>2 DEF Send, TypeOK, Descriptors, loop
<1>3. CASE Receive(c)
    <2>1. ready' = ready /\ ReadyOnce'
        BY <1>3 DEF Receive, ReadyOnce
    <2>2. tx' \in [Clients -> 0 .. SendSpace] /\ got' \in [Clients -> Nat]
        BY <1>3 DEF Receive, TypeOK
    <2>3. QED
        BY <1>3, <2>1, <2>2 DEF Receive, TypeOK, loop
<1>4. CASE HalfClose(c)
    <2>1. ready' \in Seq(Descriptors) /\ ReadyOnce'
        BY <1>4, WokenFacts DEF HalfClose
    <2>2. peer' \in [Clients -> {"new", "open", "half", "fin", "rst", "epipe"}]
        BY <1>4 DEF HalfClose, TypeOK
    <2>3. QED
        BY <1>4, <2>1, <2>2 DEF HalfClose, TypeOK, Descriptors, loop
<1>5. CASE Close(c)
    <2>1. ready' \in Seq(Descriptors) /\ ReadyOnce'
        BY <1>5, WokenFacts DEF Close
    <2>2. peer' \in [Clients -> {"new", "open", "half", "fin", "rst", "epipe"}]
        BY <1>5 DEF Close, TypeOK
    <2>3. tx' \in [Clients -> 0 .. SendSpace]
        BY <1>5 DEF Close, TypeOK
    <2>4. QED
        BY <1>5, <2>1, <2>2, <2>3 DEF Close, TypeOK, Descriptors, loop
<1>6. CASE Reset(c)
    <2>1. ready' \in Seq(Descriptors) /\ ReadyOnce'
        BY <1>6, WokenFacts DEF Reset
    <2>2. peer' \in [Clients -> {"new", "open", "half", "fin", "rst", "epipe"}]
        BY <1>6 DEF Reset, TypeOK
    <2>3. tx' \in [Clients -> 0 .. SendSpace]
        BY <1>6 DEF Reset, TypeOK
    <2>4. QED
        BY <1>6, <2>1, <2>2, <2>3 DEF Reset, TypeOK, Descriptors, loop
<1>7. QED
    BY <1>1, <1>2, <1>3, <1>4, <1>5, <1>6 DEF Environment
------------------------------------------------------------------------------
(* A step of the connection's code.                                        *)

\* The batch, the table and the ready list stay, and of the objects only the
\* current one changes.
LEMMA HandlerStep ==
    ASSUME IInv, TypeOK', pc \in {"fill", "parse", "flush"},
           UNCHANGED <<backlog, table, ready, batch>>,
           NEW x, conns' = [conns EXCEPT ![Current] = x],
           \/ pc' \in {"fill", "parse", "flush", "after", "killed"} /\ x.state \in {"REQ", "RES"}
           \/ pc' = "after" /\ x.state = "END"
    PROVE  IInv'
<1>1. /\ batch # <<>> /\ Current \in Fds /\ Owner \in Clients
      /\ Owner # NoClient /\ Current' = Current /\ Owner' = Owner
    BY ServerAssumption DEF IInv, Handled, Busy, Current, Owner
<1>2. /\ conns \in [Fds -> Connections]
      /\ conns'[Current] = x
      /\ \A fd \in Fds : fd # Current => conns'[fd] = conns[fd]
    BY <1>1 DEF IInv, TypeOK, Connections
<1>3. ReadyOnce' /\ BatchOnce' /\ EventClients'
    BY DEF IInv, ReadyOnce, BatchOnce, EventClients
<1>4. Objects'
    <2>1. ASSUME NEW fd \in Fds, fd # Current PROVE ObjectOf(fd)'
        <3>1. ObjectOf(fd)
            BY <2>1 DEF IInv, Objects
        <3>2. QED
            BY <1>2, <2>1, <3>1 DEF ObjectOf
    <2>2. pc' = "killed" => ObjectOf(Current)'
        BY <1>1, <1>2 DEF ObjectOf, Owner
    <2>3. Busy' \/ pc' = "killed"
        BY DEF Busy
    <2>4. ASSUME NEW fd \in Fds, ~(Busy' /\ fd = Current') PROVE ObjectOf(fd)'
        BY <1>1, <2>1, <2>2, <2>3, <2>4 DEF ObjectOf
    <2>5. QED
        BY <2>4 DEF Objects
<1>5. Handled'
    BY <1>1, <1>2 DEF Handled, Conn, Busy
<1>6. EventsLive'
    <2> SUFFICES ASSUME NEW i \in 2 .. Len(batch)
                 PROVE  IF batch[i].fd = Listener THEN backlog # <<>>
                        ELSE /\ table[batch[i].fd] = batch[i].client
                             /\ conns'[batch[i].fd].state \in {"REQ", "RES"}
        BY DEF EventsLive
    <2>1. IF batch[i].fd = Listener THEN backlog # <<>>
          ELSE /\ table[batch[i].fd] = batch[i].client
               /\ conns[batch[i].fd].state \in {"REQ", "RES"}
        BY DEF IInv, EventsLive
    <2>2. batch[i].fd # Current /\ batch[i].fd \in Descriptors
        <3>1. batch \in Seq(Events) /\ Len(batch) \in Nat
            BY DEF IInv, TypeOK, Events, Descriptors
        <3>2. i \in 1 .. Len(batch) /\ i # 1
            BY <3>1
        <3>3. Current = batch[1].fd /\ 1 \in 1 .. Len(batch)
            BY <1>1, CurrentIsFirst DEF IInv
        <3>4. batch[i] \in Events
            BY <3>1, <3>2, ElementOfSeq
        <3>5. QED
            BY <3>2, <3>3, <3>4 DEF IInv, BatchOnce, Events
    <2>3. QED
        BY <1>2, <2>1, <2>2 DEF Descriptors
<1>7. QED
    BY <1>3, <1>4, <1>5, <1>6 DEF IInv

\* The object of the connection at hand, which every handler finds.
LEMMA AtHand ==
    ASSUME IInv, pc \in {"fill", "parse", "flush"}
    PROVE  /\ Current \in Fds /\ Owner \in Clients
           /\ Conn \in Connections /\ Conn.state \in {"REQ", "RES"}
           /\ conns \in [Fds -> Connections]
    BY DEF IInv, Handled, Busy, TypeOK, Connections, Conn

\* A handler that leaves the object as it is.
LEMMA ObjectStays ==
    ASSUME IInv, pc \in {"fill", "parse", "flush"}, pc' \in {"fill", "after", "killed"},
           UNCHANGED <<backlog, table, ready, batch, conns, caller, peer, rx, tx,
                       sent, served, got, accepted>>
    PROVE  IInv'
<1>1. TypeOK'
    BY DEF IInv, TypeOK
<1>2. conns' = [conns EXCEPT ![Current] = Conn]
    BY AtHand DEF Conn
<1>3. QED
    BY <1>1, <1>2, AtHand, HandlerStep

\* A handler that ends the connection.
LEMMA ObjectEnds ==
    ASSUME IInv, pc \in {"fill", "parse", "flush"}, pc' = "after",
           conns' = [conns EXCEPT ![Current].state = "END"],
           UNCHANGED <<backlog, table, ready, batch, caller, peer, rx, tx,
                       sent, served, got, accepted>>
    PROVE  IInv'
<1> DEFINE x == [Conn EXCEPT !.state = "END"]
<1>1. x \in Connections /\ x.state = "END"
    BY AtHand DEF Connections
<1>2. conns' = [conns EXCEPT ![Current] = x]
    BY DEF Conn
<1>3. conns' \in [Fds -> Connections]
    BY <1>1, <1>2, AtHand
<1>4. TypeOK'
    BY <1>3 DEF IInv, TypeOK, Connections
<1>5. QED
    BY <1>1, <1>2, <1>4, HandlerStep

LEMMA FillDataInvariance == ASSUME IInv, FillData PROVE IInv'
<1> DEFINE n == Least(rx[Owner], BufferRequests - Conn.buffered)
           x == [Conn EXCEPT !.buffered = @ + n]
<1>1. pc = "fill" /\ pc' = "parse" /\ rx' = [rx EXCEPT ![Owner] = @ - n]
    BY DEF FillData
<1>2. conns' = [conns EXCEPT ![Current] = x]
    BY DEF FillData, Conn
<1>3. rx \in [Clients -> Nat] /\ Conn.buffered \in 0 .. BufferRequests /\ Owner \in Clients
    BY <1>1, AtHand DEF IInv, TypeOK, Connections
<1>4. n \in 0 .. rx[Owner] /\ Conn.buffered + n \in 0 .. BufferRequests
    BY <1>3, ServerAssumption DEF Least
<1>5. x \in Connections /\ x.state = Conn.state
    BY <1>1, <1>4, AtHand DEF Connections
<1>6. conns' \in [Fds -> Connections]
    BY <1>1, <1>2, <1>5, AtHand
<1>7. /\ rx' \in [Clients -> Nat]
      /\ \A c \in Clients : rx'[c] <= rx[c]
    BY <1>1, <1>3, <1>4
<1>8. /\ sent' = sent /\ sent \in [Clients -> Nat]
      /\ \A c \in Clients : sent[c] <= NumRequests[c] /\ rx[c] <= sent[c]
    BY DEF FillData, IInv, TypeOK
<1>9. \A c \in Clients : sent'[c] <= NumRequests[c] /\ rx'[c] <= sent'[c]
    BY <1>3, <1>7, <1>8
<1>10. TypeOK'
    BY <1>6, <1>7, <1>9 DEF FillData, IInv, TypeOK, Connections
<1>11. UNCHANGED <<backlog, table, ready, batch>>
    BY DEF FillData
<1>12. QED
    BY <1>1, <1>2, <1>5, <1>10, <1>11, AtHand, HandlerStep

LEMMA ParseExecuteInvariance == ASSUME IInv, ParseExecute PROVE IInv'
<1> DEFINE x == [state |-> "RES", buffered |-> Conn.buffered - 1, left |-> ReplySize]
<1>1. /\ pc = "parse" /\ pc' = "flush" /\ Conn.buffered > 0
      /\ conns' = [conns EXCEPT ![Current] = x]
      /\ UNCHANGED <<backlog, table, ready, batch>>
    BY DEF ParseExecute, HasRequest, Conn
<1>2. x \in Connections /\ x.state = "RES"
    BY <1>1, AtHand, ServerAssumption DEF Connections
<1>3. conns' \in [Fds -> Connections]
    BY <1>1, <1>2, AtHand
<1>4. served' \in [Clients -> Nat]
    <2>1. served' = [served EXCEPT ![Owner] = @ + 1]
        BY DEF ParseExecute
    <2>2. served \in [Clients -> Nat] /\ Owner \in Clients
        BY <1>1, AtHand DEF IInv, TypeOK
    <2>3. QED
        BY <2>1, <2>2
<1>5. TypeOK'
    BY <1>1, <1>3, <1>4 DEF ParseExecute, IInv, TypeOK, Connections
<1>6. QED
    BY <1>1, <1>2, <1>5, HandlerStep

LEMMA FlushWriteInvariance == ASSUME IInv, FlushWrite PROVE IInv'
<1> DEFINE n == Least(Conn.left, SendSpace - tx[Owner])
           left == LeftAfter(n)
           x == [Conn EXCEPT !.left = left, !.state = IF left = 0 THEN "REQ" ELSE "RES"]
<1>1. /\ pc = "flush" /\ pc' \in {"after", "parse", "flush"}
      /\ UNCHANGED <<backlog, table, ready, batch>>
      /\ tx[Owner] < SendSpace /\ tx' = [tx EXCEPT ![Owner] = @ + n]
    BY DEF FlushWrite, AfterReply
<1>2. conns' = [conns EXCEPT ![Current] = x]
    BY <1>1, AtHand DEF FlushWrite, Conn, Connections
<1>3. tx \in [Clients -> 0 .. SendSpace] /\ Conn.left \in 0 .. ReplySize /\ Owner \in Clients
    BY <1>1, AtHand DEF IInv, TypeOK, Connections
<1>4. left \in 0 .. ReplySize /\ tx[Owner] + n \in 0 .. SendSpace
    BY <1>1, <1>3, ServerAssumption DEF Least, LeftAfter
<1>5. x \in Connections /\ x.state \in {"REQ", "RES"}
    BY <1>1, <1>4, AtHand DEF Connections
<1>6. conns' \in [Fds -> Connections] /\ tx' \in [Clients -> 0 .. SendSpace]
    BY <1>1, <1>2, <1>3, <1>4, <1>5, AtHand
<1>7. TypeOK'
    BY <1>1, <1>6 DEF FlushWrite, IInv, TypeOK, Connections
<1>8. QED
    BY <1>1, <1>2, <1>5, <1>7, HandlerStep

LEMMA HandlerInvariance == ASSUME IInv, Handler PROVE IInv'
<1>1. CASE FillAgain \/ ParseShort \/ FlushAgain \/ FlushKilled
    BY <1>1, ObjectStays DEF FillAgain, ParseShort, FlushAgain, FlushKilled, AfterShort
<1>2. CASE FillEnd \/ ParseBad \/ FlushError
    BY <1>2, ObjectEnds DEF FillEnd, ParseBad, FlushError
<1>3. QED
    BY <1>1, <1>2, FillDataInvariance, ParseExecuteInvariance, FlushWriteInvariance
       DEF Handler
------------------------------------------------------------------------------
(* A step of the event loop.                                               *)

\* What epoll_wait returns is live: the events are of different descriptors,
\* and poll has just looked at each.
LEMMA EpollWaitInvariance == ASSUME IInv, EpollWait PROVE IInv'
<1> DEFINE some == {fd \in Fds \cup {Listener} : HasEvent(fd)}
           pending == Filtered(ready, some)
           n == Least(MaxEvents, Len(pending))
<1>1. /\ pc = "loop" /\ pc' = "loop"
      /\ batch' = [i \in 1 .. n |-> Event(pending[i])]
      /\ ready' = SubSeq(pending, n + 1, Len(pending))
      /\ UNCHANGED <<backlog, table, conns, caller, peer, rx, tx, sent,
                     served, got, accepted>>
    BY DEF EpollWait
<1>2. ready \in Seq(Descriptors)
    BY DEF IInv, TypeOK, Descriptors
<1>3. /\ pending \in Seq(Descriptors)
      /\ \A k \in 1 .. Len(pending) : pending[k] \in some
      /\ \A k, l \in 1 .. Len(pending) : pending[k] = pending[l] => k = l
    <2>1. \A i, j \in 1 .. Len(ready) : ready[i] = ready[j] => i = j
        BY DEF IInv, ReadyOnce
    <2>2. QED
        BY <1>2, <2>1, FilteredFacts
<1> HIDE DEF some, pending
<1>4. /\ Len(pending) \in Nat /\ n \in Nat /\ n <= Len(pending)
    BY <1>3, ServerAssumption DEF Least
<1> HIDE DEF n
<1>5. ready' \in Seq(Descriptors) /\ ReadyOnce'
    <2>1. /\ ready' \in Seq(Descriptors)
          /\ Len(ready') = Len(pending) - n
          /\ \A i \in 1 .. Len(pending) - n : ready'[i] = pending[i + n]
        BY <1>1, <1>3, <1>4
    <2>2. ASSUME NEW i \in 1 .. Len(ready'), NEW j \in 1 .. Len(ready'),
                 ready'[i] = ready'[j]
          PROVE  i = j
        <3>1. /\ i + n \in 1 .. Len(pending) /\ j + n \in 1 .. Len(pending)
              /\ pending[i + n] = pending[j + n]
            BY <1>4, <2>1, <2>2
        <3>2. i + n = j + n
            BY <1>3, <3>1
        <3>3. QED
            BY <1>4, <2>1, <3>2
    <2>3. QED
        BY <2>1, <2>2 DEF ReadyOnce
<1>6. ASSUME NEW i \in 1 .. n
      PROVE  /\ Event(pending[i]) \in Events
             /\ Event(pending[i]).fd = pending[i]
             /\ pending[i] = Listener => backlog # <<>>
             /\ pending[i] # Listener =>
                   /\ pending[i] \in Fds
                   /\ Event(pending[i]).client = table[pending[i]]
                   /\ table[pending[i]] \in Clients
                   /\ conns[pending[i]].state \in {"REQ", "RES"}
    <2>1. i \in 1 .. Len(pending)
        BY <1>4
    <2>2. pending[i] \in Descriptors /\ HasEvent(pending[i])
        BY <1>3, <2>1 DEF some, Descriptors
    <2>3. CASE pending[i] = Listener
        BY <2>2, <2>3 DEF HasEvent, Event, Events, Descriptors
    <2>4. CASE pending[i] # Listener
        <3>1. pending[i] \in Fds /\ table[pending[i]] # NoClient
            BY <2>2, <2>4 DEF HasEvent, Descriptors
        <3>2. table[pending[i]] \in Clients
            BY <3>1 DEF IInv, TypeOK
        <3>3. conns[pending[i]].state \in {"REQ", "RES"}
            BY <1>1, <3>1 DEF IInv, Objects, Busy, ObjectOf
        <3>4. QED
            BY <2>2, <2>4, <3>1, <3>2, <3>3 DEF Event, Events, Descriptors
    <2>5. QED
        BY <2>3, <2>4
<1>7. /\ batch' \in Seq(Events) /\ Len(batch') = n
      /\ \A i \in 1 .. n : batch'[i] = Event(pending[i])
    BY <1>1, <1>4, <1>6, SeqDef
<1>8. TypeOK'
    BY <1>1, <1>5, <1>7 DEF IInv, TypeOK, Descriptors, Events
<1>9. BatchOnce'
    <2>1. ASSUME NEW i \in 1 .. n, NEW j \in 1 .. n, batch'[i].fd = batch'[j].fd
          PROVE  i = j
        <3>1. pending[i] = pending[j]
            BY <1>6, <1>7, <2>1
        <3>2. QED
            BY <1>3, <1>4, <3>1
    <2>2. QED
        BY <1>7, <2>1 DEF BatchOnce
<1>10. EventClients' /\ EventsLive'
    <2>1. ASSUME NEW i \in 1 .. n
          PROVE  IF batch'[i].fd = Listener THEN backlog # <<>>
                 ELSE /\ batch'[i].client \in Clients
                      /\ table[batch'[i].fd] = batch'[i].client
                      /\ conns[batch'[i].fd].state \in {"REQ", "RES"}
        BY <1>6, <1>7
    <2>2. EventClients'
        BY <1>7, <2>1 DEF EventClients
    <2>3. EventsLive'
        <3>1. UNCHANGED <<backlog, table, conns>> /\ pc' = "loop" /\ Len(batch') = n
            BY <1>1, <1>7
        <3>2. QED
            BY <2>1, <3>1 DEF EventsLive
    <2>4. QED
        BY <2>2, <2>3
<1>11. Objects' /\ Handled'
    BY <1>1 DEF IInv, Objects, Handled, Busy, ObjectOf
<1>12. QED
    BY <1>5, <1>8, <1>9, <1>10, <1>11 DEF IInv

\* The events left after the current one are of other descriptors, and live.
LEMMA OthersLive ==
    ASSUME IInv, batch # <<>>, batch' = Rest(batch)
    PROVE  /\ batch' \in Seq(Events)
           /\ BatchOnce' /\ EventClients'
           /\ \A i \in 1 .. Len(batch') :
                 /\ batch'[i].fd \in Descriptors \ {Current}
                 /\ batch'[i].fd = Listener => backlog # <<>>
                 /\ batch'[i].fd # Listener =>
                       /\ batch'[i].client \in Clients
                       /\ table[batch'[i].fd] = batch'[i].client
                       /\ conns[batch'[i].fd].state \in {"REQ", "RES"}
<1>1. /\ Len(batch) \in Nat \ {0}
      /\ batch' \in Seq(Events)
      /\ Len(batch') = Len(batch) - 1
      /\ \A i \in 1 .. Len(batch') : batch'[i] = batch[i + 1]
    BY RestFacts DEF IInv
<1>2. \A i \in 1 .. Len(batch') : i \in Nat /\ i + 1 \in 2 .. Len(batch)
    BY <1>1
<1>3. Current = batch[1].fd /\ 1 \in 1 .. Len(batch)
    BY CurrentIsFirst DEF IInv
<1>4. BatchOnce'
    <2>1. ASSUME NEW i \in 1 .. Len(batch'), NEW j \in 1 .. Len(batch'),
                 batch'[i].fd = batch'[j].fd
          PROVE  i = j
        <3>1. batch[i + 1].fd = batch[j + 1].fd
            BY <1>1, <2>1
        <3>2. i + 1 \in 1 .. Len(batch) /\ j + 1 \in 1 .. Len(batch)
            BY <1>1, <1>2
        <3>3. i + 1 = j + 1
            BY <3>1, <3>2 DEF IInv, BatchOnce
        <3>4. QED
            BY <1>2, <3>3
    <2>2. QED
        BY <2>1 DEF BatchOnce
<1>5. ASSUME NEW i \in 1 .. Len(batch')
      PROVE  /\ batch'[i].fd \in Descriptors \ {Current}
             /\ batch'[i].fd = Listener => backlog # <<>>
             /\ batch'[i].fd # Listener =>
                   /\ batch'[i].client \in Clients
                   /\ table[batch'[i].fd] = batch'[i].client
                   /\ conns[batch'[i].fd].state \in {"REQ", "RES"}
    <2> DEFINE k == i + 1
    <2>1. k \in 2 .. Len(batch) /\ k \in 1 .. Len(batch) /\ k # 1 /\ batch'[i] = batch[k]
        BY <1>1, <1>2
    <2> HIDE DEF k
    <2>2. batch'[i] \in Events
        BY <1>1, ElementOfSeq
    <2>3. batch[k].fd # Current
        BY <1>3, <2>1 DEF IInv, BatchOnce
    <2>4. batch[k].fd # Listener => batch[k].client \in Clients
        BY <2>1 DEF IInv, EventClients
    <2>5. IF batch[k].fd = Listener THEN backlog # <<>>
          ELSE /\ table[batch[k].fd] = batch[k].client
               /\ conns[batch[k].fd].state \in {"REQ", "RES"}
        BY <2>1 DEF IInv, EventsLive
    <2>6. QED
        BY <2>1, <2>2, <2>3, <2>4, <2>5 DEF Events
<1>6. EventClients'
    BY <1>5 DEF EventClients
<1>7. QED
    BY <1>1, <1>4, <1>5, <1>6

LEMMA AcceptConnectionInvariance == ASSUME IInv, AcceptConnection PROVE IInv'
<1> DEFINE fd == CHOOSE f \in FreeFds : \A g \in FreeFds : f <= g
           c == Head(backlog)
<1>1. /\ pc = "loop" /\ pc' = "loop" /\ batch # <<>> /\ Current = Listener
      /\ FreeFds # {} /\ backlog # <<>>
      /\ backlog' = Tail(backlog) /\ batch' = Rest(batch)
      /\ conns' = [conns EXCEPT ![fd] = Fresh]
      /\ accepted' = accepted \cup {c}
      /\ UNCHANGED <<caller, peer, rx, tx, sent, served, got>>
    BY DEF AcceptConnection
<1>2. fd \in FreeFds
    <2>1. FreeFds \in SUBSET Nat
        BY ServerAssumption DEF FreeFds, Fds
    <2>2. \E f \in FreeFds : \A g \in FreeFds : f <= g
        BY <1>1, <2>1, Smallest
    <2>3. QED
        BY <2>2
<1>3. fd \in Fds /\ table[fd] = NoClient
    BY <1>2 DEF FreeFds
<1>4. conns[fd] = NoConn
    BY <1>1, <1>3 DEF IInv, Objects, Busy, ObjectOf
<1>5. table' = [table EXCEPT ![fd] = c] /\ ready' = Registered(fd, c)
    BY <1>4 DEF AcceptConnection
<1> HIDE DEF fd
<1>6. backlog' \in Seq(Clients) /\ c \in Clients /\ c # NoClient
    <2>1. backlog \in Seq(Clients)
        BY DEF IInv, TypeOK
    <2>2. QED
        BY <1>1, <2>1, HeadTailProperties, ServerAssumption
<1> HIDE DEF c
<1>7. ready' \in Seq(Descriptors) /\ ReadyOnce'
    <2>1. fd \in Descriptors /\ TypeOK /\ ReadyOnce
        BY <1>3 DEF Descriptors, IInv
    <2>2. CASE Readable(c)
        BY <1>5, <2>1, <2>2, EnqueuedFacts DEF Registered
    <2>3. CASE ~Readable(c)
        <3>1. ready' = ready
            BY <1>5, <2>3 DEF Registered
        <3>2. QED
            BY <2>1, <3>1 DEF TypeOK, ReadyOnce, Descriptors
    <2>4. QED
        BY <2>2, <2>3
<1>8. Fresh \in Connections /\ Fresh.state = "REQ"
    BY ServerAssumption DEF Fresh, Connections
<1>9. /\ conns \in [Fds -> Connections] /\ table \in [Fds -> Clients \cup {NoClient}]
    BY DEF IInv, TypeOK, Connections
<1>10. /\ conns' \in [Fds -> Connections] /\ table' \in [Fds -> Clients \cup {NoClient}]
       /\ conns'[fd].state = "REQ" /\ table'[fd] # NoClient
       /\ \A g \in Fds : g # fd => conns'[g] = conns[g] /\ table'[g] = table[g]
    BY <1>1, <1>3, <1>5, <1>6, <1>8, <1>9
<1>11. /\ batch' \in Seq(Events) /\ BatchOnce' /\ EventClients'
       /\ \A i \in 1 .. Len(batch') :
             /\ batch'[i].fd \in Fds
             /\ batch'[i].client \in Clients
             /\ table[batch'[i].fd] = batch'[i].client
             /\ conns[batch'[i].fd].state \in {"REQ", "RES"}
    BY <1>1, OthersLive DEF Descriptors
<1>12. TypeOK'
    <2>1. accepted' \subseteq Clients
        BY <1>1, <1>6 DEF IInv, TypeOK
    <2>2. QED
        BY <1>1, <1>6, <1>7, <1>10, <1>11, <2>1
        DEF IInv, TypeOK, Connections, Descriptors, Events
<1>13. Objects' /\ Handled'
    <2>1. \A g \in Fds : ObjectOf(g)
        BY <1>1 DEF IInv, Objects, Busy
    <2>2. \A g \in Fds : ObjectOf(g)'
        BY <1>10, <2>1 DEF ObjectOf
    <2>3. QED
        BY <1>1, <2>2 DEF Objects, Handled, Busy
<1>14. EventsLive'
    <2>1. \A i \in 1 .. Len(batch') : batch'[i].fd # fd
        BY <1>3, <1>11, ServerAssumption
    <2>2. \A i \in 1 .. Len(batch') :
             /\ table'[batch'[i].fd] = batch'[i].client
             /\ conns'[batch'[i].fd].state \in {"REQ", "RES"}
        BY <1>10, <1>11, <2>1
    <2>3. QED
        BY <1>1, <1>11, <2>2, ListenerNotConnection DEF EventsLive
<1>15. QED
    BY <1>7, <1>11, <1>12, <1>13, <1>14 DEF IInv

LEMMA AcceptFailsInvariance == ASSUME IInv, AcceptFails PROVE IInv'
<1>1. /\ pc = "loop" /\ pc' = "loop" /\ batch # <<>> /\ batch' = Rest(batch)
      /\ UNCHANGED <<backlog, table, ready, conns, caller, peer, rx, tx,
                     sent, served, got, accepted>>
    BY DEF AcceptFails
<1>2. /\ batch' \in Seq(Events) /\ BatchOnce' /\ EventClients'
    BY <1>1, OthersLive
<1>3. TypeOK' /\ ReadyOnce'
    BY <1>1, <1>2 DEF IInv, TypeOK, ReadyOnce, Descriptors, Events
<1>4. Objects' /\ Handled'
    BY <1>1 DEF IInv, Objects, Handled, Busy, ObjectOf
<1>5. EventsLive'
    BY <1>1, OthersLive DEF EventsLive
<1>6. QED
    BY <1>2, <1>3, <1>4, <1>5 DEF IInv

\* io() is called on a connection that exists and whose state it knows.
LEMMA IoInvariance == ASSUME IInv, Io PROVE IInv'
<1>1. /\ pc = "loop" /\ batch # <<>> /\ Current # Listener
      /\ pc' \in {"fill", "flush"} /\ caller' \in {"io", "tryOneRequest"}
      /\ UNCHANGED <<backlog, table, ready, batch, conns, peer, rx, tx, sent,
                     served, got, accepted>>
    BY DEF Io, IInv, TypeOK
<1>2. 1 \in 1 .. Len(batch) /\ Current = batch[1].fd /\ Current \in Fds
    BY <1>1, CurrentIsFirst DEF IInv, Descriptors
<1>3. Owner \in Clients /\ Conn.state \in {"REQ", "RES"}
    BY <1>1, <1>2 DEF IInv, EventsLive, EventClients, Owner, Conn
<1>4. TypeOK' /\ ReadyOnce' /\ BatchOnce' /\ EventClients'
    BY <1>1 DEF IInv, TypeOK, ReadyOnce, BatchOnce, EventClients
<1>5. Objects'
    <2>1. \A fd \in Fds : ObjectOf(fd)
        BY <1>1 DEF IInv, Objects, Busy
    <2>2. QED
        BY <1>1, <2>1 DEF Objects, ObjectOf
<1>6. Handled'
    BY <1>1, <1>2, <1>3 DEF Handled, Busy, Current, Owner, Conn
<1>7. EventsLive'
    <2>1. \A i \in 2 .. Len(batch) : i \in 1 .. Len(batch)
        BY <1>2
    <2>2. QED
        BY <1>1, <2>1 DEF IInv, EventsLive
<1>8. QED
    BY <1>4, <1>5, <1>6, <1>7 DEF IInv

\* Closing the current descriptor and destroying its object.
LEMMA CloseCurrent ==
    ASSUME IInv, Current \in Fds, CloseFd(Current),
           conns' = [conns EXCEPT ![Current] = NoConn]
    PROVE  /\ table' \in [Fds -> Clients \cup {NoClient}]
           /\ conns' \in [Fds -> Connections]
           /\ ready' \in Seq(Descriptors) /\ ReadyOnce'
           /\ rx' \in [Clients -> Nat] /\ \A c \in Clients : rx'[c] <= sent[c]
           /\ table'[Current] = NoClient /\ conns'[Current] = NoConn
           /\ \A g \in Fds : g # Current => conns'[g] = conns[g] /\ table'[g] = table[g]
<1>1. NoConn \in Connections
    BY ServerAssumption DEF NoConn, Connections
<1>2. /\ conns \in [Fds -> Connections] /\ table \in [Fds -> Clients \cup {NoClient}]
      /\ rx \in [Clients -> Nat] /\ sent \in [Clients -> Nat]
      /\ \A c \in Clients : rx[c] <= sent[c]
    BY DEF IInv, TypeOK, Connections
<1>3. /\ table' = [table EXCEPT ![Current] = NoClient]
      /\ rx' = IF table[Current] = NoClient THEN rx ELSE [rx EXCEPT ![table[Current]] = 0]
    BY DEF CloseFd
<1>4. ready' \in Seq(Descriptors) /\ ReadyOnce'
    BY ClosedFacts DEF CloseFd, IInv
<1>5. rx' \in [Clients -> Nat] /\ \A c \in Clients : rx'[c] <= sent[c]
    BY <1>2, <1>3
<1>6. QED
    BY <1>1, <1>2, <1>3, <1>4, <1>5

LEMMA AfterIoInvariance == ASSUME IInv, AfterIo PROVE IInv'
<1>1. /\ pc = "after" /\ pc' = "hangup"
      /\ UNCHANGED <<backlog, batch, caller, peer, tx, sent, served, got, accepted>>
    BY DEF AfterIo
<1>2. /\ batch # <<>> /\ Current \in Fds /\ Owner \in Clients
      /\ Conn.state \in {"REQ", "RES", "END"} /\ Current' = Current
    BY <1>1 DEF IInv, Handled, Busy, Current
<1>3. BatchOnce' /\ EventClients'
    BY <1>1 DEF IInv, BatchOnce, EventClients
<1>4. \A i \in 2 .. Len(batch) : batch[i].fd \in Descriptors \ {Current}
    <2>1. batch \in Seq(Events) /\ Len(batch) \in Nat
        BY DEF IInv, TypeOK, Events, Descriptors
    <2>2. Current = batch[1].fd /\ 1 \in 1 .. Len(batch)
        BY <1>2, CurrentIsFirst DEF IInv
    <2>3. ASSUME NEW i \in 2 .. Len(batch)
          PROVE  batch[i].fd \in Descriptors /\ batch[i].fd # Current
        <3>1. i \in 1 .. Len(batch) /\ i # 1
            BY <2>1
        <3>2. batch[i] \in Events
            BY <2>1, <3>1, ElementOfSeq
        <3>3. QED
            BY <2>2, <3>1, <3>2 DEF IInv, BatchOnce, Events
    <2>4. QED
        BY <2>3
<1>5. CASE Ended
    <2>1. CloseFd(Current) /\ conns' = [conns EXCEPT ![Current] = NoConn]
        BY <1>1, <1>5 DEF AfterIo
    <2>2. TypeOK' /\ ReadyOnce'
        BY <1>1, <1>2, <2>1, CloseCurrent
        DEF IInv, TypeOK, Connections, Descriptors, Events
    <2>3. ObjectOf(Current)'
        BY <1>2, <2>1, CloseCurrent DEF ObjectOf
    <2>4. Objects' /\ Handled'
        BY <1>1, <1>2, <2>1, <2>3, CloseCurrent DEF IInv, Objects, Handled, Busy, ObjectOf
    <2>5. EventsLive'
        BY <1>1, <1>2, <1>4, <2>1, CloseCurrent DEF IInv, EventsLive, Descriptors
    <2>6. QED
        BY <1>3, <2>2, <2>4, <2>5 DEF IInv
<1>6. CASE ~Ended
    <2>1. UNCHANGED <<table, ready, rx, conns>>
        BY <1>1, <1>6 DEF AfterIo
    <2>2. TypeOK' /\ ReadyOnce'
        BY <1>1, <2>1 DEF IInv, TypeOK, ReadyOnce
    <2>3. Conn.state \in {"REQ", "RES"} /\ Owner # NoClient
        BY <1>2, <1>6, ServerAssumption DEF Ended
    <2>4. ObjectOf(Current)'
        BY <1>2, <2>1, <2>3 DEF ObjectOf, Conn, Owner
    <2>5. Objects' /\ Handled'
        BY <1>1, <1>2, <2>1, <2>4 DEF IInv, Objects, Handled, Busy, ObjectOf
    <2>6. EventsLive'
        BY <1>1, <2>1 DEF IInv, EventsLive
    <2>7. QED
        BY <1>3, <2>2, <2>5, <2>6 DEF IInv
<1>7. QED
    BY <1>5, <1>6

LEMMA HangUpInvariance == ASSUME IInv, HangUp PROVE IInv'
<1>1. /\ pc = "hangup" /\ pc' = "loop" /\ batch' = Rest(batch)
      /\ UNCHANGED <<backlog, caller, peer, tx, sent, served, got, accepted>>
    BY DEF HangUp
<1>2. batch # <<>> /\ Current \in Fds /\ ObjectOf(Current)
    BY <1>1 DEF IInv, Handled, Busy
<1>3. \A fd \in Fds : ObjectOf(fd)
    BY <1>2 DEF IInv, Objects
<1>4. Handled'
    BY <1>1 DEF Handled, Busy
<1>5. CASE Head(batch).hup
    <2>1. CloseFd(Current) /\ conns' = [conns EXCEPT ![Current] = NoConn]
        BY <1>1, <1>5 DEF HangUp, SlotAfterHangUp
    <2>2. TypeOK' /\ ReadyOnce'
        BY <1>1, <1>2, <2>1, CloseCurrent, OthersLive
        DEF IInv, TypeOK, Connections, Descriptors, Events
    <2>3. Objects'
        BY <1>2, <1>3, <2>1, CloseCurrent DEF Objects, ObjectOf
    <2>4. EventsLive'
        BY <1>1, <1>2, <2>1, CloseCurrent, OthersLive DEF EventsLive, Descriptors
    <2>5. QED
        BY <1>1, <1>2, <1>4, <2>2, <2>3, <2>4, OthersLive DEF IInv
<1>6. CASE ~Head(batch).hup
    <2>1. UNCHANGED <<table, ready, rx, conns>>
        BY <1>1, <1>6 DEF HangUp
    <2>2. TypeOK' /\ ReadyOnce'
        BY <1>1, <1>2, <2>1, OthersLive
        DEF IInv, TypeOK, ReadyOnce, Descriptors, Events
    <2>3. Objects'
        BY <1>3, <2>1 DEF Objects, ObjectOf
    <2>4. EventsLive'
        BY <1>1, <1>2, <2>1, OthersLive DEF EventsLive
    <2>5. QED
        BY <1>1, <1>2, <1>4, <2>2, <2>3, <2>4, OthersLive DEF IInv
<1>7. QED
    BY <1>5, <1>6
------------------------------------------------------------------------------
(* The theorems.                                                           *)

LEMMA InitIInv == Init => IInv
<1> SUFFICES ASSUME Init PROVE IInv
    OBVIOUS
<1> USE ServerAssumption
<1>1. NoConn \in Connections
    BY DEF NoConn, Connections
<1>2. <<>> \in Seq(Clients) /\ <<>> \in Seq(Descriptors) /\ <<>> \in Seq(Events)
    BY EmptySeq
<1>3. NumRequests \in [Clients -> Nat]
    OBVIOUS
<1>4. TypeOK
    BY <1>1, <1>2 DEF Init, TypeOK, Connections, Descriptors, Events
<1>5. ReadyOnce /\ BatchOnce /\ EventClients /\ EventsLive
    BY DEF Init, ReadyOnce, BatchOnce, EventClients, EventsLive
<1>6. Objects /\ Handled
    BY DEF Init, Objects, Handled, Busy, ObjectOf
<1>7. QED
    BY <1>4, <1>5, <1>6 DEF IInv

LEMMA NextIInv == IInv /\ [Next]_vars => IInv'
<1> SUFFICES ASSUME IInv, [Next]_vars PROVE IInv'
    OBVIOUS
<1>1. CASE EventLoop
    BY <1>1, EpollWaitInvariance, AcceptConnectionInvariance, AcceptFailsInvariance,
       IoInvariance, AfterIoInvariance, HangUpInvariance DEF EventLoop
<1>2. CASE Handler
    BY <1>2, HandlerInvariance
<1>3. ASSUME NEW c \in Clients, Environment(c) PROVE IInv'
    <2>1. TypeOK' /\ ReadyOnce' /\ UNCHANGED loop /\ (backlog # <<>> => backlog' # <<>>)
        BY <1>3, EnvironmentType DEF IInv
    <2>2. QED
        BY <2>1, EnvironmentStep
<1>4. CASE UNCHANGED vars
    <2>1. TypeOK' /\ ReadyOnce' /\ UNCHANGED loop /\ UNCHANGED backlog
        BY <1>4 DEF IInv, TypeOK, ReadyOnce, vars, loop
    <2>2. QED
        BY <2>1, EnvironmentStep
<1>5. QED
    BY <1>1, <1>2, <1>3, <1>4 DEF Next

\* Every step of the loop, of a handler, of a client or of the kernel keeps
\* the inductive invariant.
THEOREM Invariance == Spec => []IInv
<1>1. QED
    BY InitIInv, NextIInv, PTL DEF Spec

\* Every variable keeps its type, and no client's receive buffer ever holds
\* more requests than the client has sent.
THEOREM TypeCorrect == Spec => []TypeOK
<1>1. IInv => TypeOK
    BY DEF IInv
<1>2. QED
    BY <1>1, Invariance, PTL

\* An event of a batch is never stale when its turn comes: closing, accepting
\* and destroying in the events before it leave its socket and its object as
\* epoll_wait found them, however large the batch and however few descriptors
\* there are to reuse.
THEOREM EventsNeverStale == Spec => []EventsLive
<1>1. IInv => EventsLive
    BY DEF IInv
<1>2. QED
    BY <1>1, Invariance, PTL

\* Between two events connectionByFileDescriptor has an object for every open
\* socket and for no other, and none in state END.
THEOREM OneObjectPerSocket == Spec => []ObjectPerSocket
<1>1. IInv => ObjectPerSocket
    BY DEF IInv, Objects, ObjectOf, Busy, ObjectPerSocket
<1>2. QED
    BY <1>1, Invariance, PTL
------------------------------------------------------------------------------
(* Kept.                                                                   *)

\* The client's end is closed, which nothing undoes.
Gone(c) == c \in Clients /\ peer[c] \notin {"new", "open"}

Known ==
    /\ \A c \in accepted : peer[c] # "new"
    /\ \A i \in 1 .. Len(backlog) : peer[backlog[i]] # "new"
    /\ \A fd \in Fds : table[fd] # NoClient => table[fd] \in accepted

\* A hang-up event belongs to a client that is gone.
HupGone == \A i \in 1 .. Len(batch) : batch[i].hup => Gone(batch[i].client)

\* The descriptor being handled is still that of the event's client, or closed.
SameOwner == Busy => Owner \in {Head(batch).client, NoClient}

\* io() ends the connection of a client that is gone or refused, and no other.
EndedGone ==
    pc = "after" /\ Ended => Owner \in BadClients \/ Gone(Owner)

KInv == Known /\ HupGone /\ SameOwner /\ EndedGone /\ Kept

\* What a client's end has become stays, whoever moves.
LEMMA PeersAge ==
    ASSUME TypeOK, NEW c \in Clients, Environment(c)
    PROVE  \A d \in Clients :
              /\ Gone(d) => Gone(d)'
              /\ peer[d] # "new" => peer'[d] # "new"
              /\ peer'[d] = "open" => peer[d] \in {"new", "open"}
<1>1. peer \in [Clients -> {"new", "open", "half", "fin", "rst", "epipe"}]
    BY DEF TypeOK
<1>2. CASE Connect(c)
    BY <1>1, <1>2 DEF Connect, Gone
<1>3. CASE Send(c) \/ Receive(c)
    BY <1>1, <1>3 DEF Send, Receive, Gone
<1>4. CASE HalfClose(c)
    BY <1>1, <1>4 DEF HalfClose, Gone
<1>5. CASE Close(c)
    BY <1>1, <1>5 DEF Close, Gone
<1>6. CASE Reset(c)
    BY <1>1, <1>6 DEF Reset, Gone
<1>7. QED
    BY <1>2, <1>3, <1>4, <1>5, <1>6 DEF Environment

LEMMA KeptByEnvironment ==
    ASSUME IInv, IInv', KInv, NEW c \in Clients, Environment(c)
    PROVE  KInv'
<1>1. TypeOK /\ TypeOK' /\ Known /\ HupGone /\ SameOwner /\ EndedGone /\ Kept
    BY DEF IInv, KInv
<1>2. UNCHANGED <<table, batch, conns, pc, caller, accepted>>
    <2>1. UNCHANGED loop
        BY EnvironmentType DEF IInv
    <2>2. accepted' = accepted
        BY DEF Environment, Connect, Send, Receive, HalfClose, Close, Reset
    <2>3. QED
        BY <2>1, <2>2 DEF loop
<1>3. \A d \in Clients :
         /\ Gone(d) => Gone(d)'
         /\ peer[d] # "new" => peer'[d] # "new"
         /\ peer'[d] = "open" => peer[d] \in {"new", "open"}
    BY <1>1, PeersAge
<1>4. accepted \subseteq Clients /\ backlog \in Seq(Clients)
    BY DEF IInv, TypeOK
<1>5. \A i \in 1 .. Len(backlog') : peer'[backlog'[i]] # "new"
    <2>1. CASE Connect(c)
        <3>1. backlog' = Append(backlog, c) /\ peer' = [peer EXCEPT ![c] = "open"]
            BY <2>1 DEF Connect
        <3>2. /\ Len(backlog') = Len(backlog) + 1 /\ Len(backlog) \in Nat
              /\ \A i \in 1 .. Len(backlog) : backlog'[i] = backlog[i]
              /\ backlog'[Len(backlog) + 1] = c
            BY <1>4, <3>1, AppendProperties
        <3>3. peer'[c] # "new"
            BY <1>1, <3>1 DEF TypeOK
        <3>4. \A i \in 1 .. Len(backlog) : backlog[i] \in Clients
            BY <1>4, ElementOfSeq
        <3>5. \A i \in 1 .. Len(backlog) : peer'[backlog'[i]] # "new"
            BY <1>1, <1>3, <3>2, <3>4 DEF Known
        <3>6. QED
            BY <3>2, <3>3, <3>5
    <2>2. CASE ~Connect(c)
        <3>1. backlog' = backlog
            BY <2>2 DEF Environment, Send, Receive, HalfClose, Close, Reset
        <3>2. \A i \in 1 .. Len(backlog) : backlog[i] \in Clients
            BY <1>4, ElementOfSeq
        <3>3. QED
            BY <1>1, <1>3, <3>1, <3>2 DEF Known
    <2>3. QED
        BY <2>1, <2>2
<1>6. Known'
    BY <1>1, <1>2, <1>3, <1>4, <1>5 DEF Known
<1>7. HupGone'
    BY <1>1, <1>2, <1>3 DEF HupGone, Gone
<1>8. SameOwner' /\ EndedGone'
    <2>1. Gone(Owner) => Gone(Owner)'
        BY <1>2, <1>3 DEF Gone, Owner, Current
    <2>2. Owner' = Owner /\ (Ended' <=> Ended)
        BY <1>2 DEF Owner, Current, Ended, Conn
    <2>3. QED
        BY <1>1, <1>2, <2>1, <2>2 DEF SameOwner, EndedGone, Busy
<1>9. Kept'
    <2>1. ASSUME NEW d \in accepted \ BadClients, peer'[d] = "open"
          PROVE  FdOf(d)' # {}
        <3>1. peer[d] = "open"
            BY <1>1, <1>3, <1>4, <2>1 DEF Known
        <3>2. FdOf(d) # {}
            BY <1>1, <3>1 DEF Kept
        <3>3. QED
            BY <1>2, <3>2 DEF FdOf
    <2>2. QED
        BY <1>2, <2>1 DEF Kept
<1>10. QED
    BY <1>6, <1>7, <1>8, <1>9 DEF KInv

\* A step that leaves the clients, the sockets and their descriptors alone.
LEMMA KeptUnchanged ==
    ASSUME Known, Kept, UNCHANGED <<backlog, table, peer, accepted>>
    PROVE  Known' /\ Kept'
<1>1. Known'
    BY DEF Known
<1>2. \A d \in accepted : FdOf(d)' = FdOf(d)
    BY DEF FdOf
<1>3. Kept'
    BY <1>2 DEF Kept
<1>4. QED
    BY <1>1, <1>3

LEMMA KeptByHandler == ASSUME IInv, KInv, Handler PROVE KInv'
<1>1. /\ pc \in {"fill", "parse", "flush"}
      /\ pc' \in {"fill", "parse", "flush", "after", "killed"}
      /\ UNCHANGED <<backlog, table, batch, peer, accepted>>
    BY DEF Handler, FillData, FillAgain, FillEnd, ParseShort, ParseBad, ParseExecute,
           FlushWrite, FlushAgain, FlushError, FlushKilled, AfterShort, AfterReply
<1>2. Known /\ HupGone /\ SameOwner /\ EndedGone /\ Kept
    BY DEF KInv
<1>3. Known' /\ Kept'
    BY <1>1, <1>2, KeptUnchanged
<1>4. HupGone'
    BY <1>1, <1>2 DEF HupGone, Gone
<1>5. SameOwner'
    BY <1>1, <1>2 DEF SameOwner, Busy, Owner, Current
<1>6. /\ Current \in Fds /\ Owner \in Clients /\ Conn \in Connections
      /\ Conn.state \in {"REQ", "RES"} /\ conns \in [Fds -> Connections]
      /\ Current' = Current /\ Owner' = Owner
    BY <1>1, AtHand DEF Owner, Current
<1>7. Owner \in accepted /\ peer[Owner] # "new"
    BY <1>2, <1>6, ServerAssumption DEF Known, Owner
<1>8. Ended' => Owner \in BadClients \/ Gone(Owner)
    <2>1. CASE FillAgain \/ ParseShort \/ FlushAgain \/ FlushKilled
        <3>1. Conn' = Conn
            BY <1>6, <2>1 DEF FillAgain, ParseShort, FlushAgain, FlushKilled, Conn
        <3>2. QED
            BY <1>6, <3>1 DEF Ended
    <2>2. CASE FillData
        <3>1. Conn'.state = Conn.state
            BY <1>6, <2>2 DEF FillData, Conn, Connections
        <3>2. QED
            BY <1>6, <3>1 DEF Ended
    <2>3. CASE FillEnd \/ FlushError
        BY <1>6, <1>7, <2>3 DEF FillEnd, FlushError, Gone
    <2>4. CASE ParseBad
        BY <2>4 DEF ParseBad
    <2>5. CASE ParseExecute
        <3>1. Conn'.state = "RES"
            BY <1>6, <2>5 DEF ParseExecute, Conn
        <3>2. QED
            BY <3>1 DEF Ended
    <2>6. CASE FlushWrite
        <3>1. Conn'.state \in {"REQ", "RES"}
            BY <1>6, <2>6 DEF FlushWrite, Conn, Connections
        <3>2. QED
            BY <3>1 DEF Ended
    <2>7. QED
        BY <2>1, <2>2, <2>3, <2>4, <2>5, <2>6 DEF Handler
<1>9. EndedGone'
    BY <1>1, <1>6, <1>8 DEF EndedGone, Gone
<1>10. QED
    BY <1>3, <1>4, <1>5, <1>9 DEF KInv

\* Closing the descriptor of a client that is gone or refused hits no other.
LEMMA KeptByClose ==
    ASSUME IInv, Known, Kept, Current \in Fds,
           Owner # NoClient => Owner \in BadClients \/ Gone(Owner),
           table' = [table EXCEPT ![Current] = NoClient],
           UNCHANGED <<backlog, peer, accepted>>
    PROVE  Known' /\ Kept'
<1>1. /\ accepted \subseteq Clients /\ table \in [Fds -> Clients \cup {NoClient}]
      /\ NoClient \notin Clients
    BY ServerAssumption DEF IInv, TypeOK
<1>2. Known'
    BY <1>1 DEF Known
<1>3. ASSUME NEW d \in accepted \ BadClients, peer[d] = "open"
      PROVE  FdOf(d)' # {}
    <2>1. FdOf(d) # {}
        BY <1>3 DEF Kept
    <2>2. PICK fd \in Fds : table[fd] = d
        BY <2>1 DEF FdOf
    <2>3. fd # Current
        BY <1>1, <1>3, <2>2 DEF Owner, Gone
    <2>4. table'[fd] = d
        BY <1>1, <2>2, <2>3
    <2>5. QED
        BY <2>2, <2>4 DEF FdOf
<1>4. Kept'
    BY <1>3 DEF Kept
<1>5. QED
    BY <1>2, <1>4

\* The events left are those that were there.
LEMMA HupGoneRest ==
    ASSUME IInv, HupGone, batch # <<>>, batch' = Rest(batch), UNCHANGED peer
    PROVE  HupGone'
<1>1. /\ Len(batch) \in Nat \ {0} /\ Len(batch') = Len(batch) - 1
      /\ \A i \in 1 .. Len(batch') : batch'[i] = batch[i + 1]
    BY RestFacts DEF IInv
<1>2. \A i \in 1 .. Len(batch') : i + 1 \in 1 .. Len(batch)
    BY <1>1
<1>3. \A i \in 1 .. Len(batch') : batch'[i].hup => Gone(batch'[i].client)
    BY <1>1, <1>2 DEF HupGone
<1>4. QED
    BY <1>3 DEF HupGone, Gone

LEMMA KeptByEpollWait == ASSUME IInv, KInv, EpollWait PROVE KInv'
<1> DEFINE some == {fd \in Fds \cup {Listener} : HasEvent(fd)}
           pending == Filtered(ready, some)
           n == Least(MaxEvents, Len(pending))
<1>1. /\ pc' = "loop" /\ batch' = [i \in 1 .. n |-> Event(pending[i])]
      /\ UNCHANGED <<backlog, table, peer, accepted>>
    BY DEF EpollWait
<1>2. Known /\ Kept
    BY DEF KInv
<1>3. ready \in Seq(Descriptors)
    BY DEF IInv, TypeOK, Descriptors
<1>4. /\ pending \in Seq(Descriptors)
      /\ \A k \in 1 .. Len(pending) : pending[k] \in some
    BY <1>3, FilteredFacts
<1> HIDE DEF pending
<1>5. /\ n \in Nat /\ n <= Len(pending) /\ Len(pending) \in Nat
    BY <1>4, ServerAssumption DEF Least
<1> HIDE DEF n
<1>6. ASSUME NEW i \in 1 .. n, Event(pending[i]).hup
      PROVE  Gone(Event(pending[i]).client)
    <2>1. i \in 1 .. Len(pending)
        BY <1>5
    <2>2. pending[i] \in Fds \cup {Listener} /\ HasEvent(pending[i])
        BY <1>4, <2>1
    <2>3. pending[i] # Listener
        BY <1>6 DEF Event
    <2>4. /\ pending[i] \in Fds /\ table[pending[i]] # NoClient
          /\ Event(pending[i]).client = table[pending[i]]
          /\ peer[table[pending[i]]] # "open"
        BY <1>6, <2>2, <2>3 DEF HasEvent, Event
    <2>5. table[pending[i]] \in Clients /\ table[pending[i]] \in accepted
        BY <1>2, <2>4 DEF IInv, TypeOK, Known
    <2>6. QED
        BY <1>2, <2>4, <2>5 DEF Known, Gone
<1>7. HupGone'
    <2>1. Len(batch') = n /\ \A i \in 1 .. n : batch'[i] = Event(pending[i])
        BY <1>1, <1>5
    <2>2. ASSUME NEW i \in 1 .. n, batch'[i].hup PROVE Gone(batch'[i].client)
        BY <1>6, <2>1, <2>2
    <2>3. ASSUME NEW i \in 1 .. n, batch'[i].hup
          PROVE  batch'[i].client \in Clients /\ peer'[batch'[i].client] \notin {"new", "open"}
        BY <1>1, <2>2, <2>3 DEF Gone
    <2>4. QED
        BY <2>1, <2>3 DEF HupGone, Gone
<1>8. Known' /\ Kept'
    BY <1>1, <1>2, KeptUnchanged
<1>9. QED
    BY <1>1, <1>7, <1>8 DEF KInv, SameOwner, EndedGone, Busy

LEMMA KeptByAccept == ASSUME IInv, KInv, AcceptConnection PROVE KInv'
<1> DEFINE fd == CHOOSE f \in FreeFds : \A g \in FreeFds : f <= g
           c == Head(backlog)
<1>1. /\ pc = "loop" /\ pc' = "loop" /\ batch # <<>>
      /\ FreeFds # {} /\ backlog # <<>>
      /\ backlog' = Tail(backlog) /\ batch' = Rest(batch)
      /\ accepted' = accepted \cup {c} /\ peer' = peer
    BY DEF AcceptConnection
<1>2. Known /\ HupGone /\ Kept
    BY DEF KInv
<1>3. fd \in Fds /\ table[fd] = NoClient
    <2>1. FreeFds \in SUBSET Nat
        BY ServerAssumption DEF FreeFds, Fds
    <2>2. \E f \in FreeFds : \A g \in FreeFds : f <= g
        BY <1>1, <2>1, Smallest
    <2>3. fd \in FreeFds
        BY <2>2
    <2>4. QED
        BY <2>3 DEF FreeFds
<1>4. table' = [table EXCEPT ![fd] = c]
    <2>1. conns[fd] = NoConn
        BY <1>1, <1>3 DEF IInv, Objects, Busy, ObjectOf
    <2>2. QED
        BY <2>1 DEF AcceptConnection
<1> HIDE DEF fd
<1>5. /\ backlog \in Seq(Clients) /\ Len(backlog) \in Nat \ {0} /\ c = backlog[1]
      /\ c \in Clients /\ Len(backlog') = Len(backlog) - 1
      /\ \A i \in 1 .. Len(backlog') : backlog'[i] = backlog[i + 1]
    <2>1. backlog \in Seq(Clients)
        BY DEF IInv, TypeOK
    <2>2. QED
        BY <1>1, <2>1, HeadTailProperties, EmptySeq
<1>6. peer[c] # "new"
    <2>1. 1 \in 1 .. Len(backlog)
        BY <1>5
    <2>2. QED
        BY <1>2, <1>5, <2>1 DEF Known
<1> HIDE DEF c
<1>7. table \in [Fds -> Clients \cup {NoClient}] /\ NoClient \notin Clients
    BY ServerAssumption DEF IInv, TypeOK
<1>8. Known'
    <2>1. \A i \in 1 .. Len(backlog') : peer[backlog'[i]] # "new"
        <3>1. \A i \in 1 .. Len(backlog') : i + 1 \in 1 .. Len(backlog)
            BY <1>5
        <3>2. QED
            BY <1>2, <1>5, <3>1 DEF Known
    <2>2. \A g \in Fds : table'[g] # NoClient => table'[g] \in accepted'
        BY <1>1, <1>2, <1>3, <1>4, <1>7 DEF Known
    <2>3. \A d \in accepted' : peer[d] # "new"
        BY <1>1, <1>2, <1>6 DEF Known
    <2>4. QED
        BY <1>1, <2>1, <2>2, <2>3 DEF Known
<1>9. HupGone'
    BY <1>1, <1>2, HupGoneRest
<1>10. Kept'
    <2>1. ASSUME NEW d \in accepted' \ BadClients, peer[d] = "open"
          PROVE  \E g \in Fds : table'[g] = d
        <3>1. CASE d = c
            BY <1>3, <1>4, <1>7, <3>1
        <3>2. CASE d # c
            <4>1. FdOf(d) # {} /\ d \in accepted
                BY <1>1, <1>2, <2>1, <3>2 DEF Kept
            <4>2. PICK g \in Fds : table[g] = d
                BY <4>1 DEF FdOf
            <4>3. g # fd
                BY <1>3, <1>7, <4>1, <4>2 DEF IInv, TypeOK
            <4>4. QED
                BY <1>4, <1>7, <4>2, <4>3
        <3>3. QED
            BY <3>1, <3>2
    <2>2. \A d \in accepted' \ BadClients : peer[d] = "open" => FdOf(d)' # {}
        BY <2>1 DEF FdOf
    <2>3. QED
        BY <1>1, <2>2 DEF Kept
<1>11. QED
    BY <1>1, <1>8, <1>9, <1>10 DEF KInv, SameOwner, EndedGone, Busy

LEMMA KeptByRest == ASSUME IInv, KInv, AcceptFails \/ Io PROVE KInv'
<1>1. Known' /\ Kept'
    BY KeptUnchanged DEF AcceptFails, Io, KInv
<1>2. CASE AcceptFails
    <2>1. HupGone'
        BY <1>2, HupGoneRest DEF AcceptFails, KInv
    <2>2. QED
        BY <1>1, <1>2, <2>1 DEF AcceptFails, KInv, SameOwner, EndedGone, Busy
<1>3. CASE Io
    <2>1. /\ pc = "loop" /\ pc' \in {"fill", "flush"} /\ batch # <<>>
          /\ Current # Listener /\ UNCHANGED <<batch, table, peer>>
        BY <1>3 DEF Io
    <2>2. HupGone'
        BY <2>1 DEF KInv, HupGone, Gone
    <2>3. 1 \in 1 .. Len(batch) /\ Current = batch[1].fd /\ Head(batch) = batch[1]
        BY <2>1, CurrentIsFirst, HeadTailProperties DEF IInv, TypeOK
    <2>4. Owner = Head(batch).client
        BY <2>1, <2>3 DEF IInv, EventsLive, Owner
    <2>5. SameOwner'
        BY <2>1, <2>4 DEF SameOwner, Owner, Current
    <2>6. EndedGone'
        BY <2>1 DEF EndedGone
    <2>7. QED
        BY <1>1, <2>2, <2>5, <2>6 DEF KInv
<1>4. QED
    BY <1>2, <1>3

LEMMA KeptByAfterIo == ASSUME IInv, KInv, AfterIo PROVE KInv'
<1>1. /\ pc = "after" /\ pc' = "hangup"
      /\ UNCHANGED <<backlog, batch, peer, accepted>>
    BY DEF AfterIo
<1>2. Current \in Fds /\ Current' = Current /\ table \in [Fds -> Clients \cup {NoClient}]
    BY <1>1 DEF IInv, TypeOK, Handled, Busy, Current
<1>3. HupGone' /\ EndedGone'
    BY <1>1 DEF KInv, HupGone, Gone, EndedGone
<1>4. CASE Ended
    <2>1. table' = [table EXCEPT ![Current] = NoClient]
        BY <1>1, <1>4 DEF AfterIo, CloseFd
    <2>2. Known' /\ Kept'
        BY <1>1, <1>2, <1>4, <2>1, KeptByClose DEF KInv, EndedGone
    <2>3. SameOwner'
        BY <1>1, <1>2, <2>1 DEF SameOwner, Owner
    <2>4. QED
        BY <1>3, <2>2, <2>3 DEF KInv
<1>5. CASE ~Ended
    <2>1. table' = table
        BY <1>1, <1>5 DEF AfterIo
    <2>2. Known' /\ Kept'
        BY <1>1, <2>1, KeptUnchanged DEF KInv
    <2>3. SameOwner'
        BY <1>1, <1>2, <2>1 DEF KInv, SameOwner, Owner, Busy
    <2>4. QED
        BY <1>3, <2>2, <2>3 DEF KInv
<1>6. QED
    BY <1>4, <1>5

LEMMA KeptByHangUp == ASSUME IInv, KInv, HangUp PROVE KInv'
<1>1. /\ pc = "hangup" /\ pc' = "loop" /\ batch' = Rest(batch)
      /\ UNCHANGED <<backlog, peer, accepted>>
    BY DEF HangUp
<1>2. Current \in Fds /\ batch # <<>>
    BY <1>1 DEF IInv, Handled, Busy
<1>3. HupGone'
    BY <1>1, <1>2, HupGoneRest DEF KInv
<1>4. SameOwner' /\ EndedGone'
    BY <1>1 DEF SameOwner, EndedGone, Busy
<1>5. Known' /\ Kept'
    <2>1. CASE Head(batch).hup
        <3>1. table' = [table EXCEPT ![Current] = NoClient]
            BY <1>1, <2>1 DEF HangUp, CloseFd
        <3>2. 1 \in 1 .. Len(batch) /\ Head(batch) = batch[1]
            BY <1>2, CurrentIsFirst, HeadTailProperties DEF IInv, TypeOK
        <3>3. Gone(Head(batch).client)
            BY <2>1, <3>2 DEF KInv, HupGone
        <3>4. Owner \in {Head(batch).client, NoClient}
            BY <1>1 DEF KInv, SameOwner, Busy
        <3>5. QED
            BY <1>1, <1>2, <3>1, <3>3, <3>4, KeptByClose DEF KInv
    <2>2. CASE ~Head(batch).hup
        BY <1>1, <2>2, KeptUnchanged DEF KInv, HangUp
    <2>3. QED
        BY <2>1, <2>2
<1>6. QED
    BY <1>3, <1>4, <1>5 DEF KInv

LEMMA NextKInv == IInv /\ IInv' /\ KInv /\ [Next]_vars => KInv'
<1> SUFFICES ASSUME IInv, IInv', KInv, [Next]_vars PROVE KInv'
    OBVIOUS
<1>1. CASE EventLoop
    BY <1>1, KeptByEpollWait, KeptByAccept, KeptByRest, KeptByAfterIo, KeptByHangUp
    DEF EventLoop
<1>2. CASE Handler
    BY <1>2, KeptByHandler
<1>3. ASSUME NEW c \in Clients, Environment(c) PROVE KInv'
    BY <1>3, KeptByEnvironment
<1>4. CASE UNCHANGED vars
    <2>1. UNCHANGED <<backlog, table, batch, conns, pc, peer, accepted>>
        BY <1>4 DEF vars
    <2>2. Known' /\ Kept'
        BY <2>1, KeptUnchanged DEF KInv
    <2>3. HupGone' /\ SameOwner' /\ EndedGone'
        BY <2>1 DEF KInv, HupGone, SameOwner, EndedGone, Gone, Busy, Owner, Current,
                    Ended, Conn
    <2>4. QED
        BY <2>2, <2>3 DEF KInv
<1>5. QED
    BY <1>1, <1>2, <1>3, <1>4 DEF Next

LEMMA KInvariance == Spec => []KInv
<1>1. Init => KInv
    BY DEF Init, KInv, Known, HupGone, SameOwner, EndedGone, Kept, Busy
<1>2. QED
    BY <1>1, Invariance, NextKInv, PTL DEF Spec

\* The server keeps the connection of every client that has not closed its
\* end and sends nothing it refuses, however descriptors are reused: neither
\* the second close() of a hang-up nor a destroyed object takes another's.
THEOREM ConnectionsKept == Spec => []Kept
<1>1. KInv => Kept
    BY DEF KInv
<1>2. QED
    BY <1>1, KInvariance, PTL
------------------------------------------------------------------------------
(* Conservation.                                                           *)

\* A client has one socket at the server, in the queue or under a descriptor.
Distinct ==
    /\ \A i, j \in 1 .. Len(backlog) : backlog[i] = backlog[j] => i = j
    /\ \A i \in 1 .. Len(backlog) : \A fd \in Fds : table[fd] # backlog[i]
    /\ \A f, g \in Fds : table[f] = table[g] /\ table[f] # NoClient => f = g

\* Nothing was read from, or written to, a client that waits to be accepted.
Untouched(c) == sent[c] = rx[c] /\ served[c] = 0 /\ got[c] = 0 /\ tx[c] = 0
Waiting ==
    /\ \A c \in Clients : peer[c] = "new" => Untouched(c)
    /\ \A i \in 1 .. Len(backlog) :
          peer[backlog[i]] \in {"open", "half", "fin"} => Untouched(backlog[i])

\* In state REQ nothing is left of a reply.
NothingLeft ==
    /\ \A fd \in Fds : conns[fd].state = "REQ" => conns[fd].left = 0
    /\ pc \in {"fill", "parse"} => Conn.state = "REQ"

\* Conservation, also for a client that has closed and not been reset yet.
Balance ==
    \A fd \in Fds : LET c == table[fd] IN
        c # NoClient /\ peer[c] \in {"open", "half", "fin"} =>
            /\ sent[c] = rx[c] + conns[fd].buffered + served[c]
            /\ ReplySize * served[c] = got[c] + tx[c] + conns[fd].left

CInv == Distinct /\ Waiting /\ NothingLeft /\ Balance

LEMMA ConservedByEnvironment ==
    ASSUME IInv, IInv', KInv, CInv, NEW c \in Clients, Environment(c)
    PROVE  CInv'
<1>1. /\ Known /\ Distinct /\ Waiting /\ NothingLeft /\ Balance
      /\ backlog \in Seq(Clients) /\ Len(backlog) \in Nat
      /\ \A i \in 1 .. Len(backlog) : backlog[i] \in Clients
    <2>1. backlog \in Seq(Clients)
        BY DEF IInv, TypeOK
    <2>2. QED
        BY <2>1, ElementOfSeq DEF KInv, CInv
<1>2. /\ sent \in [Clients -> Nat] /\ rx \in [Clients -> Nat] /\ served \in [Clients -> Nat]
      /\ got \in [Clients -> Nat] /\ tx \in [Clients -> Nat]
      /\ \A d \in Clients : tx[d] \in Nat
      /\ peer \in [Clients -> {"new", "open", "half", "fin", "rst", "epipe"}]
      /\ table \in [Fds -> Clients \cup {NoClient}]
    <2>1. tx \in [Clients -> 0 .. SendSpace] /\ SendSpace \in Nat
        BY ServerAssumption DEF IInv, TypeOK
    <2>2. tx \in [Clients -> Nat]
        BY <2>1
    <2>3. QED
        BY <2>2 DEF IInv, TypeOK
<1> DEFINE Later(d) == sent'[d] = rx'[d] /\ served'[d] = 0 /\ got'[d] = 0 /\ tx'[d] = 0
<1>3. UNCHANGED <<table, conns, batch, pc, served>>
    <2>1. UNCHANGED loop
        BY EnvironmentType DEF IInv
    <2>2. served' = served
        BY DEF Environment, Connect, Send, Receive, HalfClose, Close, Reset
    <2>3. QED
        BY <2>1, <2>2 DEF loop
<1>4. /\ \A d \in Clients \ {c} : /\ sent'[d] = sent[d] /\ rx'[d] = rx[d]
                                  /\ tx'[d] = tx[d] /\ got'[d] = got[d]
                                  /\ peer'[d] = peer[d]
      /\ peer'[c] # "new"
      /\ peer[c] = "new" => /\ sent'[c] = sent[c] /\ rx'[c] = rx[c]
                            /\ tx'[c] = tx[c] /\ got'[c] = got[c]
      /\ peer[c] # "new" /\ peer'[c] \in {"open", "half", "fin"} =>
            /\ peer[c] \in {"open", "half", "fin"}
            /\ sent'[c] - rx'[c] = sent[c] - rx[c]
            /\ got'[c] + tx'[c] = got[c] + tx[c]
            /\ tx[c] = 0 => tx'[c] = 0 /\ got'[c] = got[c]
      /\ sent'[c] \in Nat /\ rx'[c] \in Nat /\ tx'[c] \in Nat /\ got'[c] \in Nat
    <2>1. CASE Connect(c)
        BY <1>2, <2>1 DEF Connect
    <2>2. CASE Send(c)
        <3>1. /\ sent' = [sent EXCEPT ![c] = @ + 1] /\ rx' = [rx EXCEPT ![c] = @ + 1]
              /\ UNCHANGED <<peer, tx, got>> /\ peer[c] = "open"
            BY <2>2 DEF Send
        <3>2. QED
            BY <1>2, <3>1
    <2>3. CASE Receive(c)
        <3>1. /\ tx' = [tx EXCEPT ![c] = @ - 1] /\ got' = [got EXCEPT ![c] = @ + 1]
              /\ UNCHANGED <<peer, rx, sent>> /\ peer[c] \in {"open", "half", "fin"} /\ tx[c] > 0
            BY <2>3 DEF Receive
        <3>2. QED
            BY <1>2, <3>1
    <2>4. CASE HalfClose(c)
        BY <1>2, <2>4 DEF HalfClose
    <2>5. CASE Close(c)
        BY <1>2, <2>5 DEF Close
    <2>6. CASE Reset(c)
        BY <1>2, <2>6 DEF Reset
    <2>7. QED
        BY <2>1, <2>2, <2>3, <2>4, <2>5, <2>6 DEF Environment
<1>5. /\ \A d \in Clients : peer'[d] = "new" => d # c /\ peer[d] = "new"
      /\ \A d \in Clients : peer[d] # "new" /\ peer'[d] \in {"open", "half", "fin"}
                              => peer[d] \in {"open", "half", "fin"}
      /\ \A d \in Clients : peer[d] = "new" /\ Untouched(d) => Later(d)
      /\ \A d \in Clients : peer[d] \in {"open", "half", "fin"} /\ Untouched(d)
                              /\ peer'[d] \in {"open", "half", "fin"} => Later(d)
    <2>1. \A d \in Clients \ {c} : Untouched(d) => Later(d)
        BY <1>3, <1>4 DEF Untouched
    <2>2. peer[c] = "new" /\ Untouched(c) => Later(c)
        BY <1>3, <1>4 DEF Untouched
    <2>3. peer[c] \in {"open", "half", "fin"} /\ Untouched(c) /\ peer'[c] \in {"open", "half", "fin"}
              => Later(c)
        <3>1. sent[c] \in Nat /\ rx[c] \in Nat /\ sent'[c] \in Nat /\ rx'[c] \in Nat
            BY <1>2, <1>4
        <3>2. sent'[c] - rx'[c] = 0 => sent'[c] = rx'[c]
            BY <3>1
        <3>3. sent[c] = rx[c] => sent[c] - rx[c] = 0
            BY <3>1
        <3>4. QED
            BY <1>3, <1>4, <3>2, <3>3 DEF Untouched
    <2>4. QED
        BY <1>4, <2>1, <2>2, <2>3
<1> HIDE DEF Later
<1>6. ASSUME Connect(c) PROVE Distinct' /\ Waiting'
    <2>1. peer[c] = "new" /\ backlog' = Append(backlog, c)
        BY <1>6 DEF Connect
    <2>2. /\ Len(backlog') = Len(backlog) + 1
          /\ \A i \in 1 .. Len(backlog) : backlog'[i] = backlog[i]
          /\ backlog'[Len(backlog) + 1] = c
        BY <1>1, <2>1, AppendProperties
    <2>3. /\ \A i \in 1 .. Len(backlog) : backlog[i] # c
          /\ \A fd \in Fds : table[fd] # c
        BY <1>1, <2>1, ServerAssumption DEF Known
    <2>4. \A i \in 1 .. Len(backlog') : i \in 1 .. Len(backlog) \/ i = Len(backlog) + 1
        BY <1>1, <2>2
    <2>5. Distinct'
        BY <1>1, <1>3, <2>2, <2>3, <2>4 DEF Distinct
    <2>6. \A i \in 1 .. Len(backlog') :
             peer'[backlog'[i]] \in {"open", "half", "fin"} => Later(backlog'[i])
        <3>1. Later(c)
            BY <1>1, <1>5, <2>1 DEF Waiting
        <3>2. ASSUME NEW i \in 1 .. Len(backlog), peer'[backlog[i]] \in {"open", "half", "fin"}
              PROVE  Later(backlog[i])
            BY <1>1, <1>5, <3>2 DEF Waiting, Known
        <3>3. QED
            BY <2>2, <2>4, <3>1, <3>2
    <2>7. \A d \in Clients : peer'[d] = "new" => Later(d)
        BY <1>1, <1>5 DEF Waiting
    <2>8. Waiting'
        BY <2>6, <2>7 DEF Waiting, Untouched, Later
    <2>9. QED
        BY <2>5, <2>8
<1>7. ASSUME ~Connect(c) PROVE Distinct' /\ Waiting'
    <2>1. backlog' = backlog
        BY <1>7 DEF Environment, Send, Receive, HalfClose, Close, Reset
    <2>2. Distinct'
        BY <1>1, <1>3, <2>1 DEF Distinct
    <2>3. ASSUME NEW i \in 1 .. Len(backlog), peer'[backlog[i]] \in {"open", "half", "fin"}
          PROVE  Later(backlog[i])
        BY <1>1, <1>5, <2>3 DEF Waiting, Known
    <2>4. \A d \in Clients : peer'[d] = "new" => Later(d)
        BY <1>1, <1>5 DEF Waiting
    <2>5. Waiting'
        BY <2>1, <2>3, <2>4 DEF Waiting, Untouched, Later
    <2>6. QED
        BY <2>2, <2>5
<1>8. NothingLeft'
    BY <1>1, <1>3 DEF NothingLeft, Conn, Current
<1>9. Balance'
    <2>1. ASSUME NEW fd \in Fds, table[fd] # NoClient, peer'[table[fd]] \in {"open", "half", "fin"}
          PROVE  /\ sent'[table[fd]] = rx'[table[fd]] + conns[fd].buffered + served[table[fd]]
                 /\ ReplySize * served[table[fd]]
                        = got'[table[fd]] + tx'[table[fd]] + conns[fd].left
        <3> DEFINE d == table[fd]
        <3>1. d \in Clients /\ peer[d] # "new"
            BY <1>1, <1>2, <2>1 DEF Known
        <3>2. peer[d] \in {"open", "half", "fin"}
            BY <1>5, <2>1, <3>1
        <3>3. /\ sent[d] = rx[d] + conns[fd].buffered + served[d]
              /\ ReplySize * served[d] = got[d] + tx[d] + conns[fd].left
            BY <1>1, <2>1, <3>2 DEF Balance
        <3>4. sent'[d] - rx'[d] = sent[d] - rx[d] /\ got'[d] + tx'[d] = got[d] + tx[d]
            BY <1>2, <1>4, <2>1, <3>1
        <3>5. /\ conns[fd].buffered \in Nat /\ conns[fd].left \in Nat
              /\ sent'[d] \in Nat /\ rx'[d] \in Nat
              /\ sent[d] \in Nat /\ rx[d] \in Nat /\ served[d] \in Nat
            <4>1. conns[fd] \in Connections
                BY DEF IInv, TypeOK, Connections
            <4>2. QED
                BY <1>2, <1>4, <3>1, <4>1, ServerAssumption DEF Connections
        <3>6. sent'[d] = rx'[d] + conns[fd].buffered + served[d]
            BY <3>3, <3>4, <3>5
        <3>7. QED
            BY <3>3, <3>4, <3>6
    <2>2. QED
        BY <1>3, <2>1 DEF Balance
<1>10. QED
    BY <1>6, <1>7, <1>8, <1>9 DEF CInv

\* A step of the connection's code that keeps its client's two sums.
LEMMA SumsKept ==
    ASSUME IInv, KInv, CInv, pc \in {"fill", "parse", "flush"},
           UNCHANGED <<backlog, table, peer, sent, got>>,
           \A d \in Clients \ {Owner} :
              rx'[d] = rx[d] /\ tx'[d] = tx[d] /\ served'[d] = served[d],
           \A fd \in Fds \ {Current} : conns'[fd] = conns[fd],
           rx'[Owner] + conns'[Current].buffered + served'[Owner]
               = rx[Owner] + conns[Current].buffered + served[Owner],
           ReplySize * served[Owner] = got[Owner] + tx[Owner] + conns[Current].left
               => ReplySize * served'[Owner] = got[Owner] + tx'[Owner] + conns'[Current].left
    PROVE  Distinct' /\ Waiting' /\ Balance'
<1>1. Known /\ Distinct /\ Waiting /\ Balance
    BY DEF KInv, CInv
<1>2. /\ Current \in Fds /\ Owner \in Clients /\ Owner # NoClient
      /\ table \in [Fds -> Clients \cup {NoClient}] /\ Owner = table[Current]
    BY AtHand, ServerAssumption DEF IInv, TypeOK, Owner
<1>3. \A i \in 1 .. Len(backlog) : backlog[i] \in Clients \ {Owner}
    <2>1. backlog \in Seq(Clients)
        BY DEF IInv, TypeOK
    <2>2. QED
        BY <1>1, <1>2, <2>1, ElementOfSeq DEF Distinct
<1>4. peer[Owner] # "new"
    BY <1>1, <1>2 DEF Known
<1>5. Distinct'
    BY <1>1 DEF Distinct
<1>6. \A d \in Clients \ {Owner} : Untouched(d) => Untouched(d)'
    BY DEF Untouched
<1>7. Waiting'
    <2>1. ASSUME NEW d \in Clients, peer[d] = "new" PROVE Untouched(d)'
        BY <1>1, <1>4, <1>6, <2>1 DEF Waiting
    <2>2. ASSUME NEW i \in 1 .. Len(backlog), peer[backlog[i]] \in {"open", "half", "fin"}
          PROVE  Untouched(backlog[i])'
        BY <1>1, <1>3, <1>6, <2>2 DEF Waiting
    <2>3. QED
        BY <2>1, <2>2 DEF Waiting, Untouched
<1>8. Balance'
    <2>1. ASSUME NEW fd \in Fds, table[fd] # NoClient, peer[table[fd]] \in {"open", "half", "fin"}
          PROVE  /\ sent[table[fd]]
                        = rx'[table[fd]] + conns'[fd].buffered + served'[table[fd]]
                 /\ ReplySize * served'[table[fd]]
                        = got[table[fd]] + tx'[table[fd]] + conns'[fd].left
        <3>1. /\ sent[table[fd]] = rx[table[fd]] + conns[fd].buffered + served[table[fd]]
              /\ ReplySize * served[table[fd]]
                     = got[table[fd]] + tx[table[fd]] + conns[fd].left
            BY <1>1, <2>1 DEF Balance
        <3>2. CASE fd = Current
            BY <1>2, <3>1, <3>2
        <3>3. CASE fd # Current
            <4>1. table[fd] \in Clients \ {Owner}
                BY <1>1, <1>2, <2>1, <3>3 DEF Distinct
            <4>2. QED
                BY <3>1, <3>3, <4>1
        <3>4. QED
            BY <3>2, <3>3
    <2>2. QED
        BY <2>1 DEF Balance
<1>9. QED
    BY <1>5, <1>7, <1>8

LEMMA ConservedByHandler == ASSUME IInv, IInv', KInv, CInv, Handler PROVE CInv'
<1>1. /\ pc \in {"fill", "parse", "flush"}
      /\ UNCHANGED <<backlog, table, batch, peer, sent, got>>
    BY DEF Handler, FillData, FillAgain, FillEnd, ParseShort, ParseBad, ParseExecute,
           FlushWrite, FlushAgain, FlushError, FlushKilled
<1>2. /\ Current \in Fds /\ Owner \in Clients /\ Conn \in Connections
      /\ conns \in [Fds -> Connections] /\ conns[Current] = Conn
      /\ Current' = Current /\ Owner' = Owner /\ Conn' = conns'[Current]
    BY <1>1, AtHand DEF Owner, Current, Conn
<1>3. /\ \A fd \in Fds : conns[fd].state = "REQ" => conns[fd].left = 0
      /\ pc \in {"fill", "parse"} => conns[Current].state = "REQ"
    BY <1>2 DEF CInv, NothingLeft
<1>4. /\ rx \in [Clients -> Nat] /\ served \in [Clients -> Nat] /\ got \in [Clients -> Nat]
      /\ tx \in [Clients -> 0 .. SendSpace]
    BY DEF IInv, TypeOK
<1>5. /\ conns[Current].buffered \in Nat /\ conns[Current].left \in Nat
      /\ rx[Owner] \in Nat /\ served[Owner] \in Nat /\ got[Owner] \in Nat
      /\ tx[Owner] \in Nat /\ ReplySize \in Nat
    BY <1>2, <1>4, ServerAssumption DEF Connections
<1>6. CASE FillAgain \/ ParseShort \/ FlushAgain \/ FlushKilled
    <2>1. /\ UNCHANGED <<conns, rx, tx, served>>
          /\ pc' \in {"fill", "after", "killed"}
          /\ pc' = "fill" => pc = "parse"
        BY <1>6 DEF FillAgain, ParseShort, FlushAgain, FlushKilled, AfterShort
    <2>2. Distinct' /\ Waiting' /\ Balance'
        BY <1>1, <1>5, <2>1, SumsKept
    <2>3. NothingLeft'
        BY <1>2, <1>3, <2>1 DEF NothingLeft
    <2>4. QED
        BY <2>2, <2>3 DEF CInv
<1>7. CASE FillEnd \/ ParseBad \/ FlushError
    <2>1. /\ UNCHANGED <<rx, tx, served>> /\ pc' = "after"
          /\ conns' = [conns EXCEPT ![Current].state = "END"]
        BY <1>7 DEF FillEnd, ParseBad, FlushError
    <2>2. /\ conns'[Current].buffered = conns[Current].buffered
          /\ conns'[Current].left = conns[Current].left
          /\ conns'[Current].state = "END"
          /\ \A fd \in Fds \ {Current} : conns'[fd] = conns[fd]
        BY <1>2, <2>1 DEF Connections
    <2>3. Distinct' /\ Waiting' /\ Balance'
        BY <1>1, <1>5, <2>1, <2>2, SumsKept
    <2>4. NothingLeft'
        BY <1>2, <1>3, <2>1, <2>2 DEF NothingLeft
    <2>5. QED
        BY <2>3, <2>4 DEF CInv
<1>8. CASE FillData
    <2> DEFINE n == Least(rx[Owner], BufferRequests - Conn.buffered)
    <2>1. /\ UNCHANGED <<tx, served>> /\ pc = "fill" /\ pc' = "parse"
          /\ rx' = [rx EXCEPT ![Owner] = @ - n]
          /\ conns' = [conns EXCEPT ![Current].buffered = @ + n]
        BY <1>8 DEF FillData
    <2>2. n \in Nat
        BY <1>2, <1>5, ServerAssumption DEF Connections, Least
    <2> HIDE DEF n
    <2>3. /\ conns'[Current].buffered = conns[Current].buffered + n
          /\ conns'[Current].left = conns[Current].left
          /\ conns'[Current].state = conns[Current].state
          /\ \A fd \in Fds \ {Current} : conns'[fd] = conns[fd]
        BY <1>2, <2>1 DEF Connections
    <2>4. rx'[Owner] = rx[Owner] - n /\ \A d \in Clients \ {Owner} : rx'[d] = rx[d]
        BY <1>2, <1>4, <2>1
    <2>5. rx'[Owner] + conns'[Current].buffered + served'[Owner]
              = rx[Owner] + conns[Current].buffered + served[Owner]
        BY <1>5, <2>1, <2>2, <2>3, <2>4
    <2>6. Distinct' /\ Waiting' /\ Balance'
        BY <1>1, <2>1, <2>3, <2>4, <2>5, SumsKept
    <2>7. NothingLeft'
        BY <1>2, <1>3, <2>1, <2>3 DEF NothingLeft
    <2>8. QED
        BY <2>6, <2>7 DEF CInv
<1>9. CASE ParseExecute
    <2> DEFINE x == [state |-> "RES", buffered |-> Conn.buffered - 1, left |-> ReplySize]
    <2>1. /\ UNCHANGED <<rx, tx>> /\ pc = "parse" /\ pc' = "flush"
          /\ served' = [served EXCEPT ![Owner] = @ + 1]
          /\ conns' = [conns EXCEPT ![Current] = x]
        BY <1>9 DEF ParseExecute, Conn
    <2>2. /\ conns'[Current].buffered = conns[Current].buffered - 1
          /\ conns'[Current].left = ReplySize
          /\ conns'[Current].state = "RES"
          /\ \A fd \in Fds \ {Current} : conns'[fd] = conns[fd]
        BY <1>2, <2>1
    <2>3. /\ served'[Owner] = served[Owner] + 1
          /\ \A d \in Clients \ {Owner} : served'[d] = served[d]
        BY <1>2, <1>4, <2>1
    <2>4. rx'[Owner] + conns'[Current].buffered + served'[Owner]
              = rx[Owner] + conns[Current].buffered + served[Owner]
        BY <1>5, <2>1, <2>2, <2>3
    <2>5. conns[Current].left = 0
        BY <1>2, <1>3, <2>1
    <2>6. ReplySize * (served[Owner] + 1) = ReplySize * served[Owner] + ReplySize
        BY <1>5
    <2>7. ReplySize * served[Owner] = got[Owner] + tx[Owner] + conns[Current].left
              => ReplySize * served'[Owner] = got[Owner] + tx'[Owner] + conns'[Current].left
        BY <1>5, <2>1, <2>2, <2>3, <2>5, <2>6
    <2>8. Distinct' /\ Waiting' /\ Balance'
        BY <1>1, <2>1, <2>2, <2>3, <2>4, <2>7, SumsKept
    <2>9. NothingLeft'
        BY <1>2, <1>3, <2>1, <2>2 DEF NothingLeft
    <2>10. QED
        BY <2>8, <2>9 DEF CInv
<1>10. CASE FlushWrite
    <2> DEFINE n == Least(Conn.left, SendSpace - tx[Owner])
           left == LeftAfter(n)
    <2>1. /\ UNCHANGED <<rx, served>> /\ pc = "flush"
          /\ tx' = [tx EXCEPT ![Owner] = @ + n]
          /\ conns' = [conns EXCEPT ![Current].left = left,
                                    ![Current].state = IF left = 0 THEN "REQ" ELSE "RES"]
          /\ pc' = IF left = 0 THEN AfterReply ELSE "flush"
          /\ tx[Owner] < SendSpace
        BY <1>10 DEF FlushWrite
    <2>2. n \in Nat /\ left = conns[Current].left - n /\ tx[Owner] + n \in 0 .. SendSpace
        BY <1>2, <1>4, <1>5, <2>1, ServerAssumption DEF Connections, Least, LeftAfter
    <2> HIDE DEF n, left
    <2>3. /\ conns'[Current].buffered = conns[Current].buffered
          /\ conns'[Current].left = left
          /\ conns'[Current].state = IF left = 0 THEN "REQ" ELSE "RES"
          /\ \A fd \in Fds \ {Current} : conns'[fd] = conns[fd]
        BY <1>2, <2>1 DEF Connections
    <2>4. tx'[Owner] = tx[Owner] + n /\ \A d \in Clients \ {Owner} : tx'[d] = tx[d]
        BY <1>2, <1>4, <2>1
    <2>5. ReplySize * served[Owner] = got[Owner] + tx[Owner] + conns[Current].left
              => ReplySize * served'[Owner] = got[Owner] + tx'[Owner] + conns'[Current].left
        BY <1>5, <2>1, <2>2, <2>3, <2>4
    <2>6. Distinct' /\ Waiting' /\ Balance'
        BY <1>1, <2>1, <2>3, <2>4, <2>5, SumsKept
    <2>7. NothingLeft'
        <3>1. pc' \in {"fill", "parse"} => left = 0
            BY <2>1
        <3>2. QED
            BY <1>2, <1>3, <2>3, <3>1 DEF NothingLeft
    <2>8. QED
        BY <2>6, <2>7 DEF CInv
<1>11. QED
    BY <1>6, <1>7, <1>8, <1>9, <1>10 DEF Handler

\* A step that leaves the clients' data, their sockets and the objects alone.
LEMMA ConservedUnchanged ==
    ASSUME CInv, UNCHANGED <<backlog, table, conns, peer, rx, tx, sent, served, got>>
    PROVE  /\ Distinct' /\ Waiting' /\ Balance'
           /\ \A fd \in Fds : conns'[fd].state = "REQ" => conns'[fd].left = 0
<1>1. Distinct' /\ Waiting'
    BY DEF CInv, Distinct, Waiting, Untouched
<1>2. Balance'
    BY DEF CInv, Balance
<1>3. QED
    BY <1>1, <1>2 DEF CInv, NothingLeft

LEMMA ConservedByAccept == ASSUME IInv, KInv, CInv, AcceptConnection PROVE CInv'
<1> DEFINE fd == CHOOSE f \in FreeFds : \A g \in FreeFds : f <= g
           c == Head(backlog)
<1>1. /\ pc = "loop" /\ pc' = "loop"
      /\ FreeFds # {} /\ backlog # <<>> /\ backlog' = Tail(backlog)
      /\ conns' = [conns EXCEPT ![fd] = Fresh]
      /\ UNCHANGED <<peer, rx, tx, sent, served, got>>
    BY DEF AcceptConnection
<1>2. Known /\ Distinct /\ Waiting /\ NothingLeft /\ Balance
    BY DEF KInv, CInv
<1>3. fd \in Fds /\ table[fd] = NoClient
    <2>1. FreeFds \in SUBSET Nat
        BY ServerAssumption DEF FreeFds, Fds
    <2>2. \E f \in FreeFds : \A g \in FreeFds : f <= g
        BY <1>1, <2>1, Smallest
    <2>3. fd \in FreeFds
        BY <2>2
    <2>4. QED
        BY <2>3 DEF FreeFds
<1>4. table' = [table EXCEPT ![fd] = c]
    <2>1. conns[fd] = NoConn
        BY <1>1, <1>3 DEF IInv, Objects, Busy, ObjectOf
    <2>2. QED
        BY <2>1 DEF AcceptConnection
<1> HIDE DEF fd
<1>5. /\ Len(backlog) \in Nat \ {0} /\ c = backlog[1] /\ c \in Clients
      /\ Len(backlog') = Len(backlog) - 1
      /\ \A i \in 1 .. Len(backlog') : backlog'[i] = backlog[i + 1]
      /\ 1 \in 1 .. Len(backlog)
    <2>1. backlog \in Seq(Clients)
        BY DEF IInv, TypeOK
    <2>2. QED
        BY <1>1, <2>1, HeadTailProperties, EmptySeq
<1>6. \A i \in 1 .. Len(backlog') :
         i \in Nat /\ i + 1 \in 1 .. Len(backlog) /\ i + 1 # 1 /\ backlog'[i] = backlog[i + 1]
    BY <1>5
<1> HIDE DEF c
<1>7. /\ conns \in [Fds -> Connections] /\ table \in [Fds -> Clients \cup {NoClient}]
      /\ NoClient \notin Clients
    BY ServerAssumption DEF IInv, TypeOK, Connections
<1>8. /\ conns'[fd] = Fresh /\ table'[fd] = c
      /\ \A g \in Fds : g # fd => conns'[g] = conns[g] /\ table'[g] = table[g]
    BY <1>1, <1>3, <1>4, <1>7
<1>9. Distinct'
    <2>1. ASSUME NEW i \in 1 .. Len(backlog'), NEW j \in 1 .. Len(backlog'),
                 backlog'[i] = backlog'[j]
          PROVE  i = j
        <3>1. i + 1 = j + 1
            BY <1>2, <1>6, <2>1 DEF Distinct
        <3>2. QED
            BY <1>6, <3>1
    <2>2. ASSUME NEW i \in 1 .. Len(backlog'), NEW g \in Fds
          PROVE  table'[g] # backlog'[i]
        <3>1. backlog'[i] # c
            BY <1>2, <1>5, <1>6 DEF Distinct
        <3>2. table[g] # backlog'[i]
            BY <1>2, <1>6 DEF Distinct
        <3>3. QED
            BY <1>8, <3>1, <3>2
    <2>3. ASSUME NEW f \in Fds, NEW g \in Fds, table'[f] = table'[g], table'[f] # NoClient
          PROVE  f = g
        <3>1. \A h \in Fds : table[h] # c
            BY <1>2, <1>5 DEF Distinct
        <3>2. QED
            BY <1>2, <1>8, <2>3, <3>1 DEF Distinct
    <2>4. QED
        BY <2>1, <2>2, <2>3 DEF Distinct
<1>10. Waiting'
    <2>1. \A i \in 1 .. Len(backlog') :
             peer[backlog'[i]] \in {"open", "half", "fin"} => Untouched(backlog'[i])
        BY <1>2, <1>6 DEF Waiting
    <2>2. QED
        BY <1>1, <1>2, <2>1 DEF Waiting, Untouched
<1>11. NothingLeft'
    BY <1>1, <1>2, <1>8 DEF NothingLeft, Fresh
<1>12. Balance'
    <2>1. ASSUME NEW g \in Fds, table'[g] # NoClient, peer[table'[g]] \in {"open", "half", "fin"}
          PROVE  /\ sent[table'[g]]
                        = rx[table'[g]] + conns'[g].buffered + served[table'[g]]
                 /\ ReplySize * served[table'[g]]
                        = got[table'[g]] + tx[table'[g]] + conns'[g].left
        <3>1. CASE g = fd
            <4>1. Untouched(c)
                BY <1>2, <1>5, <1>8, <2>1, <3>1 DEF Waiting
            <4>2. rx[c] \in Nat /\ ReplySize \in Nat
                BY <1>5, ServerAssumption DEF IInv, TypeOK
            <4>3. QED
                BY <1>8, <3>1, <4>1, <4>2 DEF Untouched, Fresh
        <3>2. CASE g # fd
            BY <1>2, <1>8, <2>1, <3>2 DEF Balance
        <3>3. QED
            BY <3>1, <3>2
    <2>2. QED
        BY <1>1, <2>1 DEF Balance
<1>13. QED
    BY <1>9, <1>10, <1>11, <1>12 DEF CInv

\* Closing a descriptor drops what its own client has sent, and nothing else.
LEMMA ConservedByClose ==
    ASSUME IInv, KInv, CInv, Current \in Fds, CloseFd(Current),
           conns' = [conns EXCEPT ![Current] = NoConn],
           UNCHANGED <<backlog, peer, tx, sent, served, got>>
    PROVE  /\ Distinct' /\ Waiting' /\ Balance'
           /\ \A fd \in Fds : conns'[fd].state = "REQ" => conns'[fd].left = 0
<1>1. Known /\ Distinct /\ Waiting /\ NothingLeft /\ Balance
    BY DEF KInv, CInv
<1>2. /\ conns \in [Fds -> Connections] /\ table \in [Fds -> Clients \cup {NoClient}]
      /\ rx \in [Clients -> Nat] /\ NoClient \notin Clients
    BY ServerAssumption DEF IInv, TypeOK, Connections
<1>3. /\ table' = [table EXCEPT ![Current] = NoClient]
      /\ rx' = IF table[Current] = NoClient THEN rx ELSE [rx EXCEPT ![table[Current]] = 0]
    BY DEF CloseFd
<1>4. /\ table'[Current] = NoClient /\ conns'[Current] = NoConn
      /\ \A g \in Fds : g # Current => conns'[g] = conns[g] /\ table'[g] = table[g]
    BY <1>2, <1>3
<1>5. \A d \in Clients : d # table[Current] => rx'[d] = rx[d]
    BY <1>2, <1>3
<1>6. \A i \in 1 .. Len(backlog) : backlog[i] \in Clients /\ backlog[i] # table[Current]
    <2>1. backlog \in Seq(Clients)
        BY DEF IInv, TypeOK
    <2>2. QED
        BY <1>1, <2>1, ElementOfSeq DEF Distinct
<1>7. \A d \in Clients : peer[d] = "new" => d # table[Current]
    BY <1>1, <1>2 DEF Known
<1>8. Distinct'
    <2>1. \A i \in 1 .. Len(backlog) : \A g \in Fds : table'[g] # backlog[i]
        BY <1>1, <1>2, <1>4, <1>6 DEF Distinct
    <2>2. \A f, g \in Fds : table'[f] = table'[g] /\ table'[f] # NoClient => f = g
        BY <1>1, <1>4 DEF Distinct
    <2>3. QED
        BY <1>1, <2>1, <2>2 DEF Distinct
<1>9. Waiting'
    <2>1. \A d \in Clients : d # table[Current] /\ Untouched(d) => Untouched(d)'
        BY <1>5 DEF Untouched
    <2>2. \A d \in Clients : peer[d] = "new" => Untouched(d)'
        BY <1>1, <1>7, <2>1 DEF Waiting
    <2>3. \A i \in 1 .. Len(backlog) :
             peer[backlog[i]] \in {"open", "half", "fin"} => Untouched(backlog[i])'
        BY <1>1, <1>6, <2>1 DEF Waiting
    <2>4. QED
        BY <2>2, <2>3 DEF Waiting, Untouched
<1>10. Balance'
    <2>1. ASSUME NEW g \in Fds, table'[g] # NoClient, peer[table'[g]] \in {"open", "half", "fin"}
          PROVE  /\ sent[table'[g]]
                        = rx'[table'[g]] + conns'[g].buffered + served[table'[g]]
                 /\ ReplySize * served[table'[g]]
                        = got[table'[g]] + tx[table'[g]] + conns'[g].left
        <3>1. g # Current /\ table'[g] = table[g] /\ conns'[g] = conns[g]
            BY <1>4, <2>1
        <3>2. table[g] \in Clients /\ table[g] # table[Current]
            BY <1>1, <1>2, <2>1, <3>1 DEF Distinct
        <3>3. rx'[table[g]] = rx[table[g]]
            BY <1>5, <3>2
        <3>4. QED
            BY <1>1, <2>1, <3>1, <3>3 DEF Balance
    <2>2. QED
        BY <2>1 DEF Balance
<1>11. QED
    BY <1>1, <1>4, <1>8, <1>9, <1>10 DEF NothingLeft, NoConn

LEMMA ConservedByLoop == ASSUME IInv, KInv, CInv, EventLoop PROVE CInv'
<1>1. CASE EpollWait \/ AcceptFails
    <2>1. /\ pc' = "loop"
          /\ UNCHANGED <<backlog, table, conns, peer, rx, tx, sent, served, got>>
        BY <1>1 DEF EpollWait, AcceptFails
    <2>2. QED
        BY <2>1, ConservedUnchanged DEF CInv, NothingLeft
<1>2. CASE AcceptConnection
    BY <1>2, ConservedByAccept
<1>3. CASE Io
    <2>1. /\ pc' \in {"fill", "flush"}
          /\ pc' = "fill" => Conn.state = "REQ"
          /\ UNCHANGED <<backlog, table, batch, conns, peer, rx, tx, sent, served, got>>
        BY <1>3 DEF Io
    <2>2. Conn' = Conn
        BY <2>1 DEF Conn, Current
    <2>3. QED
        BY <2>1, <2>2, ConservedUnchanged DEF CInv, NothingLeft
<1>4. CASE AfterIo \/ HangUp
    <2>1. /\ pc \in {"after", "hangup"} /\ pc' \in {"hangup", "loop"}
          /\ UNCHANGED <<backlog, peer, tx, sent, served, got>>
          /\ \/ CloseFd(Current) /\ conns' = [conns EXCEPT ![Current] = NoConn]
             \/ UNCHANGED <<table, rx, conns>>
        BY <1>4 DEF AfterIo, HangUp, SlotAfterHangUp
    <2>2. Current \in Fds
        BY <2>1 DEF IInv, Handled, Busy
    <2>3. /\ Distinct' /\ Waiting' /\ Balance'
          /\ \A fd \in Fds : conns'[fd].state = "REQ" => conns'[fd].left = 0
        BY <2>1, <2>2, ConservedByClose, ConservedUnchanged
    <2>4. QED
        BY <2>1, <2>3 DEF CInv, NothingLeft
<1>5. QED
    BY <1>1, <1>2, <1>3, <1>4 DEF EventLoop

LEMMA NextCInv == IInv /\ IInv' /\ KInv /\ CInv /\ [Next]_vars => CInv'
<1> SUFFICES ASSUME IInv, IInv', KInv, CInv, [Next]_vars PROVE CInv'
    OBVIOUS
<1>1. CASE EventLoop
    BY <1>1, ConservedByLoop
<1>2. CASE Handler
    BY <1>2, ConservedByHandler
<1>3. ASSUME NEW c \in Clients, Environment(c) PROVE CInv'
    BY <1>3, ConservedByEnvironment
<1>4. CASE UNCHANGED vars
    <2>1. /\ UNCHANGED <<backlog, table, conns, peer, rx, tx, sent, served, got>>
          /\ pc' = pc /\ Conn' = Conn
        BY <1>4 DEF vars, Conn, Current
    <2>2. QED
        BY <2>1, ConservedUnchanged DEF CInv, NothingLeft
<1>5. QED
    BY <1>1, <1>2, <1>3, <1>4 DEF Next

LEMMA CInvariance == Spec => []CInv
<1>1. Init => CInv
    <2> SUFFICES ASSUME Init PROVE CInv
        OBVIOUS
    <2>1. Distinct /\ Balance
        BY DEF Init, Distinct, Balance
    <2>2. Waiting
        BY DEF Init, Waiting, Untouched
    <2>3. NothingLeft
        BY DEF Init, NothingLeft, NoConn
    <2>4. QED
        BY <2>1, <2>2, <2>3 DEF CInv
<1>2. QED
    BY <1>1, Invariance, KInvariance, NextCInv, PTL DEF Spec

------------------------------------------------------------------------------
(* What a closed socket cuts short.                                        *)

\* The replies of a client have filled the send buffer at some time.
Overflowed(c) == SendSpace <= Delivered(c)

\* tryOneRequest is at work on the connection.
Serving(fd) ==
    /\ \/ pc = "parse"
       \/ pc = "flush" /\ caller = "tryOneRequest"
    /\ fd = Current

\* Between two calls of tryOneRequest nothing waits in a connection's buffers,
\* unless the send buffer has been full.
Settled(fd) ==
    LET c == table[fd] IN
    c # NoClient /\ Reading(c) /\ ~Serving(fd) /\ ~Overflowed(c) =>
        /\ conns[fd].state # "RES" /\ conns[fd].left = 0
        /\ c \in BadClients \/ conns[fd].buffered = 0
AllSettled == \A fd \in Fds : Settled(fd)

\* The socket is about to be closed.
Closing == \/ pc \in {"after", "hangup"} /\ Head(batch).hup
           \/ pc = "after" /\ Ended

\* io() has emptied the socket that is about to be closed.
Drained ==
    LET c == Owner IN
    Closing /\ c # NoClient /\ Reading(c) =>
        rx[c] = 0 \/ Overflowed(c) \/ c \in BadClients

Flushing == pc = "flush" => Conn.state = "RES"

LInv == AllSettled /\ Drained /\ Flushing /\ CutShort

\* What a client has lost that the server has left while it was reading.
AtMostCut(c) ==
    /\ served[c] <= sent[c]
    /\ ReplySize * (served[c] - 1) <= Delivered(c)
    /\ Delivered(c) <= ReplySize * served[c]
    /\ Delivered(c) < SendSpace =>
          /\ Delivered(c) = ReplySize * served[c]
          /\ c \in BadClients \/ served[c] = sent[c]

LEMMA CutShortIs ==
    CutShort <=> \A c \in accepted : FdOf(c) = {} /\ Reading(c) => AtMostCut(c)
BY DEF CutShort, AtMostCut

LEMMA Numbers ==
    ASSUME IInv
    PROVE  /\ SendSpace \in Nat /\ ReplySize \in Nat /\ accepted \subseteq Clients
           /\ \A d \in Clients : /\ rx[d] \in Nat /\ tx[d] \in Nat /\ sent[d] \in Nat
                                 /\ served[d] \in Nat /\ got[d] \in Nat
           /\ \A fd \in Fds : /\ conns[fd].buffered \in Nat /\ conns[fd].left \in Nat
                              /\ conns[fd].left <= ReplySize
<1>1. tx \in [Clients -> 0 .. SendSpace] /\ conns \in [Fds -> Connections]
    BY DEF IInv, TypeOK, Connections
<1>2. \A fd \in Fds : conns[fd].left \in 0 .. ReplySize /\ conns[fd].buffered \in 0 .. BufferRequests
    BY <1>1 DEF Connections
<1>3. QED
    BY <1>1, <1>2, ServerAssumption DEF IInv, TypeOK

\* io() closes the socket of no client but one that is gone or refused.
LEMMA ClosingGone ==
    ASSUME IInv, KInv, Closing, Owner # NoClient
    PROVE  Owner \in BadClients \/ Gone(Owner)
<1>1. pc \in {"after", "hangup"} /\ batch # <<>>
    BY DEF Closing, IInv, Handled, Busy
<1>2. 1 \in 1 .. Len(batch) /\ Head(batch) = batch[1]
    <2>1. batch \in Seq(Events)
        BY DEF IInv, TypeOK, Events, Descriptors
    <2>2. QED
        BY <1>1, <2>1, CurrentIsFirst, HeadTailProperties DEF IInv
<1>3. CASE Head(batch).hup
    BY <1>1, <1>2, <1>3 DEF KInv, HupGone, SameOwner, Busy
<1>4. CASE pc = "after" /\ Ended
    BY <1>4 DEF KInv, EndedGone
<1>5. QED
    BY <1>3, <1>4 DEF Closing

LEMMA LossesByEnvironment ==
    ASSUME IInv, KInv, LInv, NEW c \in Clients, Environment(c)
    PROVE  LInv'
<1>1. /\ AllSettled /\ Drained /\ Flushing /\ CutShort /\ Known
    BY DEF LInv, KInv
<1>2. /\ UNCHANGED <<table, conns, batch, pc, caller>>
      /\ UNCHANGED <<served, accepted>>
    <2>1. UNCHANGED loop
        BY EnvironmentType DEF IInv
    <2>2. UNCHANGED <<served, accepted>>
        BY DEF Environment, Connect, Send, Receive, HalfClose, Close, Reset
    <2>3. QED
        BY <2>1, <2>2 DEF loop
<1>3. /\ sent \in [Clients -> Nat] /\ rx \in [Clients -> Nat]
      /\ got \in [Clients -> Nat] /\ tx \in [Clients -> Nat]
      /\ \A d \in Clients : tx[d] \in Nat /\ got[d] \in Nat
      /\ peer \in [Clients -> {"new", "open", "half", "fin", "rst", "epipe"}]
    <2>1. tx \in [Clients -> 0 .. SendSpace] /\ SendSpace \in Nat
        BY ServerAssumption DEF IInv, TypeOK
    <2>2. tx \in [Clients -> Nat]
        BY <2>1
    <2>3. QED
        BY <2>2 DEF IInv, TypeOK
<1>4. \A d \in Clients : peer[d] # "new" /\ Reading(d)' =>
          /\ Reading(d) /\ Delivered(d)' = Delivered(d)
          /\ peer[d] = "half" \/ Dropped(d) => sent'[d] = sent[d] /\ rx'[d] = rx[d]
    <2> USE DEF Reading, Delivered
    <2>1. CASE Connect(c)
        BY <1>3, <2>1 DEF Connect
    <2>2. CASE Send(c)
        BY <1>3, <2>2 DEF Send
    <2>3. CASE Receive(c)
        <3>1. /\ tx' = [tx EXCEPT ![c] = @ - 1] /\ got' = [got EXCEPT ![c] = @ + 1]
              /\ UNCHANGED <<peer, rx, sent>> /\ tx[c] > 0
            BY <2>3 DEF Receive
        <3>2. QED
            BY <1>3, <3>1
    <2>4. CASE HalfClose(c)
        BY <1>3, <2>4 DEF HalfClose
    <2>5. CASE Close(c)
        BY <1>3, <2>5 DEF Close
    <2>6. CASE Reset(c)
        BY <1>3, <2>6 DEF Reset
    <2>7. QED
        BY <2>1, <2>2, <2>3, <2>4, <2>5, <2>6 DEF Environment
<1>5. \A fd \in Fds : table[fd] # NoClient => table[fd] \in Clients /\ peer[table[fd]] # "new"
    <2>1. accepted \subseteq Clients
        BY DEF IInv, TypeOK
    <2>2. QED
        BY <1>1, <2>1 DEF Known
<1>6. AllSettled'
    <2>1. ASSUME NEW fd \in Fds, table[fd] # NoClient, Reading(table[fd])',
                 ~Serving(fd), ~Overflowed(table[fd])'
          PROVE  /\ conns[fd].state # "RES" /\ conns[fd].left = 0
                 /\ table[fd] \in BadClients \/ conns[fd].buffered = 0
        <3>1. Reading(table[fd]) /\ Delivered(table[fd])' = Delivered(table[fd])
            BY <1>2, <1>4, <1>5, <2>1 DEF Reading, Delivered
        <3>2. ~Overflowed(table[fd])
            BY <1>2, <2>1, <3>1 DEF Overflowed
        <3>3. QED
            BY <1>1, <2>1, <3>1, <3>2 DEF AllSettled, Settled
    <2>2. \A fd \in Fds : Serving(fd)' <=> Serving(fd)
        BY <1>2 DEF Serving, Current
    <2>3. ASSUME NEW fd \in Fds PROVE Settled(fd)'
        BY <1>2, <2>1, <2>2 DEF Settled, Reading, Overflowed, Delivered
    <2>4. QED
        BY <2>3 DEF AllSettled
<1>7. Drained'
    <2>1. (Closing' <=> Closing) /\ Owner' = Owner
        BY <1>2 DEF Closing, Ended, Conn, Current, Owner
    <2>2. ASSUME Closing, Owner # NoClient, Reading(Owner)', Owner \notin BadClients
          PROVE  rx'[Owner] = 0 \/ Overflowed(Owner)'
        <3>1. Gone(Owner) /\ Current \in Fds
            BY <2>2, ClosingGone DEF IInv, Handled, Busy, Closing
        <3>2. /\ Owner \in Clients /\ peer[Owner] # "new"
            BY <3>1 DEF Gone
        <3>3. Reading(Owner) /\ Delivered(Owner)' = Delivered(Owner)
            BY <1>4, <2>1, <2>2, <3>2 DEF Reading, Delivered
        <3>4. peer[Owner] = "half"
            BY <3>1, <3>3 DEF Gone, Reading
        <3>5. rx'[Owner] = rx[Owner]
            BY <1>4, <2>1, <2>2, <3>2, <3>4 DEF Reading
        <3>6. rx[Owner] = 0 \/ Overflowed(Owner)
            BY <1>1, <2>2, <3>3 DEF Drained
        <3>7. QED
            BY <3>3, <3>5, <3>6 DEF Overflowed
    <2>3. QED
        BY <2>1, <2>2 DEF Drained, Reading, Overflowed, Delivered
<1>8. Flushing'
    BY <1>1, <1>2 DEF Flushing, Conn, Current
<1>9. CutShort'
    <2>1. ASSUME NEW d \in accepted, FdOf(d) = {}, Reading(d)' PROVE AtMostCut(d)'
        <3>1. d \in Clients /\ peer[d] # "new" /\ Dropped(d)
            BY <1>1, <2>1 DEF IInv, TypeOK, Known, Dropped
        <3>2. Reading(d) /\ Delivered(d)' = Delivered(d) /\ sent'[d] = sent[d]
            BY <1>4, <2>1, <3>1
        <3>3. AtMostCut(d)
            BY <1>1, <2>1, <3>2, CutShortIs
        <3>4. QED
            BY <1>2, <3>2, <3>3 DEF AtMostCut
    <2>2. \A d \in Clients : FdOf(d)' = FdOf(d)
        BY <1>2 DEF FdOf
    <2>3. accepted \subseteq Clients
        BY DEF IInv, TypeOK
    <2>4. QED
        BY <1>2, <2>1, <2>2, <2>3 DEF CutShort, AtMostCut
<1>10. QED
    BY <1>6, <1>7, <1>8, <1>9 DEF LInv

\* A step of the connection's code that leaves the other connections alone.
LEMMA LossesElsewhere ==
    ASSUME IInv, CInv, LInv, pc \in {"fill", "parse", "flush"},
           UNCHANGED <<table, batch, peer, sent, got, accepted>>,
           \A d \in Clients \ {Owner} :
              rx'[d] = rx[d] /\ tx'[d] = tx[d] /\ served'[d] = served[d],
           \A fd \in Fds \ {Current} : conns'[fd] = conns[fd],
           Settled(Current)', Drained', Flushing'
    PROVE  LInv'
<1>1. /\ AllSettled /\ CutShort /\ Distinct
      /\ Current \in Fds /\ Owner \in Clients /\ Owner = table[Current]
      /\ Current' = Current /\ Owner # NoClient
    BY AtHand, ServerAssumption DEF LInv, CInv, Owner, Current
<1>2. AllSettled'
    <2>1. ASSUME NEW fd \in Fds, fd # Current PROVE Settled(fd)'
        <3>1. Settled(fd) /\ ~Serving(fd)
            BY <1>1, <2>1 DEF AllSettled, Serving
        <3>2. CASE table[fd] = NoClient
            BY <3>2 DEF Settled
        <3>3. CASE table[fd] # NoClient
            <4>1. table[fd] \in Clients \ {Owner}
                BY <1>1, <2>1, <3>3 DEF Distinct, IInv, TypeOK
            <4>2. Delivered(table[fd])' = Delivered(table[fd]) /\ conns'[fd] = conns[fd]
                BY <2>1, <4>1 DEF Delivered
            <4>3. QED
                BY <3>1, <4>2 DEF Settled, Reading, Overflowed
        <3>4. QED
            BY <3>2, <3>3
    <2>2. QED
        BY <1>1, <2>1 DEF AllSettled
<1>3. CutShort'
    <2>1. ASSUME NEW d \in accepted, FdOf(d) = {}, Reading(d) PROVE AtMostCut(d)'
        <3>1. d \in Clients \ {Owner}
            BY <1>1, <2>1 DEF IInv, TypeOK, FdOf
        <3>2. Delivered(d)' = Delivered(d) /\ served'[d] = served[d] /\ sent'[d] = sent[d]
            BY <3>1 DEF Delivered
        <3>3. AtMostCut(d)
            BY <1>1, <2>1, CutShortIs
        <3>4. QED
            BY <3>2, <3>3 DEF AtMostCut
    <2>2. QED
        BY <2>1 DEF CutShort, AtMostCut, FdOf, Reading
<1>4. QED
    BY <1>2, <1>3 DEF LInv

LEMMA LossesByHandler == ASSUME IInv, KInv, CInv, LInv, Handler PROVE LInv'
<1>1. /\ pc \in {"fill", "parse", "flush"}
      /\ UNCHANGED <<table, batch, peer, sent, got, accepted>>
    BY DEF Handler, FillData, FillAgain, FillEnd, ParseShort, ParseBad, ParseExecute,
           FlushWrite, FlushAgain, FlushError, FlushKilled
<1>2. /\ Current \in Fds /\ Owner \in Clients /\ Conn \in Connections
      /\ conns \in [Fds -> Connections] /\ conns[Current] = Conn
      /\ Owner = table[Current] /\ Owner # NoClient /\ batch # <<>>
      /\ Current' = Current /\ Owner' = Owner /\ Conn' = conns'[Current]
    BY <1>1, AtHand, ServerAssumption DEF Owner, Current, Conn, IInv, Handled, Busy
<1>3. /\ Settled(Current) /\ Flushing
      /\ Conn.state = "REQ" => Conn.left = 0
      /\ pc \in {"fill", "parse"} => Conn.state = "REQ"
    BY <1>2 DEF CInv, NothingLeft, LInv, AllSettled
<1>4. /\ rx[Owner] \in Nat /\ tx[Owner] \in Nat /\ got[Owner] \in Nat
      /\ Conn.left \in Nat /\ Conn.buffered \in Nat /\ SendSpace \in Nat
      /\ tx \in [Clients -> 0 .. SendSpace] /\ rx \in [Clients -> Nat]
      /\ served \in [Clients -> Nat]
    BY <1>2, Numbers DEF IInv, TypeOK
<1>5. Head(batch).hup => Gone(Owner)
    <2>1. 1 \in 1 .. Len(batch) /\ Head(batch) = batch[1]
        <3>1. batch \in Seq(Events)
            BY DEF IInv, TypeOK, Events, Descriptors
        <3>2. QED
            BY <1>2, <3>1, CurrentIsFirst, HeadTailProperties DEF IInv
    <2>2. QED
        BY <1>1, <1>2, <2>1 DEF KInv, HupGone, SameOwner, Busy
<1>6. CASE FillData
    <2>1. /\ pc' = "parse" /\ pc = "fill" /\ UNCHANGED <<tx, served>>
          /\ \E n \in Nat : rx' = [rx EXCEPT ![Owner] = @ - n]
          /\ \A fd \in Fds \ {Current} : conns'[fd] = conns[fd]
        <3> DEFINE n == Least(rx[Owner], BufferRequests - Conn.buffered)
        <3>1. n \in Nat
            BY <1>2, <1>4, ServerAssumption DEF Connections, Least
        <3>2. QED
            BY <1>2, <1>6, <3>1 DEF FillData
    <2>2. \A d \in Clients \ {Owner} : rx'[d] = rx[d]
        BY <1>4, <2>1
    <2>3. Settled(Current)' /\ Drained' /\ Flushing'
        BY <1>2, <2>1 DEF Settled, Serving, Drained, Closing, Flushing
    <2>4. QED
        BY <1>1, <2>1, <2>2, <2>3, LossesElsewhere
<1>7. CASE FillAgain \/ FillEnd
    <2>1. /\ pc' = "after" /\ pc = "fill" /\ UNCHANGED <<rx, tx, served, caller>>
          /\ \A fd \in Fds \ {Current} : conns'[fd] = conns[fd]
          /\ conns'[Current].left = Conn.left /\ conns'[Current].buffered = Conn.buffered
          /\ conns'[Current].state # "RES"
        BY <1>2, <1>3, <1>7 DEF FillAgain, FillEnd, Connections
    <2>2. ~Serving(Current)
        BY <2>1 DEF Serving
    <2>3. Settled(Current)'
        BY <1>1, <1>2, <1>3, <2>1, <2>2 DEF Settled, Reading, Overflowed, Delivered
    <2>4. Closing' /\ Reading(Owner) => rx[Owner] = 0
        <3>1. CASE FillEnd
            BY <3>1 DEF FillEnd
        <3>2. CASE FillAgain
            <4>1. /\ peer[Owner] = "open" /\ conns' = conns
                BY <3>2 DEF FillAgain, Readable
            <4>2. ~Head(batch).hup
                BY <1>5, <4>1 DEF Gone
            <4>3. Conn'.state = "REQ"
                BY <1>2, <1>3, <2>1, <4>1
            <4>4. QED
                BY <1>1, <4>2, <4>3 DEF Closing, Ended
        <3>3. QED
            BY <1>7, <3>1, <3>2
    <2>5. Drained' /\ Flushing'
        BY <1>1, <1>2, <2>1, <2>4 DEF Drained, Flushing, Reading
    <2>6. QED
        BY <1>1, <2>1, <2>3, <2>5, LossesElsewhere
<1>8. CASE ParseShort
    <2>1. /\ pc' = "fill" /\ pc = "parse" /\ UNCHANGED <<conns, rx, tx, served>>
          /\ ~HasRequest
        BY <1>8 DEF ParseShort, AfterShort
    <2>2. Conn.buffered = 0
        BY <1>4, <2>1 DEF HasRequest
    <2>3. Settled(Current)' /\ Drained' /\ Flushing'
        BY <1>2, <1>3, <2>1, <2>2 DEF Settled, Drained, Closing, Flushing
    <2>4. QED
        BY <1>1, <2>1, <2>3, LossesElsewhere
<1>9. CASE ParseBad
    <2>1. /\ pc' = "after" /\ pc = "parse" /\ UNCHANGED <<rx, tx, served>>
          /\ \A fd \in Fds \ {Current} : conns'[fd] = conns[fd]
          /\ conns'[Current].left = Conn.left /\ conns'[Current].state = "END"
          /\ Owner \in BadClients
        BY <1>2, <1>9 DEF ParseBad, Connections
    <2>2. Settled(Current)' /\ Drained' /\ Flushing'
        BY <1>1, <1>2, <1>3, <2>1 DEF Settled, Drained, Flushing
    <2>3. QED
        BY <1>1, <2>1, <2>2, LossesElsewhere
<1>10. CASE ParseExecute
    <2>1. /\ pc' = "flush" /\ caller' = "tryOneRequest" /\ UNCHANGED <<rx, tx>>
          /\ served' = [served EXCEPT ![Owner] = @ + 1]
          /\ conns'[Current].state = "RES"
          /\ \A fd \in Fds \ {Current} : conns'[fd] = conns[fd]
        BY <1>2, <1>10 DEF ParseExecute
    <2>2. \A d \in Clients \ {Owner} : served'[d] = served[d]
        BY <1>4, <2>1
    <2>3. Settled(Current)' /\ Drained' /\ Flushing'
        BY <1>2, <2>1 DEF Settled, Serving, Drained, Closing, Flushing
    <2>4. QED
        BY <1>1, <2>1, <2>2, <2>3, LossesElsewhere
<1>11. CASE FlushWrite
    <2> DEFINE n == Least(Conn.left, SendSpace - tx[Owner])
           left == LeftAfter(n)
    <2>1. /\ UNCHANGED <<rx, served, caller>> /\ pc = "flush"
          /\ tx' = [tx EXCEPT ![Owner] = @ + n]
          /\ conns' = [conns EXCEPT ![Current].left = left,
                                    ![Current].state = IF left = 0 THEN "REQ" ELSE "RES"]
          /\ pc' = IF left = 0 THEN AfterReply ELSE "flush"
          /\ tx[Owner] < SendSpace
        BY <1>11 DEF FlushWrite
    <2>2. n \in Nat
        BY <1>2, <1>4, <2>1 DEF Connections, Least
    <2> HIDE DEF n, left
    <2>3. /\ conns'[Current].buffered = Conn.buffered
          /\ conns'[Current].left = left
          /\ conns'[Current].state = IF left = 0 THEN "REQ" ELSE "RES"
          /\ \A fd \in Fds \ {Current} : conns'[fd] = conns[fd]
        BY <1>2, <2>1 DEF Connections
    <2>4. tx'[Owner] = tx[Owner] + n /\ \A d \in Clients \ {Owner} : tx'[d] = tx[d]
        BY <1>2, <1>4, <2>1
    <2>5. Overflowed(Owner) => Overflowed(Owner)'
        BY <1>1, <1>2, <1>4, <2>2, <2>4 DEF Overflowed, Delivered
    <2>6. CASE caller = "tryOneRequest"
        <3>1. pc' \in {"parse", "flush"}
            BY <2>1, <2>6 DEF AfterReply
        <3>2. pc' = "flush" => left # 0
            BY <2>1, <2>6 DEF AfterReply
        <3>3. Settled(Current)' /\ Drained' /\ Flushing'
            BY <1>2, <2>1, <2>3, <2>6, <3>1, <3>2 DEF Settled, Serving, Drained, Closing, Flushing
        <3>4. QED
            BY <1>1, <2>1, <2>3, <2>4, <3>3, LossesElsewhere
    <2>7. CASE caller # "tryOneRequest"
        <3>1. Reading(Owner) => Overflowed(Owner)
            <4>1. ~Serving(Current) /\ conns[Current].state = "RES"
                BY <1>2, <1>3, <2>1, <2>7 DEF Serving, Flushing
            <4>2. QED
                BY <1>2, <1>3, <4>1 DEF Settled
        <3>2. Settled(Current)' /\ Drained'
            BY <1>1, <1>2, <2>5, <3>1 DEF Settled, Drained, Reading
        <3>3. Flushing'
            BY <1>2, <2>1, <2>3 DEF Flushing, AfterReply
        <3>4. QED
            BY <1>1, <2>1, <2>3, <2>4, <3>2, <3>3, LossesElsewhere
    <2>8. QED
        BY <2>6, <2>7
<1>12. CASE FlushAgain
    <2>1. /\ pc' = "after" /\ UNCHANGED <<conns, rx, tx, served>> /\ tx[Owner] = SendSpace
        BY <1>12 DEF FlushAgain
    <2>2. Overflowed(Owner)'
        BY <1>1, <1>2, <1>4, <2>1 DEF Overflowed, Delivered
    <2>3. Settled(Current)' /\ Drained' /\ Flushing'
        BY <1>1, <1>2, <2>1, <2>2 DEF Settled, Drained, Flushing
    <2>4. QED
        BY <1>1, <2>1, <2>3, LossesElsewhere
<1>13. CASE FlushError \/ FlushKilled
    <2>1. /\ pc' \in {"after", "killed"} /\ UNCHANGED <<rx, tx, served>>
          /\ \A fd \in Fds \ {Current} : conns'[fd] = conns[fd]
          /\ peer[Owner] \in {"rst", "epipe"}
        BY <1>2, <1>13 DEF FlushError, FlushKilled, Connections
    <2>2. Settled(Current)' /\ Drained' /\ Flushing'
        BY <1>1, <1>2, <2>1 DEF Settled, Drained, Flushing, Reading
    <2>3. QED
        BY <1>1, <2>1, <2>2, LossesElsewhere
<1>14. QED
    BY <1>6, <1>7, <1>8, <1>9, <1>10, <1>11, <1>12, <1>13 DEF Handler

\* A step of the loop that leaves the clients' data and their sockets alone.
LEMMA LossesUnchanged ==
    ASSUME LInv, UNCHANGED <<table, conns, peer, rx, tx, sent, served, got, accepted>>,
           pc \notin {"parse", "flush"}, Drained', Flushing'
    PROVE  LInv'
<1>1. AllSettled'
    <2>1. ASSUME NEW fd \in Fds PROVE Settled(fd)'
        <3>1. Settled(fd) /\ ~Serving(fd)
            BY DEF LInv, AllSettled, Serving
        <3>2. QED
            BY <3>1 DEF Settled, Reading, Overflowed, Delivered
    <2>2. QED
        BY <2>1 DEF AllSettled
<1>2. CutShort'
    BY DEF LInv, CutShort, FdOf, Reading, Delivered
<1>3. QED
    BY <1>1, <1>2 DEF LInv

LEMMA LossesByAccept == ASSUME IInv, LInv, AcceptConnection PROVE LInv'
<1> DEFINE fd == CHOOSE f \in FreeFds : \A g \in FreeFds : f <= g
           c == Head(backlog)
<1>1. /\ pc = "loop" /\ pc' = "loop"
      /\ FreeFds # {} /\ conns' = [conns EXCEPT ![fd] = Fresh]
      /\ accepted' = accepted \cup {c}
      /\ UNCHANGED <<peer, rx, tx, sent, served, got>>
    BY DEF AcceptConnection
<1>2. fd \in Fds /\ table[fd] = NoClient
    <2>1. FreeFds \in SUBSET Nat
        BY ServerAssumption DEF FreeFds, Fds
    <2>2. \E f \in FreeFds : \A g \in FreeFds : f <= g
        BY <1>1, <2>1, Smallest
    <2>3. fd \in FreeFds
        BY <2>2
    <2>4. QED
        BY <2>3 DEF FreeFds
<1>3. table' = [table EXCEPT ![fd] = c]
    <2>1. conns[fd] = NoConn
        BY <1>1, <1>2 DEF IInv, Objects, Busy, ObjectOf
    <2>2. QED
        BY <2>1 DEF AcceptConnection
<1> HIDE DEF fd, c
<1>4. /\ conns \in [Fds -> Connections] /\ table \in [Fds -> Clients \cup {NoClient}]
      /\ NoClient \notin Clients /\ accepted \subseteq Clients
    BY ServerAssumption DEF IInv, TypeOK, Connections
<1>5. /\ conns'[fd] = Fresh /\ table'[fd] = c
      /\ \A g \in Fds : g # fd => conns'[g] = conns[g] /\ table'[g] = table[g]
    BY <1>1, <1>2, <1>3, <1>4
<1>6. AllSettled'
    <2>1. ASSUME NEW g \in Fds PROVE Settled(g)'
        <3>1. CASE g = fd
            BY <1>5, <3>1 DEF Settled, Fresh
        <3>2. CASE g # fd
            <4>1. Settled(g) /\ ~Serving(g)
                BY <1>1 DEF LInv, AllSettled, Serving
            <4>2. QED
                BY <1>1, <1>5, <3>2, <4>1 DEF Settled, Reading, Overflowed, Delivered
        <3>3. QED
            BY <3>1, <3>2
    <2>2. QED
        BY <2>1 DEF AllSettled
<1>7. Drained' /\ Flushing'
    BY <1>1 DEF Drained, Closing, Flushing
<1>8. CutShort'
    <2>1. ASSUME NEW d \in accepted', FdOf(d)' = {}, Reading(d) PROVE AtMostCut(d)'
        <3>1. d # c /\ d \in accepted
            BY <1>1, <1>2, <1>5, <2>1 DEF FdOf
        <3>2. FdOf(d) = {}
            <4>1. ASSUME NEW g \in Fds, table[g] = d PROVE FALSE
                <5>1. g # fd
                    BY <1>2, <1>4, <3>1, <4>1
                <5>2. QED
                    BY <1>5, <2>1, <4>1, <5>1 DEF FdOf
            <4>2. QED
                BY <4>1 DEF FdOf
        <3>3. AtMostCut(d)
            BY <2>1, <3>1, <3>2, CutShortIs DEF LInv
        <3>4. QED
            BY <1>1, <3>3 DEF AtMostCut, Delivered
    <2>2. QED
        BY <1>1, <2>1 DEF CutShort, AtMostCut, Reading
<1>9. QED
    BY <1>6, <1>7, <1>8 DEF LInv

\* Closing a socket cuts its own client short and no other.
LEMMA LossesByClose ==
    ASSUME IInv, CInv, LInv, pc \in {"after", "hangup"}, Closing, CloseFd(Current),
           conns' = [conns EXCEPT ![Current] = NoConn], Drained', Flushing',
           UNCHANGED <<peer, tx, sent, served, got, accepted>>
    PROVE  LInv'
<1>1. /\ Current \in Fds /\ AllSettled /\ CutShort /\ Drained /\ Distinct /\ Balance
      /\ Owner = table[Current]
    BY DEF IInv, Handled, Busy, LInv, CInv, Owner
<1>2. /\ conns \in [Fds -> Connections] /\ table \in [Fds -> Clients \cup {NoClient}]
      /\ NoClient \notin Clients /\ accepted \subseteq Clients
    BY ServerAssumption DEF IInv, TypeOK, Connections
<1>3. /\ table'[Current] = NoClient
      /\ \A g \in Fds : g # Current => conns'[g] = conns[g] /\ table'[g] = table[g]
    BY <1>1, <1>2 DEF CloseFd
<1>4. AllSettled'
    <2>1. ASSUME NEW g \in Fds PROVE Settled(g)'
        <3>1. CASE g = Current
            BY <1>3, <3>1 DEF Settled
        <3>2. CASE g # Current
            <4>1. Settled(g) /\ ~Serving(g)
                BY <1>1 DEF AllSettled, Serving
            <4>2. QED
                BY <1>3, <3>2, <4>1 DEF Settled, Reading, Overflowed, Delivered
        <3>3. QED
            BY <3>1, <3>2
    <2>2. QED
        BY <2>1 DEF AllSettled
<1>5. Owner # NoClient /\ Reading(Owner) => AtMostCut(Owner)
    <2> SUFFICES ASSUME Owner # NoClient, Reading(Owner) PROVE AtMostCut(Owner)
        OBVIOUS
    <2> DEFINE c == Owner  k == conns[Current]
    <2>1. c \in Clients
        BY <1>1, <1>2
    <2>2. /\ sent[c] = rx[c] + k.buffered + served[c]
          /\ ReplySize * served[c] = got[c] + tx[c] + k.left
        BY <1>1 DEF Balance, Reading
    <2>3. /\ rx[c] \in Nat /\ tx[c] \in Nat /\ sent[c] \in Nat /\ served[c] \in Nat
          /\ got[c] \in Nat /\ k.buffered \in Nat /\ k.left \in Nat /\ k.left <= ReplySize
          /\ ReplySize \in Nat /\ SendSpace \in Nat
        BY <1>1, <2>1, Numbers
    <2>4. ~Overflowed(c) => /\ k.left = 0
                            /\ c \in BadClients \/ (k.buffered = 0 /\ rx[c] = 0)
        <3>1. Settled(Current) /\ ~Serving(Current)
            BY <1>1 DEF AllSettled, Serving
        <3>2. Overflowed(c) \/ (k.left = 0 /\ (c \in BadClients \/ k.buffered = 0))
            BY <1>1, <3>1 DEF Settled
        <3>3. rx[c] = 0 \/ Overflowed(c) \/ c \in BadClients
            BY <1>1 DEF Drained
        <3>4. QED
            BY <3>2, <3>3
    <2> HIDE DEF c, k
    <2>5. ReplySize * (served[c] - 1) = ReplySize * served[c] - ReplySize
        BY <2>3
    <2>6. Delivered(c) = got[c] + tx[c]
        BY DEF Delivered
    <2>7. AtMostCut(c)
        BY <2>2, <2>3, <2>4, <2>5, <2>6 DEF AtMostCut, Overflowed
    <2>8. QED
        BY <2>7 DEF c
<1>6. CutShort'
    <2>1. ASSUME NEW d \in accepted, FdOf(d)' = {}, Reading(d) PROVE AtMostCut(d)'
        <3>1. AtMostCut(d)
            <4>1. CASE d = Owner
                BY <1>2, <1>5, <2>1, <4>1
            <4>2. CASE d # Owner
                <5>1. FdOf(d) = {}
                    BY <1>1, <1>3, <2>1, <4>2 DEF FdOf
                <5>2. QED
                    BY <1>1, <2>1, <5>1, CutShortIs
            <4>3. QED
                BY <4>1, <4>2
        <3>2. QED
            BY <3>1 DEF AtMostCut, Delivered
    <2>2. QED
        BY <2>1 DEF CutShort, AtMostCut, Reading
<1>7. QED
    BY <1>4, <1>6 DEF LInv

LEMMA LossesByLoop == ASSUME IInv, KInv, CInv, LInv, EventLoop PROVE LInv'
<1>1. CASE EpollWait \/ AcceptFails
    <2>1. /\ pc = "loop" /\ pc' = "loop"
          /\ UNCHANGED <<table, conns, peer, rx, tx, sent, served, got, accepted>>
        BY <1>1 DEF EpollWait, AcceptFails
    <2>2. Drained' /\ Flushing'
        BY <2>1 DEF Drained, Closing, Flushing
    <2>3. QED
        BY <2>1, <2>2, LossesUnchanged
<1>2. CASE AcceptConnection
    BY <1>2, LossesByAccept
<1>3. CASE Io
    <2>1. /\ pc = "loop" /\ pc' \in {"fill", "flush"}
          /\ pc' = "flush" => Conn.state = "RES"
          /\ UNCHANGED <<table, batch, conns, peer, rx, tx, sent, served, got, accepted>>
          /\ caller' = "io" \/ pc' = "fill"
        BY <1>3 DEF Io
    <2>2. Drained' /\ Flushing'
        BY <2>1 DEF Drained, Closing, Flushing, Conn, Current
    <2>3. QED
        BY <2>1, <2>2, LossesUnchanged
<1>4. CASE AfterIo
    <2>1. /\ pc = "after" /\ pc' = "hangup"
          /\ UNCHANGED <<batch, peer, tx, sent, served, got, accepted>>
        BY <1>4 DEF AfterIo
    <2>2. Flushing'
        BY <2>1 DEF Flushing
    <2>3. CASE Ended
        <3>1. CloseFd(Current) /\ conns' = [conns EXCEPT ![Current] = NoConn] /\ Closing
            BY <1>4, <2>1, <2>3 DEF AfterIo, Closing
        <3>2. Owner' = NoClient
            <4>1. Current \in Fds /\ table \in [Fds -> Clients \cup {NoClient}]
                BY <2>1 DEF IInv, Handled, Busy, TypeOK
            <4>2. QED
                BY <2>1, <3>1, <4>1 DEF CloseFd, Owner, Current
        <3>3. Drained'
            BY <3>2 DEF Drained
        <3>4. QED
            BY <2>1, <2>2, <3>1, <3>3, LossesByClose
    <2>4. CASE ~Ended
        <3>1. UNCHANGED <<table, conns, rx>>
            BY <1>4, <2>4 DEF AfterIo
        <3>2. Drained'
            <4>1. Closing' => Closing
                BY <2>1 DEF Closing
            <4>2. Drained
                BY DEF LInv
            <4>3. QED
                BY <2>1, <3>1, <4>1, <4>2 DEF Drained, Owner, Current, Reading, Overflowed, Delivered
        <3>3. QED
            BY <2>1, <2>2, <3>1, <3>2, LossesUnchanged
    <2>5. QED
        BY <2>3, <2>4
<1>5. CASE HangUp
    <2>1. /\ pc = "hangup" /\ pc' = "loop"
          /\ UNCHANGED <<peer, tx, sent, served, got, accepted>>
        BY <1>5 DEF HangUp
    <2>2. Drained' /\ Flushing'
        BY <2>1 DEF Drained, Closing, Flushing
    <2>3. CASE Head(batch).hup
        <3>1. CloseFd(Current) /\ conns' = [conns EXCEPT ![Current] = NoConn] /\ Closing
            BY <1>5, <2>1, <2>3 DEF HangUp, SlotAfterHangUp, Closing
        <3>2. QED
            BY <2>1, <2>2, <3>1, LossesByClose
    <2>4. CASE ~Head(batch).hup
        <3>1. UNCHANGED <<table, conns, rx>>
            BY <1>5, <2>4 DEF HangUp
        <3>2. QED
            BY <2>1, <2>2, <3>1, LossesUnchanged
    <2>5. QED
        BY <2>3, <2>4
<1>6. QED
    BY <1>1, <1>2, <1>3, <1>4, <1>5 DEF EventLoop

LEMMA NextLInv == IInv /\ KInv /\ CInv /\ LInv /\ [Next]_vars => LInv'
<1> SUFFICES ASSUME IInv, KInv, CInv, LInv, [Next]_vars PROVE LInv'
    OBVIOUS
<1>1. CASE EventLoop
    BY <1>1, LossesByLoop
<1>2. CASE Handler
    BY <1>2, LossesByHandler
<1>3. ASSUME NEW c \in Clients, Environment(c) PROVE LInv'
    BY <1>3, LossesByEnvironment
<1>4. CASE UNCHANGED vars
    BY <1>4 DEF vars, LInv, AllSettled, Settled, Serving, Drained, Closing, Flushing,
           CutShort, FdOf, Reading, Overflowed, Delivered, Current, Owner, Conn, Ended
<1>5. QED
    BY <1>1, <1>2, <1>3, <1>4 DEF Next

LEMMA LInvariance == Spec => []LInv
<1>1. Init => LInv
    BY DEF Init, LInv, AllSettled, Settled, Drained, Closing, Flushing, CutShort
<1>2. QED
    BY <1>1, Invariance, KInvariance, CInvariance, NextLInv, PTL DEF Spec

\* While the server has a client's socket no request is lost or executed twice
\* and no unit of a reply dropped or sent twice; and where it closes the socket
\* of a client that still reads, as the hang-up branch does, the loss is at
\* most what CutShort says.
THEOREM DataConserved == Spec => []Conservation
<1>1. CInv => ServedWhole
    BY DEF CInv, Balance, ServedWhole, Reading, Delivered
<1>2. LInv => CutShort
    BY DEF LInv
<1>3. QED
    BY <1>1, <1>2, CInvariance, LInvariance, PTL DEF Conservation
------------------------------------------------------------------------------
(* No lost wake-up.                                                        *)

\* What a client can leave unread of its replies fits the send buffer.
Roomy ==
    \A c \in Clients : ReplySize * Least(NumRequests[c], Window[c] + 1) <= SendSpace

Unread == \A c \in Clients : ReplySize * sent[c] <= got[c] + SendSpace

\* io() has nothing left to do, and nothing arrives without a wake-up.
Quiet(fd) == conns[fd].state = "REQ" /\ conns[fd].buffered = 0
Awaited(fd) == InSeq(fd, ready) \/ ~Readable(table[fd])
Pending(fd) == \E i \in 1 .. Len(batch) : batch[i].fd = fd

\* The connections that are not being handled, and the one that is.
Elsewhere ==
    pc # "killed" =>
        \A fd \in Fds : table[fd] # NoClient /\ ~(Busy /\ fd = Current) =>
            Quiet(fd) /\ (Pending(fd) \/ Awaited(fd))

AtCurrent ==
    /\ pc = "fill" => Quiet(Current)
    /\ pc = "flush" => Conn.state = "RES" /\ caller = "tryOneRequest" /\ Conn.left > 0
    /\ pc = "after" => Ended \/ (Quiet(Current) /\ Awaited(Current))
    /\ pc = "hangup" => Owner = NoClient \/ (Quiet(Current) /\ Awaited(Current))

WInv == Unread /\ Elsewhere /\ AtCurrent

\* One more request of s, when w may be ahead of n.
LEMMA OneAhead ==
    ASSUME NEW R \in Nat, NEW s \in Nat, NEW w \in Nat, NEW n \in Nat,
           NEW g \in Nat, NEW space \in Nat,
           s < n, R * (s - w) < g, R * Least(n, w + 1) <= space
    PROVE  R * (s + 1) <= g + space
<1>1. CASE n <= w + 1
    <2> DEFINE k == n - (s + 1)
    <2>1. k \in Nat /\ n = (s + 1) + k
        OBVIOUS
    <2> HIDE DEF k
    <2>2. R * n <= space
        BY <1>1 DEF Least
    <2>3. R * ((s + 1) + k) = R * (s + 1) + R * k
        BY <2>1
    <2>4. R * k \in Nat /\ R * (s + 1) \in Nat
        BY <2>1
    <2>5. QED
        BY <2>1, <2>2, <2>3, <2>4
<1>2. CASE ~(n <= w + 1)
    <2>1. R * (w + 1) <= space
        BY <1>2 DEF Least
    <2>2. R * (s + 1) = R * (s - w) + R * (w + 1)
        OBVIOUS
    <2>3. QED
        BY <2>1, <2>2
<1>3. QED
    BY <1>1, <1>2

LEMMA UnreadKept == ASSUME Roomy, IInv, Unread, [Next]_vars PROVE Unread'
<1>1. /\ sent \in [Clients -> Nat] /\ got \in [Clients -> Nat]
      /\ NumRequests \in [Clients -> Nat] /\ Window \in [Clients -> Nat]
      /\ ReplySize \in Nat /\ SendSpace \in Nat
    BY ServerAssumption DEF IInv, TypeOK
<1>2. CASE UNCHANGED <<sent, got>>
    BY <1>2 DEF Unread
<1>3. ASSUME NEW c \in Clients, Send(c) PROVE Unread'
    <2>1. /\ sent' = [sent EXCEPT ![c] = @ + 1] /\ got' = got
          /\ sent[c] < NumRequests[c] /\ ReplySize * (sent[c] - Window[c]) < got[c]
        BY <1>3 DEF Send
    <2>2. ReplySize * (sent[c] + 1) <= got[c] + SendSpace
        <3> DEFINE s == sent[c]
                   w == Window[c]
                   n == NumRequests[c]
                   g == got[c]
        <3>1. s \in Nat /\ w \in Nat /\ n \in Nat /\ g \in Nat
            BY <1>1
        <3>2. s < n /\ ReplySize * (s - w) < g /\ ReplySize * Least(n, w + 1) <= SendSpace
            BY <2>1 DEF Roomy
        <3> HIDE DEF s, w, n, g
        <3>3. ReplySize * (s + 1) <= g + SendSpace
            BY <1>1, <3>1, <3>2, OneAhead
        <3>4. QED
            BY <3>3 DEF s, g
    <2>3. sent'[c] = sent[c] + 1 /\ \A d \in Clients \ {c} : sent'[d] = sent[d]
        BY <1>1, <2>1
    <2>4. QED
        BY <2>1, <2>2, <2>3 DEF Unread
<1>4. ASSUME NEW c \in Clients, Receive(c) PROVE Unread'
    <2>1. sent' = sent /\ got' = [got EXCEPT ![c] = @ + 1]
        BY <1>4 DEF Receive
    <2>2. \A d \in Clients : got[d] \in Nat /\ got'[d] \in Nat /\ got'[d] >= got[d]
        BY <1>1, <2>1
    <2>3. ASSUME NEW d \in Clients PROVE ReplySize * sent[d] <= got'[d] + SendSpace
        <3> DEFINE y == ReplySize * sent[d]
        <3>1. y \in Nat
            BY <1>1
        <3>2. y <= got[d] + SendSpace
            BY DEF Unread
        <3> HIDE DEF y
        <3>3. y <= got'[d] + SendSpace
            BY <1>1, <2>2, <3>1, <3>2
        <3>4. QED
            BY <3>3 DEF y
    <2>4. QED
        BY <2>1, <2>3 DEF Unread
<1>5. CASE EventLoop \/ Handler
    <2>1. UNCHANGED <<sent, got>>
        BY <1>5 DEF EventLoop, EpollWait, AcceptConnection, AcceptFails, Io, AfterIo, HangUp,
                    Handler, FillData, FillAgain, FillEnd, ParseShort, ParseBad,
                    ParseExecute, FlushWrite, FlushAgain, FlushError, FlushKilled
    <2>2. QED
        BY <1>2, <2>1
<1>6. ASSUME NEW c \in Clients, Environment(c) PROVE Unread'
    <2>1. CASE Connect(c) \/ HalfClose(c) \/ Close(c) \/ Reset(c)
        <3>1. UNCHANGED <<sent, got>>
            BY <2>1 DEF Connect, HalfClose, Close, Reset
        <3>2. QED
            BY <1>2, <3>1
    <2>2. QED
        BY <1>3, <1>4, <1>6, <2>1 DEF Environment
<1>7. CASE UNCHANGED vars
    <2>1. UNCHANGED <<sent, got>>
        BY <1>7 DEF vars
    <2>2. QED
        BY <1>2, <2>1
<1>8. QED
    BY <1>5, <1>6, <1>7 DEF Next
------------------------------------------------------------------------------
\* A wake-up takes no descriptor off the ready list.
LEMMA EnqueuedKeeps ==
    ASSUME TypeOK, NEW fd \in Descriptors
    PROVE  /\ InSeq(fd, Enqueued(fd))
           /\ \A x : InSeq(x, ready) => InSeq(x, Enqueued(fd))
<1>1. ready \in Seq(Descriptors) /\ Len(ready) \in Nat
    BY DEF TypeOK, Descriptors
<1>2. CASE InSeq(fd, ready)
    BY <1>2 DEF Enqueued
<1>3. CASE ~InSeq(fd, ready)
    <2> DEFINE s == Append(ready, fd)
    <2>1. s = Enqueued(fd)
        BY <1>3 DEF Enqueued
    <2>2. /\ Len(s) = Len(ready) + 1
          /\ \A i \in 1 .. Len(ready) : s[i] = ready[i]
          /\ s[Len(ready) + 1] = fd
        BY <1>1, AppendProperties
    <2> HIDE DEF s
    <2>3. InSeq(fd, s)
        BY <1>1, <2>2 DEF InSeq
    <2>4. ASSUME NEW x, InSeq(x, ready) PROVE InSeq(x, s)
        <3>1. PICK i \in 1 .. Len(ready) : ready[i] = x
            BY <2>4 DEF InSeq
        <3>2. i \in 1 .. Len(s) /\ s[i] = x
            BY <1>1, <2>2, <3>1
        <3>3. QED
            BY <3>2 DEF InSeq
    <2>5. QED
        BY <2>1, <2>3, <2>4
<1>4. QED
    BY <1>2, <1>3

LEMMA WokenKeeps ==
    ASSUME TypeOK, Distinct, NEW c \in Clients
    PROVE  /\ \A fd \in Fds : table[fd] = c => InSeq(fd, Woken(c))
           /\ \A x : InSeq(x, ready) => InSeq(x, Woken(c))
<1>1. CASE FdOf(c) = {}
    BY <1>1 DEF Woken, FdOf
<1>2. CASE FdOf(c) # {}
    <2> DEFINE fd == CHOOSE fd \in FdOf(c) : TRUE
    <2>1. fd \in Fds /\ table[fd] = c /\ Woken(c) = Enqueued(fd)
        BY <1>2 DEF FdOf, Woken
    <2> HIDE DEF fd
    <2>2. \A g \in Fds : table[g] = c => g = fd
        BY <2>1, ServerAssumption DEF Distinct
    <2>3. QED
        BY <2>1, <2>2, EnqueuedKeeps DEF Descriptors
<1>3. QED
    BY <1>1, <1>2

\* What a client does wakes its own connection, and loses no other's wake-up.
LEMMA EnvironmentWakes ==
    ASSUME IInv, KInv, CInv, NEW c \in Clients, Environment(c),
           NEW fd \in Fds, table[fd] # NoClient, Awaited(fd)
    PROVE  Awaited(fd)'
<1>1. /\ TypeOK /\ Known /\ Distinct
      /\ peer \in [Clients -> {"new", "open", "half", "fin", "rst", "epipe"}]
      /\ rx \in [Clients -> Nat] /\ table[fd] \in Clients
    BY DEF IInv, KInv, CInv, TypeOK
<1>2. table' = table
    <2>1. UNCHANGED loop
        BY EnvironmentType DEF IInv
    <2>2. QED
        BY <2>1 DEF loop
<1>3. CASE Connect(c)
    <2>1. ready' = Enqueued(Listener) /\ rx' = rx /\ peer' = [peer EXCEPT ![c] = "open"]
        BY <1>3 DEF Connect
    <2>2. Readable(table[fd])' => Readable(table[fd])
        BY <1>1, <1>2, <2>1 DEF Readable
    <2>3. InSeq(fd, ready) => InSeq(fd, ready')
        BY <1>1, <2>1, EnqueuedKeeps DEF Descriptors
    <2>4. QED
        BY <2>2, <2>3 DEF Awaited, InSeq
<1>4. CASE Send(c) \/ HalfClose(c) \/ Close(c) \/ Reset(c)
    <2>1. /\ ready' = Woken(c)
          /\ \A d \in Clients \ {c} : rx'[d] = rx[d] /\ peer'[d] = peer[d]
        BY <1>1, <1>4 DEF Send, HalfClose, Close, Reset
    <2>2. CASE table[fd] = c
        <3>1. InSeq(fd, ready')
            BY <1>1, <2>1, <2>2, WokenKeeps
        <3>2. QED
            BY <3>1 DEF Awaited, InSeq
    <2>3. CASE table[fd] # c
        <3>1. Readable(table[fd])' => Readable(table[fd])
            BY <1>1, <1>2, <2>1, <2>3 DEF Readable
        <3>2. InSeq(fd, ready) => InSeq(fd, ready')
            BY <1>1, <2>1, WokenKeeps
        <3>3. QED
            BY <3>1, <3>2 DEF Awaited, InSeq
    <2>4. QED
        BY <2>2, <2>3
<1>5. CASE Receive(c)
    BY <1>2, <1>5 DEF Receive, Awaited, InSeq, Readable
<1>6. QED
    BY <1>3, <1>4, <1>5 DEF Environment

LEMMA WakeByEnvironment ==
    ASSUME IInv, KInv, CInv, Elsewhere, AtCurrent, NEW c \in Clients, Environment(c)
    PROVE  Elsewhere' /\ AtCurrent'
<1>1. UNCHANGED <<table, batch, conns, pc, caller>>
    <2>1. UNCHANGED loop
        BY EnvironmentType DEF IInv
    <2>2. QED
        BY <2>1 DEF loop
<1>2. \A fd \in Fds : table[fd] # NoClient /\ Awaited(fd) => Awaited(fd)'
    BY EnvironmentWakes
<1>3. \A fd : /\ Quiet(fd)' <=> Quiet(fd)
              /\ Pending(fd)' <=> Pending(fd)
    BY <1>1 DEF Quiet, Pending
<1>4. /\ Current' = Current /\ Owner' = Owner /\ Conn' = Conn
      /\ (Ended' <=> Ended) /\ (Busy' <=> Busy)
    BY <1>1 DEF Current, Owner, Conn, Ended, Busy
<1>5. Elsewhere'
    BY <1>1, <1>2, <1>3, <1>4 DEF Elsewhere
<1>6. AtCurrent'
    <2>1. pc = "after" /\ ~Ended => Owner # NoClient
        BY ServerAssumption DEF IInv, Handled, Busy
    <2>2. pc \in {"after", "hangup"} => Current \in Fds
        BY DEF IInv, Handled, Busy
    <2>3. Quiet(Current)' <=> Quiet(Current)
        BY <1>3, <1>4 DEF Quiet
    <2>4. pc \in {"after", "hangup"} /\ Owner # NoClient /\ Awaited(Current) => Awaited(Current)'
        BY <1>2, <1>4, <2>2 DEF Owner, Awaited
    <2>5. QED
        BY <1>1, <1>4, <2>1, <2>3, <2>4 DEF AtCurrent
<1>7. QED
    BY <1>5, <1>6
------------------------------------------------------------------------------
\* A handler's step leaves the connections at rest alone.
LEMMA OthersUndisturbed ==
    ASSUME IInv, CInv, Elsewhere, pc \in {"fill", "parse", "flush"},
           pc' \in {"fill", "parse", "flush", "after", "killed"},
           UNCHANGED <<table, ready, batch, peer>>,
           \A fd \in Fds \ {Current} : conns'[fd] = conns[fd],
           \A d \in Clients \ {Owner} : rx'[d] = rx[d]
    PROVE  Elsewhere'
<1>1. /\ Current \in Fds /\ Owner = table[Current] /\ Distinct
      /\ table \in [Fds -> Clients \cup {NoClient}]
    BY AtHand DEF CInv, IInv, TypeOK, Owner
<1>2. ASSUME NEW fd \in Fds, table[fd] # NoClient, fd # Current, pc' # "killed"
      PROVE  Quiet(fd)' /\ (Pending(fd)' \/ Awaited(fd)')
    <2>1. Quiet(fd) /\ (Pending(fd) \/ Awaited(fd))
        BY <1>2 DEF Elsewhere
    <2>2. table[fd] \in Clients \ {Owner}
        BY <1>1, <1>2 DEF Distinct
    <2>3. conns'[fd] = conns[fd] /\ (Readable(table[fd])' <=> Readable(table[fd]))
        BY <1>2, <2>2 DEF Readable
    <2>4. QED
        BY <2>1, <2>3 DEF Quiet, Pending, Awaited, InSeq
<1>3. Current' = Current /\ table' = table /\ (pc' # "killed" => Busy')
    BY DEF Current, Busy
<1>4. QED
    BY <1>2, <1>3 DEF Elsewhere

\* The rest of a reply fits the send buffer.
LEMMA ReplyFits ==
    ASSUME IInv, CInv, Unread, pc = "flush", peer[Owner] \in {"open", "half", "fin"}
    PROVE  tx[Owner] + Conn.left <= SendSpace
<1> DEFINE c == Owner
<1>1. c \in Clients /\ c # NoClient /\ Current \in Fds /\ Conn \in Connections
    BY AtHand, ServerAssumption
<1>2. /\ sent[c] = rx[c] + Conn.buffered + served[c]
      /\ ReplySize * served[c] = got[c] + tx[c] + Conn.left
    BY <1>1 DEF CInv, Balance, Owner, Conn
<1>3. ReplySize * sent[c] <= got[c] + SendSpace
    BY <1>1 DEF Unread
<1>4. /\ sent[c] \in Nat /\ rx[c] \in Nat /\ served[c] \in Nat /\ got[c] \in Nat
      /\ tx[c] \in Nat /\ Conn.buffered \in Nat /\ Conn.left \in Nat
      /\ ReplySize \in Nat /\ SendSpace \in Nat
    BY <1>1, ServerAssumption DEF IInv, TypeOK, Connections
<1> DEFINE k == rx[c] + Conn.buffered
           a == served[c]
           s == sent[c]
           t == tx[c]
           g == got[c]
           l == Conn.left
<1>5. /\ k \in Nat /\ a \in Nat /\ t \in Nat /\ g \in Nat /\ l \in Nat /\ s = k + a
      /\ ReplySize * a = g + t + l /\ ReplySize * s <= g + SendSpace
    BY <1>2, <1>3, <1>4
<1>6. t = tx[Owner] /\ l = Conn.left
    OBVIOUS
<1> HIDE DEF k, a, s, t, g, l
<1>7. ReplySize * (k + a) = ReplySize * k + ReplySize * a /\ ReplySize * k \in Nat
    BY <1>4, <1>5
<1>8. t + l <= SendSpace
    BY <1>4, <1>5, <1>7
<1>9. QED
    BY <1>6, <1>8

LEMMA WakeByHandler ==
    ASSUME IInv, CInv, Unread, Elsewhere, AtCurrent, Handler
    PROVE  Elsewhere' /\ AtCurrent'
<1>1. /\ pc \in {"fill", "parse", "flush"}
      /\ pc' \in {"fill", "parse", "flush", "after", "killed"}
      /\ UNCHANGED <<table, ready, batch, peer>>
    BY DEF Handler, FillData, FillAgain, FillEnd, ParseShort, ParseBad, ParseExecute,
           FlushWrite, FlushAgain, FlushError, FlushKilled, AfterShort, AfterReply
<1>2. /\ Current \in Fds /\ Owner \in Clients /\ Conn \in Connections
      /\ conns \in [Fds -> Connections] /\ conns[Current] = Conn
      /\ Current' = Current /\ Owner' = Owner /\ Conn' = conns'[Current]
      /\ rx \in [Clients -> Nat] /\ Owner = table[Current]
    BY <1>1, AtHand DEF IInv, TypeOK, Owner, Current, Conn
<1>3. /\ pc = "parse" => Conn.state = "REQ"
      /\ pc = "fill" => Quiet(Current)
      /\ pc = "flush" => caller = "tryOneRequest" /\ Conn.left > 0
    BY DEF CInv, NothingLeft, AtCurrent
<1>4. Conn.buffered \in Nat /\ Conn.left \in Nat
    BY <1>2, ServerAssumption DEF Connections
<1>5. CASE FillAgain \/ ParseShort \/ FlushAgain \/ FlushKilled
    <2>1. UNCHANGED <<conns, rx>>
        BY <1>5 DEF FillAgain, ParseShort, FlushAgain, FlushKilled
    <2>2. Elsewhere'
        BY <1>1, <2>1, OthersUndisturbed
    <2>3. CASE FillAgain
        <3>1. pc = "fill" /\ pc' = "after" /\ ~Readable(Owner)
            BY <2>3 DEF FillAgain
        <3>2. Quiet(Current)' /\ Awaited(Current)'
            BY <1>1, <1>2, <1>3, <2>1, <3>1 DEF Quiet, Awaited, Readable
        <3>3. QED
            BY <2>2, <3>1, <3>2 DEF AtCurrent
    <2>4. CASE ParseShort
        <3>1. pc = "parse" /\ pc' = "fill" /\ ~(Conn.buffered > 0)
            BY <2>4 DEF ParseShort, AfterShort, HasRequest
        <3>2. Quiet(Current)'
            BY <1>2, <1>3, <1>4, <2>1, <3>1 DEF Quiet
        <3>3. QED
            BY <2>2, <3>1, <3>2 DEF AtCurrent
    <2>5. CASE FlushAgain
        <3>1. /\ pc = "flush" /\ peer[Owner] \in {"open", "half", "fin"}
              /\ tx[Owner] = SendSpace
            BY <2>5 DEF FlushAgain
        <3>2. SendSpace + Conn.left <= SendSpace
            BY <3>1, ReplyFits
        <3>3. FALSE
            BY <1>3, <1>4, <3>1, <3>2, ServerAssumption
        <3>4. QED
            BY <3>3
    <2>6. CASE FlushKilled
        BY <2>2, <2>6 DEF FlushKilled, AtCurrent
    <2>7. QED
        BY <1>5, <2>3, <2>4, <2>5, <2>6
<1>6. CASE FillEnd \/ ParseBad \/ FlushError
    <2>1. /\ UNCHANGED rx /\ pc' = "after"
          /\ conns' = [conns EXCEPT ![Current].state = "END"]
        BY <1>6 DEF FillEnd, ParseBad, FlushError
    <2>2. /\ conns'[Current].state = "END"
          /\ \A fd \in Fds \ {Current} : conns'[fd] = conns[fd]
        BY <1>2, <2>1 DEF Connections
    <2>3. Elsewhere'
        BY <1>1, <2>1, <2>2, OthersUndisturbed
    <2>4. Ended'
        BY <1>2, <2>2 DEF Ended
    <2>5. QED
        BY <2>1, <2>3, <2>4 DEF AtCurrent
<1>7. CASE FillData
    <2> DEFINE n == Least(rx[Owner], BufferRequests - Conn.buffered)
    <2>1. /\ pc' = "parse" /\ rx' = [rx EXCEPT ![Owner] = @ - n]
          /\ conns' = [conns EXCEPT ![Current].buffered = @ + n]
        BY <1>7 DEF FillData
    <2> HIDE DEF n
    <2>2. /\ \A fd \in Fds \ {Current} : conns'[fd] = conns[fd]
          /\ \A d \in Clients \ {Owner} : rx'[d] = rx[d]
        BY <1>2, <2>1
    <2>3. Elsewhere'
        BY <1>1, <2>2, OthersUndisturbed
    <2>4. QED
        BY <2>1, <2>3 DEF AtCurrent
<1>8. CASE ParseExecute
    <2> DEFINE x == [state |-> "RES", buffered |-> Conn.buffered - 1, left |-> ReplySize]
    <2>1. /\ pc' = "flush" /\ caller' = "tryOneRequest" /\ rx' = rx
          /\ conns' = [conns EXCEPT ![Current] = x]
        BY <1>8 DEF ParseExecute, Conn
    <2>2. /\ conns'[Current].state = "RES" /\ conns'[Current].left = ReplySize
          /\ \A fd \in Fds \ {Current} : conns'[fd] = conns[fd]
        BY <1>2, <2>1
    <2>3. Elsewhere'
        BY <1>1, <2>1, <2>2, OthersUndisturbed
    <2>4. ReplySize > 0
        BY ServerAssumption
    <2>5. QED
        BY <1>2, <2>1, <2>2, <2>3, <2>4 DEF AtCurrent
<1>9. CASE FlushWrite
    <2> DEFINE n == Least(Conn.left, SendSpace - tx[Owner])
           left == LeftAfter(n)
    <2>1. /\ pc = "flush" /\ peer[Owner] \in {"open", "half", "fin"} /\ rx' = rx
          /\ conns' = [conns EXCEPT ![Current].left = left,
                                    ![Current].state = IF left = 0 THEN "REQ" ELSE "RES"]
          /\ pc' = IF left = 0 THEN AfterReply ELSE "flush"
        BY <1>9 DEF FlushWrite
    <2>2. tx[Owner] \in Nat /\ SendSpace \in Nat
        BY <1>2, ServerAssumption DEF IInv, TypeOK
    <2>3. left = 0
        <3>1. tx[Owner] + Conn.left <= SendSpace
            BY <2>1, ReplyFits
        <3>2. QED
            BY <1>4, <2>2, <3>1 DEF Least, LeftAfter
    <2> HIDE DEF n, left
    <2>4. pc' = "parse"
        BY <1>3, <2>1, <2>3 DEF AfterReply
    <2>5. \A fd \in Fds \ {Current} : conns'[fd] = conns[fd]
        BY <1>2, <2>1
    <2>6. Elsewhere'
        BY <1>1, <2>1, <2>5, OthersUndisturbed
    <2>7. QED
        BY <2>4, <2>6 DEF AtCurrent
<1>10. QED
    BY <1>5, <1>6, <1>7, <1>8, <1>9 DEF Handler
------------------------------------------------------------------------------
LEMMA WakeByEpollWait == ASSUME IInv, Elsewhere, EpollWait PROVE Elsewhere' /\ AtCurrent'
<1> DEFINE some == {fd \in Fds \cup {Listener} : HasEvent(fd)}
           pending == Filtered(ready, some)
           n == Least(MaxEvents, Len(pending))
<1>1. /\ pc = "loop" /\ pc' = "loop" /\ batch = <<>>
      /\ batch' = [i \in 1 .. n |-> Event(pending[i])]
      /\ ready' = SubSeq(pending, n + 1, Len(pending))
      /\ UNCHANGED <<table, conns, peer, rx>>
    BY DEF EpollWait
<1>2. ready \in Seq(Descriptors)
    BY DEF IInv, TypeOK, Descriptors
<1>3. pending \in Seq(Descriptors)
    BY <1>2, FilteredFacts
<1>4. ASSUME NEW fd \in Fds, InSeq(fd, ready), HasEvent(fd) PROVE InSeq(fd, pending)
    <2>1. PICK i \in 1 .. Len(ready) : ready[i] = fd
        BY <1>4 DEF InSeq
    <2>2. ready[i] \in some
        BY <1>4, <2>1
    <2> HIDE DEF some
    <2>3. InSeq(ready[i], Filtered(ready, some))
        BY <1>2, <2>2, FilteredKeeps
    <2>4. QED
        BY <2>1, <2>3
<1> HIDE DEF some, pending
<1>5. /\ Len(pending) \in Nat /\ n \in Nat /\ n <= Len(pending)
    BY <1>3, ServerAssumption DEF Least
<1> HIDE DEF n
<1>6. /\ Len(ready') = Len(pending) - n
      /\ \A i \in 1 .. Len(pending) - n : ready'[i] = pending[i + n]
    BY <1>1, <1>3, <1>5
<1>7. Len(batch') = n /\ \A i \in 1 .. n : batch'[i].fd = pending[i]
    BY <1>1, <1>5 DEF Event
<1>8. ASSUME NEW fd \in Fds, table[fd] # NoClient
      PROVE  Quiet(fd)' /\ (Pending(fd)' \/ Awaited(fd)')
    <2>1. Quiet(fd) /\ Awaited(fd)
        <3>1. ~Pending(fd)
            BY <1>1, EmptySeq DEF Pending
        <3>2. QED
            BY <1>1, <1>8, <3>1 DEF Elsewhere, Busy
    <2>2. CASE ~Readable(table[fd])
        BY <1>1, <2>1, <2>2 DEF Quiet, Awaited, Readable
    <2>3. CASE Readable(table[fd])
        <3>1. HasEvent(fd) /\ InSeq(fd, ready)
            BY <1>8, <2>1, <2>3, ListenerNotConnection DEF HasEvent, Awaited
        <3>2. PICK k \in 1 .. Len(pending) : pending[k] = fd
            BY <1>4, <3>1 DEF InSeq
        <3>3. CASE k <= n
            <4>1. k \in 1 .. n
                BY <1>5, <3>3
            <4>2. Pending(fd)'
                BY <1>7, <3>2, <4>1 DEF Pending
            <4>3. QED
                BY <1>1, <2>1, <4>2 DEF Quiet
        <3>4. CASE ~(k <= n)
            <4>1. k - n \in 1 .. Len(ready') /\ ready'[k - n] = pending[(k - n) + n]
                BY <1>5, <1>6, <3>4
            <4>2. (k - n) + n = k
                BY <1>5
            <4>3. InSeq(fd, ready')
                BY <3>2, <4>1, <4>2 DEF InSeq
            <4>4. QED
                BY <1>1, <2>1, <4>3 DEF Quiet, Awaited, InSeq
        <3>5. QED
            BY <3>3, <3>4
    <2>4. QED
        BY <2>2, <2>3
<1>9. Elsewhere' /\ AtCurrent'
    BY <1>1, <1>8 DEF Elsewhere, AtCurrent
<1>10. QED
    BY <1>9

\* The events behind the current one stay.
LEMMA StillPending ==
    ASSUME IInv, batch # <<>>, batch' = Rest(batch), NEW fd, fd # Current, Pending(fd)
    PROVE  Pending(fd)'
<1>1. /\ Len(batch) \in Nat \ {0} /\ Len(batch') = Len(batch) - 1
      /\ \A i \in 1 .. Len(batch') : batch'[i] = batch[i + 1]
    BY RestFacts DEF IInv
<1>2. Current = batch[1].fd
    BY CurrentIsFirst DEF IInv
<1>3. PICK i \in 1 .. Len(batch) : batch[i].fd = fd
    BY DEF Pending
<1>4. i # 1
    BY <1>2, <1>3
<1>5. i - 1 \in 1 .. Len(batch') /\ batch'[i - 1] = batch[(i - 1) + 1] /\ (i - 1) + 1 = i
    BY <1>1, <1>4
<1>6. QED
    BY <1>3, <1>5 DEF Pending

LEMMA WakeByAccept ==
    ASSUME IInv, KInv, CInv, Elsewhere, AcceptConnection
    PROVE  Elsewhere' /\ AtCurrent'
<1> DEFINE fd == CHOOSE f \in FreeFds : \A g \in FreeFds : f <= g
           c == Head(backlog)
<1>1. /\ pc = "loop" /\ pc' = "loop" /\ batch # <<>> /\ Current = Listener
      /\ FreeFds # {} /\ batch' = Rest(batch)
      /\ conns' = [conns EXCEPT ![fd] = Fresh]
      /\ UNCHANGED <<peer, rx>>
    BY DEF AcceptConnection
<1>2. fd \in FreeFds
    <2>1. FreeFds \in SUBSET Nat
        BY ServerAssumption DEF FreeFds, Fds
    <2>2. \E f \in FreeFds : \A g \in FreeFds : f <= g
        BY <1>1, <2>1, Smallest
    <2>3. QED
        BY <2>2
<1>3. fd \in Fds /\ table[fd] = NoClient
    BY <1>2 DEF FreeFds
<1>4. conns[fd] = NoConn
    BY <1>1, <1>3 DEF IInv, Objects, Busy, ObjectOf
<1>5. table' = [table EXCEPT ![fd] = c] /\ ready' = Registered(fd, c)
    BY <1>4 DEF AcceptConnection
<1> HIDE DEF fd, c
<1>6. /\ TypeOK /\ conns \in [Fds -> Connections]
      /\ table \in [Fds -> Clients \cup {NoClient}]
    BY DEF IInv, TypeOK, Connections
<1>7. /\ conns'[fd] = Fresh /\ table'[fd] = c
      /\ \A g \in Fds : g # fd => conns'[g] = conns[g] /\ table'[g] = table[g]
    BY <1>1, <1>3, <1>5, <1>6
<1>8. \A x : InSeq(x, ready) => InSeq(x, ready')
    BY <1>3, <1>5, <1>6, EnqueuedKeeps DEF Registered, Descriptors
<1>9. ASSUME NEW g \in Fds, g = fd PROVE Quiet(g)' /\ Awaited(g)'
    <2>1. Readable(c) => InSeq(g, ready')
        BY <1>5, <1>6, <1>9, EnqueuedKeeps DEF Registered, Descriptors
    <2>2. conns'[g] = Fresh /\ table'[g] = c
        BY <1>7, <1>9
    <2>3. Quiet(g)'
        BY <2>2 DEF Quiet, Fresh
    <2>4. Readable(table[g])' => Readable(c)
        BY <1>1, <2>2 DEF Readable
    <2>5. Awaited(g)'
        BY <2>1, <2>4 DEF Awaited, InSeq
    <2>6. QED
        BY <2>3, <2>5
<1>10. ASSUME NEW g \in Fds, g # fd, table'[g] # NoClient
       PROVE  Quiet(g)' /\ (Pending(g)' \/ Awaited(g)')
    <2>1. Quiet(g) /\ (Pending(g) \/ Awaited(g))
        BY <1>1, <1>7, <1>10 DEF Elsewhere, Busy
    <2>2. Pending(g) => Pending(g)'
        BY <1>1, StillPending, ListenerNotConnection
    <2>3. Awaited(g) => Awaited(g)'
        BY <1>1, <1>7, <1>8, <1>10 DEF Awaited, InSeq, Readable
    <2>4. QED
        BY <1>7, <1>10, <2>1, <2>2, <2>3 DEF Quiet
<1>11. \A g \in Fds : table'[g] # NoClient => Quiet(g)' /\ (Pending(g)' \/ Awaited(g)')
    BY <1>9, <1>10
<1>12. Elsewhere'
    BY <1>1, <1>11 DEF Elsewhere
<1>13. AtCurrent'
    BY <1>1 DEF AtCurrent
<1>14. QED
    BY <1>12, <1>13

LEMMA WakeByRest ==
    ASSUME IInv, Elsewhere, AcceptFails \/ Io
    PROVE  Elsewhere' /\ AtCurrent'
<1>1. UNCHANGED <<table, ready, conns, peer, rx>> /\ pc = "loop" /\ batch # <<>>
    BY DEF AcceptFails, Io
<1>2. \A fd \in Fds : table[fd] # NoClient => Quiet(fd) /\ (Pending(fd) \/ Awaited(fd))
    BY <1>1 DEF Elsewhere, Busy
<1>3. \A fd : /\ Quiet(fd)' <=> Quiet(fd)
              /\ Awaited(fd)' <=> Awaited(fd)
    BY <1>1 DEF Quiet, Awaited, InSeq, Readable
<1>4. CASE AcceptFails
    <2>1. pc' = "loop" /\ Current = Listener /\ batch' = Rest(batch)
        BY <1>4 DEF AcceptFails
    <2>2. \A fd \in Fds : Pending(fd) => Pending(fd)'
        BY <1>1, <2>1, StillPending, ListenerNotConnection
    <2>3. \A fd \in Fds : table'[fd] # NoClient => Quiet(fd)' /\ (Pending(fd)' \/ Awaited(fd)')
        BY <1>1, <1>2, <1>3, <2>2
    <2>4. QED
        BY <2>1, <2>3 DEF Elsewhere, AtCurrent
<1>5. CASE Io
    <2>1. /\ Current # Listener /\ batch' = batch
          /\ \/ Conn.state = "REQ" /\ pc' = "fill"
             \/ Conn.state = "RES"
        BY <1>5 DEF Io
    <2>2. Current \in Fds /\ table[Current] # NoClient
        <3>1. 1 \in 1 .. Len(batch) /\ Current = batch[1].fd /\ Current \in Descriptors
            BY <1>1, CurrentIsFirst DEF IInv
        <3>2. table[batch[1].fd] = batch[1].client /\ batch[1].client \in Clients
            BY <1>1, <2>1, <3>1 DEF IInv, EventsLive, EventClients
        <3>3. QED
            BY <2>1, <3>1, <3>2, ServerAssumption DEF Descriptors
    <2>3. Quiet(Current)
        BY <1>2, <2>2
    <2>4. pc' = "fill"
        BY <2>1, <2>3 DEF Quiet, Conn
    <2>5. Current' = Current /\ \A fd : Pending(fd)' <=> Pending(fd)
        BY <2>1 DEF Current, Pending
    <2>6. Quiet(Current)'
        BY <1>3, <2>3, <2>5 DEF Quiet
    <2>7. Elsewhere'
        BY <1>1, <1>2, <1>3, <2>5 DEF Elsewhere
    <2>8. QED
        BY <2>4, <2>6, <2>7 DEF AtCurrent
<1>6. QED
    BY <1>4, <1>5

\* Closing a descriptor leaves the others as they are.
LEMMA CloseKeeps ==
    ASSUME IInv, CInv, Current \in Fds, CloseFd(Current), UNCHANGED peer,
           conns' = [conns EXCEPT ![Current] = NoConn],
           NEW fd \in Fds, fd # Current, table[fd] # NoClient
    PROVE  /\ table'[fd] = table[fd]
           /\ Quiet(fd) => Quiet(fd)'
           /\ Awaited(fd) => Awaited(fd)'
<1>1. /\ ready \in Seq(Descriptors) /\ table \in [Fds -> Clients \cup {NoClient}]
      /\ rx \in [Clients -> Nat] /\ NoClient \notin Clients /\ Distinct
    BY ServerAssumption DEF IInv, CInv, TypeOK, Descriptors
<1>2. /\ ready' = Filtered(ready, (Fds \cup {Listener}) \ {Current})
      /\ rx' = IF table[Current] = NoClient THEN rx ELSE [rx EXCEPT ![table[Current]] = 0]
    BY DEF CloseFd
<1>3. table'[fd] = table[fd] /\ conns'[fd] = conns[fd]
    BY CloseCurrent
<1>4. rx'[table[fd]] = rx[table[fd]]
    <2>1. table[fd] \in Clients /\ table[fd] # table[Current]
        BY <1>1 DEF Distinct
    <2>2. QED
        BY <1>1, <1>2, <2>1
<1>5. InSeq(fd, ready) => InSeq(fd, ready')
    <2>1. ASSUME NEW i \in 1 .. Len(ready), ready[i] = fd PROVE InSeq(fd, ready')
        <3>1. ready[i] \in (Fds \cup {Listener}) \ {Current}
            BY <2>1
        <3>2. QED
            BY <1>1, <1>2, <2>1, <3>1, FilteredKeeps
    <2>2. QED
        BY <2>1 DEF InSeq
<1>6. Readable(table[fd])' <=> Readable(table[fd])
    BY <1>3, <1>4 DEF Readable
<1>7. QED
    BY <1>3, <1>5, <1>6 DEF Quiet, Awaited, InSeq

LEMMA WakeByAfterIo ==
    ASSUME IInv, CInv, Elsewhere, AtCurrent, AfterIo
    PROVE  Elsewhere' /\ AtCurrent'
<1>1. /\ pc = "after" /\ pc' = "hangup" /\ UNCHANGED <<batch, peer>> /\ Busy /\ Busy'
      /\ Current' = Current /\ Current \in Fds
    BY DEF AfterIo, Current, IInv, Handled, Busy
<1>2. CASE ~Ended
    <2>1. UNCHANGED <<table, ready, rx, conns>>
        BY <1>2 DEF AfterIo
    <2>2. Quiet(Current) /\ Awaited(Current)
        BY <1>1, <1>2 DEF AtCurrent
    <2>3. \A fd : /\ Quiet(fd)' <=> Quiet(fd)
                  /\ Awaited(fd)' <=> Awaited(fd)
                  /\ Pending(fd)' <=> Pending(fd)
        BY <1>1, <2>1 DEF Quiet, Awaited, Pending, InSeq, Readable
    <2>4. Elsewhere'
        BY <1>1, <2>1, <2>3 DEF Elsewhere
    <2>5. Quiet(Current)' /\ Awaited(Current)'
        BY <1>1, <2>1, <2>2 DEF Quiet, Awaited, InSeq, Readable
    <2>6. QED
        BY <1>1, <2>4, <2>5 DEF AtCurrent
<1>3. CASE Ended
    <2>1. CloseFd(Current) /\ conns' = [conns EXCEPT ![Current] = NoConn]
        BY <1>3 DEF AfterIo
    <2>2. table'[Current] = NoClient /\ \A g \in Fds : g # Current => table'[g] = table[g]
        BY <1>1, <2>1, CloseCurrent
    <2>3. ASSUME NEW fd \in Fds, fd # Current, table'[fd] # NoClient
          PROVE  Quiet(fd)' /\ (Pending(fd)' \/ Awaited(fd)')
        <3>1. Quiet(fd) /\ (Pending(fd) \/ Awaited(fd))
            BY <1>1, <2>2, <2>3 DEF Elsewhere
        <3>2. (Quiet(fd) => Quiet(fd)') /\ (Awaited(fd) => Awaited(fd)')
            BY <1>1, <2>1, <2>2, <2>3, CloseKeeps
        <3>3. Pending(fd) => Pending(fd)'
            BY <1>1 DEF Pending
        <3>4. QED
            BY <3>1, <3>2, <3>3
    <2>4. Elsewhere'
        BY <1>1, <2>3 DEF Elsewhere
    <2>5. Owner' = NoClient
        BY <1>1, <2>2 DEF Owner
    <2>6. QED
        BY <1>1, <2>4, <2>5 DEF AtCurrent
<1>4. QED
    BY <1>2, <1>3

LEMMA WakeByHangUp ==
    ASSUME IInv, CInv, Elsewhere, AtCurrent, HangUp
    PROVE  Elsewhere' /\ AtCurrent'
<1>1. /\ pc = "hangup" /\ pc' = "loop" /\ batch' = Rest(batch) /\ UNCHANGED peer
      /\ Busy /\ batch # <<>> /\ Current \in Fds
    BY DEF HangUp, IInv, Handled, Busy
<1>2. \A fd \in Fds : fd # Current /\ Pending(fd) => Pending(fd)'
    BY <1>1, StillPending
<1>3. CASE ~Head(batch).hup
    <2>1. UNCHANGED <<table, ready, rx, conns>>
        BY <1>3 DEF HangUp
    <2>2. table[Current] # NoClient => Quiet(Current) /\ Awaited(Current)
        BY <1>1 DEF AtCurrent, Owner
    <2>3. \A fd : /\ Quiet(fd)' <=> Quiet(fd)
                  /\ Awaited(fd)' <=> Awaited(fd)
        BY <1>1, <2>1 DEF Quiet, Awaited, InSeq, Readable
    <2>4. \A fd \in Fds : table'[fd] # NoClient => Quiet(fd)' /\ (Pending(fd)' \/ Awaited(fd)')
        BY <1>1, <1>2, <2>1, <2>2, <2>3 DEF Elsewhere
    <2>5. QED
        BY <1>1, <2>4 DEF Elsewhere, AtCurrent
<1>4. CASE Head(batch).hup
    <2>1. CloseFd(Current) /\ conns' = [conns EXCEPT ![Current] = NoConn]
        BY <1>4 DEF HangUp, SlotAfterHangUp
    <2>2. table'[Current] = NoClient /\ \A g \in Fds : g # Current => table'[g] = table[g]
        BY <1>1, <2>1, CloseCurrent
    <2>3. ASSUME NEW fd \in Fds, table'[fd] # NoClient
          PROVE  Quiet(fd)' /\ (Pending(fd)' \/ Awaited(fd)')
        <3>1. fd # Current /\ table[fd] # NoClient
            BY <2>2, <2>3
        <3>2. Quiet(fd) /\ (Pending(fd) \/ Awaited(fd))
            BY <1>1, <3>1 DEF Elsewhere
        <3>3. (Quiet(fd) => Quiet(fd)') /\ (Awaited(fd) => Awaited(fd)')
            BY <1>1, <2>1, <3>1, CloseKeeps
        <3>4. QED
            BY <1>2, <3>1, <3>2, <3>3
    <2>4. QED
        BY <1>1, <2>3 DEF Elsewhere, AtCurrent
<1>5. QED
    BY <1>3, <1>4
------------------------------------------------------------------------------
LEMMA NextWInv ==
    ASSUME Roomy
    PROVE  IInv /\ KInv /\ CInv /\ WInv /\ [Next]_vars => WInv'
<1> SUFFICES ASSUME IInv, KInv, CInv, WInv, [Next]_vars PROVE WInv'
    OBVIOUS
<1>1. Unread /\ Elsewhere /\ AtCurrent
    BY DEF WInv
<1>2. Unread'
    BY <1>1, UnreadKept
<1>3. CASE EventLoop
    BY <1>1, <1>2, <1>3, WakeByEpollWait, WakeByAccept, WakeByRest, WakeByAfterIo,
       WakeByHangUp DEF EventLoop, WInv
<1>4. CASE Handler
    BY <1>1, <1>2, <1>4, WakeByHandler DEF WInv
<1>5. ASSUME NEW c \in Clients, Environment(c) PROVE WInv'
    BY <1>1, <1>2, <1>5, WakeByEnvironment DEF WInv
<1>6. CASE UNCHANGED vars
    <2>1. UNCHANGED <<table, ready, batch, conns, pc, caller, peer, rx>>
        BY <1>6 DEF vars
    <2>2. Elsewhere'
        BY <1>1, <2>1 DEF Elsewhere, Quiet, Pending, Awaited, InSeq, Readable, Busy, Current
    <2>3. AtCurrent'
        BY <1>1, <2>1 DEF AtCurrent, Quiet, Awaited, InSeq, Readable, Current, Conn,
                          Owner, Ended
    <2>4. QED
        BY <1>2, <2>2, <2>3 DEF WInv
<1>7. QED
    BY <1>3, <1>4, <1>5, <1>6 DEF Next

\* Edge-triggered events come once; all the same, when what a client can leave
\* unread of its replies fits the send buffer, io() never leaves a request in
\* the read buffer or in the socket of a connection that no event will wake,
\* however clients connect, pipeline, close and reset.  Without that condition
\* the property is false, as run server_reply shows.
THEOREM NeverAsleep ==
    ASSUME Roomy
    PROVE  Spec => []NoLostWakeup
<1>1. Init => WInv
    <2> SUFFICES ASSUME Init PROVE WInv
        OBVIOUS
    <2>1. \A c \in Clients : ReplySize * sent[c] <= got[c] + SendSpace
        <3>1. \A c \in Clients : sent[c] = 0 /\ got[c] = 0
            BY DEF Init
        <3>2. ReplySize \in Nat /\ SendSpace \in Nat /\ ReplySize * 0 = 0
            BY ServerAssumption
        <3>3. QED
            BY <3>1, <3>2
    <2>2. QED
        BY <2>1 DEF Init, WInv, Unread, Elsewhere, AtCurrent
<1>2. WInv => NoLostWakeup
    BY DEF WInv, Elsewhere, NoLostWakeup, Busy, Quiet, Awaited, Pending
<1>3. IInv /\ KInv /\ CInv /\ WInv /\ [Next]_vars => WInv'
    BY NextWInv
<1>4. QED
    BY <1>1, <1>2, <1>3, Invariance, KInvariance, CInvariance, PTL DEF Spec
==============================================================================
