--------------------------- MODULE CommandsProofs ---------------------------
(***************************************************************************)
(* The types of the key space, and what its replies are: understood by the *)
(* client, long enough to hold every value that was stored, and true about *)
(* what happened.  For all keys, values, names, scores and sizes of texts. *)
(***************************************************************************)
EXTENDS Commands, Recursion, SequenceTheorems, FiniteSetTheorems
------------------------------------------------------------------------------
(* How the client's deserialize() reads a reply: one value that is no array,*)
(* and an array's header with as many such values as it says, is understood.*)

\* How deserialize() reads on from position i with n values to read.
Step(out, read, i, n) ==
    LET after == IF out[i].tag = "ARR" THEN read[<<i + 1, out[i].val>>] ELSE i + 1
    IN  CASE n = 0                      -> i
          [] n > 0 /\ i \notin DOMAIN out -> BadResponse
          [] OTHER -> IF after = BadResponse THEN BadResponse ELSE read[<<after, n - 1>>]

Reads(out, read) == read = [p \in Nat \X Nat |-> Step(out, read, p[1], p[2])]

\* That is so at every position and number.
LEMMA ReadsAt ==
    ASSUME NEW out, NEW read, Reads(out, read)
    PROVE  \A i, n \in Nat : read[<<i, n>>] = Step(out, read, i, n)
<1> SUFFICES ASSUME NEW i \in Nat, NEW n \in Nat
             PROVE  read[<<i, n>>] = Step(out, read, i, n)
    OBVIOUS
<1>1. <<i, n>> \in Nat \X Nat /\ <<i, n>>[1] = i /\ <<i, n>>[2] = n
    OBVIOUS
<1> DEFINE F == [p \in Nat \X Nat |-> Step(out, read, p[1], p[2])]
<1>2. F[<<i, n>>] = Step(out, read, i, n)
    BY <1>1
<1>3. read = F
    BY DEF Reads
<1> HIDE DEF F
<1>4. QED
    BY <1>2, <1>3

\* Where there is such a function, deserialize() is one.
LEMMA Deserialized ==
    ASSUME NEW out, NEW f, Reads(out, f)
    PROVE  \E read : Reads(out, read) /\ Deserialize(out) = read[<<1, 1>>]
<1> DEFINE g == CHOOSE read : Reads(out, read)
<1>1. Reads(out, g)
    OBVIOUS
<1>2. Deserialize(out) = g[<<1, 1>>]
    BY DEF Deserialize, Reads, Step
<1>3. QED
    BY <1>1, <1>2

\* One value that is no array is read.
LEMMA StepOver ==
    ASSUME NEW out, NEW read, NEW i \in Nat, NEW n \in Nat,
           i \in DOMAIN out, out[i].tag # "ARR"
    PROVE  Step(out, read, i, n + 1) = read[<<i + 1, n>>]
<1> DEFINE k == n + 1
           j == i + 1
<1>1. k # 0 /\ k - 1 = n /\ j # BadResponse
    BY DEF BadResponse
<1> HIDE DEF k, j
<1> DEFINE after == IF out[i].tag = "ARR" THEN read[<<i + 1, out[i].val>>] ELSE i + 1
<1>2. after = j
    BY DEF j
<1>3. Step(out, read, i, k) = IF after = BadResponse THEN BadResponse ELSE read[<<after, k - 1>>]
    BY <1>1 DEF Step
<1> HIDE DEF after
<1>4. Step(out, read, i, k) = read[<<j, n>>]
    BY <1>1, <1>2, <1>3
<1>5. QED
    BY <1>4 DEF j, k

\* From the second position on, values that are no arrays are read one by one.
LEMMA ReadsPlain ==
    ASSUME NEW out, NEW read, Reads(out, read), NEW L \in Nat, DOMAIN out = 1 .. L,
           \A i \in 2 .. L : out[i].tag # "ARR"
    PROVE  \A n \in Nat : \A i \in 2 .. L + 1 : i + n <= L + 1 => read[<<i, n>>] = i + n
<1> DEFINE T == {n \in Nat : \A i \in 2 .. L + 1 : i + n <= L + 1 => read[<<i, n>>] = i + n}
<1>1. 0 \in T
    <2>1. ASSUME NEW i \in 2 .. L + 1 PROVE read[<<i, 0>>] = i + 0
        <3>1. i \in Nat /\ read[<<i, 0>>] = Step(out, read, i, 0)
            BY ReadsAt
        <3>2. QED
            BY <3>1 DEF Step
    <2>2. QED
        BY <2>1
<1>2. ASSUME NEW n \in Nat, n \in T PROVE n + 1 \in T
    <2>1. ASSUME NEW i \in 2 .. L + 1, i + (n + 1) <= L + 1
          PROVE  read[<<i, n + 1>>] = i + (n + 1)
        <3>1. /\ i \in Nat /\ i \in 2 .. L /\ n + 1 \in Nat /\ n + 1 > 0 /\ n + 1 - 1 = n
              /\ i + 1 \in 2 .. L + 1 /\ i + 1 + n <= L + 1 /\ i + 1 # BadResponse
              /\ i + 1 + n = i + (n + 1)
            BY <2>1 DEF BadResponse
        <3>2. read[<<i, n + 1>>] = Step(out, read, i, n + 1)
            BY <3>1, ReadsAt
        <3>3. i \in DOMAIN out /\ out[i].tag # "ARR"
            BY <3>1
        <3>4. Step(out, read, i, n + 1) = read[<<i + 1, n>>]
            BY <3>1, <3>3, StepOver
        <3>5. read[<<i + 1, n>>] = i + 1 + n
            BY <1>2, <3>1
        <3>6. QED
            BY <3>1, <3>2, <3>4, <3>5
    <2>2. QED
        BY <2>1
<1>3. \A n \in Nat : n \in T
    <2> HIDE DEF T
    <2>1. QED
        BY <1>1, <1>2, Induction
<1>4. QED
    BY <1>3

\* A reply of one value, or of an array's header and as many values as it says.
Announced(out, L) ==
    /\ L \in Nat \ {0} /\ Len(out) = L /\ DOMAIN out = 1 .. L
    /\ \A i \in 2 .. L : out[i].tag # "ARR"
    /\ IF out[1].tag = "ARR" THEN out[1].val = L - 1 ELSE L = 1

\* For such a reply there is a function that reads it.
LEMMA AnnouncedReads ==
    ASSUME NEW out, NEW L, Announced(out, L)
    PROVE  \E read : Reads(out, read)
<1> DEFINE end(i, n) ==
             IF n = 0 THEN i
             ELSE IF i = 1 /\ out[1].tag = "ARR" THEN IF n = 1 THEN L + 1 ELSE BadResponse
             ELSE IF i \in 1 .. L /\ i + n <= L + 1 THEN i + n ELSE BadResponse
           read == [p \in Nat \X Nat |-> end(p[1], p[2])]
<1>1. \A i, n \in Nat : read[<<i, n>>] = end(i, n)
    OBVIOUS
<1>2. ASSUME NEW i \in Nat, NEW n \in Nat PROVE end(i, n) = Step(out, read, i, n)
    <2>1. CASE n = 0
        BY <2>1 DEF Step
    <2>2. CASE n > 0 /\ i \notin 1 .. L
        <3>1. i # 1
            BY <2>2 DEF Announced
        <3>2. QED
            BY <2>2, <3>1 DEF Step, Announced
    <2>3. CASE n > 0 /\ i = 1 /\ out[1].tag = "ARR"
        <3>1. /\ out[1].val = L - 1 /\ L \in Nat \ {0} /\ 2 \in Nat /\ L - 1 \in Nat
              /\ L + 1 \in Nat /\ n - 1 \in Nat
            BY <2>3 DEF Announced
        <3>2. read[<<2, L - 1>>] = L + 1
            <4>1. end(2, L - 1) = L + 1
                <5>1. CASE L = 1
                    BY <3>1, <5>1
                <5>2. CASE L # 1
                    <6>1. L - 1 # 0 /\ 2 \in 1 .. L /\ 2 + (L - 1) = L + 1 /\ ~(2 = 1)
                        BY <3>1, <5>2
                    <6>2. QED
                        BY <3>1, <6>1
                <5>3. QED
                    BY <5>1, <5>2
            <4>2. QED
                BY <1>1, <3>1, <4>1
        <3>3. read[<<L + 1, n - 1>>] = IF n = 1 THEN L + 1 ELSE BadResponse
            <4>1. end(L + 1, n - 1) = IF n = 1 THEN L + 1 ELSE BadResponse
                <5>1. L + 1 # 1 /\ L + 1 \notin 1 .. L /\ (n - 1 = 0 <=> n = 1)
                    BY <2>3, <3>1
                <5>2. QED
                    BY <5>1
            <4>2. QED
                BY <1>1, <3>1, <4>1
        <3>4. end(i, n) = IF n = 1 THEN L + 1 ELSE BadResponse
            BY <2>3
        <3>5. i \in DOMAIN out /\ L + 1 # BadResponse /\ i + 1 = 2
            BY <2>3, <3>1 DEF Announced, BadResponse
        <3> HIDE DEF read, end
        <3>6. Step(out, read, i, n) = read[<<L + 1, n - 1>>]
            BY <2>3, <3>1, <3>2, <3>5 DEF Step
        <3>7. QED
            BY <3>3, <3>4, <3>6
    <2>4. CASE n > 0 /\ i \in 1 .. L /\ ~(i = 1 /\ out[1].tag = "ARR")
        <3>1. /\ L \in Nat \ {0} /\ i \in DOMAIN out /\ out[i].tag # "ARR"
              /\ i + 1 \in Nat /\ n - 1 \in Nat /\ i + 1 # BadResponse /\ i + 1 # 1
            BY <2>4 DEF Announced, BadResponse
        <3>2. read[<<i + 1, n - 1>>] = end(i + 1, n - 1)
            BY <1>1, <3>1
        <3>3. end(i + 1, n - 1) = end(i, n)
            <4>1. CASE n = 1
                <5>1. n - 1 = 0 /\ i + n = i + 1 /\ i + n <= L + 1 /\ n # 0
                    BY <2>4, <3>1, <4>1
                <5>2. end(i + 1, n - 1) = i + 1 /\ end(i, n) = i + n
                    BY <2>4, <5>1
                <5>3. QED
                    BY <5>1, <5>2
            <4>2. CASE n # 1
                <5>1. /\ n - 1 # 0 /\ i + 1 + (n - 1) = i + n /\ n # 0
                      /\ i + n <= L + 1 => i + 1 \in 1 .. L
                    BY <2>4, <3>1, <4>2
                <5>2. end(i + 1, n - 1) = IF i + n <= L + 1 THEN i + n ELSE BadResponse
                    BY <3>1, <5>1
                <5>3. end(i, n) = IF i + n <= L + 1 THEN i + n ELSE BadResponse
                    BY <2>4, <5>1
                <5>4. QED
                    BY <5>2, <5>3
            <4>3. QED
                BY <4>1, <4>2
        <3> HIDE DEF read, end
        <3>4. Step(out, read, i, n) = read[<<i + 1, n - 1>>]
            BY <2>4, <3>1 DEF Step
        <3>5. QED
            BY <3>2, <3>3, <3>4
    <2>5. QED
        BY <2>1, <2>2, <2>3, <2>4 DEF Announced
<1>3. read = [p \in Nat \X Nat |-> Step(out, read, p[1], p[2])]
    <2> DEFINE r == [p \in Nat \X Nat |-> Step(out, read, p[1], p[2])]
    <2>1. ASSUME NEW p \in Nat \X Nat PROVE read[p] = Step(out, read, p[1], p[2])
        <3>1. p[1] \in Nat /\ p[2] \in Nat /\ read[p] = end(p[1], p[2])
            OBVIOUS
        <3> HIDE DEF read, end
        <3>2. QED
            BY <1>2, <3>1
    <2>2. QED
        BY <2>1
<1> HIDE DEF read
<1>4. QED
    BY <1>3 DEF Reads

\* And deserialize() understands it.
LEMMA AnnouncedUnderstood ==
    ASSUME NEW out, NEW L, Announced(out, L)
    PROVE  Understood(out)
<1>1. PICK read : Reads(out, read) /\ Deserialize(out) = read[<<1, 1>>]
    BY AnnouncedReads, Deserialized
<1>2. L \in Nat \ {0} /\ DOMAIN out = 1 .. L /\ \A i \in 2 .. L : out[i].tag # "ARR"
    BY DEF Announced
<1>3. \A n \in Nat : \A i \in 2 .. L + 1 : i + n <= L + 1 => read[<<i, n>>] = i + n
    BY <1>1, <1>2, ReadsPlain
<1>4. read[<<2, L - 1>>] = L + 1 /\ read[<<L + 1, 0>>] = L + 1
    <2>1. L - 1 \in Nat /\ 2 \in 2 .. L + 1 /\ L + 1 \in 2 .. L + 1 /\ 2 + (L - 1) = L + 1
        BY <1>2
    <2>2. QED
        BY <1>2, <1>3, <2>1
<1>5. read[<<1, 1>>] = Step(out, read, 1, 1)
    BY <1>1, ReadsAt
<1>6. L + 1 # BadResponse /\ 1 \in DOMAIN out
    BY <1>2 DEF BadResponse
<1>7. Step(out, read, 1, 1) = L + 1
    <2>1. CASE out[1].tag = "ARR"
        <3>1. out[1].val = L - 1
            BY <2>1 DEF Announced
        <3>2. QED
            BY <1>4, <1>6, <2>1, <3>1 DEF Step
    <2>2. CASE out[1].tag # "ARR"
        <3>1. L = 1
            BY <2>2 DEF Announced
        <3>2. read[<<2, 0>>] = 2
            BY <1>4, <3>1
        <3>3. QED
            BY <1>6, <2>2, <3>1, <3>2 DEF Step, BadResponse
    <2>3. QED
        BY <2>1, <2>2
<1>8. QED
    BY <1>1, <1>5, <1>7 DEF Understood, Announced

\* The bytes of one value, and of nothing else.
LEMMA BytesOne ==
    ASSUME NEW v, v.size \in Nat
    PROVE  Bytes(<<v>>) = v.size
<1> DEFINE D(sum) == [i \in 0 .. Len(<<v>>) |-> IF i = 0 THEN 0 ELSE sum[i - 1] + <<v>>[i].size]
           f == [i \in 0 .. 1 |-> IF i = 0 THEN 0 ELSE v.size]
           g == CHOOSE s : s = D(s)
<1>1. Len(<<v>>) = 1
    OBVIOUS
<1>2. f = D(f)
    BY <1>1
<1>3. g = D(g)
    BY <1>2
<1>4. Bytes(<<v>>) = g[1]
    BY <1>1 DEF Bytes
<1> HIDE DEF g
<1>5. g[0] = 0 /\ g[1] = g[0] + v.size
    BY <1>1, <1>3
<1>6. QED
    BY <1>4, <1>5

\* A reply of one value of this kind.
One(out, tag) == \E v : out = <<v>> /\ v.tag = tag

LEMMA OneFirst ==
    ASSUME NEW out, NEW tag, One(out, tag)
    PROVE  out[1].tag = tag
    BY DEF One
------------------------------------------------------------------------------
(* Replies the client understands.                                         *)

\* A reply of one of the two forms.
Told(out) == \E L : Announced(out, L)

\* A single value is understood unless it is a header that announces more.
LEMMA OneTold ==
    ASSUME NEW out, NEW tag, tag # "ARR" \/ out[1].val = 0, One(out, tag)
    PROVE  Told(out)
<1>1. PICK v : out = <<v>> /\ v.tag = tag
    BY DEF One
<1>2. Len(out) = 1 /\ DOMAIN out = 1 .. 1 /\ out[1] = v
    BY <1>1
<1>3. Announced(out, 1)
    BY <1>1, <1>2 DEF Announced
<1>4. QED
    BY <1>3 DEF Told

\* A list of values none of which is an array.
Flat(s) == \E S : s \in Seq(S) /\ \A i \in 1 .. Len(s) : s[i].tag # "ARR"

\* A flat list behind a header with its length is understood.
LEMMA FlatTold ==
    ASSUME NEW s, Flat(s)
    PROVE  Told(Arr(Len(s)) \o s)
<1>1. PICK S : s \in Seq(S) /\ \A i \in 1 .. Len(s) : s[i].tag # "ARR"
    BY DEF Flat
<1> DEFINE head == [tag |-> "ARR", size |-> 1 + 4, val |-> Len(s)]
           a == <<head>>
           out == a \o s
           T == S \cup {head}
<1>2. head.tag = "ARR" /\ head.val = Len(s) /\ Arr(Len(s)) = a
    BY DEF Arr
<1> HIDE DEF head
<1>3. a \in Seq(T) /\ Len(a) = 1 /\ a[1] = head
    OBVIOUS
<1>4. s \in Seq(T) /\ Len(s) \in Nat
    BY <1>1, SeqMonotonic
<1> HIDE DEF T, a
<1>5. /\ out \in Seq(T) /\ Len(out) = 1 + Len(s)
      /\ \A i \in 1 .. 1 + Len(s) : out[i] = IF i <= 1 THEN a[i] ELSE s[i - 1]
    <2>1. /\ out \in Seq(T) /\ Len(out) = Len(a) + Len(s)
          /\ \A i \in 1 .. Len(a) + Len(s) : out[i] = IF i <= Len(a) THEN a[i] ELSE s[i - Len(a)]
        BY <1>3, <1>4, ConcatProperties
    <2> HIDE DEF out
    <2>2. QED
        BY <1>3, <2>1
<1> HIDE DEF out
<1> DEFINE L == 1 + Len(s)
<1>6. L \in Nat \ {0} /\ Len(out) = L /\ DOMAIN out = 1 .. L /\ out[1] = head /\ L - 1 = Len(s)
    BY <1>3, <1>4, <1>5
<1>7. ASSUME NEW i \in 2 .. L PROVE out[i].tag # "ARR"
    <2>1. i \in 1 .. 1 + Len(s) /\ ~(i <= 1) /\ i - 1 \in 1 .. Len(s)
        BY <1>4
    <2>2. out[i] = s[i - 1]
        BY <1>5, <2>1
    <2>3. QED
        BY <1>1, <2>1, <2>2
<1> HIDE DEF L
<1>8. Announced(out, L)
    BY <1>2, <1>6, <1>7 DEF Announced
<1>9. QED
    BY <1>2, <1>8 DEF Told, out

LEMMA FlatEmpty == Flat(<<>>)
    BY DEF Flat

\* Flat lists concatenate to flat lists.
LEMMA FlatConcat ==
    ASSUME NEW s, NEW t, Flat(s), Flat(t)
    PROVE  Flat(s \o t) /\ Len(s \o t) = Len(s) + Len(t)
<1>1. PICK S : s \in Seq(S) /\ \A i \in 1 .. Len(s) : s[i].tag # "ARR"
    BY DEF Flat
<1>2. PICK T : t \in Seq(T) /\ \A i \in 1 .. Len(t) : t[i].tag # "ARR"
    BY DEF Flat
<1> DEFINE U == S \cup T
           u == s \o t
<1>3. s \in Seq(U) /\ t \in Seq(U) /\ Len(s) \in Nat /\ Len(t) \in Nat
    BY <1>1, <1>2, SeqMonotonic
<1> HIDE DEF U
<1>4. /\ u \in Seq(U) /\ Len(u) = Len(s) + Len(t)
      /\ \A i \in 1 .. Len(s) + Len(t) : u[i] = IF i <= Len(s) THEN s[i] ELSE t[i - Len(s)]
    BY <1>3, ConcatProperties
<1> HIDE DEF u
<1>5. ASSUME NEW i \in 1 .. Len(u) PROVE u[i].tag # "ARR"
    <2>1. i \in 1 .. Len(s) + Len(t)
        BY <1>4
    <2>2. CASE i <= Len(s)
        <3>1. i \in 1 .. Len(s) /\ u[i] = s[i]
            BY <1>3, <1>4, <2>1, <2>2
        <3>2. QED
            BY <1>1, <3>1
    <2>3. CASE ~(i <= Len(s))
        <3>1. i - Len(s) \in 1 .. Len(t) /\ u[i] = t[i - Len(s)]
            BY <1>3, <1>4, <2>1, <2>3
        <3>2. QED
            BY <1>2, <3>1
    <2>4. QED
        BY <2>2, <2>3
<1>6. Flat(u)
    BY <1>4, <1>5 DEF Flat
<1>7. QED
    BY <1>4, <1>6 DEF u

LEMMA FlatOne ==
    ASSUME NEW out, NEW tag, tag # "ARR", One(out, tag)
    PROVE  Flat(out) /\ Len(out) = 1
<1>1. PICK v : out = <<v>> /\ v.tag = tag
    BY DEF One
<1>2. out \in Seq({v}) /\ Len(out) = 1 /\ out[1] = v
    BY <1>1
<1>3. \A i \in 1 .. Len(out) : out[i].tag # "ARR"
    BY <1>1, <1>2
<1>4. QED
    BY <1>2, <1>3 DEF Flat

\* Two values, one behind the other.
LEMMA Two ==
    ASSUME NEW x, NEW y
    PROVE  <<x>> \o <<y>> = <<x, y>>
<1> DEFINE S == {x, y}
           w == <<x, y>>
           s == <<x>>
           t == <<y>>
           u == s \o t
<1>1. s \in Seq(S) /\ t \in Seq(S) /\ Len(s) = 1 /\ Len(t) = 1 /\ s[1] = x /\ t[1] = y
    OBVIOUS
<1> HIDE DEF s, t
<1>2. /\ u \in Seq(S) /\ Len(u) = Len(s) + Len(t)
      /\ \A i \in 1 .. Len(s) + Len(t) : u[i] = IF i <= Len(s) THEN s[i] ELSE t[i - Len(s)]
    <2> HIDE DEF S
    <2>1. QED
        BY <1>1, ConcatProperties
<1> HIDE DEF u
<1>3. Len(u) = 2 /\ u[1] = x /\ u[2] = y
    BY <1>1, <1>2
<1>4. w \in Seq(S) /\ Len(w) = 2 /\ w[1] = x /\ w[2] = y
    OBVIOUS
<1> HIDE DEF w, S
<1>5. \A i \in 1 .. Len(u) : u[i] = w[i]
    BY <1>3, <1>4
<1>6. u = w
    BY <1>2, <1>3, <1>4, <1>5, SeqEqual
<1>7. QED
    BY <1>6 DEF u, w, s, t
------------------------------------------------------------------------------
(* The key space.                                                          *)

Pairs == Scores \X Names
Entries == [type : {"NONE", "STR", "ZSET"}, val : Values, set : SUBSET SUBSET Pairs]

\* What TypeOK says of one entry.
EntryOK(e) ==
    /\ e \in Entries
    /\ IF e.type = "ZSET" THEN Cardinality(e.set) = 1 ELSE e.set = {}
    /\ e.type = "NONE" => e = NoEntry

LEMMA TypeByEntry == TypeOK <=> db \in [Keys -> Entries] /\ \A k \in Keys : EntryOK(db[k])
    BY DEF TypeOK, EntryOK, Entries, Pairs, IsZSet, Found

\* A command that changes one entry.
LEMMA OneEntry ==
    ASSUME TypeOK, NEW k \in Keys, NEW e, EntryOK(e), db' = [db EXCEPT ![k] = e]
    PROVE  TypeOK'
<1>1. db \in [Keys -> Entries] /\ \A j \in Keys : EntryOK(db[j])
    BY TypeByEntry
<1>2. e \in Entries
    BY DEF EntryOK
<1>3. db' \in [Keys -> Entries]
    BY <1>1, <1>2
<1>4. ASSUME NEW j \in Keys PROVE EntryOK(db'[j])
    BY <1>1, <1>3
<1>5. QED
    BY <1>3, <1>4 DEF TypeOK, EntryOK, Entries, Pairs, IsZSet, Found

\* A sorted set is one set of pairs.
LEMMA ZSetEntry ==
    ASSUME NEW e \in Entries, e.type = "ZSET", NEW pairs \in SUBSET Pairs
    PROVE  EntryOK([e EXCEPT !.set = {pairs}])
<1> DEFINE f == [e EXCEPT !.set = {pairs}]
<1>1. f \in Entries /\ f.type = "ZSET" /\ f.set = {pairs}
    BY DEF Entries
<1>2. Cardinality({pairs}) = 1
    BY FS_Singleton
<1>3. QED
    BY <1>1, <1>2 DEF EntryOK

LEMMA Members ==
    ASSUME NEW e \in Entries, NEW n
    PROVE  Without(e, n) \in SUBSET Pairs
    BY DEF Without, PairsOf, Entries
------------------------------------------------------------------------------
LEMMA InitType == Init => TypeOK
<1> SUFFICES ASSUME Init PROVE TypeOK
    OBVIOUS
<1>1. EntryOK(NoEntry)
    BY CommandsAssumption DEF EntryOK, Entries, NoEntry
<1>2. db \in [Keys -> Entries] /\ \A k \in Keys : EntryOK(db[k])
    BY <1>1 DEF Init, EntryOK
<1>3. QED
    BY <1>2, TypeByEntry

LEMMA SetType ==
    ASSUME TypeOK, NEW k \in Keys, NEW v \in Values, Set(k, v)
    PROVE  TypeOK'
<1> DEFINE e == IF Found(k) THEN [db[k] EXCEPT !.val = v] ELSE NewString(v)
<1>1. db' = [db EXCEPT ![k] = e]
    BY DEF Set
<1>2. EntryOK(db[k])
    BY TypeByEntry
<1>3. CASE Found(k)
    <2>1. db[k].type # "NONE" /\ e = [db[k] EXCEPT !.val = v]
        BY <1>2, <1>3 DEF EntryOK, Found
    <2>2. e \in Entries /\ e.type = db[k].type /\ e.set = db[k].set
        BY <1>2, <2>1 DEF EntryOK, Entries
    <2>3. QED
        BY <1>1, <1>2, <2>1, <2>2, OneEntry DEF EntryOK
<1>4. CASE ~Found(k)
    <2>1. EntryOK(e)
        BY <1>4 DEF EntryOK, Entries, NewString
    <2>2. QED
        BY <1>1, <2>1, OneEntry
<1>5. QED
    BY <1>3, <1>4

LEMMA DelType ==
    ASSUME TypeOK, NEW k \in Keys, Del(k)
    PROVE  TypeOK'
<1>1. EntryOK(NoEntry)
    BY CommandsAssumption DEF EntryOK, Entries, NoEntry
<1>2. QED
    BY <1>1, OneEntry DEF Del

LEMMA ZAddType ==
    ASSUME TypeOK, NEW k \in Keys, NEW s \in Texts(Scores), NEW n \in Names, ZAdd(k, s, n)
    PROVE  TypeOK'
<1> DEFINE entry == IF Found(k) THEN db[k] ELSE NewZSet
           pairs == Without(entry, n) \cup {<<s, n>>}
<1>1. CASE UNCHANGED db
    BY <1>1, TypeByEntry DEF TypeOK, IsZSet, Found
<1>2. CASE /\ s # NotANumber /\ entry.type = "ZSET"
           /\ db' = [db EXCEPT ![k] = [entry EXCEPT !.set = {pairs}]]
    <2>1. entry \in Entries
        <3>1. db[k] \in Entries
            BY TypeByEntry
        <3>2. NewZSet \in Entries
            BY CommandsAssumption DEF NewZSet, Entries
        <3>3. QED
            BY <3>1, <3>2
    <2>2. s \in Scores
        BY <1>2 DEF Texts
    <2>3. pairs \in SUBSET Pairs
        BY <2>1, <2>2, Members DEF Pairs
    <2>4. EntryOK([entry EXCEPT !.set = {pairs}])
        BY <1>2, <2>1, <2>3, ZSetEntry
    <2>5. QED
        BY <1>2, <2>4, OneEntry
<1>3. QED
    BY <1>1, <1>2 DEF ZAdd

LEMMA ZRemType ==
    ASSUME TypeOK, NEW k \in Keys, NEW n \in Names, ZRem(k, n)
    PROVE  TypeOK'
<1>1. CASE UNCHANGED db
    BY <1>1, TypeByEntry DEF TypeOK, IsZSet, Found
<1>2. CASE IsZSet(k) /\ db' = [db EXCEPT ![k].set = {Without(db[k], n)}]
    <2>1. db \in [Keys -> Entries] /\ db[k] \in Entries
        BY TypeByEntry
    <2>2. EntryOK([db[k] EXCEPT !.set = {Without(db[k], n)}])
        BY <1>2, <2>1, Members, ZSetEntry DEF IsZSet
    <2>3. QED
        BY <1>2, <2>2, OneEntry
<1>3. QED
    BY <1>1, <1>2 DEF ZRem

\* In every reachable state an entry owns a sorted set exactly when its type
\* says so: no command dereferences a set that is not there (req.cxx).
THEOREM TypeCorrect == Spec => []TypeOK
<1>1. TypeOK /\ [Next]_vars => TypeOK'
    <2> SUFFICES ASSUME TypeOK, [Next]_vars PROVE TypeOK'
        OBVIOUS
    <2>1. CASE UNCHANGED db
        BY <2>1 DEF TypeOK, IsZSet, Found
    <2>2. ASSUME NEW k \in Keys, NEW v \in Values, Set(k, v) PROVE TypeOK'
        BY <2>2, SetType
    <2>3. ASSUME NEW k \in Keys, Del(k) PROVE TypeOK'
        BY <2>3, DelType
    <2>4. ASSUME NEW k \in Keys, NEW n \in Names, NEW s \in Texts(Scores), ZAdd(k, s, n)
          PROVE  TypeOK'
        BY <2>4, ZAddType
    <2>5. ASSUME NEW k \in Keys, NEW n \in Names, ZRem(k, n) PROVE TypeOK'
        BY <2>5, ZRemType
    <2>6. CASE KeysCommand \/ Unknown
        BY <2>1, <2>6 DEF KeysCommand, Unknown
    <2>7. CASE \E k \in Keys : Get(k)
        BY <2>1, <2>7 DEF Get
    <2>8. CASE \E k \in Keys, n \in Names : ZCommand(k, n)
        BY <2>1, <2>4, <2>5, <2>8 DEF ZCommand, ZScore, ZQuery
    <2>9. CASE UNCHANGED vars
        BY <2>1, <2>9 DEF vars
    <2>10. QED
        BY <2>2, <2>3, <2>6, <2>7, <2>8, <2>9 DEF Next
<1>2. QED
    BY <1>1, InitType, PTL DEF Spec
------------------------------------------------------------------------------
(* Replies of one value, and their sizes.                                  *)

\* What the assumption says of the limits.
LEMMA Sizes ==
    /\ HeaderSize = 4 /\ ErrorSize \in Nat /\ MaxMessageSize \in Nat
    /\ HeaderSize + (1 + 8 + ErrorSize) <= MaxMessageSize
    BY CommandsAssumption

\* The values of the commands, and the sizes that matter.
LEMMA OneFacts ==
    /\ One(Nil, "NIL") /\ Bytes(Nil) = 1
    /\ \A v : One(Num(v), "INT") /\ Bytes(Num(v)) = 9 /\ Num(v)[1].val = v
    /\ \A v : One(Dbl(v), "DBL")
    /\ \A v : \A n \in Nat : One(Str(v, n), "STR") /\ Bytes(Str(v, n)) = 5 + n
    /\ \A v : One(Error(v), "ERR") /\ Bytes(Error(v)) = 9 + ErrorSize
    /\ One(Arr(0), "ARR") /\ Arr(0)[1].val = 0
<1>1. One(Nil, "NIL") /\ Bytes(Nil) = 1
    BY BytesOne DEF One, Nil
<1>2. ASSUME NEW v PROVE One(Num(v), "INT") /\ Bytes(Num(v)) = 9 /\ Num(v)[1].val = v
    <2> DEFINE u == [tag |-> "INT", size |-> 1 + 8, val |-> v]
    <2>1. u.size = 9 /\ u.tag = "INT" /\ u.val = v /\ Num(v) = <<u>>
        BY DEF Num
    <2> HIDE DEF u
    <2>2. QED
        BY <2>1, BytesOne DEF One
<1>3. ASSUME NEW v PROVE One(Dbl(v), "DBL")
    <2> DEFINE u == [tag |-> "DBL", size |-> 1 + 8, val |-> v]
    <2>1. u.tag = "DBL" /\ Dbl(v) = <<u>>
        BY DEF Dbl
    <2> HIDE DEF u
    <2>2. QED
        BY <2>1 DEF One
<1>4. ASSUME NEW v, NEW n \in Nat PROVE One(Str(v, n), "STR") /\ Bytes(Str(v, n)) = 5 + n
    <2> DEFINE u == [tag |-> "STR", size |-> 1 + 4 + n, val |-> v]
    <2>1. u.size = 5 + n /\ u.tag = "STR" /\ Str(v, n) = <<u>>
        BY DEF Str
    <2> HIDE DEF u
    <2>2. QED
        BY <2>1, BytesOne DEF One
<1>5. ASSUME NEW v PROVE One(Error(v), "ERR") /\ Bytes(Error(v)) = 9 + ErrorSize
    <2> DEFINE u == [tag |-> "ERR", size |-> 1 + 4 + 4 + ErrorSize, val |-> v]
    <2>1. u.size = 1 + 4 + 4 + ErrorSize /\ u.tag = "ERR"
        OBVIOUS
    <2>2. Error(v) = <<u>>
        BY DEF Error, Err
    <2> HIDE DEF u
    <2>3. u.size \in Nat /\ u.size = 9 + ErrorSize
        BY <2>1, Sizes
    <2>4. QED
        BY <2>1, <2>2, <2>3, BytesOne DEF One
<1>6. One(Arr(0), "ARR") /\ Arr(0)[1].val = 0
    BY DEF One, Arr
<1>7. QED
    BY <1>1, <1>2, <1>3, <1>4, <1>5, <1>6

\* Small replies are never replaced.
LEMMA SmallReply ==
    /\ Packed(Nil) = Nil
    /\ \A v : Packed(Num(v)) = Num(v)
<1>1. ~(HeaderSize + 1 > MaxMessageSize) /\ ~(HeaderSize + 9 > MaxMessageSize)
    BY Sizes
<1>2. Bytes(Nil) = 1 /\ \A v : Bytes(Num(v)) = 9
    BY OneFacts
<1>3. Packed(Nil) = Nil
    BY <1>1, <1>2 DEF Packed
<1>4. ASSUME NEW v PROVE Packed(Num(v)) = Num(v)
    <2>1. Bytes(Num(v)) = 9
        BY <1>2
    <2>2. QED
        BY <1>1, <2>1 DEF Packed
<1>5. QED
    BY <1>3, <1>4

\* What takes an output's place is an error.
LEMMA PackedOr == \A out : Packed(out) = out \/ Packed(out) = Error("TOO_BIG")
    BY DEF Packed
------------------------------------------------------------------------------
\* What keys writes between its header and its end: as many texts as keys.
ElementsOf(order) ==
    LET elements[i \in 0 .. Len(order)] ==
            IF i = 0 THEN <<>>
            ELSE elements[i - 1] \o Str(order[i], KeySize[order[i]])
    IN  elements[Len(order)]

\* They are as many texts as there are keys in the order.
LEMMA ElementsFlat ==
    ASSUME NEW order \in Seq(Keys)
    PROVE  Flat(ElementsOf(order)) /\ Len(ElementsOf(order)) = Len(order)
<1> DEFINE N == Len(order)
           cell(i) == Str(order[i], KeySize[order[i]])
           S == {cell(i)[1] : i \in 1 .. N}
           V == Seq(S)
           step == [i \in 1 .. N |-> [s \in V |-> s \o cell(i)]]
           D(g) == [i \in 0 .. N |-> IF i = 0 THEN <<>> ELSE g[i - 1] \o cell(i)]
           elements == CHOOSE g : g = D(g)
<1>1. N \in Nat
    OBVIOUS
<1>2. \A i \in 1 .. N : One(cell(i), "STR") /\ cell(i) = <<cell(i)[1]>>
    <2>1. ASSUME NEW i \in 1 .. N PROVE One(cell(i), "STR")
        <3>1. order[i] \in Keys
            BY ElementOfSeq
        <3>2. KeySize[order[i]] \in Nat
            BY <3>1, CommandsAssumption
        <3>3. QED
            BY <3>2, OneFacts
    <2>2. QED
        BY <2>1 DEF One
<1> HIDE DEF cell, N
<1>3. ASSUME NEW i \in 1 .. N PROVE cell(i) \in V
    <2> DEFINE x == cell(i)[1]
    <2>1. x \in S /\ cell(i) = <<x>>
        BY <1>2
    <2> HIDE DEF x, S
    <2>2. <<x>> \in Seq(S)
        BY <2>1
    <2>3. QED
        BY <2>1, <2>2
<1>4. step \in [1 .. N -> [V -> V]]
    <2>1. \A i \in 1 .. N, s \in V : s \o cell(i) \in V
        BY <1>3, ConcatProperties
    <2>2. QED
        BY <2>1
<1>5. <<>> \in V
    OBVIOUS
<1>6. PICK f : Iterates(f, N, V, <<>>, step)
    <2> HIDE DEF V, step
    <2>1. QED
        BY <1>1, <1>4, <1>5, Primitive
<1>7. f = D(f)
    <2>1. /\ f \in [0 .. N -> V] /\ f[0] = <<>>
          /\ \A i \in 1 .. N : f[i] = step[i][f[i - 1]]
        BY <1>6 DEF Iterates
    <2>2. ASSUME NEW i \in 1 .. N PROVE f[i] = f[i - 1] \o cell(i)
        <3>1. i - 1 \in 0 .. N
            BY <1>1
        <3>2. f[i - 1] \in V
            BY <2>1, <3>1
        <3>3. QED
            BY <2>1, <3>2
    <2>3. ASSUME NEW i \in 0 .. N PROVE f[i] = D(f)[i]
        <3>1. i = 0 \/ i \in 1 .. N
            BY <1>1
        <3>2. QED
            BY <2>1, <2>2, <3>1
    <2>4. QED
        BY <2>1, <2>3
<1>8. elements = D(elements)
    BY <1>7
<1>9. ElementsOf(order) = elements[N]
    BY DEF ElementsOf, N, cell
<1> HIDE DEF elements
<1>10. ASSUME NEW i \in 0 .. N
       PROVE  elements[i] = IF i = 0 THEN <<>> ELSE elements[i - 1] \o cell(i)
    <2>1. D(elements)[i] = IF i = 0 THEN <<>> ELSE elements[i - 1] \o cell(i)
        OBVIOUS
    <2> HIDE DEF D
    <2>2. QED
        BY <1>8, <2>1
<1> DEFINE T == {i \in Nat : i <= N => Flat(elements[i]) /\ Len(elements[i]) = i}
<1>11. 0 \in T
    <2>1. elements[0] = <<>>
        BY <1>1, <1>10
    <2>2. QED
        BY <2>1, FlatEmpty
<1>12. ASSUME NEW i \in Nat, i \in T PROVE i + 1 \in T
    <2>1. CASE i + 1 <= N
        <3>1. /\ i + 1 \in 1 .. N /\ i + 1 \in 0 .. N /\ i + 1 # 0 /\ i + 1 - 1 = i
              /\ Flat(elements[i]) /\ Len(elements[i]) = i
            BY <1>1, <1>12, <2>1
        <3>2. elements[i + 1] = elements[i] \o cell(i + 1)
            <4> DEFINE j == i + 1
            <4>1. j \in 0 .. N /\ j # 0 /\ j - 1 = i
                BY <3>1
            <4> HIDE DEF j, elements, cell
            <4>2. elements[j] = elements[j - 1] \o cell(j)
                BY <1>10, <4>1
            <4>3. elements[j] = elements[i] \o cell(j)
                BY <4>1, <4>2
            <4>4. QED
                BY <4>3 DEF j
        <3>3. Flat(cell(i + 1)) /\ Len(cell(i + 1)) = 1
            BY <1>2, <3>1, FlatOne
        <3>4. Flat(elements[i + 1]) /\ Len(elements[i + 1]) = i + 1
            BY <3>1, <3>2, <3>3, FlatConcat
        <3>5. QED
            BY <3>4
    <2>2. QED
        BY <2>1
<1>13. \A i \in Nat : i \in T
    <2> HIDE DEF T
    <2>1. QED
        BY <1>11, <1>12, Induction
<1>14. Flat(elements[N]) /\ Len(elements[N]) = N
    BY <1>1, <1>13
<1>15. QED
    BY <1>9, <1>14 DEF N

\* The equation of a recursive list: the pairs from rank p[1] on, when p[2]
\* elements are written.
Rows(N, limit, row, f) ==
    [p \in Nat \X Nat |->
        IF p[1] > N \/ p[2] >= limit THEN <<>>
        ELSE row[p[1]] \o f[<<p[1] + 1, p[2] + 2>>]]

\* A list of such rows ends, and is flat if the rows are.
LEMMA RowsFlat ==
    ASSUME NEW N \in Nat, NEW limit, NEW S, NEW row \in [Nat -> Seq(S)],
           \A c \in S : c.tag # "ARR"
    PROVE  /\ \E f : f = Rows(N, limit, row, f)
           /\ \A f : f = Rows(N, limit, row, f) => \A i \in Nat : Flat(f[<<i, 0>>])
<1> DEFINE D == Nat \X Nat
           V == Seq(S)
           left(i) == IF i > N THEN 0 ELSE N + 1 - i
           rank == [p \in D |-> left(p[1])]
           next(f, p) == IF p[1] > N \/ p[2] >= limit THEN <<>>
                         ELSE row[p[1]] \o f[<<p[1] + 1, p[2] + 2>>]
           G == [f \in [D -> V] |-> [p \in D |-> next(f, p)]]
<1> HIDE DEF left
<1>0. \A i \in Nat : left(i) \in Nat /\ (~(i > N) => left(i + 1) < left(i))
    BY DEF left
<1>1. ASSUME NEW p \in D, ~(p[1] > N)
      PROVE  <<p[1] + 1, p[2] + 2>> \in D /\ rank[<<p[1] + 1, p[2] + 2>>] < rank[p]
    <2> DEFINE i == p[1]
               j == p[2]
               q == <<i + 1, j + 2>>
    <2>1. i \in Nat /\ j \in Nat
        OBVIOUS
    <2>2. q \in D /\ q[1] = i + 1
        <3> HIDE DEF i, j
        <3>1. i + 1 \in Nat /\ j + 2 \in Nat
            BY <2>1
        <3>2. QED
            BY <3>1
    <2>3. rank[q] = left(i + 1) /\ rank[p] = left(i)
        BY <2>2
    <2>4. left(i + 1) < left(i)
        <3>1. ~(i > N)
            BY <1>1
        <3> HIDE DEF i
        <3>2. QED
            BY <1>0, <2>1, <3>1
    <2>5. QED
        BY <2>2, <2>3, <2>4
<1>2. rank \in [D -> Nat]
    <2>1. ASSUME NEW p \in D PROVE left(p[1]) \in Nat
        <3>1. p[1] \in Nat
            OBVIOUS
        <3>2. QED
            BY <1>0, <3>1
    <2>2. QED
        BY <2>1
<1>3. ASSUME NEW f \in [D -> V], NEW p \in D PROVE next(f, p) \in V
    <2>1. CASE p[1] > N \/ p[2] >= limit
        BY <2>1
    <2>2. CASE ~(p[1] > N \/ p[2] >= limit)
        <3>1. row[p[1]] \in V
            OBVIOUS
        <3>2. f[<<p[1] + 1, p[2] + 2>>] \in V
            BY <1>1, <2>2
        <3>3. row[p[1]] \o f[<<p[1] + 1, p[2] + 2>>] \in V
            BY <3>1, <3>2, ConcatProperties
        <3>4. QED
            BY <2>2, <3>3
    <2>3. QED
        BY <2>1, <2>2
<1>4. \A f \in [D -> V], p \in D : G[f][p] = next(f, p)
    OBVIOUS
<1>5. G \in [[D -> V] -> [D -> V]]
    BY <1>3
<1>6. Ranked(D, V, rank, G)
    <2> SUFFICES ASSUME NEW p \in D, NEW f \in [D -> V], NEW g \in [D -> V],
                        \A q \in D : rank[q] < rank[p] => f[q] = g[q]
                 PROVE  G[f][p] = G[g][p]
        BY DEF Ranked
    <2> HIDE DEF rank, G, D
    <2>1. ~(p[1] > N) => f[<<p[1] + 1, p[2] + 2>>] = g[<<p[1] + 1, p[2] + 2>>]
        BY <1>1
    <2>2. QED
        BY <1>4, <2>1
<1>7. \E f : f = Rows(N, limit, row, f)
    <2>1. PICK f : Defines(f, D, V, G)
        <3> HIDE DEF D, V, rank, G
        <3>1. V # {}
            BY DEF V
        <3>2. QED
            BY <1>2, <1>5, <1>6, <3>1, RankedFunction
    <2>2. f \in [D -> V] /\ \A p \in D : f[p] = G[f][p]
        BY <2>1 DEF Defines
    <2>3. \A p \in D : f[p] = next(f, p)
        <3> HIDE DEF G, next, D, V
        <3>1. QED
            BY <1>4, <2>2
    <2>4. f = [p \in D |-> next(f, p)]
        <3> HIDE DEF next, D, V
        <3>1. QED
            BY <2>2, <2>3
    <2>5. f = Rows(N, limit, row, f)
        BY <2>4 DEF Rows
    <2>6. QED
        BY <2>5
<1>8. ASSUME NEW f, f = Rows(N, limit, row, f), NEW i \in Nat PROVE Flat(f[<<i, 0>>])
    <2> DEFINE T == {n \in Nat : \A p \in D : rank[p] < n => f[p] \in V}
    <2>1. \A p \in D : f[p] = next(f, p)
        <3> DEFINE h == [p \in D |-> next(f, p)]
        <3>1. f = h
            BY <1>8 DEF Rows
        <3>2. \A p \in D : h[p] = next(f, p)
            OBVIOUS
        <3> HIDE DEF h
        <3>3. QED
            BY <3>1, <3>2
    <2>2. 0 \in T
        <3>1. \A p \in D : rank[p] \in Nat
            BY <1>2
        <3> HIDE DEF rank, D, V
        <3>2. QED
            BY <3>1
    <2>3. ASSUME NEW n \in Nat, n \in T PROVE n + 1 \in T
        <3>1. ASSUME NEW p \in D, rank[p] < n + 1 PROVE f[p] \in V
            <4>1. CASE p[1] > N \/ p[2] >= limit
                <5>1. f[p] = <<>>
                    BY <2>1, <4>1
                <5>2. QED
                    BY <5>1
            <4>2. CASE ~(p[1] > N \/ p[2] >= limit)
                <5> DEFINE q == <<p[1] + 1, p[2] + 2>>
                <5>1. q \in D /\ rank[q] < rank[p]
                    BY <1>1, <4>2
                <5>2. rank[q] \in Nat /\ rank[p] \in Nat
                    BY <1>2, <5>1
                <5>3. f[q] \in V
                    <6> DEFINE a == rank[q]
                               b == rank[p]
                    <6>1. a \in Nat /\ b \in Nat /\ a < b /\ b < n + 1
                        BY <3>1, <5>1, <5>2
                    <6> HIDE DEF a, b
                    <6>2. a < n
                        BY <6>1
                    <6> HIDE DEF q, D, rank, V
                    <6>3. QED
                        BY <2>3, <5>1, <6>2 DEF a
                <5>4. row[p[1]] \in V
                    OBVIOUS
                <5>5. row[p[1]] \o f[q] \in V
                    BY <5>3, <5>4, ConcatProperties
                <5>6. f[p] = row[p[1]] \o f[q]
                    BY <2>1, <4>2
                <5>7. QED
                    BY <5>5, <5>6
            <4>3. QED
                BY <4>1, <4>2
        <3> HIDE DEF D, V, rank
        <3>2. QED
            BY <3>1
    <2>4. \A n \in Nat : n \in T
        <3> HIDE DEF T
        <3>1. QED
            BY <2>2, <2>3, Induction
    <2> DEFINE p == <<i, 0>>
    <2>5. p \in D
        OBVIOUS
    <2> DEFINE a == rank[p]
    <2>6. a \in Nat
        BY <1>2, <2>5
    <2>7. f[p] \in V
        <3>1. a + 1 \in T
            <4> HIDE DEF a, T
            <4>1. a + 1 \in Nat
                BY <2>6
            <4>2. QED
                BY <2>4, <4>1
        <3> HIDE DEF rank, D, V, p
        <3>2. rank[p] < a + 1
            <4>1. a < a + 1
                <5> HIDE DEF a
                <5>1. QED
                    BY <2>6
            <4>2. QED
                BY <4>1
        <3> HIDE DEF a
        <3>3. QED
            BY <2>5, <3>1, <3>2
    <2> HIDE DEF p
    <2>8. \A j \in 1 .. Len(f[p]) : f[p][j] \in S
        BY <2>7, ElementOfSeq
    <2>9. Flat(f[p])
        BY <2>7, <2>8 DEF Flat
    <2>10. QED
        BY <2>9 DEF p
<1>9. QED
    BY <1>7, <1>8

\* What zquery lists is flat: names and scores.
LEMMA ListedFlat ==
    ASSUME NEW pairs, IsFiniteSet(pairs), NEW s, NEW n, NEW off \in Int, NEW limit
    PROVE  Flat(Listed(pairs, s, n, off, limit))
<1> DEFINE rnk(p) == Cardinality({q \in pairs : Below(q, p)}) + 1
           at(i) == CHOOSE p \in pairs : rnk(p) = i
           from == rnk(<<s, n>>)
           row(i) == Str(at(i)[2], NameSize[at(i)[2]]) \o Dbl(at(i)[1])
           N == Cardinality(pairs)
           S == UNION {{row(i)[1], row(i)[2]} : i \in Nat}
           r == [i \in Nat |-> row(i)]
           rows == CHOOSE f : f = [p \in Nat \X Nat |->
                        IF p[1] > N \/ p[2] >= limit THEN <<>>
                        ELSE row(p[1]) \o f[<<p[1] + 1, p[2] + 2>>]]
<1>1. N \in Nat /\ from \in Nat
    <2>1. N \in Nat
        BY FS_CardinalityType
    <2>2. IsFiniteSet({q \in pairs : Below(q, <<s, n>>)})
        BY FS_Subset
    <2>3. QED
        BY <2>1, <2>2, FS_CardinalityType
<1>2. Listed(pairs, s, n, off, limit) =
        IF from > N \/ from + off < 1 THEN <<>> ELSE rows[<<from + off, 0>>]
    BY DEF Listed
<1>3. ASSUME NEW i \in Nat
      PROVE  row(i) = <<row(i)[1], row(i)[2]>> /\ row(i)[1].tag = "STR" /\ row(i)[2].tag = "DBL"
    <2> DEFINE x == [tag |-> "STR", size |-> 1 + 4 + NameSize[at(i)[2]], val |-> at(i)[2]]
               y == [tag |-> "DBL", size |-> 1 + 8, val |-> at(i)[1]]
    <2>1. row(i) = <<x>> \o <<y>>
        BY DEF Str, Dbl
    <2>2. x.tag = "STR" /\ y.tag = "DBL"
        OBVIOUS
    <2> HIDE DEF x, y
    <2>3. <<x>> \o <<y>> = <<x, y>>
        BY Two
    <2> HIDE DEF row
    <2>4. row(i) = <<x, y>>
        BY <2>1, <2>3
    <2>5. QED
        BY <2>2, <2>4
<1> HIDE DEF row
<1>4. \A c \in S : c.tag # "ARR"
    BY <1>3
<1>5. r \in [Nat -> Seq(S)]
    <2>1. ASSUME NEW i \in Nat PROVE row(i) \in Seq(S)
        <3> DEFINE x == row(i)[1]
                   y == row(i)[2]
        <3>1. x \in S /\ y \in S /\ row(i) = <<x, y>>
            BY <1>3
        <3> HIDE DEF x, y, S
        <3>2. <<x, y>> \in Seq(S)
            BY <3>1
        <3>3. QED
            BY <3>1, <3>2
    <2> HIDE DEF S
    <2>2. QED
        BY <2>1
<1>6. \A f : Rows(N, limit, r, f) = [p \in Nat \X Nat |->
                        IF p[1] > N \/ p[2] >= limit THEN <<>>
                        ELSE row(p[1]) \o f[<<p[1] + 1, p[2] + 2>>]]
    BY DEF Rows
<1> HIDE DEF r, S
<1>7. /\ \E f : f = Rows(N, limit, r, f)
      /\ \A f : f = Rows(N, limit, r, f) => \A i \in Nat : Flat(f[<<i, 0>>])
    <2> HIDE DEF N
    <2>1. QED
        BY <1>1, <1>4, <1>5, RowsFlat
<1>8. rows = Rows(N, limit, r, rows)
    BY <1>6, <1>7
<1> HIDE DEF rows, N, from
<1>9. CASE from > N \/ from + off < 1
    BY <1>2, <1>9, FlatEmpty
<1>10. CASE ~(from > N \/ from + off < 1)
    <2>1. from + off \in Nat
        BY <1>1, <1>10
    <2>2. QED
        BY <1>2, <1>7, <1>8, <1>10, <2>1
<1>11. QED
    BY <1>9, <1>10
------------------------------------------------------------------------------
(* Every reply is understood.                                              *)

\* There are finitely many keys and members.
Finite ==
    /\ IsFiniteSet(Stored)
    /\ \A k \in Keys : IsFiniteSet(PairsOf(db[k]))

\* A command that changes one entry keeps that.
LEMMA OneEntryFinite ==
    ASSUME TypeOK, Finite, NEW k \in Keys, NEW e, IsFiniteSet(PairsOf(e)),
           db' = [db EXCEPT ![k] = e]
    PROVE  Finite'
<1>1. db \in [Keys -> Entries]
    BY TypeByEntry
<1>2. IsFiniteSet(Stored \cup {k})
    BY FS_AddElement DEF Finite
<1>3. Stored' \subseteq Stored \cup {k}
    BY <1>1 DEF Stored, Found
<1>4. IsFiniteSet(Stored')
    BY <1>2, <1>3, FS_Subset
<1>5. ASSUME NEW j \in Keys PROVE IsFiniteSet(PairsOf(db'[j]))
    <2>1. db'[j] = IF j = k THEN e ELSE db[j]
        BY <1>1
    <2>2. QED
        BY <2>1 DEF Finite
<1>6. QED
    BY <1>4, <1>5 DEF Finite

LEMMA NoPairs ==
    /\ PairsOf(NoEntry) = {} /\ PairsOf(NewZSet) = {}
    /\ \A v : PairsOf(NewString(v)) = {}
    BY DEF PairsOf, NoEntry, NewZSet, NewString

\* What zset_add makes of a sorted set, and what zset_pop does.
LEMMA NewPairs ==
    ASSUME NEW e \in Entries, NEW x
    PROVE  PairsOf([e EXCEPT !.set = {x}]) = x
    BY DEF PairsOf, Entries

\* Every command keeps that.
LEMMA FiniteStep ==
    ASSUME TypeOK, Finite, [Next]_vars
    PROVE  Finite'
<1>1. CASE UNCHANGED db
    BY <1>1 DEF Finite, Stored, Found
<1>2. ASSUME NEW k \in Keys, NEW v \in Values, Set(k, v) PROVE Finite'
    <2> DEFINE e == IF Found(k) THEN [db[k] EXCEPT !.val = v] ELSE NewString(v)
    <2>1. db' = [db EXCEPT ![k] = e]
        BY <1>2 DEF Set
    <2>2. db[k] \in Entries
        BY TypeByEntry
    <2>3. PairsOf(e) = PairsOf(db[k]) \/ PairsOf(e) = {}
        BY <2>2, NoPairs DEF PairsOf, Entries
    <2>4. IsFiniteSet(PairsOf(e))
        BY <2>3, FS_EmptySet DEF Finite
    <2>5. QED
        BY <2>1, <2>4, OneEntryFinite
<1>3. ASSUME NEW k \in Keys, Del(k) PROVE Finite'
    BY <1>3, NoPairs, FS_EmptySet, OneEntryFinite DEF Del
<1>4. ASSUME NEW k \in Keys, NEW n \in Names, NEW s \in Texts(Scores), ZAdd(k, s, n)
      PROVE  Finite'
    <2> DEFINE entry == IF Found(k) THEN db[k] ELSE NewZSet
               pairs == Without(entry, n) \cup {<<s, n>>}
    <2>1. CASE UNCHANGED db
        BY <1>1, <2>1
    <2>2. CASE db' = [db EXCEPT ![k] = [entry EXCEPT !.set = {pairs}]]
        <3>1. entry \in Entries
            <4>1. db[k] \in Entries
                BY TypeByEntry
            <4>2. NewZSet \in Entries
                BY CommandsAssumption DEF NewZSet, Entries
            <4>3. QED
                BY <4>1, <4>2
        <3>2. IsFiniteSet(PairsOf(entry))
            BY NoPairs, FS_EmptySet DEF Finite
        <3>3. IsFiniteSet(Without(entry, n))
            <4>1. Without(entry, n) \subseteq PairsOf(entry)
                BY DEF Without
            <4>2. QED
                BY <3>2, <4>1, FS_Subset
        <3>4. IsFiniteSet(pairs)
            BY <3>3, FS_AddElement
        <3> HIDE DEF entry, pairs
        <3>5. PairsOf([entry EXCEPT !.set = {pairs}]) = pairs
            BY <3>1, NewPairs
        <3>6. QED
            BY <2>2, <3>4, <3>5, OneEntryFinite
    <2>3. QED
        BY <1>4, <2>1, <2>2 DEF ZAdd
<1>5. ASSUME NEW k \in Keys, NEW n \in Names, ZRem(k, n) PROVE Finite'
    <2>1. CASE UNCHANGED db
        BY <1>1, <2>1
    <2>2. CASE db' = [db EXCEPT ![k].set = {Without(db[k], n)}]
        <3>1. db \in [Keys -> Entries] /\ db[k] \in Entries
            BY TypeByEntry
        <3>2. IsFiniteSet(Without(db[k], n))
            <4>1. Without(db[k], n) \subseteq PairsOf(db[k])
                BY DEF Without
            <4>2. QED
                BY <4>1, FS_Subset DEF Finite
        <3>3. PairsOf([db[k] EXCEPT !.set = {Without(db[k], n)}]) = Without(db[k], n)
            BY <3>1, NewPairs
        <3>4. db' = [db EXCEPT ![k] = [db[k] EXCEPT !.set = {Without(db[k], n)}]]
            BY <2>2, <3>1
        <3>5. QED
            BY <3>2, <3>3, <3>4, OneEntryFinite
    <2>3. QED
        BY <1>5, <2>1, <2>2 DEF ZRem
<1>6. CASE KeysCommand \/ Unknown
    BY <1>1, <1>6 DEF KeysCommand, Unknown
<1>7. CASE \E k \in Keys : Get(k)
    BY <1>1, <1>7 DEF Get
<1>8. CASE \E k \in Keys, n \in Names : ZCommand(k, n)
    BY <1>1, <1>4, <1>5, <1>8 DEF ZCommand, ZScore, ZQuery
<1>9. CASE UNCHANGED vars
    BY <1>1, <1>9 DEF vars
<1>10. QED
    BY <1>2, <1>3, <1>6, <1>7, <1>8, <1>9 DEF Next

\* What a command makes tryOneRequest pack: one value that is no array, or an
\* array's header and as many values.  "INT" only where it counts.
OutOK(out) == Told(out) /\ out[1].tag \in {"NIL", "ERR", "STR", "DBL", "ARR"}

\* Of these kinds are the errors, nil, the empty array, and flat arrays.
LEMMA OneOut ==
    ASSUME NEW out, NEW tag \in {"NIL", "ERR", "STR", "DBL"}, One(out, tag)
    PROVE  OutOK(out)
    BY OneTold, OneFirst DEF OutOK

LEMMA ErrorOut == \A code : OutOK(Error(code))
    BY OneFacts, OneOut

LEMMA NilOut == OutOK(Nil)
    BY OneFacts, OneOut

LEMMA PackedOut ==
    ASSUME NEW out, OutOK(out)
    PROVE  OutOK(Packed(out))
    BY PackedOr, ErrorOut

LEMMA FlatOut ==
    ASSUME NEW s, Flat(s)
    PROVE  OutOK(Arr(Len(s)) \o s)
<1> DEFINE out == Arr(Len(s)) \o s
<1>1. PICK S : s \in Seq(S)
    BY DEF Flat
<1> DEFINE head == [tag |-> "ARR", size |-> 1 + 4, val |-> Len(s)]
           a == <<head>>
           T == S \cup {head}
<1>2. head.tag = "ARR" /\ Arr(Len(s)) = a
    BY DEF Arr
<1> HIDE DEF head
<1>3. a \in Seq(T) /\ Len(a) = 1 /\ a[1] = head /\ s \in Seq(T) /\ Len(s) \in Nat
    BY <1>1, SeqMonotonic
<1> HIDE DEF T, a
<1>4. \A i \in 1 .. Len(a) + Len(s) :
          (a \o s)[i] = IF i <= Len(a) THEN a[i] ELSE s[i - Len(a)]
    BY <1>3, ConcatProperties
<1>5. (a \o s)[1] = head
    BY <1>3, <1>4
<1>6. QED
    BY <1>2, <1>5, FlatTold DEF OutOK

LEMMA EmptyOut == OutOK(Arr(0))
    BY OneFacts, OneFirst, OneTold DEF OutOK

\* And so are the outputs of the commands that only look.
LEMMA KeysOut ==
    ASSUME Finite, KeysCommand
    PROVE  OutOK(reply')
<1> DEFINE out(order) == Arr(Cardinality(Stored)) \o ElementsOf(order)
<1>1. PICK order \in [1 .. Cardinality(Stored) -> Stored] : Reply(out(order))
    BY DEF KeysCommand, ElementsOf
<1>2. Cardinality(Stored) \in Nat
    BY FS_CardinalityType DEF Finite
<1>3. order \in Seq(Keys) /\ Len(order) = Cardinality(Stored)
    <2> DEFINE N == Cardinality(Stored)
    <2>1. Stored \subseteq Keys
        BY DEF Stored
    <2>2. order \in [1 .. N -> Keys]
        BY <2>1
    <2> HIDE DEF N
    <2>3. order \in Seq(Keys) /\ Len(order) = N
        BY <1>2, <2>2 DEF N
    <2>4. QED
        BY <2>3 DEF N
<1>4. Flat(ElementsOf(order)) /\ Len(ElementsOf(order)) = Cardinality(Stored)
    BY <1>3, ElementsFlat
<1>5. OutOK(out(order))
    BY <1>4, FlatOut
<1>6. QED
    BY <1>1, <1>5, PackedOut DEF Reply

LEMMA GetOut ==
    ASSUME TypeOK, NEW k \in Keys, Get(k)
    PROVE  OutOK(reply')
<1>1. db[k] \in Entries
    BY TypeByEntry
<1>2. ValueSize[db[k].val] \in Nat
    BY <1>1, CommandsAssumption DEF Entries
<1>3. OutOK(Str(db[k].val, ValueSize[db[k].val]))
    BY <1>2, OneFacts, OneOut
<1>4. QED
    BY <1>3, NilOut, PackedOut DEF Get, Reply

LEMMA ZScoreOut ==
    ASSUME NEW k \in Keys, NEW n \in Names, ZScore(k, n)
    PROVE  OutOK(reply')
<1>1. \A v : OutOK(Dbl(v))
    BY OneFacts, OneOut
<1>2. OutOK(Unexpected(k))
    BY ErrorOut, NilOut DEF Unexpected
<1>3. QED
    BY <1>1, <1>2, NilOut, PackedOut DEF ZScore, Reply

LEMMA ZQueryOut ==
    ASSUME Finite, NEW k \in Keys, NEW n \in Names, NEW s, NEW off \in Texts(Offsets), NEW limit,
           ZQuery(k, s, n, off, limit)
    PROVE  OutOK(reply')
<1>1. IsFiniteSet(PairsOf(db[k])) /\ off \in Int
    BY CommandsAssumption DEF Finite, Texts
<1> DEFINE listed == Listed(PairsOf(db[k]), s, n, off, limit)
<1>2. OutOK(Headed(listed))
    BY <1>1, ListedFlat, FlatOut DEF Headed
<1> HIDE DEF listed
<1> DEFINE out == IF NotANumber \in {s, off, limit} THEN Error("ARG")
                  ELSE IF ~Found(k) THEN Arr(0)
                  ELSE IF ~IsZSet(k) THEN Error("TYPE")
                  ELSE IF limit <= 0 THEN Arr(0)
                  ELSE Headed(listed)
<1>3. OutOK(out)
    BY <1>2, ErrorOut, EmptyOut
<1>4. reply' = Packed(out)
    BY DEF ZQuery, Reply, listed
<1> HIDE DEF out
<1>5. QED
    BY <1>3, <1>4, PackedOut

\* A command that leaves the key space alone.
Quiet == UNCHANGED db /\ OutOK(reply')

\* A command that answers with how many keys or members came or went.
Counts(n) == n \in {0, 1} /\ reply' = Num(n)

\* zadd and zrem either do nothing and answer so, or count.
LEMMA ZAddKinds ==
    ASSUME NEW k \in Keys, NEW s, NEW n, ZAdd(k, s, n)
    PROVE  \/ Quiet
           \/ \E m : Counts(m)
<1>1. ASSUME NEW code, Reply(Error(code)), UNCHANGED db PROVE Quiet
    BY <1>1, ErrorOut, PackedOut DEF Quiet, Reply
<1>2. ASSUME NEW m \in {0, 1}, Reply(Num(m)) PROVE Counts(m)
    BY <1>2, SmallReply DEF Reply, Counts
<1>3. QED
    BY <1>1, <1>2 DEF ZAdd

LEMMA ZRemKinds ==
    ASSUME NEW k \in Keys, NEW n, ZRem(k, n)
    PROVE  \/ Quiet
           \/ \E m : Counts(m)
<1>1. ASSUME Reply(Unexpected(k)), UNCHANGED db PROVE Quiet
    BY <1>1, ErrorOut, NilOut, PackedOut DEF Quiet, Reply, Unexpected
<1>2. ASSUME NEW m \in {0, 1}, Reply(Num(m)) PROVE Counts(m)
    BY <1>2, SmallReply DEF Reply, Counts
<1>3. QED
    BY <1>1, <1>2 DEF ZRem

\* The commands but set, del, zadd and zrem change nothing.
LEMMA Steps ==
    ASSUME TypeOK, Finite, Next
    PROVE  \/ Quiet
           \/ \E k \in Keys, v \in Values : Set(k, v)
           \/ \E k \in Keys : Del(k)
           \/ \E k \in Keys, n \in Names, s \in Texts(Scores) : ZAdd(k, s, n)
           \/ \E k \in Keys, n \in Names : ZRem(k, n)
<1>1. ASSUME KeysCommand PROVE Quiet
    BY <1>1, KeysOut DEF Quiet, KeysCommand
<1>2. ASSUME Unknown PROVE Quiet
    BY <1>2, ErrorOut, PackedOut DEF Quiet, Unknown, Reply
<1>3. ASSUME NEW k \in Keys, Get(k) PROVE Quiet
    BY <1>3, GetOut DEF Quiet, Get
<1>4. ASSUME NEW k \in Keys, NEW n \in Names, ZScore(k, n) PROVE Quiet
    BY <1>4, ZScoreOut DEF Quiet, ZScore
<1>5. ASSUME NEW k \in Keys, NEW n \in Names, NEW s, NEW off \in Texts(Offsets), NEW limit,
             ZQuery(k, s, n, off, limit)
      PROVE  Quiet
    BY <1>5, ZQueryOut DEF Quiet, ZQuery
<1>6. QED
    BY <1>1, <1>2, <1>3, <1>4, <1>5 DEF Next, ZCommand

\* Each step leaves a reply that is understood.
LEMMA ReplyStep ==
    ASSUME TypeOK, Finite, Told(reply), [Next]_vars
    PROVE  Told(reply')
<1>1. CASE UNCHANGED vars
    BY <1>1 DEF vars
<1>2. ASSUME Quiet PROVE Told(reply')
    BY <1>2 DEF Quiet, OutOK
<1>3. ASSUME NEW m, Counts(m) PROVE Told(reply')
    BY <1>3, OneFacts, OneTold DEF Counts
<1>4. ASSUME NEW k, NEW v, Set(k, v) PROVE Told(reply')
    BY <1>4, NilOut, PackedOut DEF Set, Reply, OutOK
<1>5. ASSUME NEW k, Del(k) PROVE Told(reply')
    <2>1. \E m : Counts(m)
        BY <1>5, SmallReply DEF Del, Reply, Counts
    <2>2. QED
        BY <1>3, <2>1
<1>6. CASE Next
    BY <1>2, <1>3, <1>4, <1>5, <1>6, Steps, ZAddKinds, ZRemKinds
<1>7. QED
    BY <1>1, <1>6

LEMMA InitFinite == Init => Finite /\ Told(reply)
<1> SUFFICES ASSUME Init PROVE Finite /\ Told(reply)
    OBVIOUS
<1>1. Stored = {} /\ \A k \in Keys : PairsOf(db[k]) = {}
    BY NoPairs DEF Init, Stored, Found
<1>2. Told(reply)
    BY NilOut DEF Init, OutOK
<1>3. QED
    BY <1>1, <1>2, FS_EmptySet DEF Finite

\* In every reachable state there are finitely many keys and members, and the
\* reply is one value or an array of the announced length.
THEOREM FiniteAndTold == Spec => [](Finite /\ Told(reply))
<1>1. TypeOK /\ (Finite /\ Told(reply)) /\ [Next]_vars => (Finite /\ Told(reply))'
    BY FiniteStep, ReplyStep
<1>2. QED
    BY <1>1, InitFinite, TypeCorrect, PTL DEF Spec

\* The client understands every reply: an array's header announces as many
\* values as follow, whatever the key space holds and whether the output
\* fits (keys, zquery, tryOneRequest, deserialize).
THEOREM RepliesUnderstood == Spec => []ReplyUnderstood
<1>1. Told(reply) => ReplyUnderstood
    BY AnnouncedUnderstood DEF Told, ReplyUnderstood
<1>2. QED
    BY <1>1, FiniteAndTold, PTL
------------------------------------------------------------------------------
(* What can be stored can be read.                                         *)

\* The size of a request of one argument and of two.
LEMMA FitsTwo ==
    ASSUME NEW a \in Nat, NEW b \in Nat, NEW word \in Nat, Fits(word, <<a, b>>)
    PROVE  16 + word + a + b <= MaxMessageSize
<1> DEFINE args == <<a, b>>
           D(sum) == [i \in 0 .. Len(args) |->
                        IF i = 0 THEN 4 + (4 + word) ELSE sum[i - 1] + 4 + args[i]]
           f == [i \in 0 .. 2 |-> IF i = 0 THEN 8 + word
                                  ELSE IF i = 1 THEN 12 + word + a ELSE 16 + word + a + b]
           g == CHOOSE sum : sum = D(sum)
<1>1. Len(args) = 2 /\ args[1] = a /\ args[2] = b
    OBVIOUS
<1>2. g[Len(args)] <= MaxMessageSize
    BY DEF Fits
<1> HIDE DEF args
<1>3. f = D(f)
    <2>1. ASSUME NEW i \in 0 .. 2 PROVE f[i] = D(f)[i]
        BY <1>1
    <2>2. QED
        BY <1>1, <2>1
<1>4. g = D(g)
    BY <1>3
<1> HIDE DEF g
<1>5. g[0] = 8 + word /\ g[1] = g[0] + 4 + a /\ g[2] = g[1] + 4 + b
    BY <1>1, <1>4
<1>6. QED
    BY <1>1, <1>2, <1>5

\* A value that any reply has room for.
Short(v) == HeaderSize + Bytes(Str(v, ValueSize[v])) <= MaxMessageSize

ValuesShort == \A k \in Keys : Short(db[k].val)

\* In numbers.
LEMMA ShortSize ==
    ASSUME NEW v \in Values
    PROVE  Short(v) <=> 9 + ValueSize[v] <= MaxMessageSize
<1>1. ValueSize[v] \in Nat
    BY CommandsAssumption
<1>2. Bytes(Str(v, ValueSize[v])) = 5 + ValueSize[v]
    BY <1>1, OneFacts
<1>3. QED
    BY <1>1, <1>2, Sizes DEF Short

LEMMA EmptyShort == Short("")
<1>1. "" \in Values /\ ValueSize[""] = 0
    BY CommandsAssumption
<1>2. 9 + 0 <= MaxMessageSize
    BY Sizes
<1>3. QED
    BY <1>1, <1>2, ShortSize

\* Every command keeps the values short.
LEMMA ShortStep ==
    ASSUME TypeOK, Finite, ValuesShort, [Next]_vars
    PROVE  ValuesShort'
<1>1. db \in [Keys -> Entries]
    BY TypeByEntry
<1>2. CASE UNCHANGED db
    BY <1>2 DEF ValuesShort, Short
<1>3. ASSUME NEW k \in Keys, NEW e, Short(e.val), db' = [db EXCEPT ![k] = e]
      PROVE  ValuesShort'
    BY <1>1, <1>3 DEF ValuesShort, Short
<1>4. ASSUME NEW k \in Keys, NEW v \in Values, Set(k, v) PROVE ValuesShort'
    <2> DEFINE e == IF Found(k) THEN [db[k] EXCEPT !.val = v] ELSE NewString(v)
    <2>1. db' = [db EXCEPT ![k] = e] /\ Fits(3, <<KeySize[k], ValueSize[v]>>)
        BY <1>4 DEF Set
    <2>2. KeySize[k] \in Nat /\ ValueSize[v] \in Nat
        BY CommandsAssumption
    <2>3. 16 + 3 + KeySize[k] + ValueSize[v] <= MaxMessageSize
        BY <2>1, <2>2, FitsTwo
    <2>4. 9 + ValueSize[v] <= MaxMessageSize
        BY <2>2, <2>3, Sizes
    <2>5. e.val = v
        BY <1>1 DEF NewString, Entries
    <2>6. Short(e.val)
        BY <2>4, <2>5, ShortSize
    <2>7. QED
        BY <1>3, <2>1, <2>6
<1>5. ASSUME NEW k \in Keys, Del(k) PROVE ValuesShort'
    <2>1. Short(NoEntry.val)
        BY EmptyShort DEF NoEntry
    <2>2. QED
        BY <1>3, <1>5, <2>1 DEF Del
<1>6. ASSUME NEW k \in Keys, NEW n \in Names, NEW s \in Texts(Scores), ZAdd(k, s, n)
      PROVE  ValuesShort'
    <2> DEFINE entry == IF Found(k) THEN db[k] ELSE NewZSet
               e == [entry EXCEPT !.set = {Without(entry, n) \cup {<<s, n>>}}]
    <2>1. UNCHANGED db \/ db' = [db EXCEPT ![k] = e]
        BY <1>6 DEF ZAdd
    <2>2. e.val = entry.val
        BY <1>1 DEF NewZSet, Entries
    <2>3. Short(entry.val)
        BY EmptyShort DEF ValuesShort, NewZSet
    <2>4. QED
        BY <1>2, <1>3, <2>1, <2>2, <2>3
<1>7. ASSUME NEW k \in Keys, NEW n \in Names, ZRem(k, n) PROVE ValuesShort'
    <2> DEFINE e == [db[k] EXCEPT !.set = {Without(db[k], n)}]
    <2>1. UNCHANGED db \/ db' = [db EXCEPT ![k] = e]
        BY <1>1, <1>7 DEF ZRem
    <2>2. e.val = db[k].val
        BY <1>1 DEF Entries
    <2>3. QED
        BY <1>2, <1>3, <2>1, <2>2 DEF ValuesShort
<1>8. CASE UNCHANGED vars
    BY <1>2, <1>8 DEF vars
<1>9. QED
    BY <1>2, <1>4, <1>5, <1>6, <1>7, <1>8, Steps DEF Quiet

\* What a client could store in a key, it can get: the value of a set that
\* fits a request makes a get that fits a reply (tryOneRequest).
THEOREM ValuesRetrievable == Spec => []Retrievable
<1>1. Init => ValuesShort
    <2>1. Short(NoEntry.val)
        BY EmptyShort DEF NoEntry
    <2>2. QED
        BY <2>1 DEF Init, ValuesShort
<1>2. TypeOK /\ Finite /\ ValuesShort /\ [Next]_vars => ValuesShort'
    BY ShortStep
<1>3. ValuesShort => Retrievable
    BY DEF ValuesShort, Short, Retrievable, Stored
<1>4. QED
    BY <1>1, <1>2, <1>3, TypeCorrect, FiniteAndTold, PTL DEF Spec
------------------------------------------------------------------------------
(* A reply tells what happened.                                            *)

NamesIn(e) == {p[2] : p \in PairsOf(e)}

\* The keys and members of a key space.
ItemsOf(d) == {<<k>> : k \in {j \in Keys : d[j] # NoEntry}}
                \cup UNION {{<<k, n>> : n \in NamesIn(d[k])} : k \in Keys}

\* Items is that of the key space before and after a step.
LEMMA ItemsAre == Items = ItemsOf(db) /\ Items' = ItemsOf(db')
    BY DEF Items, ItemsOf, NamesIn, Stored, Found

\* Two key spaces of the same keys and names have the same items.
LEMMA SameItems ==
    ASSUME NEW c, NEW d,
           \A k \in Keys : (c[k] # NoEntry <=> d[k] # NoEntry) /\ NamesIn(c[k]) = NamesIn(d[k])
    PROVE  ItemsOf(c) = ItemsOf(d)
    BY DEF ItemsOf

\* A key is an item if it has an entry, and a name if its entry has it.
LEMMA KeyItem ==
    ASSUME NEW d, NEW k \in Keys
    PROVE  <<k>> \in ItemsOf(d) <=> d[k] # NoEntry
<1>1. \A j, n : <<k>> # <<j, n>>
    <2>1. ASSUME NEW j, NEW n PROVE <<k>> # <<j, n>>
        <3>1. Len(<<k>>) = 1 /\ Len(<<j, n>>) = 2
            OBVIOUS
        <3>2. QED
            BY <3>1
    <2>2. QED
        BY <2>1
<1>2. QED
    BY <1>1 DEF ItemsOf

LEMMA MemberItem ==
    ASSUME NEW d, NEW k \in Keys, NEW n
    PROVE  <<k, n>> \in ItemsOf(d) <=> n \in NamesIn(d[k])
<1>1. \A j : <<k, n>> # <<j>>
    <2>1. ASSUME NEW j PROVE <<k, n>> # <<j>>
        <3>1. Len(<<j>>) = 1 /\ Len(<<k, n>>) = 2
            OBVIOUS
        <3>2. QED
            BY <3>1
    <2>2. QED
        BY <2>1
<1>2. QED
    BY <1>1 DEF ItemsOf

\* What the reply must tell of a step.
Tells ==
    LET answer == reply'[1]
    IN  /\ answer.tag \in {"ERR", "STR", "DBL", "ARR"} => UNCHANGED db
        /\ answer.tag = "INT" => (answer.val = 0 <=> Items' = Items)

\* How each kind of step tells.
LEMMA CountTells ==
    ASSUME NEW n, Counts(n), n = 0 <=> Items' = Items
    PROVE  Tells
<1>1. One(Num(n), "INT") /\ Num(n)[1].val = n
    BY OneFacts
<1>2. reply'[1].tag = "INT" /\ reply'[1].val = n
    BY <1>1, OneFirst DEF Counts
<1>3. QED
    BY <1>2 DEF Tells

LEMMA QuietTells ==
    ASSUME Quiet
    PROVE  Tells
    BY DEF Quiet, Tells, OutOK

LEMMA SetTells ==
    ASSUME NEW k, NEW v, Set(k, v)
    PROVE  Tells
<1>1. reply' = Nil
    BY SmallReply DEF Set, Reply
<1>2. reply'[1].tag = "NIL"
    BY <1>1, OneFacts, OneFirst
<1>3. QED
    BY <1>2 DEF Tells

LEMMA DelTells ==
    ASSUME TypeOK, NEW k \in Keys, Del(k)
    PROVE  Tells
<1>1. db \in [Keys -> Entries] /\ db' = [db EXCEPT ![k] = NoEntry]
    BY TypeByEntry DEF Del
<1>2. CASE Found(k)
    <2>1. Counts(1)
        BY <1>2, SmallReply DEF Del, Reply, Counts
    <2>2. db[k] # NoEntry /\ db'[k] = NoEntry
        BY <1>1, <1>2 DEF Found
    <2>3. <<k>> \in ItemsOf(db) /\ <<k>> \notin ItemsOf(db')
        BY <2>2, KeyItem
    <2>4. QED
        BY <2>1, <2>3, ItemsAre, CountTells
<1>3. CASE ~Found(k)
    <2>1. Counts(0)
        BY <1>3, SmallReply DEF Del, Reply, Counts
    <2>2. db' = db
        BY <1>1, <1>3 DEF Found
    <2>3. QED
        BY <2>1, <2>2, ItemsAre, CountTells
<1>4. QED
    BY <1>2, <1>3

\* A sorted set that stays one, where a name was put in or taken out.
LEMMA SetItems ==
    ASSUME TypeOK, NEW k \in Keys, NEW e, db' = [db EXCEPT ![k] = e],
           Found(k), e # NoEntry
    PROVE  Items' = Items <=> NamesIn(e) = NamesIn(db[k])
<1>1. db \in [Keys -> Entries]
    BY TypeByEntry
<1>2. \A j \in Keys : db'[j] = IF j = k THEN e ELSE db[j]
    BY <1>1
<1>3. NamesIn(e) = NamesIn(db[k]) => ItemsOf(db') = ItemsOf(db)
    BY <1>2, SameItems DEF Found
<1>4. ASSUME NEW n, n \in NamesIn(e) <=> n \notin NamesIn(db[k])
      PROVE  ItemsOf(db') # ItemsOf(db)
    BY <1>2, <1>4, MemberItem
<1>5. QED
    BY <1>3, <1>4, ItemsAre
LEMMA ZAddTells ==
    ASSUME TypeOK, NEW k \in Keys, NEW s \in Texts(Scores), NEW n \in Names, ZAdd(k, s, n)
    PROVE  Tells
<1> DEFINE entry == IF Found(k) THEN db[k] ELSE NewZSet
           pairs == Without(entry, n) \cup {<<s, n>>}
           e == [entry EXCEPT !.set = {pairs}]
<1>1. CASE Quiet
    BY <1>1, QuietTells
<1>2. CASE ~Quiet
    <2>1. db' = [db EXCEPT ![k] = e] /\ Counts(IF Has(entry, n) THEN 0 ELSE 1)
        <3>1. ASSUME NEW code, Reply(Error(code)), UNCHANGED db PROVE Quiet
            BY <3>1, ErrorOut, PackedOut DEF Quiet, Reply
        <3>2. ASSUME NEW m \in {0, 1}, Reply(Num(m)) PROVE Counts(m)
            BY <3>2, SmallReply DEF Reply, Counts
        <3>3. QED
            BY <1>2, <3>1, <3>2 DEF ZAdd
    <2>2. db[k] \in Entries /\ NewZSet \in Entries
        BY TypeByEntry, CommandsAssumption DEF NewZSet, Entries
    <2>3. entry \in Entries
        BY <2>2
    <2>4. PairsOf(e) = pairs
        BY <2>3, NewPairs
    <2>5. e # NoEntry
        <3>1. e.set = {pairs}
            BY <2>3 DEF Entries
        <3>2. NoEntry.set = {}
            BY DEF NoEntry
        <3>3. QED
            BY <3>1, <3>2
    <2>6. NamesIn(e) = NamesIn(entry) \cup {n}
        <3>1. NamesIn(e) = {p[2] : p \in pairs}
            BY <2>4 DEF NamesIn
        <3>2. {p[2] : p \in Without(entry, n)} = NamesIn(entry) \ {n}
            BY DEF Without, NamesIn
        <3>3. {p[2] : p \in pairs} = {p[2] : p \in Without(entry, n)} \cup {n}
            <4> DEFINE A == Without(entry, n)
                       x == <<s, n>>
            <4>1. x[2] = n
                OBVIOUS
            <4> HIDE DEF A, x
            <4>2. {p[2] : p \in A \cup {x}} = {p[2] : p \in A} \cup {n}
                BY <4>1
            <4>3. QED
                BY <4>2 DEF A, x
        <3> HIDE DEF pairs
        <3>4. QED
            BY <3>1, <3>2, <3>3
    <2>7. Has(entry, n) <=> n \in NamesIn(entry)
        BY DEF Has, NamesIn
    <2> HIDE DEF e
    <2>8. CASE Found(k)
        <3>1. Items' = Items <=> NamesIn(e) = NamesIn(db[k])
            BY <2>1, <2>5, <2>8, SetItems
        <3>2. Items' = Items <=> Has(entry, n)
            BY <2>6, <2>7, <2>8, <3>1
        <3>3. QED
            BY <2>1, <3>2, CountTells
    <2>9. CASE ~Found(k)
        <3>1. db'[k] = e
            <4>1. db \in [Keys -> Entries]
                BY TypeByEntry
            <4>2. QED
                BY <2>1, <4>1
        <3>2. <<k>> \notin ItemsOf(db) /\ <<k>> \in ItemsOf(db')
            BY <2>5, <2>9, <3>1, KeyItem DEF Found
        <3>3. ~Has(entry, n)
            BY <2>9, NoPairs DEF Has
        <3>4. Counts(1)
            BY <2>1, <3>3
        <3>5. Items' # Items
            BY <3>2, ItemsAre
        <3>6. QED
            BY <3>4, <3>5, CountTells
    <2>10. QED
        BY <2>8, <2>9
<1>3. QED
    BY <1>1, <1>2

LEMMA ZRemTells ==
    ASSUME TypeOK, NEW k \in Keys, NEW n \in Names, ZRem(k, n)
    PROVE  Tells
<1> DEFINE pairs == Without(db[k], n)
           e == [db[k] EXCEPT !.set = {pairs}]
<1>1. CASE Quiet
    BY <1>1, QuietTells
<1>2. CASE ~Quiet
    <2>1. db \in [Keys -> Entries]
        BY TypeByEntry
    <2>2. /\ IsZSet(k) /\ db' = [db EXCEPT ![k].set = {pairs}]
          /\ Counts(IF Has(db[k], n) THEN 1 ELSE 0)
        <3>1. ASSUME Reply(Unexpected(k)), UNCHANGED db PROVE Quiet
            BY <3>1, ErrorOut, NilOut, PackedOut DEF Quiet, Reply, Unexpected
        <3>2. ASSUME NEW m \in {0, 1}, Reply(Num(m)) PROVE Counts(m)
            BY <3>2, SmallReply DEF Reply, Counts
        <3>3. QED
            BY <1>2, <3>1, <3>2 DEF ZRem
    <2>3. db' = [db EXCEPT ![k] = e]
        BY <2>1, <2>2
    <2>4. db[k] \in Entries
        BY <2>1
    <2>5. PairsOf(e) = pairs
        BY <2>4, NewPairs
    <2>6. e # NoEntry
        <3>1. e.set = {pairs}
            BY <2>4 DEF Entries
        <3>2. NoEntry.set = {}
            BY DEF NoEntry
        <3>3. QED
            BY <3>1, <3>2
    <2>7. Found(k)
        <3>1. NoEntry.type = "NONE"
            BY DEF NoEntry
        <3>2. QED
            BY <2>2, <3>1 DEF IsZSet, Found
    <2>8. NamesIn(e) = NamesIn(db[k]) \ {n}
        <3>1. NamesIn(e) = {p[2] : p \in pairs}
            BY <2>5 DEF NamesIn
        <3>2. {p[2] : p \in pairs} = NamesIn(db[k]) \ {n}
            BY DEF Without, NamesIn
        <3>3. QED
            BY <3>1, <3>2
    <2>9. Has(db[k], n) <=> n \in NamesIn(db[k])
        BY DEF Has, NamesIn
    <2> HIDE DEF e
    <2>10. Items' = Items <=> NamesIn(e) = NamesIn(db[k])
        BY <2>3, <2>6, <2>7, SetItems
    <2>11. Items' = Items <=> ~Has(db[k], n)
        BY <2>8, <2>9, <2>10
    <2>12. QED
        BY <2>2, <2>11, CountTells
<1>3. QED
    BY <1>1, <1>2

\* The reply tells what happened: an error means that nothing did, 0 that
\* no key and no member came or went, and 1 that one did (del, zadd, zrem).
THEOREM RepliesTell == Spec => ReplyTells
<1>1. TypeOK /\ Finite /\ [Next]_vars => [Tells]_vars
    <2> SUFFICES ASSUME TypeOK, Finite, [Next]_vars, ~UNCHANGED vars
                 PROVE  Tells
        OBVIOUS
    <2>1. Next
        OBVIOUS
    <2>2. QED
        BY <2>1, Steps, QuietTells, SetTells, DelTells, ZAddTells, ZRemTells
<1>2. Spec => [][Tells]_vars
    BY <1>1, TypeCorrect, FiniteAndTold, PTL DEF Spec
<1>3. QED
    BY <1>2 DEF ReplyTells, Tells
==============================================================================
