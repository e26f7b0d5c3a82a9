------------------------------ MODULE Commands ------------------------------
(***************************************************************************)
(* The eight commands of common/req.cxx on the key space, and the reply    *)
(* tryOneRequest makes of their output.  The server is one thread, so that *)
(* a command is one step.                                                  *)
(*                                                                         *)
(* The key space is a function of its keys, which HashMap implements (see  *)
(* Dictionary), and a sorted set its set of pairs, which ZSet implements   *)
(* (see Ranking).  What limits a reply is its size, so that texts have     *)
(* sizes.  Names of members are numbers in their order; a text that should *)
(* be a number and is not is NotANumber.                                   *)
(***************************************************************************)
EXTENDS Replies, FiniteSets

CONSTANTS
    Keys, Values, Names,              \* texts; "" is one of the values
    KeySize, ValueSize, NameSize,     \* their sizes in bytes
    NumberSize,                       \* the size of a number as text
    ErrorSize,                        \* the size of an error's text
    Scores, Offsets, Limits,          \* the numbers clients send
    NotANumber,
    HeaderSize, MaxMessageSize        \* as in Connection

ASSUME CommandsAssumption ==
    /\ KeySize \in [Keys -> Nat] /\ ValueSize \in [Values -> Nat]
    /\ NameSize \in [Names -> Nat] /\ NumberSize \in Nat
    /\ "" \in Values /\ ValueSize[""] = 0
    /\ Names \subseteq Int
    /\ Scores \cup Offsets \cup Limits \subseteq Int
    /\ NotANumber \in Int \ (Scores \cup Offsets \cup Limits)
    /\ HeaderSize = 4 /\ ErrorSize \in Nat /\ MaxMessageSize \in Nat
    /\ HeaderSize + (1 + 8 + ErrorSize) <= MaxMessageSize

VARIABLES
    db,      \* Request::commandMap: an entry for each key
    reply    \* the last reply to leave tryOneRequest

vars == <<db, reply>>

\* A unique_ptr is the set of what it owns.
NoEntry == [type |-> "NONE", val |-> "", set |-> {}]
NewString(v) == [type |-> "STR", val |-> v, set |-> {}]
NewZSet == [type |-> "ZSET", val |-> "", set |-> {{}}]

Found(k) == db[k] # NoEntry
Stored == {k \in Keys : Found(k)}
PairsOf(entry) == UNION entry.set
Has(entry, n) == \E p \in PairsOf(entry) : p[2] = n
Without(entry, n) == {p \in PairsOf(entry) : p[2] # n}

Below(p, q) == p[1] < q[1] \/ (p[1] = q[1] /\ p[2] < q[2])

\* Mutant: a request is not measured.
FitsAlways(word, args) == TRUE

\* A request of this word and arguments is not too long for tryOneRequest.
Fits(word, args) ==
    LET sum[i \in 0 .. Len(args)] ==
            IF i = 0 THEN 4 + (4 + word) ELSE sum[i - 1] + 4 + args[i]
    IN  sum[Len(args)] <= MaxMessageSize

Error(code) == Err(code, ErrorSize)

\* The reply that tryOneRequest packs.
Packed(out) ==
    IF HeaderSize + Bytes(out) > MaxMessageSize THEN Error("TOO_BIG") ELSE out

Reply(out) == reply' = Packed(out)

\* What expectZSet writes where it finds no sorted set.
Unexpected(k) == IF Found(k) THEN Error("TYPE") ELSE Nil
IsZSet(k) == db[k].type = "ZSET"

Init == db = [k \in Keys |-> NoEntry] /\ reply = Nil
------------------------------------------------------------------------------
\* The order is that of the slots and chains of the map.
KeysCommand ==
    /\ \E order \in [1 .. Cardinality(Stored) -> Stored] :
          LET elements[i \in 0 .. Len(order)] ==
                IF i = 0 THEN <<>>
                ELSE elements[i - 1] \o Str(order[i], KeySize[order[i]])
          IN  /\ {order[i] : i \in DOMAIN order} = Stored
              /\ Reply(Arr(Cardinality(Stored)) \o elements[Len(order)])
    /\ UNCHANGED db

\* Whatever the type of the entry: that of a sorted set is "" until set.
Get(k) ==
    /\ Fits(3, <<KeySize[k]>>)
    /\ Reply(IF Found(k) THEN Str(db[k].val, ValueSize[db[k].val]) ELSE Nil)
    /\ UNCHANGED db

\* Mutant: the entry becomes a string without giving up its sorted set.
SetRetyping(k, v) ==
    /\ Fits(3, <<KeySize[k], ValueSize[v]>>)
    /\ db' = [db EXCEPT ![k] = [@ EXCEPT !.val = v, !.type = "STR"]]
    /\ Reply(Nil)

\* An entry that is there keeps its type, and its sorted set if it has one.
Set(k, v) ==
    /\ Fits(3, <<KeySize[k], ValueSize[v]>>)
    /\ db' = [db EXCEPT ![k] = IF Found(k) THEN [@ EXCEPT !.val = v] ELSE NewString(v)]
    /\ Reply(Nil)

Del(k) ==
    /\ Fits(3, <<KeySize[k]>>)
    /\ db' = [db EXCEPT ![k] = NoEntry]
    /\ Reply(Num(IF Found(k) THEN 1 ELSE 0))

\* Mutant: the key is created before the score is looked at.
ZAddCreates(k, s, n) ==
    /\ Fits(4, <<KeySize[k], NumberSize, NameSize[n]>>)
    /\ LET entry == IF Found(k) THEN db[k] ELSE NewZSet
       IN  IF s = NotANumber
           THEN db' = [db EXCEPT ![k] = entry] /\ Reply(Error("ARG"))
           ELSE IF entry.type # "ZSET" THEN Reply(Error("TYPE")) /\ UNCHANGED db
           ELSE /\ db' = [db EXCEPT ![k] =
                            [entry EXCEPT !.set = {Without(entry, n) \cup {<<s, n>>}}]]
                /\ Reply(Num(IF Has(entry, n) THEN 0 ELSE 1))

ZAdd(k, s, n) ==
    /\ Fits(4, <<KeySize[k], NumberSize, NameSize[n]>>)
    /\ LET entry == IF Found(k) THEN db[k] ELSE NewZSet
       IN  \/ s = NotANumber /\ Reply(Error("ARG")) /\ UNCHANGED db
           \/ s # NotANumber /\ entry.type # "ZSET" /\ Reply(Error("TYPE")) /\ UNCHANGED db
           \/ /\ s # NotANumber /\ entry.type = "ZSET"
              /\ db' = [db EXCEPT ![k] =
                          [entry EXCEPT !.set = {Without(entry, n) \cup {<<s, n>>}}]]
              /\ Reply(Num(IF Has(entry, n) THEN 0 ELSE 1))

ZRem(k, n) ==
    /\ Fits(4, <<KeySize[k], NameSize[n]>>)
    /\ \/ ~IsZSet(k) /\ Reply(Unexpected(k)) /\ UNCHANGED db
       \/ /\ IsZSet(k)
          /\ db' = [db EXCEPT ![k].set = {Without(db[k], n)}]
          /\ Reply(Num(IF Has(db[k], n) THEN 1 ELSE 0))

ZScore(k, n) ==
    /\ Fits(6, <<KeySize[k], NameSize[n]>>)
    /\ Reply(IF ~IsZSet(k) THEN Unexpected(k)
             ELSE IF Has(db[k], n)
             THEN Dbl((CHOOSE p \in PairsOf(db[k]) : p[2] = n)[1])
             ELSE Nil)
    /\ UNCHANGED db

\* The members that ZSet's ZQuery lists, as zquery writes them.
Listed(pairs, s, n, off, limit) ==
    LET rank(p) == Cardinality({q \in pairs : Below(q, p)}) + 1
        at(i) == CHOOSE p \in pairs : rank(p) = i
        from == rank(<<s, n>>)
        row(i) == Str(at(i)[2], NameSize[at(i)[2]]) \o Dbl(at(i)[1])
        rows[p \in Nat \X Nat] ==   \* from rank p[1], when p[2] elements are written
            IF p[1] > Cardinality(pairs) \/ p[2] >= limit THEN <<>>
            ELSE row(p[1]) \o rows[<<p[1] + 1, p[2] + 2>>]
    IN  IF from > Cardinality(pairs) \/ from + off < 1 THEN <<>>
        ELSE rows[<<from + off, 0>>]

\* Mutant: the header counts members, not names and scores.
HeadedByMembers(listed) == Arr(Len(listed) \div 2) \o listed

\* The elements between begin_arr and end_arr, with their number in front.
Headed(listed) == Arr(Len(listed)) \o listed

ZQuery(k, s, n, off, limit) ==
    /\ Fits(6, <<KeySize[k], NumberSize, NameSize[n], NumberSize, NumberSize>>)
    /\ Reply(IF NotANumber \in {s, off, limit} THEN Error("ARG")
             ELSE IF ~Found(k) THEN Arr(0)
             ELSE IF ~IsZSet(k) THEN Error("TYPE")
             ELSE IF limit <= 0 THEN Arr(0)
             ELSE Headed(Listed(PairsOf(db[k]), s, n, off, limit)))
    /\ UNCHANGED db

Unknown == Reply(Error("UNKNOWN")) /\ UNCHANGED db
------------------------------------------------------------------------------
Texts(S) == S \cup {NotANumber}

ZCommand(k, n) ==
    \/ ZRem(k, n)
    \/ ZScore(k, n)
    \/ \E s \in Texts(Scores) :
          \/ ZAdd(k, s, n)
          \/ \E off \in Texts(Offsets), limit \in Texts(Limits) :
                ZQuery(k, s, n, off, limit)

Next ==
    \/ KeysCommand
    \/ Unknown
    \/ \E k \in Keys :
          \/ Get(k) \/ Del(k)
          \/ \E v \in Values : Set(k, v)
          \/ \E n \in Names : ZCommand(k, n)

Spec == Init /\ [][Next]_vars
------------------------------------------------------------------------------
\* An entry owns a sorted set exactly when its type says so: the commands
\* that check the type dereference entry->set.
TypeOK ==
    /\ db \in [Keys -> [type : {"NONE", "STR", "ZSET"}, val : Values,
                        set : SUBSET SUBSET (Scores \X Names)]]
    /\ \A k \in Keys : IF IsZSet(k) THEN Cardinality(db[k].set) = 1
                                    ELSE db[k].set = {}
    /\ \A k \in Keys : db[k].type = "NONE" => ~Found(k)

\* The client understands every reply: array headers announce as many
\* values as follow (keys, zquery), also where the output was too big.
ReplyUnderstood == Understood(reply)

\* The keys, and the members of each.
Items == {<<k>> : k \in Stored}
           \cup UNION {{<<k, p[2]>> : p \in PairsOf(db[k])} : k \in Keys}

\* The reply tells what happened.  An error, of arguments, of types or
\* because the output did not fit, means that nothing did; 0 that no key and
\* no member came or went, and 1 that one did.
ReplyTells ==
    [][LET answer == reply'[1]
       IN  /\ answer.tag \in {"ERR", "STR", "DBL", "ARR"} => UNCHANGED db
           /\ answer.tag = "INT" => (answer.val = 0 <=> Items' = Items)]_vars

\* What a client could store in a key, it can get: the value of a request
\* that fits makes a reply that fits.
Retrievable ==
    \A k \in Stored : HeaderSize + Bytes(Str(db[k].val, ValueSize[db[k].val]))
                        <= MaxMessageSize
=============================================================================
