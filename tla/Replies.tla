------------------------------ MODULE Replies ------------------------------
(***************************************************************************)
(* Replies: what the functions of common/serialize.cxx append for the      *)
(* server, and how deserialize() of client/client.cxx takes it apart.      *)
(* A reply is a sequence of values; an array is its header, followed by    *)
(* its elements.  size is a value's number of bytes.                       *)
(***************************************************************************)
EXTENDS Integers, Sequences

Nil          == <<[tag |-> "NIL", size |-> 1]>>
Str(v, n)    == <<[tag |-> "STR", size |-> 1 + 4 + n, val |-> v]>>
Num(v)       == <<[tag |-> "INT", size |-> 1 + 8, val |-> v]>>
Dbl(v)       == <<[tag |-> "DBL", size |-> 1 + 8, val |-> v]>>
Err(code, n) == <<[tag |-> "ERR", size |-> 1 + 4 + 4 + n, val |-> code]>>
Arr(n)       == <<[tag |-> "ARR", size |-> 1 + 4, val |-> n]>>

Bytes(out) ==
    LET sum[i \in 0 .. Len(out)] == IF i = 0 THEN 0 ELSE sum[i - 1] + out[i].size
    IN  sum[Len(out)]

BadResponse == 0

\* Where the client is after reading one value from the start: behind it,
\* or BadResponse if it met the end of the reply.
Deserialize(out) ==
    LET read[p \in Nat \X Nat] ==   \* p[2] values from position p[1]
          LET i == p[1]  n == p[2]
              after == IF out[i].tag = "ARR" THEN read[<<i + 1, out[i].val>>] ELSE i + 1
          IN  CASE n = 0                      -> i
                [] n > 0 /\ i \notin DOMAIN out -> BadResponse
                [] OTHER -> IF after = BadResponse THEN BadResponse
                                                   ELSE read[<<after, n - 1>>]
    IN  read[<<1, 1>>]

\* readResponse() prints the whole reply and has nothing left.
Understood(out) == Deserialize(out) = Len(out) + 1
=============================================================================
