------------------------------ MODULE Ranking ------------------------------
(***************************************************************************)
(* What a sorted set promises: one score for each of its names, and the    *)
(* order of its pairs, by score and among equal scores by name.            *)
(***************************************************************************)
EXTENDS Integers, Sequences

CONSTANTS Names, Scores

VARIABLE pairs   \* the pairs <<score, name>>, in order

Init == pairs = <<>>

Below(p, q) == p[1] < q[1] \/ (p[1] = q[1] /\ p[2] < q[2])

Ordered(s) == \A i, j \in DOMAIN s : i < j => Below(s[i], s[j])

Contents(s) == {s[i] : i \in DOMAIN s}

\* One call takes the pairs from old to new.
Call(old, new) ==
    /\ Ordered(new)
    /\ \E n \in Names :
          LET others == {p \in Contents(old) : p[2] # n}
          IN  \/ Contents(new) = others /\ Len(new) < Len(old)
              \/ \E s \in Scores : Contents(new) = others \cup {<<s, n>>}

\* The quantifiers name the two values of a variable that an implementation
\* substitutes a long expression for.
Next == \E old \in {pairs}, new \in {pairs'} : Call(old, new)

Spec == Init /\ [][Next]_pairs
=============================================================================
