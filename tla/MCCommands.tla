----------------------------- MODULE MCCommands -----------------------------
(* A short key, which may hold a sorted set of three members, and one so   *)
(* long that a list of both keys does not fit a reply; a value that is too *)
(* long for either.  The whole sorted set does not fit a reply either.     *)
EXTENDS Commands

MCKeySize == [k \in Keys |-> IF k = "a" THEN 1 ELSE 25]
MCValueSize == [v \in Values |-> CASE v = "" -> 0 [] v = "v" -> 24 [] OTHER -> 37]
MCNameSize == [n \in Names |-> 1]
MCOffsets == {-1, 0, 1}
MCScores == {1, 2}
=============================================================================
