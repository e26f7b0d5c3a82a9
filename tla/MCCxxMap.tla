------------------------------ MODULE MCCxxMap ------------------------------
(* The code's own parameters, and three nodes, two of them in one chain.   *)
EXTENDS CxxMap

MCCode == [k \in Keys |-> CASE k = "a" -> 1 [] k = "b" -> 5 [] OTHER -> 2]
=============================================================================
