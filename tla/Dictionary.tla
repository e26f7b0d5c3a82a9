----------------------------- MODULE Dictionary -----------------------------
(***************************************************************************)
(* What the hash map promises its callers: a set of nodes, at most one for *)
(* each key, and for each lookup or removal the node that was stored.      *)
(* A node is represented by its key.                                       *)
(***************************************************************************)
CONSTANTS Keys, NoNode

VARIABLES stored, result

vars == <<stored, result>>

Init == stored = {} /\ result = NoNode

\* Callers insert a node only after its key was not found.
Insert(k) ==
    /\ k \notin stored
    /\ stored' = stored \cup {k}
    /\ UNCHANGED result

LookUp(k) ==
    /\ result' = IF k \in stored THEN k ELSE NoNode
    /\ UNCHANGED stored

Pop(k) ==
    /\ result' = IF k \in stored THEN k ELSE NoNode
    /\ stored' = stored \ {k}

Destroy == stored' = {} /\ UNCHANGED result

Next == (\E k \in Keys : Insert(k) \/ LookUp(k) \/ Pop(k)) \/ Destroy

Spec == Init /\ [][Next]_vars
=============================================================================
