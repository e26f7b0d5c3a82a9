----------------------------- MODULE MCHashMap -----------------------------
(* Five nodes with four codes, three of which share the slots of the small *)
(* tables.  One move per call and a limit of one node per slot, so that    *)
(* the map is resized at two nodes and again at four, and most calls find  *)
(* two tables.                                                             *)
EXTENDS HashMap

MCCode == [k \in Keys |-> CASE k = "a" -> 0 [] k = "b" -> 1 [] k = "c" -> 5
                            [] k = "d" -> 1 [] OTHER -> 2]
=============================================================================
