------------------------------- MODULE MCZSet -------------------------------
(* Two instances.  Tall: twelve names of one score each, for trees of five  *)
(* levels, the smallest in which one removal rotates at two levels.  Wide:  *)
(* five names, each with any of three scores, for moves, for the order of   *)
(* the pairs and for the queries.                                           *)
EXTENDS ZSet

TallMembers == Names \X {0}

WideMembers == Names \X {1, 2, 3}

WideOffsets == -3 .. 3
=============================================================================
