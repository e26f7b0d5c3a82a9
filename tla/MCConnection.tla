--------------------------- MODULE MCConnection ---------------------------
(* Four frames against a 2-byte header and messages of up to 4 bytes: a    *)
(* short one, one that fills the read buffer, may be refused and has its   *)
(* output replaced by the error, another short one, and one too long.     *)
EXTENDS Connection

MCLength == <<1, 4, 1, 5>>
MCFrameStart == [k \in 0 .. 4 |-> <<0, 3, 9, 12, 19>>[k + 1]]
MCMayParse == {1, 2, 3}
MCMayFail == {2}
MCOutput == <<2, 5, 3, 0>>
==============================================================================
