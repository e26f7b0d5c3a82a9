------------------------------ MODULE MCClient ------------------------------
(* Integers of two bytes.  Users give commands of no, one, two and three   *)
(* arguments, among them empty ones, the longest that can be sent and one  *)
(* that cannot.  Other programs send all short messages, and all of up to  *)
(* six bytes whose count of arguments is not absurd.                       *)
EXTENDS Client

MCCommands == {<<>>, << <<>> >>, << <<2>> >>, << <<1>>, <<2>> >>, << <<>>, <<>>, <<>> >>,
               << <<1, 2, 3, 0>> >>, << <<1, 2, 3, 0, 1>> >>}

MCMessages == BoundedSeq({0, 1}, 2)
                \cup {<<n, m>> \o rest : n \in 0 .. 2, m \in 0 .. 1, rest \in BoundedSeq(0 .. 2, 4)}

MCWellFormed ==
    {<<>>, << <<>>, <<>> >>} \cup {<<t>> : t \in BoundedSeq(0 .. 2, 2)}
=============================================================================
