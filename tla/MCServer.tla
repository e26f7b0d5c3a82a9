------------------------------ MODULE MCServer ------------------------------
(* For two descriptors up to three clients: "quit" may leave at any time,  *)
(* "bad" may be refused, "good" and "other" wait for their replies, "half" *)
(* shuts its sending side down while it goes on reading.                   *)
EXTENDS Server

MCRequests == [c \in Clients |-> IF c = "quit" THEN 2 ELSE 1]
MCWindow == [c \in Clients |-> 2]

\* For safety one client pipelines three requests, whose replies overflow the
\* send buffer, and another comes and goes.
MCSafetyRequests ==
    [c \in Clients |-> CASE c = "half" -> 3 [] c = "bad" -> 1 [] c = "quit" -> 0]
MCSafetyWindow == MCSafetyRequests

\* For liveness the patient client pipelines two requests instead.
MCLiveRequests == [c \in Clients |-> IF c = "good" THEN 2 ELSE 1]
=============================================================================
