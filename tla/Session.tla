------------------------------- MODULE Session -------------------------------
(***************************************************************************)
(* What one connection promises its client, and nothing of how: requests   *)
(* are executed one at a time, in the order of the stream, each is         *)
(* answered in full before the next one is executed, and a session may end *)
(* at any moment, after which nothing more is executed or answered.        *)
(***************************************************************************)
EXTENDS Naturals

CONSTANT Requests   \* how many requests the client's stream holds

VARIABLES
    executedCount,  \* requests whose command has run
    answeredCount,  \* requests whose whole response is in the socket
    over            \* the session has ended

vars == <<executedCount, answeredCount, over>>

Init ==
    /\ executedCount = 0
    /\ answeredCount = 0
    /\ over = FALSE

Execute ==
    /\ ~over
    /\ answeredCount = executedCount
    /\ executedCount < Requests
    /\ executedCount' = executedCount + 1
    /\ UNCHANGED <<answeredCount, over>>

Answer ==
    /\ ~over
    /\ answeredCount < executedCount
    /\ answeredCount' = answeredCount + 1
    /\ UNCHANGED <<executedCount, over>>

Finish ==
    /\ ~over
    /\ over' = TRUE
    /\ UNCHANGED <<executedCount, answeredCount>>

Next == Execute \/ Answer \/ Finish

Spec == Init /\ [][Next]_vars
==============================================================================
