----------------------------- MODULE RunLifecycle -----------------------------
(***************************************************************************)
(* What the agent platform promises of one run to anybody who watches it   *)
(* through the API (GET /runs/:id, its messages and its stream): the run   *)
(* moves through the statuses of RUN_STATUSES along these edges only, its  *)
(* transcript grows one message at a time, only while a worker runs it or  *)
(* when a waiting chat is written to, and a run that has ended never       *)
(* changes again.  AgentRuns is shown to implement it, and RunStream reads *)
(* a run that behaves like it.                                             *)
(***************************************************************************)
EXTENDS Naturals

VARIABLES
    status,     \* the run's status, "absent" before it is created
    length      \* how many messages its transcript has

vars == <<status, length>>

Ended == {"succeeded", "failed", "cancelled"}
Live == {"queued", "running", "waiting_input"}

Init == status = "absent" /\ length = 0

Created == status = "absent" /\ status' = "queued" /\ length' = 1

Taken == status = "queued" /\ status' = "running" /\ UNCHANGED length

Grows == status = "running" /\ length' = length + 1 /\ UNCHANGED status

Parks == status = "running" /\ status' = "waiting_input" /\ UNCHANGED length

Continued ==
    /\ status = "waiting_input"
    /\ status' = "queued"
    /\ length' = length + 1

Ends == status \in Live /\ status' \in Ended /\ UNCHANGED length

Next == Created \/ Taken \/ Grows \/ Parks \/ Continued \/ Ends

Spec == Init /\ [][Next]_vars
=============================================================================
