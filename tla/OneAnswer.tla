------------------------------ MODULE OneAnswer ------------------------------
(***************************************************************************)
(* What a client of POST /generate is promised: a request that was         *)
(* accepted gets one final answer, unless the process goes away; the       *)
(* answer is true of the store when it is given; and nothing is handed to  *)
(* the store after it.  RunController implements it.                       *)
(***************************************************************************)
CONSTANT Runs

VARIABLES
    request,  \* per run: none, open, answered or lost
    said,     \* the answer of a run
    accepted, \* the results in durable hands
    stored    \* the results a reader finds

vars == <<request, said, accepted, stored>>

Init ==
    /\ request = [r \in Runs |-> "none"]
    /\ said = [r \in Runs |-> "nothing"]
    /\ accepted = {} /\ stored = {}

Ask(r) ==
    /\ request[r] = "none"
    /\ request' = [request EXCEPT ![r] = "open"]
    /\ UNCHANGED <<said, accepted, stored>>

Keep(r) ==
    /\ request[r] = "open"
    /\ accepted' = accepted \cup {r}
    /\ UNCHANGED <<request, said, stored>>

Store(r) ==
    /\ r \in accepted
    /\ stored' = stored \cup {r}
    /\ UNCHANGED <<request, said, accepted>>

True(r, words) ==
    /\ words = "complete" => r \in stored
    /\ words = "pending" => r \in accepted
    /\ words = "unsaved" => r \notin accepted

Answer(r, words) ==
    /\ request[r] = "open"
    /\ True(r, words)
    /\ request' = [request EXCEPT ![r] = "answered"]
    /\ said' = [said EXCEPT ![r] = words]
    /\ UNCHANGED <<accepted, stored>>

\* All open requests are lost with the process.
Lose ==
    /\ request' = [r \in Runs |-> IF request[r] = "open" THEN "lost" ELSE request[r]]
    /\ UNCHANGED <<said, accepted, stored>>

Next ==
    \/ \E r \in Runs : Ask(r) \/ Keep(r) \/ Store(r)
    \/ \E r \in Runs, words \in {"complete", "pending", "unsaved", "invalid", "failed"} : Answer(r, words)
    \/ Lose

Spec == Init /\ [][Next]_vars
=============================================================================
