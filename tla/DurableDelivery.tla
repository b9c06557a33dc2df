--------------------------- MODULE DurableDelivery ---------------------------
(***************************************************************************)
(* What Phase 4 promises about a pipeline result, whatever the outbox, the *)
(* topic and the consumers do: an accepted result is never given up, it is *)
(* stored whole or set aside as a dead letter, and "stored" is said only   *)
(* of a result that is.  Delivery implements it.                           *)
(***************************************************************************)
CONSTANT Pipelines

VARIABLES accepted, stored, dead, answered

vars == <<accepted, stored, dead, answered>>

Init == accepted = {} /\ stored = {} /\ dead = {} /\ answered = {}

\* The result is in durable hands
Accept(p) ==
    /\ accepted' = accepted \cup {p}
    /\ UNCHANGED <<stored, dead, answered>>

\* All its chunks become visible at once
Store(p) ==
    /\ p \in accepted \ stored
    /\ stored' = stored \cup {p}
    /\ UNCHANGED <<accepted, dead, answered>>

\* It could not be processed and waits in the dead letter topic
SetAside(p) ==
    /\ p \in accepted \ dead
    /\ dead' = dead \cup {p}
    /\ UNCHANGED <<accepted, stored, answered>>

\* The pipeline is told that its result is stored
Answer(p) ==
    /\ p \in stored \ answered
    /\ answered' = answered \cup {p}
    /\ UNCHANGED <<accepted, stored, dead>>

Next == \E p \in Pipelines : Accept(p) \/ Store(p) \/ SetAside(p) \/ Answer(p)

Spec == Init /\ [][Next]_vars
=============================================================================
