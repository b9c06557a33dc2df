---------------------------- MODULE RunController ----------------------------
(***************************************************************************)
(* The run controller: routers/orchestration.py, from the request to the   *)
(* one terminal event of its run.                                          *)
(*                                                                         *)
(* A request becomes a background task that waits for one of the slots of  *)
(* a semaphore and then awaits retrieval, generation, repair, publish and  *)
(* storage confirmation.  A step of a run is what its task does from one   *)
(* await to the next.  Generation is reduced to its outcomes, delivery to  *)
(* its contract DurableDelivery.  All of it but the store is memory of one *)
(* process.                                                                *)
(***************************************************************************)
EXTENDS Integers, Sequences, FiniteSets, SequencesExt

CONSTANTS
    Runs,          \* requests, each with the pipeline id it is given
    Slots,         \* MAX_CONCURRENT_PIPELINES
    MaxRestarts    \* bound: restarts of the process

ASSUME ControllerAssumption ==
    /\ IsFiniteSet(Runs)
    /\ Slots \in Nat \ {0}
    /\ MaxRestarts \in Nat

VARIABLES
    pc,        \* what the task of a run waits for
    line,      \* the waiters of the semaphore, in their order
    free,      \* free slots of the semaphore
    latest,    \* latest_state: how far the documents of a run got (Levels)
    valid,     \* the runs whose latest state passed validation
    answer,    \* the terminal event of a run: what it tells the client, and
               \* the level of the documents attached to it
    restarts,  \* restarts of the process so far
    kafka,     \* settings.kafka_enabled of this process
    accepted, stored, dead, answered  \* the store, see DurableDelivery

store == <<accepted, stored, dead, answered>>
vars == <<pc, line, free, latest, valid, answer, restarts, kafka, store>>

Delivery == INSTANCE DurableDelivery WITH Pipelines <- Runs

\* The awaits of a task that holds a slot
Awaits == {"retrieving", "generating", "repairing", "publishing", "confirming"}
Ended == {"rejected", "over", "lost"}

\* Nothing, the form's context, the documents of phase 2, validated, repaired
Levels == 0..4
None == [says |-> "nothing", level |-> 0]
Answers == {"complete", "pending", "unsaved", "invalid", "failed"}

Init ==
    /\ pc = [r \in Runs |-> "new"]
    /\ line = <<>>
    /\ free = Slots
    /\ latest = [r \in Runs |-> 0]
    /\ valid = {}
    /\ answer = [r \in Runs |-> None]
    /\ restarts = 0
    /\ kafka \in BOOLEAN
    /\ Delivery!Init

-----------------------------------------------------------------------------
(* Steps shared by the actions *)

\* The task goes on to wait for await.
Goto(r, await) ==
    /\ pc' = [pc EXCEPT ![r] = await]
    /\ UNCHANGED <<line, free, answer, restarts, kafka>>

\* Mutant: the slot is kept when the run ends in an error
FinishHolding(r, says, level) ==
    /\ pc' = [pc EXCEPT ![r] = "over"]
    /\ answer' = [answer EXCEPT ![r] = [says |-> says, level |-> level]]
    /\ free' = IF says = "failed" THEN free ELSE free + 1
    /\ UNCHANGED <<line, restarts, kafka>>

\* The terminal event is sent, the coroutine returns and the semaphore is released: no await.
Finish(r, says, level) ==
    /\ pc' = [pc EXCEPT ![r] = "over"]
    /\ answer' = [answer EXCEPT ![r] = [says |-> says, level |-> level]]
    /\ free' = free + 1
    /\ UNCHANGED <<line, restarts, kafka>>

\* Mutant: the return after the error is missing
DeliverUnsaved(r, level) ==
    IF kafka THEN Goto(r, "publishing")
    ELSE /\ pc' = [pc EXCEPT ![r] = "publishing"]
         /\ answer' = [answer EXCEPT ![r] = [says |-> "unsaved", level |-> level]]
         /\ UNCHANGED <<line, free, restarts, kafka>>

\* Phase 4 of a validated result, up to its first await
Deliver(r, level) ==
    IF kafka THEN Goto(r, "publishing") ELSE Finish(r, "unsaved", level)

-----------------------------------------------------------------------------
(* A request and its task *)

\* Form and files are checked before there is a run.
Reject(r) ==
    /\ pc[r] = "new"
    /\ pc' = [pc EXCEPT ![r] = "rejected"]
    /\ UNCHANGED <<line, free, latest, valid, answer, restarts, kafka, store>>

Generate(r) ==
    /\ pc[r] = "new"
    /\ pc' = [pc EXCEPT ![r] = "queued"]
    /\ line' = Append(line, r)
    /\ UNCHANGED <<free, latest, valid, answer, restarts, kafka, store>>

\* The first waiter takes a slot.  With skip_phase1 the context is made from the form alone.
Start(skip) ==
    /\ line # <<>> /\ free > 0
    /\ LET r == Head(line) IN
       /\ pc' = [pc EXCEPT ![r] = IF skip THEN "generating" ELSE "retrieving"]
       /\ latest' = [latest EXCEPT ![r] = IF skip THEN 1 ELSE 0]
    /\ line' = Tail(line)
    /\ free' = free - 1
    /\ UNCHANGED <<valid, answer, restarts, kafka, store>>

Retrieved(r) ==
    /\ pc[r] = "retrieving"
    /\ latest' = [latest EXCEPT ![r] = 1]
    /\ Goto(r, "generating")
    /\ UNCHANGED <<valid, store>>

\* Phase 2 returned; phase 3 validates its documents in the same step.
Generated(r, passes) ==
    /\ pc[r] = "generating"
    /\ latest' = [latest EXCEPT ![r] = 3]
    /\ IF passes THEN valid' = valid \cup {r} /\ Deliver(r, 3)
       ELSE valid' = valid /\ Goto(r, "repairing")
    /\ UNCHANGED store

\* Mutant: the return after the error is missing
RepairedFallsThrough(r, passes) ==
    /\ pc[r] = "repairing"
    /\ latest' = [latest EXCEPT ![r] = 4]
    /\ IF passes THEN valid' = valid \cup {r} /\ Deliver(r, 4)
       ELSE /\ pc' = [pc EXCEPT ![r] = "publishing"]
            /\ answer' = [answer EXCEPT ![r] = [says |-> "invalid", level |-> 4]]
            /\ UNCHANGED <<valid, line, free, restarts, kafka>>
    /\ UNCHANGED store

\* The retry service returned a validated state or gave up.
Repaired(r, passes) ==
    /\ pc[r] = "repairing"
    /\ latest' = [latest EXCEPT ![r] = 4]
    /\ IF passes THEN valid' = valid \cup {r} /\ Deliver(r, 4)
       ELSE valid' = valid /\ Finish(r, "invalid", 4)
    /\ UNCHANGED store

\* publish returns once the event is in the topic: it is in durable hands.
Published(r) ==
    /\ pc[r] = "publishing"
    /\ r \in accepted
    /\ Goto(r, "confirming")
    /\ UNCHANGED <<latest, valid, store>>

ConfirmStored(r) ==
    /\ pc[r] = "confirming"
    /\ Delivery!Answer(r)
    /\ Finish(r, "complete", latest[r])
    /\ UNCHANGED <<latest, valid>>

\* Mutant: whatever the confirmation returns is a success
ConfirmAnything(r) ==
    /\ pc[r] = "confirming"
    /\ Finish(r, "complete", latest[r])
    /\ UNCHANGED <<latest, valid, store>>

\* Not stored in time, or the look at the table failed: both leave the result pending.
ConfirmPending(r) ==
    /\ pc[r] = "confirming"
    /\ Finish(r, "pending", latest[r])
    /\ UNCHANGED <<latest, valid, store>>

\* Mutant: the state before phase 2
ReportedEarly(r) == {1}

\* What the report of an exception is made from: the snapshot attached to the exception, which
\* is of the stage that raised, or else the state of the last phase that returned.
Reported(r) == {latest[r]} \cup (IF pc[r] = "generating" THEN {2} ELSE {})

\* An await before the confirmation raised.
Raises(r) ==
    /\ pc[r] \in Awaits \ {"confirming"}
    /\ \E level \in Reported(r) : Finish(r, "failed", level)
    /\ UNCHANGED <<latest, valid, store>>

-----------------------------------------------------------------------------
(* Around the runs *)

\* The store takes the result over while publish runs; publish may raise all the same.
Keep(r) ==
    /\ pc[r] = "publishing"
    /\ r \notin accepted
    /\ Delivery!Accept(r)
    /\ UNCHANGED <<pc, line, free, latest, valid, answer, restarts, kafka>>

\* The consumer stores an accepted result or sets it aside, whatever became of its run.
Settle(r) ==
    /\ Delivery!Store(r) \/ Delivery!SetAside(r)
    /\ UNCHANGED <<pc, line, free, latest, valid, answer, restarts, kafka>>

\* The process goes away with its tasks, its semaphore and its progress.  The next one may
\* have other settings.
Restart ==
    /\ restarts < MaxRestarts
    /\ restarts' = restarts + 1
    /\ kafka' \in BOOLEAN
    /\ pc' = [r \in Runs |-> IF pc[r] \in Awaits \cup {"queued"} THEN "lost" ELSE pc[r]]
    /\ line' = <<>>
    /\ free' = Slots
    /\ UNCHANGED <<latest, valid, answer, store>>

Task(r) ==
    \/ Retrieved(r)
    \/ \E passes \in BOOLEAN : Generated(r, passes) \/ Repaired(r, passes)
    \/ Published(r)
    \/ ConfirmStored(r)
    \/ ConfirmPending(r)
    \/ Raises(r)

Next ==
    \/ \E skip \in BOOLEAN : Start(skip)
    \/ \E r \in Runs : Reject(r) \/ Generate(r) \/ Task(r) \/ Keep(r) \/ Settle(r)
    \/ Restart

\* Every await of a task ends, with a result or an exception: the clients of the providers, the
\* graph, the repair and the confirmation have timeouts.  The event loop wakes the first waiter.
Fairness ==
    /\ WF_vars(\E skip \in BOOLEAN : Start(skip))
    /\ \A r \in Runs : WF_vars(Task(r))

Spec == Init /\ [][Next]_vars
FairSpec == Spec /\ Fairness

-----------------------------------------------------------------------------
(* Properties *)

TypeOK ==
    /\ pc \in [Runs -> {"new", "queued"} \cup Awaits \cup Ended]
    /\ line \in Seq(Runs)
    /\ free \in 0..Slots
    /\ latest \in [Runs -> Levels]
    /\ valid \subseteq Runs
    /\ answer \in [Runs -> [says : Answers \cup {"nothing"}, level : Levels]]
    /\ restarts \in 0..MaxRestarts
    /\ kafka \in BOOLEAN
    /\ \A s \in {accepted, stored, dead, answered} : s \subseteq Runs

Working == {r \in Runs : pc[r] \in Awaits}

\* A slot is free or held by a run that is under way, whichever way runs end: none is lost
\* on an error path and none is given back twice (the semaphore around _run_pipeline_inner).
SlotsAreAccounted == free + Cardinality(Working) = Slots

\* What a client is told of its result stays true after the run is over, although the outbox
\* and the consumer go on working: "complete" of a stored result, "do not generate again" of
\* one in durable hands, "not saved, safe to retry" of one that will never appear.
ClaimsAreTrue ==
    \A r \in Runs :
        /\ answer[r].says = "complete" => r \in stored
        /\ answer[r].says = "pending" => r \in accepted
        /\ answer[r].says = "unsaved" => r \notin accepted

\* Documents that failed validation never reach the outbox (the returns before phase 4).
OnlyValidResultsLeave == accepted \subseteq valid

\* The report of a failed run is not older than the last phase that returned, wherever the
\* exception came from (latest_state and state_from_error).
ReportIsCurrent ==
    \A r \in Runs : answer[r].says # "nothing" => answer[r].level >= latest[r]

\* The three: what leaves a run, documents and answer, is valid, true and up to date.
AnswersAreSound == ClaimsAreTrue /\ OnlyValidResultsLeave /\ ReportIsCurrent

Request(r) ==
    IF pc[r] \in {"new", "rejected"} THEN "none"
    ELSE IF pc[r] = "over" THEN "answered"
    ELSE IF pc[r] = "lost" THEN "lost"
    ELSE "open"

Said == [r \in Runs |-> answer[r].says]

\* The controller implements the promise of OneAnswer: every request of a run gets at most one
\* final answer, which is true when it is given, and nothing is kept behind an answer.
Promise == INSTANCE OneAnswer WITH request <- [r \in Runs |-> Request(r)], said <- Said
KeepsPromise == Promise!Spec

\* Every accepted request is answered, however many wait for a slot and whatever fails, unless
\* the process goes away.
EveryRequestIsAnswered == \A r \in Runs : pc[r] = "queued" ~> pc[r] \in {"over", "lost"}
=============================================================================
