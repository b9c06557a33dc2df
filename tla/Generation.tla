----------------------------- MODULE Generation -----------------------------
(***************************************************************************)
(* Phases 2 and 3 of one run: the stages that generate the artifacts, the  *)
(* targeted repairs of the orchestration and of the retry service, and     *)
(* what the route reports when the run stops.                              *)
(*                                                                         *)
(* The run is one coroutine; the designers of DB and API, and the repairs  *)
(* of these two domains, run concurrently below it.  Any await of phase 2  *)
(* can be cut off by the timeout of the whole run, and any await of a      *)
(* phase 3 repair by the repair timeout.  The documents themselves are     *)
(* abstracted to which of them exist and to the issues the validator       *)
(* finds in them, which change freely when a repair is applied.            *)
(***************************************************************************)
EXTENDS Integers, FiniteSets, Sequences, FiniteSetsExt

CONSTANTS
    Issues,    \* what the validator can find: pairs of a domain and a key
    Limit,     \* max_targeted_repair_per_domain
    MaxRetry   \* max_retry of the retry service

Domains == {"pm", "prd", "db", "api"}
Designs == {"db", "api"}

ASSUME GenerationAssumption ==
    /\ \A i \in Issues : i[1] \in Domains /\ i[2] \notin Domains \cup {"spec"}
    /\ {Limit, MaxRetry} \subseteq Nat \ {0}

VARIABLES
    pc,       \* what the run awaits
    st,       \* the PipelineState
    saved,    \* the state a phase 3 repair started from
    design,   \* the designers of DBA_API
    fix,      \* the bounded repairs under way or just finished
    job,      \* who asked for them, and what remains of the request
    outcome,  \* how the run ended
    report,   \* the artifacts of the final result or of the failure report
    made,     \* history: the artifacts some agent has completed
    calls,    \* history: dispatched repairs of each domain, up to Limit + 1
    broke,    \* history: a repair failed
    cut       \* history: a phase 3 repair timed out

history == <<made, calls, broke, cut>>
vars == <<pc, st, saved, design, fix, job, outcome, report, history>>

Stages == <<"SEARCH", "PM", "PRD", "FEATURE_SPEC", "DBA_API">>
Produces(stage) ==
    CASE stage = "SEARCH" -> "research" [] stage = "PM" -> "plan"
      [] stage = "PRD" -> "prd" [] stage = "FEATURE_SPEC" -> "spec"

Idle == [d \in Domains |-> "idle"]
NoJob == [ctx |-> "none", step |-> "none", domains |-> {}, handled |-> {}, turn |-> 0]

Init ==
    /\ pc = "SEARCH"
    /\ st = [docs |-> {}, attempts |-> [d \in Domains |-> 0], faults |-> {}, dirty |-> TRUE,
             stuck |-> {}, halt |-> "none", retry |-> 0, prints |-> {}]
    /\ saved = st
    /\ design = [d \in Designs |-> "idle"]
    /\ fix = Idle
    /\ job = NoJob
    /\ outcome = "none"
    /\ report = {}
    /\ made = {}
    /\ calls = [d \in Domains |-> 0]
    /\ broke = FALSE
    /\ cut = FALSE

\* generation_blockers: of a stage that halted the run, or of a failed repair
Halted(s) == s.halt # "none"
Blocking(s) == Halted(s) \/ s.stuck # {}

\* The run stops and the route reports it with these artifacts.
Stop(how, docs) == pc' = "end" /\ outcome' = how /\ report' = docs

Running == UNCHANGED <<outcome, report>>

-----------------------------------------------------------------------------
(* The stages of phase 2 *)

StageDone(n) ==
    LET doc == Produces(Stages[n]) IN
    /\ pc = Stages[n]
    /\ pc' = Stages[n + 1]
    /\ st' = [st EXCEPT !.docs = @ \cup {doc}]
    /\ made' = made \cup {doc}
    /\ design' = IF n = 4 THEN [d \in Designs |-> "busy"] ELSE design
    /\ Running
    /\ UNCHANGED <<saved, fix, job, calls, broke, cut>>

\* PM, PRD and FEATURE_SPEC answer a failed generation with a blocker: the run
\* returns early and phase 3 reports the halt.
StageBlocked(n) ==
    /\ pc = Stages[n]
    /\ n \in 2..4
    /\ pc' = "PHASE3"
    /\ st' = [st EXCEPT !.halt = "stage"]
    /\ Running
    /\ UNCHANGED <<saved, design, fix, job, history>>

\* Mutant: the state from before phase 2
StageSnapshotLost == {}

\* What the failure report of a stage that raises or is cut off shows
StageSnapshot == st.docs

\* The stage raises, or the timeout of the run cuts it off.
StageFails ==
    /\ pc \in {Stages[n] : n \in 1..4} \cup {"QA"}
    /\ Stop("error", StageSnapshot)
    /\ UNCHANGED <<st, saved, design, fix, job, history>>

\* Mutant: a plain gather
FinishedNone == {}

Finished == {d \in Designs : design[d] = "done"}

DesignDone(d) == \E result \in {"done", "blocked", "raised"} :
    /\ pc = "DBA_API"
    /\ design[d] = "busy"
    /\ design' = [design EXCEPT ![d] = result]
    /\ made' = IF result = "done" THEN made \cup {d} ELSE made
    /\ Running
    /\ UNCHANGED <<pc, st, saved, fix, job, calls, broke, cut>>

\* The timeout of the run fires, or both designers are done and one of them raised.
DesignFails ==
    /\ pc = "DBA_API"
    /\ \/ \E d \in Designs : design[d] = "busy"
       \/ \E d \in Designs : design[d] = "raised"
    /\ Stop("error", st.docs \cup Finished)
    /\ UNCHANGED <<st, saved, design, fix, job, history>>

-----------------------------------------------------------------------------
(* Bounded repairs *)

NonDispatched == {"refused", "exhausted"}

FinishAttempt(attempts, d, result) ==
    IF result \in NonDispatched THEN attempts ELSE [attempts EXCEPT ![d] = @ + 1]

\* Mutant: the counts of the last result replace the others
MergeAttemptsLast(attempts, results) ==
    IF results = {} THEN attempts ELSE CHOOSE r \in results : TRUE

\* Concurrent repairs start from the same counts; each returns its own.
MergeAttempts(attempts, results) ==
    [d \in Domains |-> Max({attempts[d]} \cup {r[d] : r \in results})]

Repaired == {d \in Domains : fix[d] # "idle"}

\* Mutant: the blocker of a failed repair is not merged
BlockedNone == {}

Blocked == {d \in Repaired : fix[d] = "failed"}

\* The state after the finished repairs
Fixed ==
    [st EXCEPT !.attempts = MergeAttempts(st.attempts, {FinishAttempt(st.attempts, d, fix[d]) : d \in Repaired}),
               !.stuck = @ \cup Blocked,
               !.dirty = @ \/ \E d \in Repaired : fix[d] = "applied"]

Exhausted(s, d) == s.attempts[d] >= Limit

\* Dispatches a repair of each domain D from state s.  The budget is checked first;
\* then the agent may refuse what the feedback does not address, without a call.
Dispatch(D, s) == \E refused \in SUBSET D :
    LET out == {d \in D : Exhausted(s, d)}  sent == D \ (out \cup refused) IN
    /\ pc' = "fix"
    /\ fix' = [d \in Domains |->
                 IF d \in out THEN "exhausted" ELSE IF d \in sent THEN "running"
                 ELSE IF d \in D THEN "refused" ELSE "idle"]
    /\ calls' = [d \in Domains |-> IF d \in sent /\ calls[d] <= Limit THEN calls[d] + 1 ELSE calls[d]]
    /\ st' = s

FixDone(d) == \E result \in {"applied", "noop", "failed"} \cup (IF d = "db" THEN {"external"} ELSE {}) :
    /\ pc = "fix"
    /\ fix[d] = "running"
    /\ fix' = [fix EXCEPT ![d] = result]
    /\ broke' = (broke \/ result = "failed")
    /\ Running
    /\ UNCHANGED <<pc, st, saved, design, job, made, calls, cut>>

Joined(step) == pc = "fix" /\ job.step = step /\ \A d \in Domains : fix[d] # "running"

\* Where a finished repair returns to
Return(s, handled) ==
    /\ st' = s
    /\ fix' = Idle
    /\ job' = [job EXCEPT !.step = "none", !.domains = {}, !.handled = @ \cup handled]
    /\ pc' = CASE job.ctx = "once" -> "once"
               [] job.ctx = "retry" -> "PHASE3"
               [] job.ctx = "rollback" -> IF Blocking(s) THEN "PHASE3" ELSE "QA"

\* The repair of the feature list is followed by one of the PRD.
PmFixed ==
    /\ Joined("pm")
    /\ Dispatch({"prd"}, Fixed)
    /\ job' = [job EXCEPT !.step = "prd"]
    /\ Running
    /\ UNCHANGED <<saved, design, made, broke, cut>>

\* A PRD repair that changed features has their contracts regenerated first.
PrdFixed ==
    /\ Joined("prd")
    /\ \/ /\ fix["prd"] = "applied"
          /\ pc' = "resync"
          /\ st' = Fixed
          /\ fix' = Idle
          /\ UNCHANGED <<job, calls>>
       \/ /\ Dispatch(job.domains, Fixed)
          /\ job' = [job EXCEPT !.step = "patch"]
    /\ Running
    /\ UNCHANGED <<saved, design, made, broke, cut>>

\* The contracts that changed add their domains to those the feedback names.
Resync == \E changed \in SUBSET Designs :
    /\ pc = "resync"
    /\ ~Blocking(st)
    /\ Dispatch(job.domains \cup changed, st)
    /\ job' = [job EXCEPT !.step = "patch", !.domains = @ \cup changed]
    /\ Running
    /\ UNCHANGED <<saved, design, made, broke, cut>>

\* Feature Spec fails or times out, or returns blockers (those it was given included):
\* nothing is patched.
ResyncFails ==
    /\ pc = "resync"
    /\ \/ Return([st EXCEPT !.stuck = @ \cup {"spec"}], {})
       \/ Return([st EXCEPT !.halt = "contract"], {})
       \/ Blocking(st) /\ Return(st, {})
    /\ Running
    /\ UNCHANGED <<saved, design, history>>

Patched ==
    /\ Joined("patch")
    /\ Return(Fixed, job.domains)
    /\ Running
    /\ UNCHANGED <<saved, design, history>>

-----------------------------------------------------------------------------
(* Repairs in phase 2 *)

Ask(ctx, step, domains) == job' = [job EXCEPT !.ctx = ctx, !.step = step, !.domains = domains]

\* Both designers are done.  Feedback for the PRD has it repaired once, and then the
\* designs the feedback came from; a blocker of a designer ends phase 2.
DesignJoin == \E feedback \in SUBSET Designs :
    LET s == [st EXCEPT !.docs = @ \cup Finished, !.halt = IF Finished = Designs THEN "none" ELSE "design"] IN
    /\ pc = "DBA_API"
    /\ \A d \in Designs : design[d] \in {"done", "blocked"}
    /\ IF feedback = {}
       THEN /\ st' = s
            /\ pc' = IF Blocking(s) THEN "PHASE3" ELSE "QA"
            /\ UNCHANGED <<fix, job, calls>>
       ELSE Dispatch({"prd"}, s) /\ Ask("rollback", "prd", feedback)
    /\ Running
    /\ UNCHANGED <<saved, design, made, broke, cut>>

\* QA and phase 3 run the same checker on the same documents.
Checked(s) == {[s EXCEPT !.faults = f, !.dirty = FALSE] : f \in IF s.dirty THEN SUBSET Issues ELSE {s.faults}}

Found(s) == {i[1] : i \in s.faults}

QA == \E s \in Checked(st) :
    /\ pc = "QA"
    /\ st' = s
    /\ pc' = IF Found(s) = {} THEN "PHASE3" ELSE "once"
    /\ job' = [NoJob EXCEPT !.ctx = "once"]
    /\ Running
    /\ UNCHANGED <<saved, design, fix, history>>

Turns == <<"prd", "db", "api">>

\* A changed DB contract has the API looked at too; a domain the PRD resync has
\* handled, or that was repaired before, is skipped.
HasTurn(d) ==
    /\ d \in Found(st) \/ (d = "api" /\ "db" \in Found(st))
    /\ d \notin job.handled
    /\ st.attempts[d] < 1

RepairOnce ==
    LET left == {k \in (job.turn + 1)..3 : HasTurn(Turns[k])} IN
    /\ pc = "once"
    /\ IF left = {}
       THEN pc' = "PHASE3" /\ UNCHANGED <<st, fix, job, calls>>
       ELSE LET k == Min(left)  d == Turns[k] IN
            /\ Dispatch({d}, st)
            /\ job' = [job EXCEPT !.turn = k, !.step = IF d = "prd" THEN "prd" ELSE "patch"]
    /\ Running
    /\ UNCHANGED <<saved, design, made, broke, cut>>

\* The timeout of the run, or of this repair, cuts it off: nothing attaches the
\* state, and the route falls back to the one from before phase 2.
RepairCutOff ==
    /\ pc \in {"fix", "resync"}
    /\ pc = "fix" => \E d \in Domains : fix[d] = "running"
    /\ job.ctx \in {"rollback", "once"}
    /\ Stop("error", {})
    /\ UNCHANGED <<st, saved, design, fix, job, history>>

-----------------------------------------------------------------------------
(* Phase 3 *)

\* A failed repair leaves a blocker of its own, reported against the PRD.
Blockers(s) == s.faults \cup {<<"prd", d>> : d \in s.stuck}

Requested(s) == {i[1] : i \in Blockers(s)}

Targets(s) ==
    LET open == {d \in Requested(s) : s.attempts[d] < Limit} IN
    IF open \cap {"pm", "prd"} # {} THEN open \cap {"pm", "prd"} ELSE open

Fingerprint(s) ==
    LET targets == IF Targets(s) = {} THEN Requested(s) ELSE Targets(s)
    IN <<Requested(s), targets, {i \in Blockers(s) : i[1] \in targets}>>

\* Mutant: a repair leaves no trace of what it was for
RememberNothing(s) == s

\* Mutant: only the number of the retry is kept
RememberCount(s) == [s EXCEPT !.retry = @ + 1]

Remember(s) == [s EXCEPT !.retry = @ + 1, !.prints = @ \cup {Fingerprint(s)}]

Refused(s) ==
    \/ s.retry >= MaxRetry
    \/ Halted(s)
    \/ Fingerprint(s) \in s.prints
    \/ Targets(s) = {}

\* retry_with: gives up, or repairs the targets
Retry(s) ==
    IF Refused(s)
    THEN /\ Stop("rejected", s.docs)
         /\ st' = s
         /\ UNCHANGED <<saved, fix, job, calls>>
    ELSE LET step == IF "pm" \in Targets(s) THEN "pm" ELSE IF "prd" \in Targets(s) THEN "prd" ELSE "patch"
             first == IF step = "patch" THEN Targets(s) ELSE {step}
         IN /\ Dispatch(first, Remember(s))
            /\ saved' = Remember(s)
            /\ job' = [NoJob EXCEPT !.ctx = "retry", !.step = step]
            /\ Running

Phase3 == \E s \in Checked(st) :
    /\ pc = "PHASE3"
    /\ IF Blockers(s) = {} /\ ~Halted(s)
       THEN /\ Stop("validated", s.docs)
            /\ st' = s
            /\ UNCHANGED <<saved, fix, job, calls>>
       ELSE Retry(s)
    /\ UNCHANGED <<design, made, broke, cut>>

\* The repair timed out: retry_with goes on from the state it was given.
RepairTimeout ==
    /\ pc \in {"fix", "resync"}
    /\ pc = "fix" => \E d \in Domains : fix[d] = "running"
    /\ job.ctx = "retry"
    /\ cut' = TRUE
    /\ Retry(saved)
    /\ UNCHANGED <<design, made, broke>>

-----------------------------------------------------------------------------
Next ==
    \/ \E n \in 1..4 : StageDone(n) \/ StageBlocked(n)
    \/ \E d \in Designs : DesignDone(d)
    \/ StageFails \/ DesignFails \/ DesignJoin
    \/ \E d \in Domains : FixDone(d)
    \/ PmFixed \/ PrdFixed \/ Resync \/ ResyncFails \/ Patched
    \/ QA \/ RepairOnce \/ RepairCutOff
    \/ Phase3 \/ RepairTimeout

Spec == Init /\ [][Next]_vars

\* Every await of the run has a timeout.
FairSpec == Spec /\ WF_vars(Next)

-----------------------------------------------------------------------------
(* Properties *)

Docs == {"research", "plan", "prd", "spec"} \cup Designs

\* Every variable has its type.
TypeOK ==
    /\ pc \in {Stages[n] : n \in 1..5} \cup {"fix", "resync", "QA", "once", "PHASE3", "end"}
    /\ \A s \in {st, saved} :
        /\ s.docs \subseteq Docs
        /\ s.attempts \in [Domains -> 0..Limit]
        /\ s.faults \subseteq Issues
        /\ s.stuck \subseteq Domains \cup {"spec"}
        /\ s.halt \in {"none", "stage", "design", "contract"} /\ s.dirty \in BOOLEAN
        /\ s.retry \in 0..MaxRetry
        /\ Cardinality(s.prints) <= s.retry
    /\ design \in [Designs -> {"idle", "busy", "done", "blocked", "raised"}]
    /\ fix \in [Domains -> {"idle", "running", "applied", "noop", "failed", "external"} \cup NonDispatched]
    /\ job.ctx \in {"none", "rollback", "once", "retry"} /\ job.step \in {"none", "pm", "prd", "patch"}
    /\ outcome \in {"none", "validated", "rejected", "error"}
    /\ report \subseteq Docs /\ made \subseteq Docs

\* Over the whole run, the rollback, the QA repair and the retries together, no
\* domain is repaired more often than its budget allows; and unless a timeout threw
\* a repair away, what the state says was spent is what was dispatched
\* (repair_budget.py, merge_attempts of concurrent repairs).
BudgetHolds ==
    /\ \A d \in Domains : calls[d] <= Limit
    /\ pc \notin {"fix", "end"} /\ ~cut => st.attempts = calls

\* A repair that failed leaves a blocker nothing removes: such a run is never
\* reported as validated, whatever later repairs achieve.
FailedRepairIsFinal == broke => outcome # "validated"

\* When a stage of phase 2 stops the run, by an error or by the timeout, the failure
\* report has every artifact completed before it, that of the sibling that finished
\* included (_stage_execute, _finished_siblings).
StageFailureKeepsArtifacts ==
    outcome = "error" /\ job.ctx = "none" => made \subseteq report

\* A repair cut off by its timeout is not repeated: no later repair is dispatched
\* and the run is rejected.
CutOffIsNotRepeated == [][cut' => calls' = calls /\ outcome' = "rejected"]_vars

\* Every run comes to an end.
RunEnds == <>(outcome # "none")
=============================================================================
