-------------------------- MODULE GenerationProofs --------------------------
(***************************************************************************)
(* Theorems about Generation for any set of issues, any repair budget and  *)
(* any number of retries.                                                  *)
(***************************************************************************)
EXTENDS Generation, FiniteSetTheorems, TLAPS

-----------------------------------------------------------------------------
(* The inductive invariant *)

Contexts == {"none", "rollback", "once", "retry"}
Halts == {"none", "stage", "design", "contract"}
Pcs == {Stages[n] : n \in 1..5} \cup {"fix", "resync", "QA", "once", "PHASE3", "end"}
Results == {"idle", "running", "applied", "noop", "failed", "external"} \cup NonDispatched
Sent == {"running", "applied", "noop", "failed", "external"}
Marks == Domains \cup {"spec"}
Reports == Issues \cup ({"prd"} \X Marks)
Prints == (SUBSET Domains) \X (SUBSET Domains) \X (SUBSET Reports)

States == [docs : SUBSET Docs, attempts : [Domains -> 0..Limit], faults : SUBSET Issues,
           dirty : BOOLEAN, stuck : SUBSET Marks, halt : Halts, retry : 0..MaxRetry,
           prints : SUBSET Prints]
Jobs == [ctx : Contexts, step : {"none", "pm", "prd", "patch"}, domains : SUBSET Domains,
         handled : SUBSET Domains, turn : 0..3]

\* No more fingerprints are remembered than retries were made.
Sound(s) == s \in States /\ IsFiniteSet(s.prints) /\ Cardinality(s.prints) <= s.retry

TypeInv ==
    /\ pc \in Pcs
    /\ Sound(st) /\ Sound(saved)
    /\ design \in [Designs -> {"idle", "busy", "done", "blocked", "raised"}]
    /\ fix \in [Domains -> Results]
    /\ job \in Jobs
    /\ outcome \in {"none", "validated", "rejected", "error"}
    /\ report \subseteq Docs /\ made \subseteq Docs
    /\ calls \in [Domains -> 0..Limit]
    /\ broke \in BOOLEAN /\ cut \in BOOLEAN

\* The run goes on until it has an outcome; a repair cut off ends it.
EndInv ==
    /\ outcome = "none" <=> pc # "end"
    /\ cut => pc = "end"
    /\ cut => outcome = "rejected"
    /\ pc \notin {"fix", "end"} => fix = Idle
    /\ pc \in {"fix", "resync"} => job.ctx # "none"
    /\ pc = "once" => job.ctx = "once"

\* A dispatched repair is in the counts, or will be when it is merged.
CountInv ==
    pc # "end" =>
        \A d \in Domains : calls[d] = st.attempts[d] + (IF fix[d] \in Sent THEN 1 ELSE 0)

\* A repair of the retry service has left its fingerprint in the state it would be
\* given up to.
PrintInv ==
    job.ctx = "retry" /\ pc \in {"fix", "resync"} => Fingerprint(saved) \in saved.prints

\* A failed repair is in the blockers, or will be when it is merged.
BrokeInv ==
    broke => /\ outcome # "validated"
             /\ pc # "end" => st.stuck # {} \/ \E d \in Domains : fix[d] = "failed"

\* Until the first repair every completed artifact is in the state or a designer's.
ArtifactInv ==
    job.ctx = "none" =>
        /\ pc # "end" => made \subseteq st.docs \cup (IF pc = "DBA_API" THEN Finished ELSE {})
        /\ outcome = "error" => made \subseteq report

IInv == TypeInv /\ EndInv /\ CountInv /\ PrintInv /\ BrokeInv /\ ArtifactInv

-----------------------------------------------------------------------------
(* The operators *)

LEMMA LimitType == Limit \in Nat /\ MaxRetry \in Nat /\ 0 \in 0..Limit /\ 0 \in 0..MaxRetry
BY GenerationAssumption

LEMMA MaxOfTwo ==
    ASSUME NEW a \in Nat, NEW T, T \subseteq {a, a + 1}, a \in T
    PROVE  Max(T) = IF a + 1 \in T THEN a + 1 ELSE a
<1>1. \E x \in T : \A y \in T : x >= y
  <2>1. CASE a + 1 \in T
    BY <2>1
  <2>2. CASE a + 1 \notin T
    BY <2>2
  <2> QED
    BY <2>1, <2>2
<1>2. PICK m \in T : m = Max(T) /\ \A y \in T : m >= y
  BY <1>1 DEF Max
<1>3. CASE a + 1 \in T
  BY <1>2, <1>3
<1>4. CASE a + 1 \notin T
  BY <1>2, <1>4
<1> QED
  BY <1>3, <1>4

\* Merging the counts of concurrent repairs counts each of them once and no other.
LEMMA MergeCounts ==
    ASSUME NEW a \in [Domains -> Nat], NEW f, NEW R \in SUBSET Domains
    PROVE  MergeAttempts(a, {FinishAttempt(a, d, f[d]) : d \in R}) =
             [d \in Domains |-> IF d \in R /\ f[d] \notin NonDispatched THEN a[d] + 1 ELSE a[d]]
<1> DEFINE results == {FinishAttempt(a, d, f[d]) : d \in R}
<1> SUFFICES ASSUME NEW e \in Domains
             PROVE  Max({a[e]} \cup {r[e] : r \in results}) =
                      IF e \in R /\ f[e] \notin NonDispatched THEN a[e] + 1 ELSE a[e]
  BY DEF MergeAttempts
<1> DEFINE T == {a[e]} \cup {r[e] : r \in results}
<1>1. \A d \in R : FinishAttempt(a, d, f[d])[e] =
                     IF d = e /\ f[d] \notin NonDispatched THEN a[e] + 1 ELSE a[e]
  BY DEF FinishAttempt
<1>2. a[e] \in Nat /\ a[e] \in T /\ T \subseteq {a[e], a[e] + 1}
  BY <1>1
<1>3. a[e] + 1 \in T <=> e \in R /\ f[e] \notin NonDispatched
  BY <1>1, <1>2
<1> HIDE DEF T
<1>4. Max(T) = IF a[e] + 1 \in T THEN a[e] + 1 ELSE a[e]
  BY <1>2, MaxOfTwo
<1> QED
  BY <1>3, <1>4 DEF T

\* What an update of these fields is and keeps
Repairing(s, a, k, d) == [s EXCEPT !.attempts = a, !.stuck = k, !.dirty = d]

LEMMA RepairingKeeps ==
    ASSUME NEW s \in States, NEW a \in [Domains -> 0..Limit], NEW k \in SUBSET Marks, NEW d \in BOOLEAN
    PROVE  /\ Repairing(s, a, k, d) \in States
           /\ Repairing(s, a, k, d).attempts = a /\ Repairing(s, a, k, d).stuck = k
           /\ Repairing(s, a, k, d).docs = s.docs /\ Repairing(s, a, k, d).halt = s.halt
           /\ Repairing(s, a, k, d).retry = s.retry /\ Repairing(s, a, k, d).prints = s.prints
BY DEF States, Repairing

\* The state after the finished repairs: only counts, blockers and the need to check
\* again change.
LEMMA FixedState ==
    ASSUME TypeInv, CountInv, pc = "fix", \A d \in Domains : fix[d] # "running"
    PROVE  /\ Sound(Fixed)
           /\ Fixed.attempts = calls
           /\ Fixed.stuck = st.stuck \cup Blocked
           /\ Fixed.docs = st.docs /\ Fixed.prints = st.prints
           /\ Fixed.retry = st.retry /\ Fixed.halt = st.halt
<1>1. st \in States /\ fix \in [Domains -> Results] /\ Repaired \subseteq Domains /\ Blocked \subseteq Domains
  BY DEF TypeInv, Sound, Repaired, Blocked
<1>2. st.attempts \in [Domains -> Nat] /\ calls \in [Domains -> 0..Limit]
  BY <1>1, LimitType DEF TypeInv, States
<1> DEFINE m == MergeAttempts(st.attempts, {FinishAttempt(st.attempts, d, fix[d]) : d \in Repaired})
<1>3. m = [d \in Domains |-> IF d \in Repaired /\ fix[d] \notin NonDispatched
                             THEN st.attempts[d] + 1 ELSE st.attempts[d]]
  BY <1>1, <1>2, MergeCounts
<1>4. ASSUME NEW d \in Domains PROVE m[d] = calls[d]
  <2>1. (d \in Repaired /\ fix[d] \notin NonDispatched) <=> fix[d] \in Sent
    BY <1>1 DEF Repaired, Results, NonDispatched, Sent
  <2>2. calls[d] = st.attempts[d] + (IF fix[d] \in Sent THEN 1 ELSE 0)
    BY DEF CountInv
  <2> QED
    BY <1>2, <1>3, <2>1, <2>2
<1>5. m = calls
  BY <1>2, <1>3, <1>4
<1> DEFINE dirty == st.dirty \/ \E d \in Repaired : fix[d] = "applied"
<1>6. Fixed = Repairing(st, m, st.stuck \cup Blocked, dirty)
  BY <1>1 DEF Fixed, States, Repairing
<1>7. st.stuck \cup Blocked \in SUBSET Marks /\ dirty \in BOOLEAN
  BY <1>1 DEF States, Marks
<1> HIDE DEF m, dirty
<1>8. /\ Fixed \in States /\ Fixed.attempts = calls /\ Fixed.stuck = st.stuck \cup Blocked
      /\ Fixed.docs = st.docs /\ Fixed.prints = st.prints
      /\ Fixed.retry = st.retry /\ Fixed.halt = st.halt
  BY <1>1, <1>2, <1>5, <1>6, <1>7, RepairingKeeps
<1> QED
  BY <1>8 DEF TypeInv, Sound

\* A check changes nothing but its result.
Checking(s, f) == [s EXCEPT !.faults = f, !.dirty = FALSE]

LEMMA CheckedState ==
    ASSUME NEW s, Sound(s), NEW c \in Checked(s)
    PROVE  /\ Sound(c)
           /\ c.attempts = s.attempts /\ c.stuck = s.stuck /\ c.docs = s.docs
           /\ c.prints = s.prints /\ c.retry = s.retry /\ c.halt = s.halt
<1>1. s \in States /\ s.faults \in SUBSET Issues
  BY DEF Sound, States
<1>2. PICK f \in SUBSET Issues : c = Checking(s, f)
  BY <1>1 DEF Checked, Checking
<1>3. /\ Checking(s, f) \in States
      /\ Checking(s, f).attempts = s.attempts /\ Checking(s, f).stuck = s.stuck
      /\ Checking(s, f).docs = s.docs /\ Checking(s, f).prints = s.prints
      /\ Checking(s, f).retry = s.retry /\ Checking(s, f).halt = s.halt
  BY <1>1, <1>2 DEF States, Checking
<1> QED
  BY <1>2, <1>3 DEF Sound

\* New artifacts and a new halt change nothing else.
Advancing(s, docs, halt) == [s EXCEPT !.docs = @ \cup docs, !.halt = halt]

LEMMA AdvancingKeeps ==
    ASSUME NEW s, Sound(s), NEW docs \in SUBSET Docs, NEW halt \in Halts
    PROVE  /\ Sound(Advancing(s, docs, halt))
           /\ Advancing(s, docs, halt).attempts = s.attempts
           /\ Advancing(s, docs, halt).stuck = s.stuck
           /\ Advancing(s, docs, halt).docs = s.docs \cup docs
<1>1. /\ Advancing(s, docs, halt) \in States
      /\ Advancing(s, docs, halt).attempts = s.attempts
      /\ Advancing(s, docs, halt).stuck = s.stuck
      /\ Advancing(s, docs, halt).docs = s.docs \cup docs
      /\ Advancing(s, docs, halt).prints = s.prints
      /\ Advancing(s, docs, halt).retry = s.retry
  BY DEF Sound, States, Advancing
<1> QED
  BY <1>1 DEF Sound

\* A blocker of its own that a failed resynchronisation leaves
LEMMA StuckState ==
    ASSUME NEW s, Sound(s)
    PROVE  LET t == [s EXCEPT !.stuck = @ \cup {"spec"}] IN
           Sound(t) /\ t.attempts = s.attempts /\ t.docs = s.docs /\ s.stuck \subseteq t.stuck
<1> DEFINE t == [s EXCEPT !.stuck = @ \cup {"spec"}]
<1>1. /\ t \in States /\ t.attempts = s.attempts /\ t.docs = s.docs /\ s.stuck \subseteq t.stuck
      /\ t.prints = s.prints /\ t.retry = s.retry
  BY DEF Sound, States, Marks
<1> QED
  BY <1>1 DEF Sound

\* What the retry service asks for has its type.
LEMMA RequestType ==
    ASSUME NEW s, Sound(s)
    PROVE  /\ Blockers(s) \subseteq Reports
           /\ Requested(s) \subseteq Domains
           /\ Targets(s) \subseteq Domains
           /\ Fingerprint(s) \in Prints
<1>1. s.faults \subseteq Issues /\ s.stuck \subseteq Marks
  BY DEF Sound, States
<1>2. Blockers(s) \subseteq Reports
  BY <1>1 DEF Blockers, Reports
<1>3. \A i \in Reports : i[1] \in Domains
  BY GenerationAssumption DEF Reports, Domains
<1>4. Requested(s) \subseteq Domains
  BY <1>2, <1>3 DEF Requested
<1>5. Targets(s) \subseteq Domains
  BY <1>4 DEF Targets
<1> DEFINE targets == IF Targets(s) = {} THEN Requested(s) ELSE Targets(s)
<1>6. targets \subseteq Domains /\ {i \in Blockers(s) : i[1] \in targets} \subseteq Reports
  BY <1>2, <1>4, <1>5
<1> HIDE DEF targets
<1>7. <<Requested(s), targets, {i \in Blockers(s) : i[1] \in targets}>> \in Prints
  BY <1>4, <1>6 DEF Prints
<1>8. Fingerprint(s) \in Prints
  BY <1>7 DEF Fingerprint, targets
<1> QED
  BY <1>2, <1>4, <1>5, <1>8

\* A repair is remembered by the fingerprint its state still has afterwards.
Remembering(s, print) == [s EXCEPT !.retry = @ + 1, !.prints = @ \cup {print}]

LEMMA RememberState ==
    ASSUME NEW s, Sound(s), s.retry < MaxRetry
    PROVE  /\ Sound(Remember(s))
           /\ Remember(s).attempts = s.attempts /\ Remember(s).stuck = s.stuck
           /\ Remember(s).docs = s.docs
           /\ Fingerprint(Remember(s)) = Fingerprint(s)
           /\ Fingerprint(Remember(s)) \in Remember(s).prints
<1> DEFINE f == Fingerprint(s)
<1>1. s \in States /\ f \in Prints
  BY RequestType DEF Sound
<1>2. s.retry + 1 \in 0..MaxRetry /\ s.prints \cup {f} \in SUBSET Prints
  BY <1>1, LimitType DEF States
<1>3. Remember(s) = Remembering(s, f)
  BY DEF Remember, Remembering
<1> HIDE DEF f
<1>4. /\ Remembering(s, f) \in States
      /\ Remembering(s, f).attempts = s.attempts /\ Remembering(s, f).stuck = s.stuck
      /\ Remembering(s, f).docs = s.docs /\ Remembering(s, f).faults = s.faults
      /\ Remembering(s, f).prints = s.prints \cup {f} /\ Remembering(s, f).retry = s.retry + 1
  BY <1>1, <1>2 DEF States, Remembering
<1>5. IsFiniteSet(s.prints \cup {f}) /\ Cardinality(s.prints \cup {f}) <= s.retry + 1
  <2>1. Cardinality(s.prints \cup {f}) = IF f \in s.prints THEN Cardinality(s.prints) ELSE Cardinality(s.prints) + 1
    BY FS_AddElement DEF Sound
  <2>2. Cardinality(s.prints) \in Nat /\ Cardinality(s.prints) <= s.retry /\ s.retry \in Nat
    BY <1>1, FS_CardinalityType, LimitType DEF Sound, States
  <2> QED
    BY <2>1, <2>2, FS_AddElement DEF Sound
<1>6. Blockers(Remember(s)) = Blockers(s)
  BY <1>3, <1>4 DEF Blockers
<1>7. Requested(Remember(s)) = Requested(s) /\ Targets(Remember(s)) = Targets(s)
  BY <1>3, <1>4, <1>6 DEF Requested, Targets
<1>8. Fingerprint(Remember(s)) = f
  BY <1>6, <1>7 DEF Fingerprint, f
<1> QED
  BY <1>3, <1>4, <1>5, <1>8 DEF Sound, f

-----------------------------------------------------------------------------
(* The three ways a step can go *)

\* While nothing is being repaired the counts are exact and failures are blockers.
LEMMA AtRest ==
    ASSUME IInv, pc \notin {"fix", "end"}
    PROVE  fix = Idle /\ st.attempts = calls /\ (broke => st.stuck # {}) /\ ~cut
<1>1. fix = Idle /\ ~cut /\ pc # "end"
  BY DEF IInv, EndInv
<1>2. \A d \in Domains : fix[d] = "idle"
  BY <1>1 DEF Idle
<1>3. broke => st.stuck # {}
  BY <1>1, <1>2 DEF IInv, BrokeInv
<1>4. st.attempts \in [Domains -> 0..Limit] /\ calls \in [Domains -> 0..Limit]
  BY DEF IInv, TypeInv, Sound, States
<1>5. ASSUME NEW d \in Domains PROVE st.attempts[d] = calls[d]
  <2>1. calls[d] = st.attempts[d] + 0
    BY <1>1, <1>2 DEF IInv, CountInv, Sent
  <2> QED
    BY <2>1, <1>4, LimitType
<1> QED
  BY <1>1, <1>3, <1>4, <1>5

\* So they are in the state after the finished repairs.
LEMMA AfterJoin ==
    ASSUME IInv, NEW step, Joined(step)
    PROVE  /\ pc = "fix" /\ ~cut /\ job.ctx # "none"
           /\ Sound(Fixed) /\ Fixed.attempts = calls /\ (broke => Fixed.stuck # {})
<1>1. pc = "fix" /\ (\A d \in Domains : fix[d] # "running")
  BY DEF Joined
<1>2. Sound(Fixed) /\ Fixed.attempts = calls /\ Fixed.stuck = st.stuck \cup Blocked
  BY <1>1, FixedState DEF IInv
<1>3. broke => Fixed.stuck # {}
  BY <1>1, <1>2 DEF IInv, BrokeInv, Blocked, Repaired
<1> QED
  BY <1>1, <1>2, <1>3 DEF IInv, EndInv

\* A dispatch counts what it sends, within the budget.
LEMMA DispatchStep ==
    ASSUME TypeInv, NEW D \in SUBSET Domains, NEW s, Sound(s), s.attempts = calls, Dispatch(D, s)
    PROVE  /\ pc' = "fix" /\ st' = s
           /\ fix' \in [Domains -> Results] /\ calls' \in [Domains -> 0..Limit]
           /\ \A d \in Domains :
                /\ fix'[d] # "failed"
                /\ calls'[d] = s.attempts[d] + (IF fix'[d] \in Sent THEN 1 ELSE 0)
<1>1. PICK refused \in SUBSET D :
        LET out == {d \in D : Exhausted(s, d)}  sent == D \ (out \cup refused) IN
        /\ fix' = [d \in Domains |->
                     IF d \in out THEN "exhausted" ELSE IF d \in sent THEN "running"
                     ELSE IF d \in D THEN "refused" ELSE "idle"]
        /\ calls' = [d \in Domains |-> IF d \in sent /\ calls[d] <= Limit THEN calls[d] + 1 ELSE calls[d]]
  BY DEF Dispatch
<1> DEFINE out == {d \in D : Exhausted(s, d)}
           sent == D \ (out \cup refused)
<1>2. calls \in [Domains -> 0..Limit] /\ Limit \in Nat
  BY LimitType DEF TypeInv
<1>3. \A d \in sent : calls[d] + 1 \in 0..Limit
  BY <1>2 DEF Exhausted
<1>4. \A d \in Domains : fix'[d] \in Results /\ fix'[d] # "failed" /\ (fix'[d] \in Sent <=> d \in sent)
  BY <1>1 DEF Results, Sent, NonDispatched
<1>5. fix' \in [Domains -> Results]
  BY <1>1, <1>4
<1>6. \A d \in Domains : calls'[d] = IF d \in sent THEN calls[d] + 1 ELSE calls[d]
  BY <1>1, <1>2, <1>3
<1>7. calls' \in [Domains -> 0..Limit]
  BY <1>1, <1>2, <1>3
<1>8. \A d \in Domains : calls'[d] = s.attempts[d] + (IF fix'[d] \in Sent THEN 1 ELSE 0)
  BY <1>2, <1>4, <1>6
<1>9. pc' = "fix" /\ st' = s
  BY DEF Dispatch
<1> QED
  BY <1>4, <1>5, <1>7, <1>8, <1>9

LEMMA DispatchKeeps ==
    ASSUME IInv, pc # "end",
           NEW D \in SUBSET Domains, NEW s, Sound(s), s.attempts = calls, broke => s.stuck # {},
           Dispatch(D, s),
           job' \in Jobs, job'.ctx # "none", Sound(saved'),
           job'.ctx = "retry" => Fingerprint(saved') \in saved'.prints,
           ~cut, UNCHANGED <<design, made, outcome, report, broke, cut>>
    PROVE  IInv'
<1>1. /\ pc' = "fix" /\ st' = s
      /\ fix' \in [Domains -> Results] /\ calls' \in [Domains -> 0..Limit]
      /\ \A d \in Domains :
           /\ fix'[d] # "failed"
           /\ calls'[d] = s.attempts[d] + (IF fix'[d] \in Sent THEN 1 ELSE 0)
  BY DispatchStep DEF IInv
<1>2. TypeInv'
  BY <1>1 DEF IInv, TypeInv, Pcs
<1>3. EndInv'
  BY <1>1 DEF IInv, EndInv
<1>4. CountInv'
  BY <1>1 DEF CountInv
<1>5. PrintInv' /\ ArtifactInv'
  BY DEF PrintInv, ArtifactInv
<1>6. BrokeInv'
  BY <1>1 DEF IInv, BrokeInv
<1> QED
  BY <1>2, <1>3, <1>4, <1>5, <1>6 DEF IInv

\* The run ends.
LEMMA StopKeeps ==
    ASSUME IInv, pc # "end", pc' = "end",
           outcome' \in {"validated", "rejected", "error"}, report' \subseteq Docs,
           Sound(st'), Sound(saved'), fix' \in [Domains -> Results], job' \in Jobs,
           UNCHANGED <<design, made, calls, broke>>,
           cut' \in BOOLEAN, cut' => outcome' = "rejected", broke => outcome' # "validated",
           job'.ctx = "none" /\ outcome' = "error" => made \subseteq report'
    PROVE  IInv'
<1>1. TypeInv'
  BY DEF IInv, TypeInv, Pcs
<1>2. EndInv' /\ CountInv' /\ PrintInv'
  BY DEF EndInv, CountInv, PrintInv
<1>3. BrokeInv' /\ ArtifactInv'
  BY DEF BrokeInv, ArtifactInv
<1> QED
  BY <1>1, <1>2, <1>3 DEF IInv

\* The run goes on with no repair under way.
LEMMA MoveKeeps ==
    ASSUME IInv, pc # "end", pc' \in Pcs \ {"fix", "end"}, fix' = Idle,
           Sound(st'), st'.attempts = calls, broke => st'.stuck # {}, job' \in Jobs,
           design' \in [Designs -> {"idle", "busy", "done", "blocked", "raised"}], made' \subseteq Docs,
           UNCHANGED <<saved, outcome, report, calls, broke, cut>>,
           pc' = "once" => job'.ctx = "once",
           pc' = "resync" => job'.ctx # "none" /\ (job'.ctx = "retry" => Fingerprint(saved) \in saved.prints),
           job'.ctx = "none" => made' \subseteq st'.docs \cup (IF pc' = "DBA_API" THEN Finished' ELSE {})
    PROVE  IInv'
<1>1. outcome = "none" /\ ~cut
  BY DEF IInv, EndInv
<1>2. TypeInv'
  <2>1. Idle \in [Domains -> Results]
    BY DEF Idle, Results
  <2> QED
    BY <2>1 DEF IInv, TypeInv
<1>3. EndInv'
  BY <1>1 DEF EndInv
<1>4. CountInv'
  <2>1. calls \in [Domains -> 0..Limit] /\ \A d \in Domains : fix'[d] = "idle"
    BY DEF IInv, TypeInv, Idle
  <2> QED
    BY <2>1, LimitType DEF CountInv, Sent
<1>5. PrintInv'
  BY DEF PrintInv
<1>6. BrokeInv'
  BY <1>1 DEF BrokeInv
<1>7. ArtifactInv'
  BY <1>1 DEF ArtifactInv
<1> QED
  BY <1>2, <1>3, <1>4, <1>5, <1>6, <1>7 DEF IInv

-----------------------------------------------------------------------------
(* The invariant is inductive. *)

LEMMA InitIInv == Init => IInv
<1> SUFFICES ASSUME Init PROVE IInv
  OBVIOUS
<1> DEFINE zero == [d \in Domains |-> 0]
           s == [docs |-> {}, attempts |-> zero, faults |-> {}, dirty |-> TRUE,
                 stuck |-> {}, halt |-> "none", retry |-> 0, prints |-> {}]
<1>1. zero \in [Domains -> 0..Limit] /\ 0 \in 0..MaxRetry
  BY LimitType
<1>2. s \in States
  BY <1>1 DEF States, Halts
<1>3. Sound(s)
  BY <1>2, FS_EmptySet DEF Sound
<1>4. st = s /\ saved = s
  BY DEF Init
<1>5. pc = "SEARCH" /\ pc \in Pcs
  BY DEF Init, Pcs, Stages
<1>6. fix = Idle /\ fix \in [Domains -> Results]
  BY DEF Init, Idle, Results
<1>7. job = NoJob /\ NoJob \in Jobs
  BY DEF Init, NoJob, Jobs, Contexts
<1>8. TypeInv
  BY <1>1, <1>3, <1>4, <1>5, <1>6, <1>7 DEF Init, TypeInv
<1>9. EndInv /\ PrintInv /\ BrokeInv /\ ArtifactInv
  BY <1>5, <1>6 DEF Init, EndInv, PrintInv, BrokeInv, ArtifactInv
<1>10. CountInv
  <2>1. calls = zero /\ \A d \in Domains : fix[d] = "idle"
    BY <1>6 DEF Init, Idle
  <2> QED
    BY <1>4, <2>1 DEF CountInv, Sent
<1> QED
  BY <1>8, <1>9, <1>10 DEF IInv

\* The stages of phase 2

LEMMA StageTypes ==
    ASSUME NEW n \in 1..4
    PROVE  /\ Stages[n] \in Pcs \ {"fix", "end", "resync", "DBA_API"}
           /\ Stages[n + 1] \in Pcs \ {"fix", "end", "resync", "once"}
           /\ Produces(Stages[n]) \in Docs
<1>1. n = 1 \/ n = 2 \/ n = 3 \/ n = 4
  OBVIOUS
<1> QED
  BY <1>1 DEF Pcs, Stages, Produces, Docs

LEMMA StageDoneKeeps == ASSUME IInv, NEW n \in 1..4, StageDone(n) PROVE IInv'
<1> DEFINE doc == Produces(Stages[n])
<1>1. /\ pc = Stages[n] /\ pc' = Stages[n + 1] /\ made' = made \cup {doc}
      /\ design' = (IF n = 4 THEN [d \in Designs |-> "busy"] ELSE design)
      /\ st' = [st EXCEPT !.docs = @ \cup {doc}]
      /\ UNCHANGED <<saved, fix, job, outcome, report, calls, broke, cut>>
  BY DEF StageDone, Running
<1>2. doc \in Docs /\ pc \in Pcs \ {"fix", "end", "DBA_API"} /\ pc' \in Pcs \ {"fix", "end", "resync", "once"}
  BY <1>1, StageTypes
<1>3. fix = Idle /\ st.attempts = calls /\ (broke => st.stuck # {})
  BY <1>2, AtRest
<1>4. Sound(st) /\ st \in States /\ job \in Jobs /\ made \subseteq Docs
      /\ design \in [Designs -> {"idle", "busy", "done", "blocked", "raised"}]
  BY DEF IInv, TypeInv, Sound
<1> HIDE DEF doc
<1>5. /\ [st EXCEPT !.docs = @ \cup {doc}] = Advancing(st, {doc}, st.halt)
      /\ st.halt \in Halts
  BY <1>4 DEF States, Advancing
<1>6. Sound(st') /\ st'.attempts = st.attempts /\ st'.stuck = st.stuck /\ st'.docs = st.docs \cup {doc}
  <2>1. st' = Advancing(st, {doc}, st.halt)
    BY <1>1, <1>5
  <2>2. {doc} \in SUBSET Docs /\ st.halt \in Halts
    BY <1>2, <1>5
  <2>3. /\ Sound(Advancing(st, {doc}, st.halt))
        /\ Advancing(st, {doc}, st.halt).attempts = st.attempts
        /\ Advancing(st, {doc}, st.halt).stuck = st.stuck
        /\ Advancing(st, {doc}, st.halt).docs = st.docs \cup {doc}
    BY <1>4, <2>2, AdvancingKeeps
  <2> QED
    BY <2>1, <2>3
<1>7. job'.ctx = "none" => made' \subseteq st'.docs
  BY <1>1, <1>2, <1>6 DEF IInv, ArtifactInv
<1>8. made' \subseteq Docs /\ design' \in [Designs -> {"idle", "busy", "done", "blocked", "raised"}]
  BY <1>1, <1>2, <1>4
<1> QED
  BY <1>1, <1>2, <1>3, <1>4, <1>6, <1>7, <1>8, MoveKeeps

LEMMA StageBlockedKeeps == ASSUME IInv, NEW n \in 1..4, StageBlocked(n) PROVE IInv'
<1>1. /\ pc = Stages[n] /\ pc' = "PHASE3" /\ st' = [st EXCEPT !.halt = "stage"]
      /\ UNCHANGED <<saved, design, fix, job, outcome, report, made, calls, broke, cut>>
  BY DEF StageBlocked, Running, history
<1>2. pc \in Pcs \ {"fix", "end", "DBA_API"} /\ pc' \in Pcs \ {"fix", "end", "resync", "once"}
  BY <1>1, StageTypes DEF Pcs
<1>3. fix = Idle /\ st.attempts = calls /\ (broke => st.stuck # {})
  BY <1>2, AtRest
<1>4. Sound(st) /\ st \in States /\ job \in Jobs /\ made \subseteq Docs
      /\ design \in [Designs -> {"idle", "busy", "done", "blocked", "raised"}]
  BY DEF IInv, TypeInv, Sound
<1>5. [st EXCEPT !.halt = "stage"] = Advancing(st, {}, "stage") /\ "stage" \in Halts
  BY <1>4 DEF States, Advancing, Halts
<1>6. Sound(st') /\ st'.attempts = st.attempts /\ st'.stuck = st.stuck /\ st'.docs = st.docs
  BY <1>1, <1>4, <1>5, AdvancingKeeps
<1>7. job'.ctx = "none" => made' \subseteq st'.docs
  BY <1>1, <1>2, <1>6 DEF IInv, ArtifactInv
<1> QED
  BY <1>1, <1>2, <1>3, <1>4, <1>6, <1>7, MoveKeeps

LEMMA StageFailsKeeps == ASSUME IInv, StageFails PROVE IInv'
<1>1. /\ pc \in {Stages[n] : n \in 1..4} \cup {"QA"} /\ pc' = "end" /\ outcome' = "error" /\ report' = st.docs
      /\ UNCHANGED <<st, saved, design, fix, job, made, calls, broke, cut>>
  BY DEF StageFails, Stop, StageSnapshot, history
<1>2. pc \notin {"fix", "end", "DBA_API"}
  BY <1>1, StageTypes
<1>3. st.docs \subseteq Docs /\ Sound(st) /\ Sound(saved) /\ fix \in [Domains -> Results] /\ job \in Jobs
  BY DEF IInv, TypeInv, Sound, States
<1>4. ~cut /\ cut \in BOOLEAN
  BY <1>2, AtRest DEF IInv, TypeInv
<1>5. job.ctx = "none" => made \subseteq st.docs
  BY <1>2 DEF IInv, ArtifactInv
<1> QED
  BY <1>1, <1>2, <1>3, <1>4, <1>5, StopKeeps

LEMMA DesignDoneKeeps == ASSUME IInv, NEW d \in Designs, DesignDone(d) PROVE IInv'
<1>1. PICK result \in {"done", "blocked", "raised"} :
        /\ pc = "DBA_API" /\ design[d] = "busy" /\ design' = [design EXCEPT ![d] = result]
        /\ made' = (IF result = "done" THEN made \cup {d} ELSE made)
        /\ UNCHANGED <<pc, st, saved, fix, job, outcome, report, calls, broke, cut>>
  BY DEF DesignDone, Running
<1>2. fix = Idle /\ st.attempts = calls /\ (broke => st.stuck # {})
  BY <1>1, AtRest
<1>3. Sound(st) /\ job \in Jobs /\ made \subseteq Docs /\ pc \in Pcs
      /\ design \in [Designs -> {"idle", "busy", "done", "blocked", "raised"}]
  BY DEF IInv, TypeInv
<1>4. made' \subseteq Docs /\ design' \in [Designs -> {"idle", "busy", "done", "blocked", "raised"}]
  BY <1>1, <1>3 DEF Docs
<1>5. Finished \subseteq Finished' /\ (result = "done" => d \in Finished')
  BY <1>1, <1>3 DEF Finished
<1>6. job'.ctx = "none" => made' \subseteq st'.docs \cup Finished'
  BY <1>1, <1>5 DEF IInv, ArtifactInv
<1> QED
  BY <1>1, <1>2, <1>3, <1>4, <1>6, MoveKeeps

LEMMA DesignFailsKeeps == ASSUME IInv, DesignFails PROVE IInv'
<1>1. /\ pc = "DBA_API" /\ pc' = "end" /\ outcome' = "error" /\ report' = st.docs \cup Finished
      /\ UNCHANGED <<st, saved, design, fix, job, made, calls, broke, cut>>
  BY DEF DesignFails, Stop, history
<1>2. st.docs \cup Finished \subseteq Docs /\ Sound(st) /\ Sound(saved) /\ fix \in [Domains -> Results] /\ job \in Jobs
  BY DEF IInv, TypeInv, Sound, States, Finished, Docs
<1>3. ~cut /\ cut \in BOOLEAN
  BY <1>1, AtRest DEF IInv, TypeInv
<1>4. job.ctx = "none" => made \subseteq st.docs \cup Finished
  BY <1>1 DEF IInv, ArtifactInv
<1> QED
  BY <1>1, <1>2, <1>3, <1>4, StopKeeps

\* Repairs

LEMMA FixDoneKeeps == ASSUME IInv, NEW d \in Domains, FixDone(d) PROVE IInv'
<1>1. PICK result \in {"applied", "noop", "failed", "external"} :
        /\ pc = "fix" /\ fix[d] = "running" /\ fix' = [fix EXCEPT ![d] = result]
        /\ broke' = (broke \/ result = "failed")
        /\ UNCHANGED <<pc, st, saved, design, job, outcome, report, made, calls, cut>>
  BY DEF FixDone, Running
<1>2. fix \in [Domains -> Results] /\ broke \in BOOLEAN
  BY DEF IInv, TypeInv
<1>3. fix' \in [Domains -> Results] /\ \A e \in Domains : fix'[e] = IF e = d THEN result ELSE fix[e]
  BY <1>1, <1>2 DEF Results
<1>4. TypeInv'
  BY <1>1, <1>2, <1>3 DEF IInv, TypeInv
<1>5. EndInv'
  BY <1>1 DEF IInv, EndInv
<1>6. CountInv'
  <2>1. \A e \in Domains : fix'[e] \in Sent <=> fix[e] \in Sent
    BY <1>1, <1>3 DEF Sent
  <2> QED
    BY <1>1, <2>1 DEF IInv, CountInv
<1>7. PrintInv' /\ ArtifactInv'
  BY <1>1 DEF IInv, PrintInv, ArtifactInv
<1>8. BrokeInv'
  <2>1. outcome = "none"
    BY <1>1 DEF IInv, EndInv
  <2>2. \A e \in Domains : fix[e] = "failed" => fix'[e] = "failed"
    BY <1>1, <1>3
  <2> QED
    BY <1>1, <1>3, <2>1, <2>2 DEF IInv, BrokeInv
<1> QED
  BY <1>4, <1>5, <1>6, <1>7, <1>8 DEF IInv

LEMMA PmFixedKeeps == ASSUME IInv, PmFixed PROVE IInv'
<1>1. /\ Joined("pm") /\ Dispatch({"prd"}, Fixed) /\ job' = [job EXCEPT !.step = "prd"]
      /\ UNCHANGED <<saved, design, made, outcome, report, broke, cut>>
  BY DEF PmFixed, Running
<1>2. /\ pc = "fix" /\ ~cut /\ job.ctx # "none"
      /\ Sound(Fixed) /\ Fixed.attempts = calls /\ (broke => Fixed.stuck # {})
  BY <1>1, AfterJoin
<1>3. job \in Jobs /\ Sound(saved)
  BY DEF IInv, TypeInv
<1>4. job' \in Jobs /\ job'.ctx = job.ctx
  BY <1>1, <1>3 DEF Jobs
<1>5. job.ctx = "retry" => Fingerprint(saved) \in saved.prints
  BY <1>2 DEF IInv, PrintInv
<1>6. {"prd"} \in SUBSET Domains
  BY DEF Domains
<1> QED
  BY <1>1, <1>2, <1>3, <1>4, <1>5, <1>6, DispatchKeeps

LEMMA PrdFixedKeeps == ASSUME IInv, PrdFixed PROVE IInv'
<1>1. Joined("prd") /\ UNCHANGED <<saved, design, made, outcome, report, broke, cut>>
  BY DEF PrdFixed, Running
<1>2. /\ pc = "fix" /\ ~cut /\ job.ctx # "none"
      /\ Sound(Fixed) /\ Fixed.attempts = calls /\ (broke => Fixed.stuck # {})
  BY <1>1, AfterJoin
<1>3. job \in Jobs /\ job.domains \in SUBSET Domains /\ Sound(saved) /\ made \subseteq Docs
      /\ design \in [Designs -> {"idle", "busy", "done", "blocked", "raised"}]
  BY DEF IInv, TypeInv, Jobs
<1>4. job.ctx = "retry" => Fingerprint(saved) \in saved.prints
  BY <1>2 DEF IInv, PrintInv
<1>5. CASE pc' = "resync" /\ st' = Fixed /\ fix' = Idle /\ UNCHANGED <<job, calls>>
  <2>1. pc' \in Pcs \ {"fix", "end"}
    BY <1>5 DEF Pcs
  <2> QED
    BY <1>1, <1>2, <1>3, <1>4, <1>5, <2>1, MoveKeeps
<1>6. CASE Dispatch(job.domains, Fixed) /\ job' = [job EXCEPT !.step = "patch"]
  <2>1. job' \in Jobs /\ job'.ctx = job.ctx
    BY <1>3, <1>6 DEF Jobs
  <2> QED
    BY <1>1, <1>2, <1>3, <1>4, <1>6, <2>1, DispatchKeeps
<1> QED
  BY <1>5, <1>6 DEF PrdFixed

LEMMA ResyncKeeps == ASSUME IInv, Resync PROVE IInv'
<1>1. PICK changed \in SUBSET Designs :
        /\ pc = "resync" /\ Dispatch(job.domains \cup changed, st)
        /\ job' = [job EXCEPT !.step = "patch", !.domains = @ \cup changed]
        /\ UNCHANGED <<saved, design, made, outcome, report, broke, cut>>
  BY DEF Resync, Running
<1>2. st.attempts = calls /\ (broke => st.stuck # {}) /\ ~cut
  BY <1>1, AtRest
<1>3. job \in Jobs /\ job.domains \cup changed \in SUBSET Domains /\ Sound(st) /\ Sound(saved)
  BY DEF IInv, TypeInv, Jobs, Designs, Domains
<1>4. job' \in Jobs /\ job'.ctx = job.ctx
  BY <1>1, <1>3 DEF Jobs
<1>5. job.ctx # "none" /\ (job.ctx = "retry" => Fingerprint(saved) \in saved.prints)
  BY <1>1 DEF IInv, EndInv, PrintInv
<1> QED
  BY <1>1, <1>2, <1>3, <1>4, <1>5, DispatchKeeps

\* A repair returns without the run ending.
LEMMA ReturnKeeps ==
    ASSUME IInv, pc \in {"fix", "resync"}, ~cut, NEW s, Sound(s), s.attempts = calls,
           broke => s.stuck # {}, NEW H \in SUBSET Domains, Return(s, H),
           UNCHANGED <<saved, design, outcome, report, made, calls, broke, cut>>
    PROVE  IInv'
<1>1. /\ st' = s /\ fix' = Idle
      /\ job' = [job EXCEPT !.step = "none", !.domains = {}, !.handled = @ \cup H]
      /\ pc' = CASE job.ctx = "once" -> "once"
                 [] job.ctx = "retry" -> "PHASE3"
                 [] job.ctx = "rollback" -> IF Blocking(s) THEN "PHASE3" ELSE "QA"
  BY DEF Return
<1>2. job \in Jobs /\ job.ctx \in {"once", "retry", "rollback"} /\ Sound(saved) /\ made \subseteq Docs
      /\ design \in [Designs -> {"idle", "busy", "done", "blocked", "raised"}]
  BY DEF IInv, TypeInv, EndInv, Jobs, Contexts
<1>3. pc' \in {"once", "PHASE3", "QA"} /\ (pc' = "once" => job.ctx = "once")
  BY <1>1, <1>2
<1>4. pc' \in Pcs \ {"fix", "end", "resync"}
  BY <1>3 DEF Pcs
<1>5. job' \in Jobs /\ job'.ctx = job.ctx
  BY <1>1, <1>2 DEF Jobs
<1> QED
  BY <1>1, <1>2, <1>3, <1>4, <1>5, MoveKeeps

LEMMA ResyncFailsKeeps == ASSUME IInv, ResyncFails PROVE IInv'
<1>1. pc = "resync" /\ UNCHANGED <<saved, design, outcome, report, made, calls, broke, cut>>
  BY DEF ResyncFails, Running, history
<1>2. st.attempts = calls /\ (broke => st.stuck # {}) /\ ~cut /\ Sound(st) /\ st \in States
  BY <1>1, AtRest DEF IInv, TypeInv, Sound
<1> DEFINE t == [st EXCEPT !.stuck = @ \cup {"spec"}]
           u == [st EXCEPT !.halt = "contract"]
<1>3. Sound(t) /\ t.attempts = calls /\ (broke => t.stuck # {})
  BY <1>2, StuckState
<1>4. Sound(u) /\ u.attempts = calls /\ (broke => u.stuck # {})
  <2>1. u = Advancing(st, {}, "contract") /\ "contract" \in Halts
    BY <1>2 DEF States, Advancing, Halts
  <2> QED
    BY <1>2, <2>1, AdvancingKeeps
<1>5. Return(t, {}) \/ Return(u, {}) \/ Return(st, {})
  BY DEF ResyncFails
<1> HIDE DEF t, u
<1> QED
  BY <1>1, <1>2, <1>3, <1>4, <1>5, ReturnKeeps

LEMMA PatchedKeeps == ASSUME IInv, Patched PROVE IInv'
<1>1. /\ Joined("patch") /\ Return(Fixed, job.domains)
      /\ UNCHANGED <<saved, design, outcome, report, made, calls, broke, cut>>
  BY DEF Patched, Running, history
<1>2. /\ pc = "fix" /\ ~cut
      /\ Sound(Fixed) /\ Fixed.attempts = calls /\ (broke => Fixed.stuck # {})
  BY <1>1, AfterJoin
<1>3. job.domains \in SUBSET Domains
  BY DEF IInv, TypeInv, Jobs
<1> QED
  BY <1>1, <1>2, <1>3, ReturnKeeps

\* Repairs in phase 2

LEMMA DesignJoinKeeps == ASSUME IInv, DesignJoin PROVE IInv'
<1> DEFINE halt == IF Finished = Designs THEN "none" ELSE "design"
           s == Advancing(st, Finished, halt)
<1>1. PICK feedback \in SUBSET Designs :
        /\ pc = "DBA_API"
        /\ \/ /\ st' = s /\ pc' = (IF Blocking(s) THEN "PHASE3" ELSE "QA")
              /\ UNCHANGED <<fix, job, calls>>
           \/ Dispatch({"prd"}, s) /\ Ask("rollback", "prd", feedback)
        /\ UNCHANGED <<saved, design, made, outcome, report, broke, cut>>
  BY DEF DesignJoin, Running, Advancing
<1>2. fix = Idle /\ st.attempts = calls /\ (broke => st.stuck # {}) /\ ~cut
  BY <1>1, AtRest
<1>3. Sound(st) /\ Sound(saved) /\ job \in Jobs /\ made \subseteq Docs
      /\ design \in [Designs -> {"idle", "busy", "done", "blocked", "raised"}]
  BY DEF IInv, TypeInv
<1>4. Finished \in SUBSET Docs /\ halt \in Halts
  BY DEF Finished, Docs, Halts
<1> HIDE DEF halt
<1>5. Sound(s) /\ s.attempts = st.attempts /\ s.stuck = st.stuck /\ s.docs = st.docs \cup Finished
  BY <1>3, <1>4, AdvancingKeeps
<1> HIDE DEF s
<1>6. CASE st' = s /\ pc' = (IF Blocking(s) THEN "PHASE3" ELSE "QA") /\ UNCHANGED <<fix, job, calls>>
  <2>1. pc' \in Pcs \ {"fix", "end", "resync", "once"}
    BY <1>6 DEF Pcs
  <2>2. job.ctx = "none" => made \subseteq st'.docs
    BY <1>1, <1>5, <1>6 DEF IInv, ArtifactInv
  <2> QED
    BY <1>1, <1>2, <1>3, <1>5, <1>6, <2>1, <2>2, MoveKeeps
<1>7. CASE Dispatch({"prd"}, s) /\ Ask("rollback", "prd", feedback)
  <2>1. job' = [job EXCEPT !.ctx = "rollback", !.step = "prd", !.domains = feedback]
    BY <1>7 DEF Ask
  <2>2. feedback \in SUBSET Domains /\ {"prd"} \in SUBSET Domains
    BY DEF Designs, Domains
  <2>3. job' \in Jobs /\ job'.ctx = "rollback"
    BY <1>3, <2>1, <2>2 DEF Jobs, Contexts
  <2> QED
    BY <1>1, <1>2, <1>3, <1>5, <1>7, <2>2, <2>3, DispatchKeeps
<1> QED
  BY <1>1, <1>6, <1>7

LEMMA QAKeeps == ASSUME IInv, QA PROVE IInv'
<1>1. PICK s \in Checked(st) :
        /\ pc = "QA" /\ st' = s /\ pc' = (IF Found(s) = {} THEN "PHASE3" ELSE "once")
        /\ job' = [NoJob EXCEPT !.ctx = "once"]
        /\ UNCHANGED <<saved, design, fix, outcome, report, made, calls, broke, cut>>
  BY DEF QA, Running, history
<1>2. fix = Idle /\ st.attempts = calls /\ (broke => st.stuck # {})
  BY <1>1, AtRest
<1>3. Sound(st) /\ Sound(saved) /\ made \subseteq Docs
      /\ design \in [Designs -> {"idle", "busy", "done", "blocked", "raised"}]
  BY DEF IInv, TypeInv
<1>4. Sound(s) /\ s.attempts = st.attempts /\ s.stuck = st.stuck
  BY <1>3, CheckedState
<1>5. job' \in Jobs /\ job'.ctx = "once"
  BY <1>1 DEF NoJob, Jobs, Contexts
<1>6. pc' \in Pcs \ {"fix", "end", "resync"}
  BY <1>1 DEF Pcs
<1> QED
  BY <1>1, <1>2, <1>3, <1>4, <1>5, <1>6, MoveKeeps

LEMMA RepairOnceKeeps == ASSUME IInv, RepairOnce PROVE IInv'
<1> DEFINE left == {k \in (job.turn + 1)..3 : HasTurn(Turns[k])}
<1>1. /\ pc = "once" /\ UNCHANGED <<saved, design, made, outcome, report, broke, cut>>
      /\ \/ pc' = "PHASE3" /\ UNCHANGED <<st, fix, job, calls>>
         \/ /\ left # {}
            /\ Dispatch({Turns[Min(left)]}, st)
            /\ job' = [job EXCEPT !.turn = Min(left),
                                  !.step = IF Turns[Min(left)] = "prd" THEN "prd" ELSE "patch"]
  BY DEF RepairOnce, Running
<1>2. fix = Idle /\ st.attempts = calls /\ (broke => st.stuck # {}) /\ ~cut
  BY <1>1, AtRest
<1>3. Sound(st) /\ Sound(saved) /\ job \in Jobs /\ made \subseteq Docs
      /\ design \in [Designs -> {"idle", "busy", "done", "blocked", "raised"}]
  BY DEF IInv, TypeInv
<1>4. CASE pc' = "PHASE3" /\ UNCHANGED <<st, fix, job, calls>>
  <2>1. pc' \in Pcs \ {"fix", "end", "resync", "once"}
    BY <1>4 DEF Pcs
  <2>2. job.ctx = "once"
    BY <1>1 DEF IInv, EndInv
  <2> QED
    BY <1>1, <1>2, <1>3, <1>4, <2>1, <2>2, MoveKeeps
<1>5. CASE /\ left # {}
           /\ Dispatch({Turns[Min(left)]}, st)
           /\ job' = [job EXCEPT !.turn = Min(left),
                                 !.step = IF Turns[Min(left)] = "prd" THEN "prd" ELSE "patch"]
  <2>1. left \subseteq 1..3
    BY <1>3 DEF Jobs
  <2>2. Min(left) \in 1..3
    <3> HIDE DEF left
    <3>1. \E x \in left : \A y \in left : x <= y
      <4>1. CASE 1 \in left
        BY <2>1, <4>1
      <4>2. CASE 1 \notin left /\ 2 \in left
        BY <2>1, <4>2
      <4>3. CASE 1 \notin left /\ 2 \notin left
        BY <1>5, <2>1, <4>3
      <4> QED
        BY <4>1, <4>2, <4>3
    <3> QED
      BY <2>1, <3>1 DEF Min
  <2> HIDE DEF left
  <2>3. Turns[Min(left)] \in Domains
    BY <2>2 DEF Turns, Domains
  <2>4. {Turns[Min(left)]} \in SUBSET Domains
    BY <2>3
  <2>5. job' \in Jobs /\ job'.ctx = "once"
    <3> DEFINE step == IF Turns[Min(left)] = "prd" THEN "prd" ELSE "patch"
    <3>1. step \in {"none", "pm", "prd", "patch"} /\ Min(left) \in 0..3
      BY <2>2
    <3>2. job' = [job EXCEPT !.turn = Min(left), !.step = step] /\ job.ctx = "once"
      BY <1>1, <1>5 DEF IInv, EndInv
    <3> HIDE DEF step
    <3> QED
      BY <1>3, <3>1, <3>2 DEF Jobs
  <2> QED
    BY <1>1, <1>2, <1>3, <1>5, <2>4, <2>5, DispatchKeeps
<1> QED
  BY <1>1, <1>4, <1>5

LEMMA RepairCutOffKeeps == ASSUME IInv, RepairCutOff PROVE IInv'
<1>1. /\ pc \in {"fix", "resync"} /\ job.ctx \in {"rollback", "once"}
      /\ pc' = "end" /\ outcome' = "error" /\ report' = {}
      /\ UNCHANGED <<st, saved, design, fix, job, made, calls, broke, cut>>
  BY DEF RepairCutOff, Stop, history
<1>2. Sound(st) /\ Sound(saved) /\ fix \in [Domains -> Results] /\ job \in Jobs /\ cut \in BOOLEAN
  BY DEF IInv, TypeInv
<1>3. ~cut
  BY <1>1 DEF IInv, EndInv
<1> QED
  BY <1>1, <1>2, <1>3, StopKeeps

\* Phase 3

\* A retry that is not refused leaves its fingerprint in the state it repairs.
LEMMA RetryKeeps ==
    ASSUME IInv, pc \notin {"fix", "end"}, NEW s, Sound(s), s.attempts = calls, broke => s.stuck # {},
           Retry(s), UNCHANGED <<design, made, broke, cut>>
    PROVE  IInv'
<1>1. Sound(saved) /\ fix \in [Domains -> Results] /\ job \in Jobs /\ cut \in BOOLEAN /\ ~cut
  BY AtRest DEF IInv, TypeInv
<1>2. CASE Refused(s)
  <2>1. /\ pc' = "end" /\ outcome' = "rejected" /\ report' = s.docs /\ st' = s
        /\ UNCHANGED <<saved, fix, job, calls>>
    BY <1>2 DEF Retry, Stop
  <2>2. s.docs \subseteq Docs
    BY DEF Sound, States
  <2> QED
    BY <1>1, <2>1, <2>2, StopKeeps
<1>3. CASE ~Refused(s)
  <2> DEFINE step == IF "pm" \in Targets(s) THEN "pm" ELSE IF "prd" \in Targets(s) THEN "prd" ELSE "patch"
             first == IF step = "patch" THEN Targets(s) ELSE {step}
  <2>1. /\ Dispatch(first, Remember(s)) /\ saved' = Remember(s)
        /\ job' = [NoJob EXCEPT !.ctx = "retry", !.step = step]
        /\ UNCHANGED <<outcome, report>>
    BY <1>3 DEF Retry, Running
  <2>2. s.retry < MaxRetry
    BY <1>3, LimitType DEF Refused, Sound, States
  <2>3. /\ Sound(Remember(s)) /\ Remember(s).attempts = s.attempts /\ Remember(s).stuck = s.stuck
        /\ Fingerprint(Remember(s)) \in Remember(s).prints
    BY <2>2, RememberState
  <2>4. first \in SUBSET Domains
    BY RequestType DEF Domains
  <2>5. step \in {"none", "pm", "prd", "patch"}
    OBVIOUS
  <2> HIDE DEF step, first
  <2>6. job' \in Jobs /\ job'.ctx = "retry"
    <3>1. NoJob \in Jobs
      BY DEF NoJob, Jobs, Contexts
    <3> QED
      BY <2>1, <2>5, <3>1 DEF Jobs, Contexts
  <2> QED
    BY <1>1, <2>1, <2>3, <2>4, <2>6, DispatchKeeps
<1> QED
  BY <1>2, <1>3

LEMMA Phase3Keeps == ASSUME IInv, Phase3 PROVE IInv'
<1>1. PICK s \in Checked(st) :
        /\ pc = "PHASE3"
        /\ \/ /\ Blockers(s) = {} /\ Stop("validated", s.docs) /\ st' = s
              /\ UNCHANGED <<saved, fix, job, calls>>
           \/ Retry(s)
        /\ UNCHANGED <<design, made, broke, cut>>
  BY DEF Phase3
<1>2. fix = Idle /\ st.attempts = calls /\ (broke => st.stuck # {}) /\ ~cut
  BY <1>1, AtRest
<1>3. /\ Sound(st) /\ Sound(saved) /\ fix \in [Domains -> Results] /\ job \in Jobs /\ cut \in BOOLEAN
  BY DEF IInv, TypeInv
<1>4. Sound(s) /\ s.attempts = st.attempts /\ s.stuck = st.stuck
  BY <1>3, CheckedState
<1>5. CASE Retry(s)
  BY <1>1, <1>2, <1>4, <1>5, RetryKeeps
<1>6. CASE Blockers(s) = {} /\ Stop("validated", s.docs) /\ st' = s /\ UNCHANGED <<saved, fix, job, calls>>
  <2>1. s.stuck = {}
    BY <1>6 DEF Blockers
  <2>2. ~broke
    BY <1>2, <1>4, <2>1
  <2>3. s.docs \subseteq Docs
    BY <1>4 DEF Sound, States
  <2>4. pc' = "end" /\ outcome' = "validated" /\ report' = s.docs
    BY <1>6 DEF Stop
  <2> QED
    BY <1>1, <1>2, <1>3, <1>4, <1>6, <2>2, <2>3, <2>4, StopKeeps
<1> QED
  BY <1>1, <1>5, <1>6

\* The state a repair was cut off from has its fingerprint already, so it is refused.
LEMMA TimeoutRefused ==
    ASSUME IInv, RepairTimeout
    PROVE  /\ pc' = "end" /\ outcome' = "rejected" /\ report' = saved.docs /\ st' = saved
           /\ cut' = TRUE /\ UNCHANGED <<saved, design, fix, job, made, calls, broke>>
<1>1. Fingerprint(saved) \in saved.prints
  BY DEF RepairTimeout, IInv, PrintInv
<1>2. Refused(saved)
  BY <1>1 DEF Refused
<1> QED
  BY <1>2 DEF RepairTimeout, Retry, Stop

LEMMA RepairTimeoutKeeps == ASSUME IInv, RepairTimeout PROVE IInv'
<1>1. /\ pc' = "end" /\ outcome' = "rejected" /\ report' = saved.docs /\ st' = saved
      /\ cut' = TRUE /\ UNCHANGED <<saved, design, fix, job, made, calls, broke>>
  BY TimeoutRefused
<1>2. pc # "end"
  BY DEF RepairTimeout
<1>3. saved.docs \subseteq Docs /\ Sound(saved) /\ fix \in [Domains -> Results] /\ job \in Jobs
  BY DEF IInv, TypeInv, Sound, States
<1> QED
  BY <1>1, <1>2, <1>3, StopKeeps

LEMMA NextKeeps == ASSUME IInv, [Next]_vars PROVE IInv'
<1>1. CASE UNCHANGED vars
  BY <1>1 DEF vars, history, IInv, TypeInv, EndInv, CountInv, PrintInv, BrokeInv, ArtifactInv, Finished
<1>2. CASE \E n \in 1..4 : StageDone(n) \/ StageBlocked(n)
  BY <1>2, StageDoneKeeps, StageBlockedKeeps
<1>3. CASE \/ \E d \in Designs : DesignDone(d)
           \/ StageFails \/ DesignFails \/ DesignJoin
  BY <1>3, DesignDoneKeeps, StageFailsKeeps, DesignFailsKeeps, DesignJoinKeeps
<1>4. CASE \E d \in Domains : FixDone(d)
  BY <1>4, FixDoneKeeps
<1>5. CASE PmFixed \/ PrdFixed \/ Resync \/ ResyncFails \/ Patched
  BY <1>5, PmFixedKeeps, PrdFixedKeeps, ResyncKeeps, ResyncFailsKeeps, PatchedKeeps
<1>6. CASE QA \/ RepairOnce \/ RepairCutOff \/ Phase3 \/ RepairTimeout
  BY <1>6, QAKeeps, RepairOnceKeeps, RepairCutOffKeeps, Phase3Keeps, RepairTimeoutKeeps
<1> QED
  BY <1>1, <1>2, <1>3, <1>4, <1>5, <1>6 DEF Next

\* The conjunction of the parts above is an invariant of every run.
THEOREM RunInvariant == Spec => []IInv
<1>1. Init => IInv
  BY InitIInv
<1>2. IInv /\ [Next]_vars => IInv'
  BY NextKeeps
<1> QED
  BY <1>1, <1>2, PTL DEF Spec

-----------------------------------------------------------------------------
(* The theorems *)

\* Every variable always has its type.
THEOREM TypesHold == Spec => []TypeOK
<1>1. IInv => TypeOK
  <2> SUFFICES ASSUME IInv PROVE TypeOK
    OBVIOUS
  <2>1. \A s \in {st, saved} :
          /\ s.docs \subseteq Docs
          /\ s.attempts \in [Domains -> 0..Limit]
          /\ s.faults \subseteq Issues
          /\ s.stuck \subseteq Domains \cup {"spec"}
          /\ s.halt \in {"none", "stage", "design", "contract"} /\ s.dirty \in BOOLEAN
          /\ s.retry \in 0..MaxRetry
          /\ Cardinality(s.prints) <= s.retry
    BY DEF IInv, TypeInv, Sound, States, Halts, Marks
  <2>2. job.ctx \in {"none", "rollback", "once", "retry"} /\ job.step \in {"none", "pm", "prd", "patch"}
    BY DEF IInv, TypeInv, Jobs, Contexts
  <2> QED
    BY <2>1, <2>2 DEF IInv, TypeInv, TypeOK, Pcs, Results
<1> QED
  BY <1>1, RunInvariant, PTL

\* Whatever the rollback, the QA repair and the retries repair, no domain is repaired
\* more often than its budget allows, and what the state says was spent is what was
\* dispatched (repair_budget.py).
THEOREM BudgetIsKept == Spec => []BudgetHolds
<1>1. IInv => BudgetHolds
  <2> SUFFICES ASSUME IInv PROVE BudgetHolds
    OBVIOUS
  <2>1. \A d \in Domains : calls[d] <= Limit
    BY LimitType DEF IInv, TypeInv
  <2>2. pc \notin {"fix", "end"} => st.attempts = calls
    BY AtRest
  <2> QED
    BY <2>1, <2>2 DEF BudgetHolds
<1> QED
  BY <1>1, RunInvariant, PTL

\* A run in which a repair failed is never reported as validated, whatever later
\* repairs achieve: the blocker of the failed repair reaches every later state.
THEOREM FailuresAreFinal == Spec => []FailedRepairIsFinal
<1>1. IInv => FailedRepairIsFinal
  BY DEF IInv, BrokeInv, FailedRepairIsFinal
<1> QED
  BY <1>1, RunInvariant, PTL

\* A run stopped in a stage reports every artifact completed before, that of the
\* designer that had finished included.
THEOREM StageFailuresKeepArtifacts == Spec => []StageFailureKeepsArtifacts
<1>1. IInv => StageFailureKeepsArtifacts
  BY DEF IInv, ArtifactInv, StageFailureKeepsArtifacts
<1> QED
  BY <1>1, RunInvariant, PTL

\* A repair cut off by its timeout is not repeated: the run is rejected, because the
\* state it is given up to has the fingerprint of that repair.
THEOREM CutOffEnds == Spec => CutOffIsNotRepeated
<1>1. IInv /\ [Next]_vars => [cut' => calls' = calls /\ outcome' = "rejected"]_vars
  <2> SUFFICES ASSUME IInv, Next, cut' PROVE calls' = calls /\ outcome' = "rejected"
    OBVIOUS
  <2>1. CASE RepairTimeout
    BY <2>1, TimeoutRefused DEF IInv, EndInv
  <2>2. CASE ~RepairTimeout
    <3>1. cut' = cut /\ pc # "end"
      <4>1. CASE \E n \in 1..4 : StageDone(n) \/ StageBlocked(n)
        BY <4>1, StageTypes DEF StageDone, StageBlocked, history
      <4>2. CASE \E d \in Designs : DesignDone(d)
        BY <4>2 DEF DesignDone
      <4>3. CASE StageFails
        BY <4>3, StageTypes DEF StageFails, history
      <4>4. CASE DesignFails \/ DesignJoin \/ (\E d \in Domains : FixDone(d))
        BY <4>4 DEF DesignFails, DesignJoin, FixDone, history
      <4>5. CASE PmFixed \/ PrdFixed \/ Resync \/ ResyncFails \/ Patched
        BY <4>5 DEF PmFixed, PrdFixed, Resync, ResyncFails, Patched, Joined, history
      <4>6. CASE QA \/ RepairOnce \/ RepairCutOff \/ Phase3
        BY <4>6 DEF QA, RepairOnce, RepairCutOff, Phase3, history
      <4> QED
        BY <2>2, <4>1, <4>2, <4>3, <4>4, <4>5, <4>6 DEF Next
    <3>2. cut
      BY <3>1
    <3> QED
      BY <3>1, <3>2 DEF IInv, EndInv
  <2> QED
    BY <2>1, <2>2
<1> QED
  BY <1>1, RunInvariant, PTL DEF Spec, CutOffIsNotRepeated
=============================================================================
