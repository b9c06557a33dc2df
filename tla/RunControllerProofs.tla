------------------------- MODULE RunControllerProofs -------------------------
(***************************************************************************)
(* Proofs about RunController, for any number of runs, slots and restarts. *)
(***************************************************************************)
EXTENDS RunController, FiniteSetTheorems, TLAPS

LEMMA EmptySeq == ASSUME NEW S PROVE <<>> \in Seq(S)
  OBVIOUS

\* The waiters of the semaphore are queued, each once.
LineInv ==
    /\ \A i \in 1..Len(line) : pc[line[i]] = "queued"
    /\ \A i, j \in 1..Len(line) : line[i] = line[j] => i = j

\* An answer ends a run, and what the later awaits of a run rest on
StageInv ==
    \A r \in Runs :
        /\ answer[r].says # "nothing" => pc[r] = "over"
        /\ pc[r] \in {"publishing", "confirming"} => r \in valid
        /\ pc[r] = "confirming" => r \in accepted
        /\ r \in accepted => pc[r] \in {"publishing", "confirming", "over", "lost"}
        /\ pc[r] = "generating" => latest[r] <= 2

IInv == TypeOK /\ LineInv /\ StageInv /\ SlotsAreAccounted /\ ClaimsAreTrue
             /\ OnlyValidResultsLeave /\ ReportIsCurrent

-----------------------------------------------------------------------------
(* Slots *)

\* A run that stops being under way gives its slot back.
LEMMA SlotReturned ==
  ASSUME NEW S, IsFiniteSet(S), NEW r \in S, NEW f \in Int, NEW N \in Int,
         f + Cardinality(S) = N
  PROVE  /\ IsFiniteSet(S \ {r})
         /\ f + 1 + Cardinality(S \ {r}) = N
         /\ f < N
  <1>1. Cardinality(S \ {r}) = Cardinality(S) - 1 /\ IsFiniteSet(S \ {r})
    BY FS_RemoveElement
  <1>2. Cardinality(S \ {r}) \in Nat /\ Cardinality(S) \in Nat
    BY <1>1, FS_CardinalityType
  <1> QED
    BY <1>1, <1>2

\* A run that starts takes one.
LEMMA SlotTaken ==
  ASSUME NEW S, IsFiniteSet(S), NEW r, r \notin S, NEW f \in Int, NEW N \in Int,
         f + Cardinality(S) = N
  PROVE  f - 1 + Cardinality(S \cup {r}) = N
  <1>1. Cardinality(S \cup {r}) = Cardinality(S) + 1
    BY FS_AddElement
  <1>2. Cardinality(S) \in Nat
    BY FS_CardinalityType
  <1> QED
    BY <1>1, <1>2

LEMMA WorkingFinite == IsFiniteSet(Working)
  BY ControllerAssumption, FS_Subset DEF Working

-----------------------------------------------------------------------------
(* The two ways a task goes on *)

\* Waiting for the next await keeps the line and the slots.
LEMMA GotoKeeps ==
  ASSUME IInv, NEW r \in Runs, NEW await \in Awaits, pc[r] \in Awaits, Goto(r, await)
  PROVE  /\ LineInv' /\ SlotsAreAccounted'
         /\ pc' \in [Runs -> {"new", "queued"} \cup Awaits \cup Ended]
         /\ pc'[r] = await /\ \A q \in Runs \ {r} : pc'[q] = pc[q]
  <1> USE DEF IInv, TypeOK, Goto, Awaits, Ended
  <1>1. pc' \in [Runs -> {"new", "queued"} \cup Awaits \cup Ended]
    OBVIOUS
  <1>2. pc'[r] = await /\ \A q \in Runs \ {r} : pc'[q] = pc[q]
    OBVIOUS
  <1>3. LineInv'
    BY <1>2 DEF LineInv
  <1>4. Working' = Working
    BY <1>2 DEF Working
  <1>5. SlotsAreAccounted'
    BY <1>4 DEF SlotsAreAccounted
  <1> QED
    BY <1>1, <1>2, <1>3, <1>5

\* So does the end of a run.
LEMMA FinishKeeps ==
  ASSUME IInv, NEW r \in Runs, pc[r] \in Awaits, NEW says \in Answers, NEW level \in Levels,
         Finish(r, says, level)
  PROVE  /\ LineInv' /\ SlotsAreAccounted'
         /\ pc' \in [Runs -> {"new", "queued"} \cup Awaits \cup Ended]
         /\ answer' \in [Runs -> [says : Answers \cup {"nothing"}, level : Levels]]
         /\ free' \in 0..Slots
         /\ pc'[r] = "over" /\ \A q \in Runs \ {r} : pc'[q] = pc[q]
         /\ answer'[r] = [says |-> says, level |-> level]
         /\ \A q \in Runs \ {r} : answer'[q] = answer[q]
  <1> USE DEF IInv, TypeOK, Finish, Awaits, Ended
  <1>1. pc' \in [Runs -> {"new", "queued"} \cup Awaits \cup Ended]
    OBVIOUS
  <1>2. pc'[r] = "over" /\ \A q \in Runs \ {r} : pc'[q] = pc[q]
    OBVIOUS
  <1>3. LineInv'
    BY <1>2 DEF LineInv
  <1>4. Working' = Working \ {r} /\ r \in Working
    BY <1>2 DEF Working
  <1>t. free \in Int /\ Slots \in Int /\ free + Cardinality(Working) = Slots /\ IsFiniteSet(Working)
    BY WorkingFinite, ControllerAssumption DEF SlotsAreAccounted
  <1>5. free + 1 + Cardinality(Working \ {r}) = Slots /\ free < Slots
    <2> HIDE DEF IInv, TypeOK, Finish
    <2> QED
      BY <1>4, <1>t, SlotReturned
  <1>6. SlotsAreAccounted' /\ free' \in 0..Slots
    BY <1>4, <1>5, ControllerAssumption DEF SlotsAreAccounted
  <1>7. answer' \in [Runs -> [says : Answers \cup {"nothing"}, level : Levels]]
    OBVIOUS
  <1>8. /\ answer'[r] = [says |-> says, level |-> level]
        /\ \A q \in Runs \ {r} : answer'[q] = answer[q]
    OBVIOUS
  <1> QED
    BY <1>1, <1>2, <1>3, <1>6, <1>7, <1>8

-----------------------------------------------------------------------------
(* The shapes of the actions *)

\* A task that goes on, with what the later awaits rest on
LEMMA MoveKeeps ==
  ASSUME IInv, NEW r \in Runs, pc[r] \in Awaits, NEW await \in Awaits, Goto(r, await),
         NEW n \in Levels, latest' = [latest EXCEPT ![r] = n],
         valid' = valid \/ valid' = valid \cup {r},
         await \in {"publishing", "confirming"} => r \in valid',
         await = "confirming" => r \in accepted,
         r \in accepted => await \in {"publishing", "confirming"},
         await = "generating" => n <= 2,
         UNCHANGED store
  PROVE  IInv'
  <1>1. /\ LineInv' /\ SlotsAreAccounted'
        /\ pc' \in [Runs -> {"new", "queued"} \cup Awaits \cup Ended]
        /\ pc'[r] = await /\ \A q \in Runs \ {r} : pc'[q] = pc[q]
    BY GotoKeeps
  <1>2. UNCHANGED <<line, free, answer, restarts, kafka, accepted, stored, dead, answered>>
    BY DEF Goto, store
  <1>3. answer[r].says = "nothing"
    BY DEF IInv, StageInv, Awaits
  <1>4. /\ latest' \in [Runs -> Levels] /\ latest'[r] = n
        /\ \A q \in Runs \ {r} : latest'[q] = latest[q]
    BY DEF IInv, TypeOK
  <1>5. TypeOK'
    BY <1>1, <1>2, <1>4 DEF IInv, TypeOK
  <1>6. StageInv'
    BY <1>1, <1>2, <1>3, <1>4 DEF IInv, StageInv
  <1>7. ClaimsAreTrue' /\ OnlyValidResultsLeave'
    BY <1>2 DEF IInv, ClaimsAreTrue, OnlyValidResultsLeave
  <1>8. ReportIsCurrent'
    BY <1>2, <1>3, <1>4 DEF IInv, ReportIsCurrent
  <1> QED
    BY <1>1, <1>5, <1>6, <1>7, <1>8 DEF IInv

\* A task that ends with a true answer
LEMMA EndKeeps ==
  ASSUME IInv, NEW r \in Runs, pc[r] \in Awaits, NEW says \in Answers, NEW level \in Levels,
         Finish(r, says, level),
         NEW n \in Levels, latest' = [latest EXCEPT ![r] = n], n <= level,
         valid' = valid \/ valid' = valid \cup {r},
         says = "complete" => r \in stored,
         says = "pending" => r \in accepted,
         says = "unsaved" => r \notin accepted,
         UNCHANGED <<accepted, stored, dead>>, answered' \subseteq Runs
  PROVE  IInv'
  <1>1. /\ LineInv' /\ SlotsAreAccounted'
        /\ pc' \in [Runs -> {"new", "queued"} \cup Awaits \cup Ended]
        /\ answer' \in [Runs -> [says : Answers \cup {"nothing"}, level : Levels]]
        /\ free' \in 0..Slots
        /\ pc'[r] = "over" /\ \A q \in Runs \ {r} : pc'[q] = pc[q]
        /\ answer'[r] = [says |-> says, level |-> level]
        /\ \A q \in Runs \ {r} : answer'[q] = answer[q]
    BY FinishKeeps
  <1>2. UNCHANGED <<line, restarts, kafka>>
    BY DEF Finish
  <1>4. /\ latest' \in [Runs -> Levels] /\ latest'[r] = n
        /\ \A q \in Runs \ {r} : latest'[q] = latest[q]
    BY DEF IInv, TypeOK
  <1>5. TypeOK'
    BY <1>1, <1>2, <1>4 DEF IInv, TypeOK
  <1>6. StageInv'
    BY <1>1, <1>4 DEF IInv, StageInv
  <1>7. ClaimsAreTrue' /\ OnlyValidResultsLeave'
    BY <1>1 DEF IInv, ClaimsAreTrue, OnlyValidResultsLeave
  <1>8. ReportIsCurrent'
    BY <1>1, <1>4 DEF IInv, ReportIsCurrent
  <1> QED
    BY <1>1, <1>5, <1>6, <1>7, <1>8 DEF IInv

LEMMA SameLatest ==
  ASSUME IInv, NEW r \in Runs, UNCHANGED latest
  PROVE  latest[r] \in Levels /\ latest' = [latest EXCEPT ![r] = latest[r]]
  BY DEF IInv, TypeOK

\* A validated result goes into phase 4 or is answered as not saved.
LEMMA DeliverKeeps ==
  ASSUME IInv, NEW r \in Runs, pc[r] \in {"generating", "repairing"}, NEW n \in Levels,
         latest' = [latest EXCEPT ![r] = n], valid' = valid \cup {r}, Deliver(r, n), UNCHANGED store
  PROVE  IInv'
  <1>1. r \notin accepted /\ pc[r] \in Awaits
    BY DEF IInv, StageInv, Awaits
  <1>2. CASE kafka
    <2>1. Goto(r, "publishing") /\ "publishing" \in Awaits /\ r \in valid'
      BY <1>2 DEF Deliver, Awaits
    <2> QED
      BY <1>1, <2>1, MoveKeeps
  <1>3. CASE ~kafka
    <2>1. Finish(r, "unsaved", n) /\ "unsaved" \in Answers
      BY <1>3 DEF Deliver, Answers
    <2>2. n <= n /\ UNCHANGED <<accepted, stored, dead>> /\ answered' \subseteq Runs
      BY DEF store, IInv, TypeOK, Levels
    <2> QED
      BY <1>1, <2>1, <2>2, EndKeeps
  <1> QED
    BY <1>2, <1>3

-----------------------------------------------------------------------------
(* The invariant is inductive. *)

\* Steps that leave alone what a task that was started has, beyond adding to the store
LEMMA StoreKeeps ==
  ASSUME IInv, UNCHANGED <<pc, line, free, latest, valid, answer, restarts, kafka>>,
         \A s \in {accepted', stored', dead', answered'} : s \subseteq Runs,
         accepted \subseteq accepted', stored \subseteq stored',
         \A r \in accepted' \ accepted : pc[r] = "publishing"
  PROVE  IInv'
  <1>1. TypeOK' /\ LineInv'
    BY DEF IInv, TypeOK, LineInv
  <1>2. StageInv'
    BY DEF IInv, StageInv
  <1>3. SlotsAreAccounted'
    BY DEF IInv, SlotsAreAccounted, Working
  <1>4. \A r \in Runs : pc[r] = "publishing" => answer[r].says = "nothing" /\ r \in valid
    BY DEF IInv, StageInv
  <1>5. ClaimsAreTrue'
    <2>1. \A r \in Runs : answer[r].says = "unsaved" => r \notin accepted'
      BY <1>4 DEF IInv, ClaimsAreTrue
    <2> QED
      BY <2>1 DEF IInv, ClaimsAreTrue
  <1>6. OnlyValidResultsLeave'
    BY <1>4 DEF IInv, OnlyValidResultsLeave, TypeOK
  <1>7. ReportIsCurrent'
    BY DEF IInv, ReportIsCurrent
  <1> QED
    BY <1>1, <1>2, <1>3, <1>5, <1>6, <1>7 DEF IInv

LEMMA InitIInv == Init => IInv
  <1> SUFFICES ASSUME Init PROVE IInv
    OBVIOUS
  <1>0. Slots \in Nat /\ 0 <= MaxRestarts /\ 0 \in 0..MaxRestarts /\ Slots \in 0..Slots
    BY ControllerAssumption
  <1>1. TypeOK
    BY <1>0, EmptySeq DEF Init, Delivery!Init, TypeOK, Levels, None
  <1>2. LineInv /\ StageInv
    BY DEF Init, Delivery!Init, LineInv, StageInv, None
  <1>3. Working = {}
    BY DEF Init, Working, Awaits
  <1>4. SlotsAreAccounted
    BY <1>0, <1>3, FS_EmptySet DEF SlotsAreAccounted, Init
  <1>5. ClaimsAreTrue /\ OnlyValidResultsLeave /\ ReportIsCurrent
    BY DEF Init, Delivery!Init, ClaimsAreTrue, OnlyValidResultsLeave, ReportIsCurrent, None
  <1> QED
    BY <1>1, <1>2, <1>4, <1>5 DEF IInv

\* A request before its task
LEMMA RequestKeeps ==
  ASSUME IInv, NEW r \in Runs, Reject(r) \/ Generate(r)
  PROVE  IInv'
  <1>1. /\ pc[r] = "new" /\ pc'[r] \in {"rejected", "queued"}
        /\ pc' \in [Runs -> {"new", "queued"} \cup Awaits \cup Ended]
        /\ \A q \in Runs \ {r} : pc'[q] = pc[q]
    BY DEF Reject, Generate, IInv, TypeOK, Ended
  <1>2. UNCHANGED <<free, latest, valid, answer, restarts, kafka, accepted, stored, dead, answered>>
    BY DEF Reject, Generate, store
  <1>3. Working' = Working
    BY <1>1 DEF Working, Awaits
  <1>4. SlotsAreAccounted'
    BY <1>2, <1>3 DEF SlotsAreAccounted, IInv
  <1>5. line' \in Seq(Runs) /\ LineInv'
    <2>1. CASE Reject(r)
      BY <1>1, <2>1 DEF Reject, IInv, TypeOK, LineInv
    <2>2. CASE Generate(r)
      <3>1. /\ line' \in Seq(Runs) /\ Len(line') = Len(line) + 1 /\ Len(line) \in Nat
            /\ line'[Len(line) + 1] = r
            /\ \A i \in 1..Len(line) : line'[i] = line[i]
        BY <2>2 DEF Generate, IInv, TypeOK
      <3>2. pc'[r] = "queued"
        BY <2>2 DEF Generate, IInv, TypeOK
      <3>3. \A i \in 1..Len(line) : line[i] # r /\ line[i] \in Runs
        BY <1>1 DEF IInv, TypeOK, LineInv
      <3>4. \A i \in 1..Len(line') : i = Len(line) + 1 \/ i \in 1..Len(line)
        BY <3>1
      <3>5. \A i \in 1..Len(line') : pc'[line'[i]] = "queued"
        BY <1>1, <3>1, <3>2, <3>3, <3>4 DEF IInv, LineInv
      <3>6. \A i, j \in 1..Len(line') : line'[i] = line'[j] => i = j
        BY <3>1, <3>3, <3>4 DEF IInv, LineInv
      <3> QED
        BY <3>1, <3>5, <3>6 DEF LineInv
    <2> QED
      BY <2>1, <2>2
  <1>6. TypeOK'
    BY <1>1, <1>2, <1>5 DEF IInv, TypeOK
  <1>7. StageInv'
    BY <1>1, <1>2 DEF IInv, StageInv
  <1>8. ClaimsAreTrue' /\ OnlyValidResultsLeave' /\ ReportIsCurrent'
    BY <1>2 DEF IInv, ClaimsAreTrue, OnlyValidResultsLeave, ReportIsCurrent
  <1> QED
    BY <1>4, <1>5, <1>6, <1>7, <1>8 DEF IInv

LEMMA StartKeeps ==
  ASSUME IInv, NEW skip \in BOOLEAN, Start(skip)
  PROVE  IInv'
  <1> DEFINE r == line[1]
  <1>0. /\ line \in Seq(Runs) /\ line # <<>> /\ Len(line) \in Nat \ {0} /\ r \in Runs
        /\ Head(line) = r
        /\ line' \in Seq(Runs) /\ Len(line') = Len(line) - 1
        /\ \A i \in 1..Len(line') : line'[i] = line[i + 1]
    BY DEF Start, IInv, TypeOK
  <1>1. pc[r] = "queued"
    BY <1>0 DEF IInv, LineInv
  <1> HIDE DEF r
  <1>2. /\ pc'[r] \in {"retrieving", "generating"}
        /\ pc' \in [Runs -> {"new", "queued"} \cup Awaits \cup Ended]
        /\ \A q \in Runs \ {r} : pc'[q] = pc[q]
    BY <1>0 DEF Start, IInv, TypeOK, Awaits
  <1>3. /\ latest' \in [Runs -> Levels] /\ latest'[r] <= 2
        /\ \A q \in Runs \ {r} : latest'[q] = latest[q]
    BY <1>0 DEF Start, IInv, TypeOK, Levels
  <1>4. UNCHANGED <<valid, answer, restarts, kafka, accepted, stored, dead, answered>>
    BY DEF Start, store
  <1>5. Working' = Working \cup {r} /\ r \notin Working
    BY <1>0, <1>1, <1>2 DEF Working, Awaits
  <1>6. SlotsAreAccounted' /\ free' \in 0..Slots
    <2>1. free \in Int /\ free \in 0..Slots /\ free > 0 /\ free' = free - 1 /\ Slots \in Int
      BY ControllerAssumption DEF Start, IInv, TypeOK
    <2>2. free + Cardinality(Working) = Slots /\ IsFiniteSet(Working)
      BY WorkingFinite DEF IInv, SlotsAreAccounted
    <2>3. free - 1 + Cardinality(Working \cup {r}) = Slots
      BY <1>5, <2>1, <2>2, SlotTaken
    <2> QED
      BY <1>5, <2>1, <2>3 DEF SlotsAreAccounted
  <1>7. LineInv'
    <2>1. \A i \in 1..Len(line') : i + 1 \in 1..Len(line) /\ i + 1 # 1 /\ line'[i] = line[i + 1]
      BY <1>0
    <2>2. \A i \in 1..Len(line) : line[i] \in Runs /\ pc[line[i]] = "queued" /\ (line[i] = r => i = 1)
      BY <1>0 DEF IInv, LineInv, r
    <2>3. \A i \in 1..Len(line') : line'[i] \in Runs \ {r} /\ pc[line'[i]] = "queued"
      BY <2>1, <2>2
    <2>4. \A i, j \in 1..Len(line') : line'[i] = line'[j] => i = j
      BY <1>0, <2>1 DEF IInv, LineInv
    <2> QED
      BY <1>2, <2>3, <2>4 DEF LineInv
  <1>8. TypeOK'
    BY <1>0, <1>2, <1>3, <1>4, <1>6 DEF IInv, TypeOK
  <1>9. StageInv'
    BY <1>0, <1>1, <1>2, <1>3, <1>4 DEF IInv, StageInv
  <1>10. ClaimsAreTrue' /\ OnlyValidResultsLeave'
    BY <1>4 DEF IInv, ClaimsAreTrue, OnlyValidResultsLeave
  <1>11. ReportIsCurrent'
    BY <1>0, <1>1, <1>3, <1>4 DEF IInv, ReportIsCurrent, StageInv
  <1> QED
    BY <1>6, <1>7, <1>8, <1>9, <1>10, <1>11 DEF IInv

\* While a run generates, the state of the route is the context.
LEMMA GeneratingLevel == ASSUME IInv, NEW r \in Runs, pc[r] = "generating" PROVE latest[r] <= 2
  BY DEF IInv, StageInv

LEMMA TaskKeeps ==
  ASSUME IInv, NEW r \in Runs, Task(r)
  PROVE  IInv'
  <1>0. 1 \in Levels /\ 2 \in Levels /\ 3 \in Levels /\ 4 \in Levels /\ latest[r] \in Levels
    BY DEF Levels, IInv, TypeOK
  <1>1. CASE Retrieved(r)
    <2>1. /\ pc[r] \in Awaits /\ "generating" \in Awaits /\ r \notin accepted
          /\ Goto(r, "generating") /\ latest' = [latest EXCEPT ![r] = 1]
          /\ valid' = valid /\ UNCHANGED store /\ 1 <= 2
      BY <1>1 DEF Retrieved, Awaits, IInv, StageInv
    <2> QED
      BY <1>0, <2>1, MoveKeeps
  <1>2. ASSUME NEW passes \in BOOLEAN, Generated(r, passes) PROVE IInv'
    <2>1. CASE passes
      <3>1. /\ pc[r] \in {"generating", "repairing"} /\ latest' = [latest EXCEPT ![r] = 3]
            /\ valid' = valid \cup {r} /\ Deliver(r, 3) /\ UNCHANGED store
        BY <1>2, <2>1 DEF Generated
      <3> QED
        BY <1>0, <3>1, DeliverKeeps
    <2>2. CASE ~passes
      <3>1. /\ pc[r] \in Awaits /\ "repairing" \in Awaits /\ r \notin accepted
            /\ Goto(r, "repairing") /\ latest' = [latest EXCEPT ![r] = 3]
            /\ valid' = valid /\ UNCHANGED store
        BY <1>2, <2>2 DEF Generated, Awaits, IInv, StageInv
      <3> QED
        BY <1>0, <3>1, MoveKeeps
    <2> QED
      BY <2>1, <2>2
  <1>3. ASSUME NEW passes \in BOOLEAN, Repaired(r, passes) PROVE IInv'
    <2>1. CASE passes
      <3>1. /\ pc[r] \in {"generating", "repairing"} /\ latest' = [latest EXCEPT ![r] = 4]
            /\ valid' = valid \cup {r} /\ Deliver(r, 4) /\ UNCHANGED store
        BY <1>3, <2>1 DEF Repaired
      <3> QED
        BY <1>0, <3>1, DeliverKeeps
    <2>2. CASE ~passes
      <3>1. /\ pc[r] \in Awaits /\ "invalid" \in Answers /\ 4 <= 4
            /\ Finish(r, "invalid", 4) /\ latest' = [latest EXCEPT ![r] = 4] /\ valid' = valid
            /\ UNCHANGED <<accepted, stored, dead>> /\ answered' \subseteq Runs
        BY <1>3, <2>2 DEF Repaired, Awaits, Answers, store, IInv, TypeOK
      <3> QED
        BY <1>0, <3>1, EndKeeps
    <2> QED
      BY <2>1, <2>2
  <1>4. CASE Published(r)
    <2>1. /\ pc[r] \in Awaits /\ "confirming" \in Awaits /\ r \in accepted /\ r \in valid
          /\ Goto(r, "confirming") /\ UNCHANGED latest /\ valid' = valid /\ UNCHANGED store
      BY <1>4 DEF Published, Awaits, IInv, StageInv
    <2>2. latest' = [latest EXCEPT ![r] = latest[r]]
      BY <2>1, SameLatest
    <2> QED
      BY <1>0, <2>1, <2>2, MoveKeeps
  <1>5. CASE ConfirmStored(r)
    <2>1. /\ pc[r] \in Awaits /\ "complete" \in Answers /\ r \in stored
          /\ Finish(r, "complete", latest[r]) /\ UNCHANGED latest /\ valid' = valid
          /\ UNCHANGED <<accepted, stored, dead>> /\ answered' \subseteq Runs
      BY <1>5 DEF ConfirmStored, Delivery!Answer, Awaits, Answers, IInv, TypeOK
    <2>2. latest' = [latest EXCEPT ![r] = latest[r]] /\ latest[r] <= latest[r]
      BY <1>0, <2>1, SameLatest DEF Levels
    <2> QED
      BY <1>0, <2>1, <2>2, EndKeeps
  <1>6. CASE ConfirmPending(r)
    <2>1. /\ pc[r] \in Awaits /\ "pending" \in Answers /\ r \in accepted
          /\ Finish(r, "pending", latest[r]) /\ UNCHANGED latest /\ valid' = valid
          /\ UNCHANGED <<accepted, stored, dead>> /\ answered' \subseteq Runs
      BY <1>6 DEF ConfirmPending, store, Awaits, Answers, IInv, TypeOK, StageInv
    <2>2. latest' = [latest EXCEPT ![r] = latest[r]] /\ latest[r] <= latest[r]
      BY <1>0, <2>1, SameLatest DEF Levels
    <2> QED
      BY <1>0, <2>1, <2>2, EndKeeps
  <1>7. CASE Raises(r)
    <2> PICK level \in Reported(r) : Finish(r, "failed", level)
      BY <1>7 DEF Raises
    <2>1. /\ pc[r] \in Awaits /\ "failed" \in Answers
          /\ UNCHANGED latest /\ valid' = valid
          /\ UNCHANGED <<accepted, stored, dead>> /\ answered' \subseteq Runs
      BY <1>7 DEF Raises, store, Awaits, Answers, IInv, TypeOK
    <2>2. level \in Levels /\ latest[r] <= level
      BY <1>0, GeneratingLevel DEF Reported, Levels
    <2>3. latest' = [latest EXCEPT ![r] = latest[r]]
      BY <2>1, SameLatest
    <2> QED
      BY <1>0, <2>1, <2>2, <2>3, EndKeeps
  <1> QED
    BY <1>1, <1>2, <1>3, <1>4, <1>5, <1>6, <1>7 DEF Task

LEMMA RestartKeeps ==
  ASSUME IInv, Restart
  PROVE  IInv'
  <1>1. /\ pc' \in [Runs -> {"new", "queued"} \cup Awaits \cup Ended]
        /\ \A r \in Runs : pc'[r] \notin Awaits
        /\ \A r \in Runs : pc[r] \notin Awaits \cup {"queued"} => pc'[r] = pc[r]
        /\ \A r \in Runs : pc[r] \in Awaits \cup {"queued"} => pc'[r] = "lost"
    BY DEF Restart, IInv, TypeOK, Awaits, Ended
  <1>2. /\ line' = <<>> /\ free' = Slots
        /\ UNCHANGED <<latest, valid, answer, accepted, stored, dead, answered>>
    BY DEF Restart, store
  <1>3. restarts' \in 0..MaxRestarts /\ kafka' \in BOOLEAN /\ Slots \in 0..Slots /\ Slots \in Nat
    BY ControllerAssumption DEF Restart, IInv, TypeOK
  <1>4. TypeOK'
    BY <1>1, <1>2, <1>3, EmptySeq DEF IInv, TypeOK
  <1>5. LineInv'
    BY <1>2 DEF LineInv
  <1>6. Working' = {}
    BY <1>1 DEF Working
  <1>7. SlotsAreAccounted'
    BY <1>2, <1>3, <1>6, FS_EmptySet DEF SlotsAreAccounted
  <1>8. StageInv'
    BY <1>1, <1>2 DEF IInv, StageInv, Awaits
  <1>9. ClaimsAreTrue' /\ OnlyValidResultsLeave' /\ ReportIsCurrent'
    BY <1>2 DEF IInv, ClaimsAreTrue, OnlyValidResultsLeave, ReportIsCurrent
  <1> QED
    BY <1>4, <1>5, <1>7, <1>8, <1>9 DEF IInv

LEMMA NextKeeps == IInv /\ [Next]_vars => IInv'
  <1> SUFFICES ASSUME IInv, [Next]_vars PROVE IInv'
    OBVIOUS
  <1>1. ASSUME NEW skip \in BOOLEAN, Start(skip) PROVE IInv'
    BY <1>1, StartKeeps
  <1>2. ASSUME NEW r \in Runs, Reject(r) \/ Generate(r) PROVE IInv'
    BY <1>2, RequestKeeps
  <1>3. ASSUME NEW r \in Runs, Task(r) PROVE IInv'
    BY <1>3, TaskKeeps
  <1>4. ASSUME NEW r \in Runs, Keep(r) PROVE IInv'
    <2>1. /\ UNCHANGED <<pc, line, free, latest, valid, answer, restarts, kafka>>
          /\ \A s \in {accepted', stored', dead', answered'} : s \subseteq Runs
          /\ accepted \subseteq accepted' /\ stored \subseteq stored'
          /\ \A q \in accepted' \ accepted : pc[q] = "publishing"
      BY <1>4 DEF Keep, Delivery!Accept, IInv, TypeOK
    <2> QED
      BY <2>1, StoreKeeps
  <1>5. ASSUME NEW r \in Runs, Settle(r) PROVE IInv'
    <2>1. /\ UNCHANGED <<pc, line, free, latest, valid, answer, restarts, kafka>>
          /\ \A s \in {accepted', stored', dead', answered'} : s \subseteq Runs
          /\ accepted \subseteq accepted' /\ stored \subseteq stored'
          /\ \A q \in accepted' \ accepted : pc[q] = "publishing"
      BY <1>5 DEF Settle, Delivery!Store, Delivery!SetAside, IInv, TypeOK
    <2> QED
      BY <2>1, StoreKeeps
  <1>6. CASE Restart
    BY <1>6, RestartKeeps
  <1>7. CASE UNCHANGED vars
    <2>1. /\ UNCHANGED <<pc, line, free, latest, valid, answer, restarts, kafka>>
          /\ \A s \in {accepted', stored', dead', answered'} : s \subseteq Runs
          /\ accepted \subseteq accepted' /\ stored \subseteq stored'
          /\ \A q \in accepted' \ accepted : pc[q] = "publishing"
      BY <1>7 DEF vars, store, IInv, TypeOK
    <2> QED
      BY <2>1, StoreKeeps
  <1> QED
    BY <1>1, <1>2, <1>3, <1>4, <1>5, <1>6, <1>7 DEF Next

\* The inductive invariant of the controller: semaphore, line, stages and claims together.
THEOREM ControllerInvariant == Spec => []IInv
  BY InitIInv, NextKeeps, PTL DEF Spec

\* No path of a run, through error, early return or success, loses or doubles a slot.
THEOREM SlotsStayAccounted == Spec => []SlotsAreAccounted
  BY ControllerInvariant, PTL DEF IInv

\* What clients were told of their results remains true for ever.
THEOREM ClaimsStayTrue == Spec => []ClaimsAreTrue
  BY ControllerInvariant, PTL DEF IInv

\* Only validated documents are handed to delivery.
THEOREM DeliveredIsValid == Spec => []OnlyValidResultsLeave
  BY ControllerInvariant, PTL DEF IInv

\* Failure reports contain what the last returned phase made.
THEOREM ReportsAreCurrent == Spec => []ReportIsCurrent
  BY ControllerInvariant, PTL DEF IInv

\* What leaves a run is valid, true and up to date.
THEOREM AnswersStaySound == Spec => []AnswersAreSound
  <1>1. ClaimsAreTrue /\ OnlyValidResultsLeave /\ ReportIsCurrent => AnswersAreSound
    BY DEF AnswersAreSound
  <1> QED
    BY <1>1, ClaimsStayTrue, DeliveredIsValid, ReportsAreCurrent, PTL

-----------------------------------------------------------------------------
(* The controller implements OneAnswer. *)

LEMMA InitPromise == Init => Promise!Init
  BY DEF Init, Delivery!Init, Promise!Init, Request, Said, None

LEMMA StepPromise ==
  ASSUME IInv, [Next]_vars
  PROVE  [Promise!Next]_(Promise!vars)
  <1> DEFINE request == [r \in Runs |-> Request(r)]
  <1>1. ASSUME NEW r \in Runs, NEW await \in Awaits, pc[r] \in Awaits, Goto(r, await), UNCHANGED store
        PROVE  UNCHANGED Promise!vars
    <2>1. \A q \in Runs : Request(q)' = Request(q)
      BY <1>1 DEF Goto, IInv, TypeOK, Request, Awaits
    <2>2. UNCHANGED <<request, Said, accepted, stored>>
      BY <1>1, <2>1 DEF Goto, Said, store
    <2> QED
      BY <2>2 DEF Promise!vars
  <1>2. ASSUME NEW r \in Runs, pc[r] \in Awaits, NEW says \in Answers, NEW level \in Levels,
               Finish(r, says, level), UNCHANGED <<accepted, stored>>,
               says = "complete" => r \in stored,
               says = "pending" => r \in accepted,
               says = "unsaved" => r \notin accepted
        PROVE  Promise!Next
    <2>1. request[r] = "open" /\ Promise!True(r, says)
      BY <1>2 DEF Request, Awaits, Promise!True
    <2>2. request' = [request EXCEPT ![r] = "answered"]
      BY <1>2 DEF Finish, IInv, TypeOK, Request
    <2>3. Said' = [Said EXCEPT ![r] = says]
      BY <1>2 DEF Finish, IInv, TypeOK, Said
    <2>4. Promise!Answer(r, says)
      BY <1>2, <2>1, <2>2, <2>3 DEF Promise!Answer
    <2> QED
      BY <2>4 DEF Promise!Next, Answers
  <1>3. ASSUME NEW r \in Runs, NEW n \in Levels, pc[r] \in {"generating", "repairing"},
               Deliver(r, n), UNCHANGED store
        PROVE  [Promise!Next]_(Promise!vars)
    <2>1. r \notin accepted /\ pc[r] \in Awaits /\ UNCHANGED <<accepted, stored>>
      BY <1>3 DEF IInv, StageInv, Awaits, store
    <2>2. CASE kafka
      BY <1>1, <1>3, <2>1, <2>2 DEF Deliver, Awaits
    <2>3. CASE ~kafka
      BY <1>2, <1>3, <2>1, <2>3 DEF Deliver, Answers
    <2> QED
      BY <2>2, <2>3
  <1>4. ASSUME NEW skip \in BOOLEAN, Start(skip) PROVE UNCHANGED Promise!vars
    <2>1. pc[Head(line)] = "queued" /\ Head(line) \in Runs
      BY <1>4 DEF Start, IInv, TypeOK, LineInv
    <2>2. \A q \in Runs : Request(q)' = Request(q)
      BY <1>4, <2>1 DEF Start, IInv, TypeOK, Request
    <2>3. UNCHANGED <<request, Said, accepted, stored>>
      BY <1>4, <2>2 DEF Start, Said, store
    <2> QED
      BY <2>3 DEF Promise!vars
  <1>5. ASSUME NEW r \in Runs, Reject(r) PROVE UNCHANGED Promise!vars
    <2>1. \A q \in Runs : Request(q)' = Request(q)
      BY <1>5 DEF Reject, IInv, TypeOK, Request
    <2>2. UNCHANGED <<request, Said, accepted, stored>>
      BY <1>5, <2>1 DEF Reject, Said, store
    <2> QED
      BY <2>2 DEF Promise!vars
  <1>6. ASSUME NEW r \in Runs, Generate(r) PROVE Promise!Next
    <2>1. request[r] = "none" /\ request' = [request EXCEPT ![r] = "open"]
      BY <1>6 DEF Generate, IInv, TypeOK, Request
    <2>2. UNCHANGED <<Said, accepted, stored>>
      BY <1>6 DEF Generate, Said, store
    <2> QED
      BY <2>1, <2>2 DEF Promise!Next, Promise!Ask
  <1>7. ASSUME NEW r \in Runs, Task(r) PROVE [Promise!Next]_(Promise!vars)
    <2>0. 3 \in Levels /\ 4 \in Levels /\ latest[r] \in Levels
      BY DEF Levels, IInv, TypeOK
    <2>1. CASE Retrieved(r)
      BY <1>1, <2>1 DEF Retrieved, Awaits
    <2>2. ASSUME NEW passes \in BOOLEAN, Generated(r, passes) PROVE [Promise!Next]_(Promise!vars)
      <3>1. CASE passes
        BY <1>3, <2>0, <2>2, <3>1 DEF Generated
      <3>2. CASE ~passes
        BY <1>1, <2>2, <3>2 DEF Generated, Awaits
      <3> QED
        BY <3>1, <3>2
    <2>3. ASSUME NEW passes \in BOOLEAN, Repaired(r, passes) PROVE [Promise!Next]_(Promise!vars)
      <3>1. CASE passes
        BY <1>3, <2>0, <2>3, <3>1 DEF Repaired
      <3>2. CASE ~passes
        BY <1>2, <2>0, <2>3, <3>2 DEF Repaired, Awaits, Answers, store
      <3> QED
        BY <3>1, <3>2
    <2>4. CASE Published(r)
      BY <1>1, <2>4 DEF Published, Awaits
    <2>5. CASE ConfirmStored(r)
      BY <1>2, <2>0, <2>5 DEF ConfirmStored, Delivery!Answer, Awaits, Answers
    <2>6. CASE ConfirmPending(r)
      BY <1>2, <2>0, <2>6 DEF ConfirmPending, Awaits, Answers, store, IInv, StageInv
    <2>7. CASE Raises(r)
      <3> PICK level \in Reported(r) : Finish(r, "failed", level)
        BY <2>7 DEF Raises
      <3>1. level \in Levels
        BY <2>0 DEF Reported, Levels
      <3> QED
        BY <1>2, <2>7, <3>1 DEF Raises, Awaits, Answers, store
    <2> QED
      BY <1>7, <2>1, <2>2, <2>3, <2>4, <2>5, <2>6, <2>7 DEF Task
  <1>8. ASSUME NEW r \in Runs, Keep(r) PROVE Promise!Next
    <2>1. request[r] = "open" /\ UNCHANGED <<request, Said, stored>> /\ accepted' = accepted \cup {r}
      BY <1>8 DEF Keep, Delivery!Accept, Request, Said
    <2> QED
      BY <2>1 DEF Promise!Next, Promise!Keep
  <1>9. ASSUME NEW r \in Runs, Settle(r) PROVE [Promise!Next]_(Promise!vars)
    <2>1. UNCHANGED <<request, Said, accepted>>
      BY <1>9 DEF Settle, Delivery!Store, Delivery!SetAside, Request, Said
    <2>2. CASE Delivery!Store(r)
      BY <2>1, <2>2 DEF Delivery!Store, Promise!Next, Promise!Store
    <2>3. CASE Delivery!SetAside(r)
      BY <2>1, <2>3 DEF Delivery!SetAside, Promise!vars
    <2> QED
      BY <1>9, <2>2, <2>3 DEF Settle
  <1>10. CASE Restart
    <2>1. request' = [r \in Runs |-> IF request[r] = "open" THEN "lost" ELSE request[r]]
      <3>1. \A r \in Runs : Request(r)' = IF Request(r) = "open" THEN "lost" ELSE Request(r)
        BY <1>10 DEF Restart, IInv, TypeOK, Request, Awaits, Ended
      <3> QED
        BY <3>1
    <2>2. UNCHANGED <<Said, accepted, stored>>
      BY <1>10 DEF Restart, Said, store
    <2> QED
      BY <2>1, <2>2 DEF Promise!Next, Promise!Lose
  <1>11. CASE UNCHANGED vars
    BY <1>11 DEF vars, store, Promise!vars, Request, Said
  <1> QED
    BY <1>4, <1>5, <1>6, <1>7, <1>8, <1>9, <1>10, <1>11 DEF Next

\* Every request gets at most one final answer, true when given, and nothing is kept after it.
THEOREM ImplementsOneAnswer == Spec => KeepsPromise
  <1>1. Init => Promise!Init
    BY InitPromise
  <1>2. IInv /\ [Next]_vars => [Promise!Next]_(Promise!vars)
    BY StepPromise
  <1> QED
    BY <1>1, <1>2, ControllerInvariant, PTL DEF Spec, KeepsPromise, Promise!Spec
=============================================================================
