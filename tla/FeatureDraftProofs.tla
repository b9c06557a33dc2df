------------------------- MODULE FeatureDraftProofs -------------------------
(***************************************************************************)
(* Proofs about FeatureDraft, for any drafts, patches, faults and number   *)
(* of attempts.                                                            *)
(***************************************************************************)
EXTENDS FeatureDraft, SequenceTheorems, FiniteSetTheorems, WellFoundedInduction, TLAPS

DistinctIds(d) == \A i, j \in DOMAIN d.features : d.features[i].id = d.features[j].id => i = j

\* A draft whatever its operations and DTOs look like
IsDraft(d) ==
    /\ d = [features |-> d.features, dtos |-> d.dtos]
    /\ \E T : d.features \in Seq(T)
    /\ DistinctIds(d)

LEMMA FirstDraftsAreDrafts == ASSUME NEW d \in FirstDrafts PROVE IsDraft(d)
  BY DraftAssumption DEF IsDraft, DistinctIds

LEMMA NoDraftIsDraft == IsDraft(NoDraft)
  <1>1. NoDraft.features = <<>> /\ NoDraft = [features |-> NoDraft.features, dtos |-> NoDraft.dtos]
    BY DEF NoDraft
  <1>2. NoDraft.features \in Seq({})
    BY <1>1, EmptySeq
  <1>3. DistinctIds(NoDraft)
    BY <1>1 DEF DistinctIds
  <1> QED
    BY <1>1, <1>2, <1>3 DEF IsDraft

-----------------------------------------------------------------------------
(* What the scope of a repair says *)

\* A feature is in scope when it is faulty, and open in its affected operations only if a fault
\* names an operation or a route of it; a missing core has no feature.
LEMMA ScopeOfFaults ==
  ASSUME NEW d, IsDraft(d), NEW found, NEW i \in DOMAIN d.features
  PROVE  LET sc == RepairScope(d, found)  id == d.features[i].id IN
         /\ id \in sc.ids => i \in Faulty(d, found)
         /\ i \in Restricted(d, found) =>
                id \in DOMAIN sc.open /\ sc.open[id] = Affected(d, found, i)
         /\ sc.ids \subseteq IdsOf(d)
         /\ sc.missing \subseteq Sources
         /\ d.features[i].source \notin sc.missing
  <1> DEFINE Id(k) == d.features[k].id
             At(x) == CHOOSE k \in DOMAIN d.features : Id(k) = x
             sc == RepairScope(d, found)
             faulty == Faulty(d, found)
             restricted == Restricted(d, found)
  <1>1. sc.ids = {Id(k) : k \in faulty}
    BY DEF RepairScope
  <1>2. sc.open = [x \in {Id(k) : k \in restricted} |-> Affected(d, found, At(x))]
    BY DEF RepairScope
  <1>3. sc.missing = {s \in Sources : <<"core", s>> \in found /\ Holders(d, s) = {}}
    BY DEF RepairScope
  <1>4. faulty \subseteq DOMAIN d.features
    BY DEF Faulty
  <1>5. At(Id(i)) = i
    BY DEF IsDraft, DistinctIds
  <1>6. Id(i) \in sc.ids => i \in faulty
    BY <1>1, <1>4 DEF IsDraft, DistinctIds
  <1>7. i \in restricted => Id(i) \in DOMAIN sc.open /\ sc.open[Id(i)] = Affected(d, found, i)
    BY <1>2, <1>5
  <1>8. sc.ids \subseteq IdsOf(d)
    BY <1>1, <1>4 DEF IdsOf
  <1>9. d.features[i].source \notin sc.missing
    BY <1>3 DEF Holders
  <1>10. sc.missing \subseteq Sources
    BY <1>3
  <1> QED
    BY <1>6, <1>7, <1>8, <1>9, <1>10

\* An operation that no fault names is in a feature out of scope, or it is not affected in a
\* feature that is open in its affected operations only.
LEMMA UntouchableIsClosed ==
  ASSUME IsDraft(draft), scope = RepairScope(draft, faults), faults \subseteq FaultsOf(draft),
         NEW i \in DOMAIN draft.features, NEW j \in Untouchable(i),
         draft.features[i].id \in scope.ids
  PROVE  /\ draft.features[i].id \in DOMAIN scope.open
         /\ j \notin scope.open[draft.features[i].id]
  <1> DEFINE here == {x \in faults : x[1] \in {"operation", "route"} /\ x[2] = i}
             ops == draft.features[i].ops
  <1>1. i \in Faulty(draft, faults)
    BY ScopeOfFaults
  <1>2. j \in DOMAIN ops /\ ~Blamed(i, j)
    BY DEF Untouchable
  <1>3. here # {} /\ \A x \in here : x[3] \notin {j, ops[j].key}
    BY <1>1, <1>2 DEF Blamed
  <1>4. j \notin Affected(draft, faults, i)
    BY <1>3 DEF Affected
  <1>5. PICK x \in here : TRUE
    BY <1>3
  <1>6. i \in Restricted(draft, faults)
    <2>1. x \in FaultsOf(draft) /\ x[1] \in {"operation", "route"} /\ x[2] = i /\ x \in faults
      BY <1>5
    <2>2. CASE x[1] = "operation"
      <3>1. x = <<"operation", i, x[3]>> /\ x[3] \in DOMAIN ops
        BY <2>1, <2>2 DEF FaultsOf
      <3> QED
        BY <1>1, <2>1, <3>1 DEF Restricted, Affected
    <2>3. CASE x[1] = "route"
      <3>1. x = <<"route", i, x[3]>> /\ x[3] \in Keys
        BY <2>1, <2>3 DEF FaultsOf
      <3>2. CASE x[3] \in KeysOf(ops)
        BY <1>1, <2>1, <3>1, <3>2 DEF Restricted, Affected, KeysOf
      <3>3. CASE x[3] \notin KeysOf(ops)
        BY <1>1, <2>1, <3>1, <3>3 DEF Restricted, Appendable
      <3> QED
        BY <3>2, <3>3
    <2> QED
      BY <2>1, <2>2, <2>3
  <1> QED
    BY <1>4, <1>6, ScopeOfFaults

-----------------------------------------------------------------------------
(* The inductive invariant *)

\* The baseline and its scope belong together.
BaselineInv ==
    /\ IsDraft(draft)
    /\ HasDraft => scope = RepairScope(draft, faults) /\ faults \subseteq FaultsOf(draft)

\* A feature of the baseline keeps its place and its core, and either its id or one that the
\* patch gave and the baseline does not know; so do the features that the patch adds.
WorkInv ==
    /\ DOMAIN draft.features \subseteq DOMAIN work.features
    /\ \A i \in DOMAIN draft.features : work.features[i].source = draft.features[i].source
    /\ \A i \in DOMAIN work.features :
        \/ i \in DOMAIN draft.features /\ work.features[i].id = draft.features[i].id
        \/ work.features[i].id \in seen \ IdsOf(draft)
    /\ ~Readdressed => UntouchedOps

IInv ==
    /\ BaselineInv
    /\ pc \in {"features", "check"} => IsDraft(work)
    /\ Merging => WorkInv
    /\ pc = "features" => HasDraft

-----------------------------------------------------------------------------
(* One entry of a patch *)

\* A feature that still has its id keeps the operations no fault names.
LEMMA ReplacementKeeps ==
  ASSUME IsDraft(draft), scope = RepairScope(draft, faults), faults \subseteq FaultsOf(draft),
         NEW i \in DOMAIN draft.features,
         work.features[i].id = draft.features[i].id,
         draft.features[i].id \in scope.ids,
         Same(draft.features[i].ops, work.features[i].ops, Untouchable(i)),
         NEW entry, NEW ops \in Replacements(work.features[i], entry)
  PROVE  Same(draft.features[i].ops, ops, Untouchable(i))
  <1> DEFINE f == work.features[i]
  <1>1. CASE ~entry.lists
    <2>1. ops = f.ops
      BY <1>1 DEF Replacements
    <2> QED
      BY <2>1
  <1>2. CASE entry.lists
    <2>1. Preserves(f, ops)
      BY <1>2 DEF Replacements
    <2> SUFFICES ASSUME NEW j \in Untouchable(i)
                 PROVE  j \in DOMAIN ops /\ ops[j] = draft.features[i].ops[j]
      BY DEF Same
    <2>2. f.id \in DOMAIN scope.open /\ j \notin scope.open[f.id]
      BY UntouchableIsClosed
    <2>3. j \in DOMAIN f.ops /\ f.ops[j] = draft.features[i].ops[j]
      BY DEF Same
    <2>4. Same(f.ops, ops, DOMAIN f.ops \ Open(f))
      BY <2>1, <2>2 DEF Preserves
    <2>5. j \in DOMAIN f.ops \ Open(f)
      BY <2>2, <2>3 DEF Open
    <2> QED
      BY <2>3, <2>4, <2>5 DEF Same
  <1> QED
    BY <1>1, <1>2

\* An entry that is merged replaces a feature of the baseline in place, or adds one.
LEMMA MergedEntry ==
  ASSUME BaselineInv, HasDraft, IsDraft(work), WorkInv,
         NEW entry \in Entries, NEW fs \in MergeEntry(entry)
  PROVE  /\ entry.id \notin seen
         /\ \/ \E i \in DOMAIN draft.features :
                /\ \E ops \in Replacements(work.features[i], entry) :
                    fs = [work.features EXCEPT ![i] =
                            [id |-> entry.id, source |-> work.features[i].source, ops |-> ops]]
                /\ \/ /\ entry.id \notin IdsOf(draft)
                      /\ work.features[i].id = draft.features[i].id
                      /\ draft.features[i].id \in scope.ids
                   \/ /\ entry.id = draft.features[i].id
                      /\ entry.id \in scope.ids
            \/ /\ entry.id \notin IdsOf(draft)
               /\ \E ops \in {entry.ops, <<>>} : fs = Append(work.features,
                                    [id |-> entry.id, source |-> entry.source, ops |-> ops])
  <1>1. entry.id \notin seen
    BY DEF MergeEntry
  <1>2. scope.ids \subseteq IdsOf(draft) /\ scope.missing \subseteq Sources
    <2>1. scope = RepairScope(draft, faults)
      BY DEF BaselineInv
    <2>2. scope.ids = {draft.features[i].id : i \in Faulty(draft, faults)}
      BY <2>1 DEF RepairScope
    <2>3. scope.missing = {s \in Sources : <<"core", s>> \in faults /\ Holders(draft, s) = {}}
      BY <2>1 DEF RepairScope
    <2>4. Faulty(draft, faults) \subseteq DOMAIN draft.features
      BY DEF Faulty
    <2> QED
      BY <2>2, <2>3, <2>4 DEF IdsOf
  <1>3. ASSUME NEW i \in DOMAIN work.features, fs \in Replace(i, entry)
        PROVE  \E ops \in Replacements(work.features[i], entry) :
                    fs = [work.features EXCEPT ![i] =
                            [id |-> entry.id, source |-> work.features[i].source, ops |-> ops]]
    BY <1>3 DEF Replace
  <1>4. ById(entry) = {} <=> entry.id \notin IdsOf(draft)
    BY DEF ById, IdsOf
  <1>5. CASE ById(entry) = {} /\ Cardinality(BySource(entry)) = 1
    <2>1. PICK i \in BySource(entry) : fs \in Replace(i, entry)
      BY <1>1, <1>5 DEF MergeEntry
    <2>2. i \in DOMAIN work.features /\ work.features[i].id \in scope.ids
      BY DEF BySource
    <2>3. i \in DOMAIN draft.features /\ work.features[i].id = draft.features[i].id
      BY <1>2, <2>2 DEF WorkInv
    <2> QED
      BY <1>1, <1>3, <1>4, <1>5, <2>1, <2>2, <2>3
  <1>6. CASE ~(ById(entry) = {} /\ Cardinality(BySource(entry)) = 1)
    <2>1. entry.id \in scope.ids \/ entry.source \in scope.missing
      BY <1>1, <1>6 DEF MergeEntry
    <2>2. CASE ById(entry) # {}
      <3>1. PICK i \in ById(entry) : entry.source \in {NoSource, work.features[i].source} /\ fs \in Replace(i, entry)
        BY <1>1, <1>6, <2>1, <2>2 DEF MergeEntry
      <3>2. i \in DOMAIN draft.features /\ draft.features[i].id = entry.id
        BY DEF ById
      <3>3. i \in DOMAIN work.features /\ work.features[i].source = draft.features[i].source
        BY <3>2 DEF WorkInv
      <3>4. draft.features[i].source \notin scope.missing
        BY <3>2, ScopeOfFaults DEF BaselineInv
      <3>5. NoSource \notin scope.missing
        BY <1>2, DraftAssumption
      <3>6. entry.id \in scope.ids
        BY <2>1, <3>1, <3>3, <3>4, <3>5
      <3> QED
        BY <1>1, <1>3, <3>1, <3>2, <3>3, <3>6
    <2>3. CASE ById(entry) = {}
      <3>1. fs = Append(work.features, [id |-> entry.id, source |-> entry.source,
                                        ops |-> IF entry.lists THEN entry.ops ELSE <<>>])
        BY <1>1, <1>6, <2>1, <2>3 DEF MergeEntry
      <3> QED
        BY <1>1, <1>4, <2>3, <3>1
    <2> QED
      BY <2>2, <2>3
  <1> QED
    BY <1>5, <1>6

\* A draft that has one id renamed, to one that it does not know, is a draft.
LEMMA ReplacedIsDraft ==
  ASSUME NEW d, IsDraft(d), NEW i \in DOMAIN d.features, NEW f,
         \A k \in DOMAIN d.features \ {i} : d.features[k].id # f.id
  PROVE  IsDraft([d EXCEPT !.features = [d.features EXCEPT ![i] = f]])
  <1> DEFINE fs == [d.features EXCEPT ![i] = f]
             e == [d EXCEPT !.features = fs]
  <1> SUFFICES IsDraft(e)
    OBVIOUS
  <1>1. PICK T : d.features \in Seq(T)
    BY DEF IsDraft
  <1>2. d.features \in Seq(T \cup {f})
    BY <1>1, SeqMonotonic, ElementOfSeq
  <1>3. fs \in Seq(T \cup {f})
    BY <1>2, ExceptSeq
  <1>4. e = [features |-> fs, dtos |-> d.dtos]
    BY DEF IsDraft
  <1>5. DOMAIN fs = DOMAIN d.features /\ fs[i] = f /\ \A k \in DOMAIN fs \ {i} : fs[k] = d.features[k]
    OBVIOUS
  <1>6. \A j, k \in DOMAIN fs : fs[j].id = fs[k].id => j = k
    BY <1>5 DEF IsDraft, DistinctIds
  <1>7. e.features = fs /\ e.dtos = d.dtos
    BY <1>4
  <1> HIDE DEF fs, e
  <1> QED
    BY <1>3, <1>4, <1>6, <1>7 DEF IsDraft, DistinctIds

LEMMA AppendedIsDraft ==
  ASSUME NEW d, IsDraft(d), NEW f, f.id \notin IdsOf(d)
  PROVE  IsDraft([d EXCEPT !.features = Append(d.features, f)])
  <1> DEFINE fs == Append(d.features, f)
             e == [d EXCEPT !.features = fs]
  <1> SUFFICES IsDraft(e)
    OBVIOUS
  <1>1. PICK T : d.features \in Seq(T)
    BY DEF IsDraft
  <1>2. d.features \in Seq(T \cup {f})
    BY <1>1, SeqMonotonic, ElementOfSeq
  <1>3. fs \in Seq(T \cup {f}) /\ DOMAIN fs = 1..(Len(d.features) + 1)
        /\ DOMAIN d.features = 1..Len(d.features) /\ Len(d.features) \in Nat
        /\ fs[Len(d.features) + 1] = f /\ \A k \in DOMAIN d.features : fs[k] = d.features[k]
    BY <1>2
  <1>4. e = [features |-> fs, dtos |-> d.dtos]
    BY DEF IsDraft
  <1> HIDE DEF fs
  <1>5. \A j, k \in DOMAIN fs : fs[j].id = fs[k].id => j = k
    BY <1>3 DEF IsDraft, DistinctIds, IdsOf
  <1>6. e.features = fs /\ e.dtos = d.dtos
    BY <1>4
  <1> HIDE DEF e
  <1> QED
    BY <1>3, <1>4, <1>5, <1>6 DEF IsDraft, DistinctIds

\* Whether an entry was addressed twice does not change back.
LEMMA ReaddressedStays ==
  ASSUME Readdressed, NEW id, id \notin seen, seen' = seen \cup {id},
         IdsOf(work') \subseteq IdsOf(work) \cup {id}
  PROVE  Readdressed'
  BY DEF Readdressed

LEMMA ReplaceStep ==
  ASSUME BaselineInv, HasDraft, IsDraft(work), WorkInv, UNCHANGED baseline,
         NEW entry \in Entries, entry.id \notin seen, seen' = seen \cup {entry.id},
         NEW i \in DOMAIN draft.features,
         NEW ops \in Replacements(work.features[i], entry),
         work' = [work EXCEPT !.features = [work.features EXCEPT ![i] =
                            [id |-> entry.id, source |-> work.features[i].source, ops |-> ops]]],
         \/ /\ entry.id \notin IdsOf(draft)
            /\ work.features[i].id = draft.features[i].id
            /\ draft.features[i].id \in scope.ids
         \/ /\ entry.id = draft.features[i].id
            /\ entry.id \in scope.ids
  PROVE  IsDraft(work)' /\ WorkInv'
  <1> DEFINE f == [id |-> entry.id, source |-> work.features[i].source, ops |-> ops]
             fs == [work.features EXCEPT ![i] = f]
  <1>1. i \in DOMAIN work.features /\ DOMAIN fs = DOMAIN work.features
        /\ fs[i] = f /\ \A k \in DOMAIN fs \ {i} : fs[k] = work.features[k]
    BY DEF WorkInv
  <1>2. work'.features = fs
    BY DEF IsDraft
  <1>3. UNCHANGED <<draft, faults, scope>>
    BY DEF baseline
  <1>4. f.id = entry.id /\ f.source = work.features[i].source /\ f.ops = ops
    OBVIOUS
  <1>5. \A k \in DOMAIN work.features \ {i} : work.features[k].id # f.id
    BY <1>4 DEF WorkInv, BaselineInv, IsDraft, DistinctIds, IdsOf
  <1>6. IsDraft(work')
    BY <1>1, <1>5, ReplacedIsDraft
  <1> HIDE DEF f, fs
  <1>7. IdsOf(work') \subseteq IdsOf(work) \cup {entry.id}
    BY <1>1, <1>2, <1>4 DEF IdsOf
  <1>8. ASSUME ~Readdressed'
        PROVE  UntouchedOps'
    <2>1. ~Readdressed
      BY <1>7, <1>8, ReaddressedStays
    <2>2. \A k \in DOMAIN draft.features :
            Same(draft.features[k].ops, work.features[k].ops, Untouchable(k))
      BY <2>1 DEF WorkInv, UntouchedOps
    <2>3. work.features[i].id = draft.features[i].id /\ draft.features[i].id \in scope.ids
      <3>1. CASE work.features[i].id = draft.features[i].id
        BY <3>1
      <3>2. CASE work.features[i].id # draft.features[i].id
        <4>1. work.features[i].id \in seen \ IdsOf(draft) /\ entry.id \in IdsOf(draft)
          BY <1>1, <3>2 DEF WorkInv, IdsOf
        <4>2. work.features[i].id \in seen' /\ work.features[i].id # entry.id
          BY <4>1
        <4>3. work.features[i].id \in IdsOf(work')
          BY <1>8, <4>2 DEF Readdressed
        <4>4. PICK k \in DOMAIN fs : fs[k].id = work.features[i].id
          BY <1>2, <4>3 DEF IdsOf
        <4>5. k # i /\ k \in DOMAIN work.features /\ work.features[k].id = work.features[i].id
          BY <1>1, <1>4, <4>2, <4>4
        <4> QED
          BY <1>1, <4>5 DEF IsDraft, DistinctIds
      <3> QED
        BY <3>1, <3>2
    <2>4. Same(draft.features[i].ops, ops, Untouchable(i))
      BY <2>2, <2>3, ReplacementKeeps DEF BaselineInv
    <2>5. \A k \in DOMAIN draft.features :
            Same(draft.features[k].ops, fs[k].ops, Untouchable(k))
      BY <1>1, <1>4, <2>2, <2>4 DEF WorkInv
    <2>6. \A k : Untouchable(k)' = Untouchable(k)
      BY <1>3 DEF Untouchable, Blamed
    <2> QED
      BY <1>2, <1>3, <2>5, <2>6 DEF UntouchedOps
  <1>9. \A k \in DOMAIN fs :
            \/ k \in DOMAIN draft.features /\ fs[k].id = draft.features[k].id
            \/ fs[k].id \in seen' \ IdsOf(draft)
    BY <1>1, <1>4 DEF WorkInv
  <1>10. DOMAIN draft.features \subseteq DOMAIN fs
         /\ \A k \in DOMAIN draft.features : fs[k].source = draft.features[k].source
    BY <1>1, <1>4 DEF WorkInv
  <1> QED
    BY <1>2, <1>3, <1>6, <1>8, <1>9, <1>10 DEF WorkInv

LEMMA AppendStep ==
  ASSUME BaselineInv, HasDraft, IsDraft(work), WorkInv, UNCHANGED baseline,
         NEW entry \in Entries, entry.id \notin seen, seen' = seen \cup {entry.id},
         entry.id \notin IdsOf(draft), NEW f, f.id = entry.id,
         work' = [work EXCEPT !.features = Append(work.features, f)]
  PROVE  IsDraft(work)' /\ WorkInv'
  <1> DEFINE fs == Append(work.features, f)
  <1>1. PICK T : work.features \in Seq(T)
    BY DEF IsDraft
  <1>2. work.features \in Seq(T \cup {f})
    BY <1>1, SeqMonotonic, ElementOfSeq
  <1>3. /\ Len(work.features) \in Nat /\ DOMAIN work.features = 1..Len(work.features)
        /\ DOMAIN fs = 1..(Len(work.features) + 1) /\ fs[Len(work.features) + 1] = f
        /\ \A k \in DOMAIN work.features : fs[k] = work.features[k]
    BY <1>2
  <1>4. work'.features = fs
    BY DEF IsDraft
  <1>5. UNCHANGED <<draft, faults, scope>>
    BY DEF baseline
  <1>6. f.id \notin IdsOf(work)
    BY DEF WorkInv, IdsOf
  <1>7. IsDraft(work')
    BY <1>6, AppendedIsDraft
  <1> HIDE DEF fs
  <1>8. \A k \in DOMAIN fs : k \in DOMAIN work.features \/ fs[k] = f
    BY <1>3
  <1>9. IdsOf(work') \subseteq IdsOf(work) \cup {entry.id}
    BY <1>3, <1>4, <1>8 DEF IdsOf
  <1>10. ~Readdressed' => UntouchedOps'
    <2>1. ~Readdressed' => ~Readdressed
      BY <1>9, ReaddressedStays
    <2>2. \A k : Untouchable(k)' = Untouchable(k)
      BY <1>5 DEF Untouchable, Blamed
    <2> QED
      BY <1>3, <1>4, <1>5, <2>1, <2>2 DEF UntouchedOps, WorkInv
  <1>11. \A k \in DOMAIN fs :
            \/ k \in DOMAIN draft.features /\ fs[k].id = draft.features[k].id
            \/ fs[k].id \in seen' \ IdsOf(draft)
    BY <1>3, <1>8 DEF WorkInv
  <1>12. DOMAIN draft.features \subseteq DOMAIN fs
         /\ \A k \in DOMAIN draft.features : fs[k].source = draft.features[k].source
    BY <1>3 DEF WorkInv
  <1> QED
    BY <1>4, <1>5, <1>7, <1>10, <1>11, <1>12 DEF WorkInv

-----------------------------------------------------------------------------
(* The invariant is inductive *)

LEMMA InitIInv == Init => IInv
  BY NoDraftIsDraft DEF Init, IInv, BaselineInv, HasDraft, Merging

\* A dropped patch or a failed request leaves the baseline as it was.
LEMMA AgainKeeps ==
  ASSUME IInv, NEW failure, Again(failure)
  PROVE  IInv'
  <1>1. pc' \in {"ask", "blocked"}
    BY DEF Again
  <1>2. BaselineInv'
    BY DEF IInv, Again, baseline, BaselineInv, HasDraft
  <1> QED
    BY <1>1, <1>2 DEF IInv, Merging

LEMMA StepIInv == IInv /\ [Next]_vars => IInv'
  <1> SUFFICES ASSUME IInv, [Next]_vars
               PROVE  IInv'
    OBVIOUS
  <1> USE DEF IInv
  <1>1. CASE FallBack
    BY <1>1 DEF FallBack, baseline, patch, BaselineInv, HasDraft, Merging
  <1>2. CASE TransportFails
    BY <1>2, AgainKeeps DEF TransportFails
  <1>3. CASE Terminal
    BY <1>3 DEF Terminal, baseline, patch, BaselineInv, HasDraft, Merging
  <1>4. CASE Answered
    <2>1. IsDraft(work')
      BY <1>4, FirstDraftsAreDrafts DEF Answered
    <2> QED
      BY <1>4, <2>1 DEF Answered, baseline, BaselineInv, HasDraft, Merging
  <1>5. CASE Patched
    <2>1. BaselineInv' /\ HasDraft' /\ IsDraft(work')
      BY <1>5 DEF Patched, baseline, BaselineInv, HasDraft
    <2>2. work' = draft /\ UNCHANGED <<draft, faults>>
      BY <1>5 DEF Patched, baseline
    <2>3. \A i \in DOMAIN draft.features :
            Same(draft.features[i].ops, draft.features[i].ops, Untouchable(i)')
      BY <2>2 DEF Untouchable, Same
    <2>4. WorkInv'
      BY <2>2, <2>3 DEF WorkInv, UntouchedOps
    <2> QED
      BY <2>1, <2>4
  <1>6. CASE Passes
    BY <1>6 DEF Passes, baseline, patch, BaselineInv, HasDraft, Merging
  <1>7. ASSUME NEW syntax \in BOOLEAN, Unparseable(syntax)
        PROVE  IInv'
    BY <1>7, AgainKeeps DEF Unparseable
  <1>8. ASSUME NEW entry \in Entries, Merge(entry)
        PROVE  IInv'
    <2>1. CASE MergeEntry(entry) = {}
      BY <1>8, <2>1, AgainKeeps DEF Merge, DropPatch
    <2>2. CASE MergeEntry(entry) # {}
      <3>1. PICK fs \in MergeEntry(entry) : work' = [work EXCEPT !.features = fs]
        BY <1>8, <2>2 DEF Merge
      <3>2. pc = "features" /\ UNCHANGED <<pc, baseline>> /\ seen' = seen \cup {entry.id}
        BY <1>8, <2>2 DEF Merge
      <3>3. HasDraft /\ BaselineInv /\ IsDraft(work) /\ WorkInv
        BY <3>2 DEF Merging
      <3>4. IsDraft(work)' /\ WorkInv'
        <4>1. entry.id \notin seen
          BY <3>1, <3>3, MergedEntry
        <4>2. ASSUME entry.id \notin IdsOf(draft),
                     NEW ops, fs = Append(work.features, [id |-> entry.id, source |-> entry.source, ops |-> ops])
              PROVE  IsDraft(work)' /\ WorkInv'
          <5> DEFINE f == [id |-> entry.id, source |-> entry.source, ops |-> ops]
          <5>1. f.id = entry.id /\ work' = [work EXCEPT !.features = Append(work.features, f)]
            BY <3>1, <4>2
          <5> HIDE DEF f
          <5> QED
            BY <3>2, <3>3, <4>1, <4>2, <5>1, AppendStep
        <4>3. ASSUME NEW i \in DOMAIN draft.features,
                     NEW ops \in Replacements(work.features[i], entry),
                     fs = [work.features EXCEPT ![i] =
                            [id |-> entry.id, source |-> work.features[i].source, ops |-> ops]],
                     \/ /\ entry.id \notin IdsOf(draft)
                        /\ work.features[i].id = draft.features[i].id
                        /\ draft.features[i].id \in scope.ids
                     \/ /\ entry.id = draft.features[i].id
                        /\ entry.id \in scope.ids
              PROVE  IsDraft(work)' /\ WorkInv'
          <5>1. work' = [work EXCEPT !.features = [work.features EXCEPT ![i] =
                            [id |-> entry.id, source |-> work.features[i].source, ops |-> ops]]]
            BY <3>1, <4>3
          <5> QED
            BY <3>2, <3>3, <4>1, <4>3, <5>1, ReplaceStep
        <4> QED
          BY <3>1, <3>3, <4>2, <4>3, MergedEntry
      <3>5. BaselineInv' /\ HasDraft'
        BY <3>2, <3>3 DEF baseline, BaselineInv, HasDraft
      <3> QED
        BY <3>4, <3>5
    <2> QED
      BY <2>1, <2>2
  <1>9. ASSUME NEW defs \in DtoPatches, MergeDtos(defs)
        PROVE  IInv'
    <2>1. CASE ~DtosInScope(defs)
      BY <1>9, <2>1, AgainKeeps DEF MergeDtos, DropPatch
    <2>2. CASE DtosInScope(defs)
      <3>1. pc = "features" /\ pc' = "check" /\ UNCHANGED <<baseline, seen>>
            /\ work' = [work EXCEPT !.dtos = Updated(work.dtos, defs)]
        BY <1>9, <2>2 DEF MergeDtos
      <3>2. HasDraft /\ BaselineInv /\ IsDraft(work) /\ WorkInv
        BY <3>1 DEF Merging
      <3>3. work'.features = work.features /\ work' = [features |-> work'.features, dtos |-> work'.dtos]
        BY <3>1, <3>2 DEF IsDraft
      <3>4. IsDraft(work')
        BY <3>2, <3>3 DEF IsDraft, DistinctIds
      <3>5. BaselineInv' /\ HasDraft' /\ UNCHANGED <<draft, faults>>
        BY <3>1, <3>2 DEF baseline, BaselineInv, HasDraft
      <3>6. Readdressed' = Readdressed /\ (UntouchedOps => UntouchedOps')
        <4>1. Readdressed' = Readdressed
          BY <3>1, <3>3 DEF Readdressed, IdsOf
        <4>2. \A k : Untouchable(k)' = Untouchable(k)
          BY <3>5 DEF Untouchable, Blamed
        <4> QED
          BY <3>3, <3>5, <4>1, <4>2 DEF UntouchedOps
      <3>7. WorkInv'
        BY <3>1, <3>2, <3>3, <3>5, <3>6 DEF WorkInv
      <3> QED
        BY <3>1, <3>4, <3>5, <3>7
    <2> QED
      BY <2>1, <2>2
  <1>10. ASSUME NEW x \in FaultsOf(work), NEW y \in FaultsOf(work), Fails({x, y})
         PROVE  IInv'
    <2>1. CASE attempt < MaxAttempts
      <3>1. pc' = "ask" /\ draft' = work /\ faults' = {x, y} /\ scope' = RepairScope(work, {x, y})
        BY <1>10, <2>1 DEF Fails
      <3>2. IsDraft(work)
        BY <1>10 DEF Fails
      <3> QED
        BY <3>1, <3>2 DEF BaselineInv, Merging
    <2>2. CASE ~(attempt < MaxAttempts)
      BY <1>10, <2>2 DEF Fails, baseline, BaselineInv, HasDraft, Merging
    <2> QED
      BY <2>1, <2>2
  <1>11. CASE UNCHANGED vars
    BY <1>11 DEF vars, baseline, patch, BaselineInv, HasDraft, Merging, WorkInv, Readdressed,
                 UntouchedOps, Untouchable, Blamed
  <1> QED
    BY <1>1, <1>2, <1>3, <1>4, <1>5, <1>6, <1>7, <1>8, <1>9, <1>10, <1>11 DEF Next

\* Whatever a patch lists and however often the model is asked, the operations no fault names
\* stay as they are while the patch is merged, unless the patch addresses a feature by an id it
\* renamed before (feature_replacement and preserve_operations of feature_draft.py).
THEOREM OperationsStay == Spec => []UnnamedOperationsStay
  <1>1. IInv => UnnamedOperationsStay
    BY DEF IInv, WorkInv, UnnamedOperationsStay
  <1> QED
    BY <1>1, InitIInv, StepIInv, PTL DEF Spec

-----------------------------------------------------------------------------
(* Retries *)

ToldInv ==
    /\ HasDraft => scope = RepairScope(draft, faults)
    /\ pc = "ask" /\ HasDraft => faults \subseteq told

\* A retry merges into the draft whose faults it was told, under the scope of these faults:
\* after a dropped patch, an answer that is no JSON or a failed request too (generate_document).
THEOREM RetriesKnow == Spec => []RetryKnowsBaseline
  <1>1. Init => ToldInv
    BY DEF Init, ToldInv, HasDraft
  <1>2. ToldInv /\ [Next]_vars => ToldInv'
    <2> SUFFICES ASSUME ToldInv, [Next]_vars
                 PROVE  ToldInv'
      OBVIOUS
    <2> USE DEF ToldInv, HasDraft, baseline
    <2>1. CASE FallBack
      BY <2>1 DEF FallBack
    <2>2. ASSUME NEW failure, Again(failure)
          PROVE  ToldInv'
      BY <2>2 DEF Again
    <2>3. CASE TransportFails
      BY <2>2, <2>3 DEF TransportFails
    <2>4. CASE Terminal
      BY <2>4 DEF Terminal
    <2>5. CASE Answered
      BY <2>5 DEF Answered
    <2>6. CASE Patched
      BY <2>6 DEF Patched
    <2>7. CASE Passes
      BY <2>7 DEF Passes
    <2>8. ASSUME NEW syntax \in BOOLEAN, Unparseable(syntax)
          PROVE  ToldInv'
      BY <2>2, <2>8 DEF Unparseable
    <2>9. ASSUME NEW entry \in Entries, Merge(entry)
          PROVE  ToldInv'
      BY <2>2, <2>9 DEF Merge, DropPatch
    <2>10. ASSUME NEW defs \in DtoPatches, MergeDtos(defs)
           PROVE  ToldInv'
      BY <2>2, <2>10 DEF MergeDtos, DropPatch
    <2>11. ASSUME NEW found, Fails(found)
           PROVE  ToldInv'
      BY <2>11 DEF Fails
    <2>12. CASE UNCHANGED vars
      BY <2>12 DEF vars
    <2> QED
      BY <2>1, <2>3, <2>4, <2>5, <2>6, <2>7, <2>8, <2>9, <2>10, <2>11, <2>12 DEF Next
  <1>3. ToldInv => RetryKnowsBaseline
    BY DEF ToldInv, RetryKnowsBaseline
  <1> QED
    BY <1>1, <1>2, <1>3, PTL DEF Spec

\* Requests made before the present attempt, the present one once it is made, and the fallback
CallInv ==
    /\ attempt \in 1..MaxAttempts
    /\ calls \in Nat
    /\ mode \in {"json_schema", "json_object"}
    /\ calls <= attempt - (IF pc = "ask" THEN 1 ELSE 0) + (IF mode = "json_object" THEN 1 ELSE 0)

\* The provider is asked at most once per attempt, and once more when it does not know the
\* response format, for any number of attempts (the loop of generate_document).
THEOREM CallsBounded == Spec => []CallsAreBounded
  <1> USE DraftAssumption
  <1>1. Init => CallInv
    BY DEF Init, CallInv
  <1>2. CallInv /\ [Next]_vars => CallInv'
    <2> SUFFICES ASSUME CallInv, [Next]_vars
                 PROVE  CallInv'
      OBVIOUS
    <2> USE DEF CallInv
    <2>1. CASE FallBack
      BY <2>1 DEF FallBack
    <2>2. ASSUME NEW failure, Again(failure), pc = "ask", calls' = calls + 1, mode' \in {mode, "json_object"}
          PROVE  CallInv'
      BY <2>2 DEF Again
    <2>3. ASSUME NEW failure, Again(failure), pc # "ask", UNCHANGED <<calls, mode>>
          PROVE  CallInv'
      BY <2>3 DEF Again
    <2>4. CASE TransportFails
      BY <2>2, <2>4 DEF TransportFails
    <2>5. CASE Terminal
      BY <2>5 DEF Terminal
    <2>6. CASE Answered
      BY <2>6 DEF Answered
    <2>7. CASE Patched
      BY <2>7 DEF Patched
    <2>8. CASE Passes
      BY <2>8 DEF Passes
    <2>9. ASSUME NEW syntax \in BOOLEAN, Unparseable(syntax)
          PROVE  CallInv'
      BY <2>2, <2>9 DEF Unparseable
    <2>10. ASSUME NEW entry \in Entries, Merge(entry)
           PROVE  CallInv'
      BY <2>3, <2>10 DEF Merge, DropPatch
    <2>11. ASSUME NEW defs \in DtoPatches, MergeDtos(defs)
           PROVE  CallInv'
      BY <2>3, <2>11 DEF MergeDtos, DropPatch
    <2>12. ASSUME NEW found, Fails(found)
           PROVE  CallInv'
      BY <2>12 DEF Fails
    <2>13. CASE UNCHANGED vars
      BY <2>13 DEF vars
    <2> QED
      BY <2>1, <2>4, <2>5, <2>6, <2>7, <2>8, <2>9, <2>10, <2>11, <2>12, <2>13 DEF Next
  <1>3. CallInv => CallsAreBounded
    BY DEF CallInv, CallsAreBounded
  <1> QED
    BY <1>1, <1>2, <1>3, PTL DEF Spec

-----------------------------------------------------------------------------
(* The loops of Reach and Added *)

LEMMA NatSetInduction ==
  ASSUME NEW T, 0 \in T, \A n \in Nat : n \in T => n + 1 \in T
  PROVE  Nat \subseteq T
  <1> SUFFICES ASSUME Nat \ T # {} PROVE FALSE
    OBVIOUS
  <1> DEFINE Less == {ss \in Nat \X Nat : ss[1] < ss[2]}
  <1>1. IsWellFoundedOn(Less, Nat)
    BY NatLessThanWellFounded DEF OpToRel
  <1>2. Nat \ T \subseteq Nat
    OBVIOUS
  <1> HIDE DEF Less
  <1>3. PICK n \in Nat \ T : \A m \in Nat \ T : ~(<<m, n>> \in Less)
    BY <1>1, <1>2, WFMin
  <1>4. n # 0 /\ n - 1 \in Nat /\ <<n - 1, n>> \in Nat \X Nat /\ n - 1 < n
    BY <1>3
  <1>5. <<n - 1, n>> \in Less
    BY <1>4 DEF Less
  <1>6. n - 1 + 1 \in T
    BY <1>3, <1>4, <1>5
  <1> QED
    BY <1>3, <1>4, <1>6

\* What a number of turns reach of the definitions
Near(dtos, m, names, n) ==
    IF n = 0 THEN names ELSE m[n - 1] \cup UNION {dtos[k].refs : k \in m[n - 1] \cap DOMAIN dtos}
Nears(dtos, m, names, n) == m = [k \in 0..n |-> Near(dtos, m, names, k)]

LEMMA NearsExist ==
  ASSUME NEW dtos, NEW names, NEW N \in Nat
  PROVE  \E m : Nears(dtos, m, names, N)
  <1> DEFINE T == {n \in Nat : \E m : Nears(dtos, m, names, n)}
  <1>1. 0 \in T
    <2> DEFINE m == [k \in 0..0 |-> names]
    <2>1. m = [k \in 0..0 |-> Near(dtos, m, names, k)]
      BY DEF Near
    <2> QED
      BY <2>1 DEF Nears
  <1>2. ASSUME NEW n \in Nat, n \in T PROVE n + 1 \in T
    <2>1. PICK m : Nears(dtos, m, names, n)
      BY <1>2
    <2>2. m = [k \in 0..n |-> Near(dtos, m, names, k)]
      BY <2>1 DEF Nears
    <2> DEFINE g == [k \in 0..(n + 1) |-> IF k <= n THEN m[k] ELSE Near(dtos, m, names, n + 1)]
    <2>3. ASSUME NEW k \in 0..(n + 1) PROVE g[k] = Near(dtos, g, names, k)
      <3>1. k <= n => m[k] = Near(dtos, m, names, k)
        BY <2>2
      <3>2. ~(k <= n) => k = n + 1
        OBVIOUS
      <3>3. g[k] = Near(dtos, m, names, k)
        BY <3>1, <3>2
      <3>4. k # 0 => g[k - 1] = m[k - 1]
        OBVIOUS
      <3> HIDE DEF g
      <3> QED
        BY <3>3, <3>4 DEF Near
    <2>4. g = [k \in 0..(n + 1) |-> Near(dtos, g, names, k)]
      BY <2>3
    <2> HIDE DEF g
    <2> QED
      BY <2>4 DEF Nears
  <1> HIDE DEF T
  <1>3. N \in T
    BY <1>1, <1>2, NatSetInduction
  <1> QED
    BY <1>3 DEF T

LEMMA ReachTable ==
  ASSUME NEW dtos, NEW names
  PROVE  /\ Cardinality(Dtos) \in Nat
         /\ \E m : /\ Reach(dtos, names) = m[Cardinality(Dtos)]
                   /\ \A n \in 0..Cardinality(Dtos) : m[n] = Near(dtos, m, names, n)
  <1> DEFINE N == Cardinality(Dtos)
             upTo[n \in 0..N] ==
                 IF n = 0 THEN names
                 ELSE LET near == upTo[n - 1]
                      IN near \cup UNION {dtos[m].refs : m \in near \cap DOMAIN dtos}
  <1>1. N \in Nat
    BY DraftAssumption, FS_CardinalityType
  <1>2. Reach(dtos, names) = upTo[N]
    BY DEF Reach
  <1>3. upTo = CHOOSE m : Nears(dtos, m, names, N)
    BY DEF Nears, Near
  <1> HIDE DEF upTo, N
  <1>4. Nears(dtos, upTo, names, N)
    BY <1>1, <1>3, NearsExist
  <1>5. \A n \in 0..N : upTo[n] = Near(dtos, upTo, names, n)
    BY <1>4 DEF Nears
  <1> QED
    BY <1>1, <1>2, <1>5 DEF N

\* More names reach more.
LEMMA ReachGrows ==
  ASSUME NEW dtos, NEW few, NEW many, few \subseteq many
  PROVE  Reach(dtos, few) \subseteq Reach(dtos, many)
  <1> DEFINE N == Cardinality(Dtos)
  <1>0. N \in Nat
    BY ReachTable
  <1> HIDE DEF N
  <1>1. PICK a : Reach(dtos, few) = a[N] /\ \A n \in 0..N : a[n] = Near(dtos, a, few, n)
    BY ReachTable DEF N
  <1>2. PICK b : Reach(dtos, many) = b[N] /\ \A n \in 0..N : b[n] = Near(dtos, b, many, n)
    BY ReachTable DEF N
  <1> DEFINE T == {n \in Nat : n <= N => a[n] \subseteq b[n]}
  <1>3. 0 \in T
    <2>1. a[0] = Near(dtos, a, few, 0) /\ b[0] = Near(dtos, b, many, 0)
      BY <1>0, <1>1, <1>2
    <2>2. a[0] = few /\ b[0] = many
      BY <2>1 DEF Near
    <2> QED
      BY <2>2
  <1>4. ASSUME NEW n \in Nat, n \in T PROVE n + 1 \in T
    <2> SUFFICES ASSUME n + 1 <= N PROVE a[n + 1] \subseteq b[n + 1]
      OBVIOUS
    <2>1. n + 1 \in 0..N /\ n + 1 # 0 /\ n + 1 - 1 = n
      BY <1>0
    <2>2. a[n + 1] = a[n] \cup UNION {dtos[k].refs : k \in a[n] \cap DOMAIN dtos}
      <3>1. a[n + 1] = Near(dtos, a, few, n + 1)
        BY <1>1, <2>1
      <3> QED
        BY <2>1, <3>1 DEF Near
    <2>3. b[n + 1] = b[n] \cup UNION {dtos[k].refs : k \in b[n] \cap DOMAIN dtos}
      <3>1. b[n + 1] = Near(dtos, b, many, n + 1)
        BY <1>2, <2>1
      <3> QED
        BY <2>1, <3>1 DEF Near
    <2>4. a[n] \subseteq b[n]
      BY <1>0, <1>4
    <2> QED
      BY <2>2, <2>3, <2>4
  <1> HIDE DEF T
  <1>5. N \in T
    BY <1>0, <1>3, <1>4, NatSetInduction
  <1> QED
    BY <1>0, <1>1, <1>2, <1>5 DEF T

\* What a number of operations of a patch add to a feature
More(f, ops, m, n) ==
    IF n = 0 THEN <<>>
    ELSE IF ops[n].key \in KeysOf(f.ops) THEN m[n - 1] ELSE Append(m[n - 1], ops[n])
Mores(f, ops, m, n) == m = [k \in 0..n |-> More(f, ops, m, k)]

LEMMA MoresExist ==
  ASSUME NEW f, NEW ops, NEW N \in Nat
  PROVE  \E m : Mores(f, ops, m, N)
  <1> DEFINE T == {n \in Nat : \E m : Mores(f, ops, m, n)}
  <1>1. 0 \in T
    <2> DEFINE m == [k \in 0..0 |-> <<>>]
    <2>1. m = [k \in 0..0 |-> More(f, ops, m, k)]
      BY DEF More
    <2> QED
      BY <2>1 DEF Mores
  <1>2. ASSUME NEW n \in Nat, n \in T PROVE n + 1 \in T
    <2>1. PICK m : Mores(f, ops, m, n)
      BY <1>2
    <2>2. m = [k \in 0..n |-> More(f, ops, m, k)]
      BY <2>1 DEF Mores
    <2> DEFINE g == [k \in 0..(n + 1) |-> IF k <= n THEN m[k] ELSE More(f, ops, m, n + 1)]
    <2>3. ASSUME NEW k \in 0..(n + 1) PROVE g[k] = More(f, ops, g, k)
      <3>1. k <= n => m[k] = More(f, ops, m, k)
        BY <2>2
      <3>2. ~(k <= n) => k = n + 1
        OBVIOUS
      <3>3. g[k] = More(f, ops, m, k)
        BY <3>1, <3>2
      <3>4. k # 0 => g[k - 1] = m[k - 1]
        OBVIOUS
      <3> HIDE DEF g
      <3> QED
        BY <3>3, <3>4 DEF More
    <2>4. g = [k \in 0..(n + 1) |-> More(f, ops, g, k)]
      BY <2>3
    <2> HIDE DEF g
    <2> QED
      BY <2>4 DEF Mores
  <1> HIDE DEF T
  <1>3. N \in T
    BY <1>1, <1>2, NatSetInduction
  <1> QED
    BY <1>3 DEF T

\* Only operations of the patch are added.
LEMMA AddedOps ==
  ASSUME NEW S, NEW f, NEW ops \in Seq(S)
  PROVE  Added(f, ops) \in Seq(S)
  <1> DEFINE N == Len(ops)
             upTo[n \in 0..N] ==
                 IF n = 0 THEN <<>>
                 ELSE IF ops[n].key \in KeysOf(f.ops) THEN upTo[n - 1] ELSE Append(upTo[n - 1], ops[n])
  <1>1. N \in Nat /\ \A n \in 1..N : ops[n] \in S
    OBVIOUS
  <1>2. Added(f, ops) = upTo[N]
    BY DEF Added
  <1>3. upTo = CHOOSE m : Mores(f, ops, m, N)
    BY DEF Mores, More
  <1> HIDE DEF upTo, N
  <1>4. Mores(f, ops, upTo, N)
    BY <1>1, <1>3, MoresExist
  <1>5. \A n \in 0..N : upTo[n] = More(f, ops, upTo, n)
    BY <1>4 DEF Mores
  <1> DEFINE T == {n \in Nat : n <= N => upTo[n] \in Seq(S)}
  <1>6. 0 \in T
    <2>1. upTo[0] = More(f, ops, upTo, 0)
      BY <1>1, <1>5
    <2>2. upTo[0] = <<>>
      BY <2>1 DEF More
    <2> QED
      BY <2>2, EmptySeq
  <1>7. ASSUME NEW n \in Nat, n \in T PROVE n + 1 \in T
    <2> SUFFICES ASSUME n + 1 <= N PROVE upTo[n + 1] \in Seq(S)
      OBVIOUS
    <2>1. n + 1 \in 0..N /\ n + 1 \in 1..N /\ n + 1 # 0 /\ n + 1 - 1 = n
      BY <1>1
    <2>2. upTo[n + 1] \in {upTo[n], Append(upTo[n], ops[n + 1])}
      <3>1. upTo[n + 1] = More(f, ops, upTo, n + 1)
        BY <1>5, <2>1
      <3> QED
        BY <2>1, <3>1 DEF More
    <2>3. upTo[n] \in Seq(S) /\ ops[n + 1] \in S
      BY <1>1, <1>7, <2>1
    <2>4. Append(upTo[n], ops[n + 1]) \in Seq(S)
      BY <2>3, AppendProperties
    <2> QED
      BY <2>2, <2>3, <2>4
  <1> HIDE DEF T
  <1>8. N \in T
    BY <1>1, <1>6, <1>7, NatSetInduction
  <1> QED
    BY <1>1, <1>2, <1>8 DEF T

-----------------------------------------------------------------------------
(* Containment *)

OpsOf(d) == \A i \in DOMAIN d.features : d.features[i].ops \in Seq(Operations)

\* While a patch is merged its operations are no fewer than those of the baseline, and its DTOs
\* are those of the baseline until the last step of the merge.
ContainedInv ==
    /\ OpsOf(draft)
    /\ pc \in {"features", "check"} => OpsOf(work)
    /\ Merging => \A i \in DOMAIN draft.features :
                    Len(work.features[i].ops) >= Len(draft.features[i].ops)
    /\ pc = "features" => work.dtos = draft.dtos
    /\ Merging => DOMAIN draft.dtos \subseteq DOMAIN work.dtos
    /\ SharedDtosStay

LEMMA EntryOps == ASSUME NEW entry \in Entries PROVE entry.ops \in Seq(Operations)
  <1>1. \A n \in 0..MaxPatchOps : [1..n -> PatchOps] \subseteq Seq(Operations)
    <2> TAKE n \in 0..MaxPatchOps
    <2>1. n \in Nat /\ PatchOps \subseteq Operations
      BY DraftAssumption
    <2> QED
      BY <2>1
  <1>2. <<>> \in Seq(Operations)
    BY EmptySeq
  <1>3. entry.ops \in {<<>>} \cup UNION {[1..n -> PatchOps] : n \in 0..MaxPatchOps}
    BY DEF Entries
  <1> QED
    BY <1>1, <1>2, <1>3

\* Neither a full nor a sparse list makes a feature shorter.
LEMMA ReplacementIsNoShorter ==
  ASSUME NEW f, f.ops \in Seq(Operations), NEW entry \in Entries, NEW ops \in Replacements(f, entry)
  PROVE  ops \in Seq(Operations) /\ Len(ops) >= Len(f.ops)
  <1>1. CASE ~entry.lists
    <2>1. ops = f.ops
      BY <1>1 DEF Replacements
    <2> QED
      BY <2>1
  <1>2. CASE entry.lists /\ FullImage(f, entry.ops)
    <2>1. ops = entry.ops /\ Len(entry.ops) >= Len(f.ops)
      BY <1>2 DEF Replacements, Merged, FullImage
    <2> QED
      BY <2>1, EntryOps
  <1>3. CASE entry.lists /\ ~FullImage(f, entry.ops)
    <2> DEFINE new == entry.ops
               Known(j) == IF f.ops[j].key \in KeysOf(new)
                           THEN CHOOSE op \in Range(new) : op.key = f.ops[j].key ELSE f.ops[j]
               known == [j \in DOMAIN f.ops |-> Known(j)]
    <2>1. ops = known \o Added(f, new)
      BY <1>3 DEF Replacements, Merged, Sparse
    <2>2. new \in Seq(Operations) /\ Added(f, new) \in Seq(Operations)
      BY EntryOps, AddedOps
    <2>3. DOMAIN f.ops = 1..Len(f.ops) /\ Len(f.ops) \in Nat
      OBVIOUS
    <2>4. ASSUME NEW j \in DOMAIN f.ops PROVE Known(j) \in Operations
      <3>1. CASE f.ops[j].key \in KeysOf(new)
        <4>1. \E op \in Range(new) : op.key = f.ops[j].key
          BY <3>1 DEF KeysOf, Range
        <4>2. Known(j) \in Range(new)
          BY <3>1, <4>1
        <4>3. Range(new) \subseteq Operations
          BY <2>2 DEF Range
        <4> QED
          BY <4>2, <4>3
      <3>2. CASE f.ops[j].key \notin KeysOf(new)
        BY <2>3, <3>2
      <3> QED
        BY <3>1, <3>2
    <2> HIDE DEF Known, new
    <2>5. known \in Seq(Operations) /\ Len(known) = Len(f.ops)
      BY <2>3, <2>4
    <2> HIDE DEF known
    <2> QED
      BY <2>1, <2>2, <2>3, <2>5, ConcatProperties
  <1> QED
    BY <1>1, <1>2, <1>3

\* The DTOs of the operations no fault names are protected, with all that they refer to.
LEMMA UntouchedAreProtected ==
  ASSUME BaselineInv, HasDraft, Faulty(draft, faults) # {}
  PROVE  Reach(draft.dtos, UNION {UNION {draft.features[i].ops[j].refs : j \in Untouchable(i)} :
                                    i \in DOMAIN draft.features}) \subseteq scope.protected
  <1> DEFINE Names(i) == LET f == draft.features[i] IN
                 IF f.id \notin scope.ids THEN RefsOf(f.ops)
                 ELSE IF f.id \in DOMAIN scope.open
                 THEN UNION {f.ops[j].refs : j \in DOMAIN f.ops \ scope.open[f.id]}
                 ELSE {}
             Refs(i) == UNION {draft.features[i].ops[j].refs : j \in Untouchable(i)}
             few == UNION {Refs(i) : i \in DOMAIN draft.features}
             many == UNION {Names(i) : i \in DOMAIN draft.features}
  <1>1. scope = RepairScope(draft, faults) /\ IsDraft(draft) /\ faults \subseteq FaultsOf(draft)
    BY DEF BaselineInv
  <1>2. scope.protected = Protected(draft, scope.ids, scope.open)
    BY <1>1 DEF RepairScope
  <1>3. scope.protected = Reach(draft.dtos, many)
    BY <1>2 DEF Protected
  <1>4. ASSUME NEW i \in DOMAIN draft.features PROVE Refs(i) \subseteq Names(i)
    <2>1. \A j \in Untouchable(i) : j \in DOMAIN draft.features[i].ops
      BY DEF Untouchable
    <2>2. CASE draft.features[i].id \notin scope.ids
      BY <2>1, <2>2 DEF RefsOf
    <2>3. CASE draft.features[i].id \in scope.ids
      <3>1. \A j \in Untouchable(i) : draft.features[i].id \in DOMAIN scope.open
                                       /\ j \notin scope.open[draft.features[i].id]
        BY <1>1, <2>3, UntouchableIsClosed
      <3> QED
        BY <2>1, <2>3, <3>1
    <2> QED
      BY <2>2, <2>3
  <1> HIDE DEF Names, Refs
  <1>5. few \subseteq many
    BY <1>4
  <1> HIDE DEF few, many
  <1>6. Reach(draft.dtos, few) \subseteq Reach(draft.dtos, many)
    BY <1>5, ReachGrows
  <1> QED
    BY <1>3, <1>6 DEF few, Refs

\* What a patch defines leaves them as they are.
LEMMA ProtectedDtosStay ==
  ASSUME BaselineInv, HasDraft, work.dtos = draft.dtos, NEW defs, DtosInScope(defs),
         NEW after, after = Updated(work.dtos, defs)
  PROVE  /\ DOMAIN draft.dtos \subseteq DOMAIN after
         /\ Faulty(draft, faults) # {} =>
            \A n \in Reach(draft.dtos, UNION {UNION {draft.features[i].ops[j].refs : j \in Untouchable(i)} :
                                                i \in DOMAIN draft.features}) :
                n \in DOMAIN draft.dtos => after[n] = draft.dtos[n]
  <1>1. DOMAIN after = DOMAIN draft.dtos \cup DOMAIN defs
        /\ \A n \in DOMAIN after : after[n] = IF n \in DOMAIN defs THEN defs[n] ELSE draft.dtos[n]
    BY DEF Updated
  <1>2. \A n \in DOMAIN defs : n \in scope.protected /\ n \in DOMAIN draft.dtos => defs[n] = draft.dtos[n]
    BY DEF DtosInScope
  <1>3. \A n \in scope.protected : n \in DOMAIN draft.dtos => after[n] = draft.dtos[n]
    BY <1>1, <1>2
  <1> QED
    BY <1>1, <1>3, UntouchedAreProtected

LEMMA InitContained == Init => ContainedInv
  BY DEF Init, ContainedInv, OpsOf, NoDraft, HasDraft, Merging, SharedDtosStay

\* A dropped patch or a failed request contains everything: the baseline stays.
LEMMA AgainContains ==
  ASSUME ContainedInv, NEW failure, Again(failure)
  PROVE  ContainedInv'
  <1>1. pc' \in {"ask", "blocked"} /\ draft' = draft
    BY DEF Again, baseline
  <1> QED
    BY <1>1 DEF ContainedInv, Merging, SharedDtosStay, OpsOf

\* One entry of a patch
LEMMA MergeContains ==
  ASSUME IInv, ContainedInv, NEW entry \in Entries, Merge(entry), MergeEntry(entry) # {}
  PROVE  ContainedInv'
  <1>1. PICK fs \in MergeEntry(entry) : work' = [work EXCEPT !.features = fs]
    BY DEF Merge
  <1>2. pc = "features" /\ UNCHANGED <<pc, draft, faults, scope>>
    BY DEF Merge, baseline
  <1>3. HasDraft /\ BaselineInv /\ IsDraft(work) /\ WorkInv
    BY <1>2 DEF IInv, Merging
  <1>4. work'.features = fs /\ work'.dtos = work.dtos
    BY <1>1, <1>3 DEF IsDraft
  <1>5. OpsOf(work) /\ OpsOf(draft) /\ DOMAIN draft.features \subseteq DOMAIN work.features
        /\ work.dtos = draft.dtos
        /\ \A i \in DOMAIN draft.features : Len(work.features[i].ops) >= Len(draft.features[i].ops)
    BY <1>2, <1>3 DEF ContainedInv, Merging, WorkInv
  <1> DEFINE Longer == \A i \in DOMAIN draft.features : Len(fs[i].ops) >= Len(draft.features[i].ops)
             Typed == \A i \in DOMAIN fs : fs[i].ops \in Seq(Operations)
  <1>6. ASSUME NEW i \in DOMAIN draft.features, NEW ops \in Replacements(work.features[i], entry),
               fs = [work.features EXCEPT ![i] =
                        [id |-> entry.id, source |-> work.features[i].source, ops |-> ops]]
        PROVE  Typed /\ Longer
    <2>1. work.features[i].ops \in Seq(Operations)
      BY <1>5 DEF OpsOf
    <2>2. ops \in Seq(Operations) /\ Len(ops) >= Len(work.features[i].ops)
      BY <2>1, ReplacementIsNoShorter
    <2>3. DOMAIN fs = DOMAIN work.features /\ fs[i].ops = ops
          /\ \A k \in DOMAIN fs \ {i} : fs[k] = work.features[k]
      BY <1>5, <1>6
    <2>4. Typed
      BY <1>5, <2>2, <2>3 DEF OpsOf
    <2>5. Len(ops) \in Nat /\ Len(work.features[i].ops) \in Nat /\ Len(draft.features[i].ops) \in Nat
      BY <1>5, <2>1, <2>2, LenProperties DEF OpsOf
    <2>6. Len(ops) >= Len(draft.features[i].ops)
      BY <1>5, <2>2, <2>5
    <2>7. Longer
      BY <1>5, <2>3, <2>6
    <2> QED
      BY <2>4, <2>7
  <1>7. ASSUME NEW ops \in {entry.ops, <<>>},
               fs = Append(work.features, [id |-> entry.id, source |-> entry.source, ops |-> ops])
        PROVE  Typed /\ Longer
    <2> DEFINE f == [id |-> entry.id, source |-> entry.source, ops |-> ops]
    <2>1. ops \in Seq(Operations) /\ f.ops = ops
      BY EntryOps, EmptySeq
    <2>2. PICK T : work.features \in Seq(T)
      BY <1>3 DEF IsDraft
    <2>3. work.features \in Seq(T \cup {f})
      BY <2>2, SeqMonotonic, ElementOfSeq
    <2> HIDE DEF f
    <2>4. /\ DOMAIN work.features = 1..Len(work.features) /\ Len(work.features) \in Nat
          /\ DOMAIN Append(work.features, f) = 1..(Len(work.features) + 1)
          /\ Append(work.features, f)[Len(work.features) + 1] = f
          /\ \A k \in DOMAIN work.features : Append(work.features, f)[k] = work.features[k]
      BY <2>3
    <2>5. fs = Append(work.features, f)
      BY <1>7 DEF f
    <2>6. \A k \in DOMAIN fs : k \in DOMAIN work.features \/ fs[k] = f
      BY <2>4, <2>5
    <2>7. \A k \in DOMAIN work.features : fs[k] = work.features[k]
      BY <2>4, <2>5
    <2>8. Typed
      BY <1>5, <2>1, <2>6, <2>7 DEF OpsOf
    <2>9. Longer
      BY <1>5, <2>7
    <2> QED
      BY <2>8, <2>9
  <1>8. Typed /\ Longer
    BY <1>3, <1>6, <1>7, MergedEntry
  <1>9. OpsOf(work') /\ OpsOf(draft')
    BY <1>2, <1>4, <1>5, <1>8 DEF OpsOf
  <1> QED
    BY <1>2, <1>4, <1>5, <1>8, <1>9 DEF ContainedInv, SharedDtosStay, OpsOf

LEMMA StepContained == IInv /\ ContainedInv /\ [Next]_vars => ContainedInv'
  <1> SUFFICES ASSUME IInv, ContainedInv, [Next]_vars
               PROVE  ContainedInv'
    OBVIOUS
  <1>1. CASE FallBack
    BY <1>1 DEF FallBack, baseline, patch, ContainedInv, Merging, HasDraft, SharedDtosStay, OpsOf
  <1>2. CASE TransportFails
    BY <1>2, AgainContains DEF TransportFails
  <1>3. CASE Terminal
    BY <1>3 DEF Terminal, baseline, patch, ContainedInv, Merging, HasDraft, SharedDtosStay, OpsOf
  <1>4. CASE Answered
    <2>1. PICK d \in FirstDrafts : work' = d
      BY <1>4 DEF Answered
    <2>2. OpsOf(work')
      <3>1. \A i \in DOMAIN d.features : d.features[i] \in Features
        BY DraftAssumption
      <3> QED
        BY <2>1, <3>1 DEF OpsOf, Features
    <2>3. pc' = "check" /\ ~HasDraft' /\ draft' = draft
      BY <1>4 DEF Answered, baseline, HasDraft
    <2> QED
      BY <2>2, <2>3 DEF ContainedInv, Merging, SharedDtosStay, OpsOf
  <1>5. CASE Patched
    <2>1. pc' = "features" /\ work' = draft /\ draft' = draft
      BY <1>5 DEF Patched, baseline
    <2>2. \A i \in DOMAIN draft.features : Len(draft.features[i].ops) \in Nat
      BY LenProperties DEF ContainedInv, OpsOf
    <2> QED
      BY <2>1, <2>2 DEF ContainedInv, Merging, SharedDtosStay, OpsOf
  <1>6. CASE Passes
    BY <1>6 DEF Passes, baseline, patch, ContainedInv, Merging, HasDraft, SharedDtosStay, OpsOf
  <1>7. ASSUME NEW syntax \in BOOLEAN, Unparseable(syntax)
        PROVE  ContainedInv'
    BY <1>7, AgainContains DEF Unparseable
  <1>8. ASSUME NEW entry \in Entries, Merge(entry)
        PROVE  ContainedInv'
    <2>1. CASE MergeEntry(entry) = {}
      BY <1>8, <2>1, AgainContains DEF Merge, DropPatch
    <2> QED
      BY <1>8, <2>1, MergeContains
  <1>9. ASSUME NEW defs \in DtoPatches, MergeDtos(defs)
        PROVE  ContainedInv'
    <2>1. CASE ~DtosInScope(defs)
      BY <1>9, <2>1, AgainContains DEF MergeDtos, DropPatch
    <2>2. CASE DtosInScope(defs)
      <3>1. pc = "features" /\ pc' = "check" /\ UNCHANGED <<draft, faults, scope>>
            /\ work' = [work EXCEPT !.dtos = Updated(work.dtos, defs)]
        BY <1>9, <2>2 DEF MergeDtos, baseline
      <3>2. HasDraft /\ BaselineInv /\ IsDraft(work) /\ work.dtos = draft.dtos
        BY <3>1 DEF IInv, ContainedInv
      <3>3. work'.features = work.features /\ work'.dtos = Updated(work.dtos, defs)
        BY <3>1, <3>2 DEF IsDraft
      <3>4. \A i : Untouchable(i)' = Untouchable(i)
        BY <3>1 DEF Untouchable, Blamed
      <3>5. DOMAIN draft'.dtos \subseteq DOMAIN work'.dtos /\ SharedDtosStay'
        <4>1. DOMAIN draft.dtos \subseteq DOMAIN work'.dtos
          BY <2>2, <3>2, <3>3, ProtectedDtosStay
        <4>2. Faulty(draft, faults) # {} =>
                \A n \in Reach(draft.dtos, UNION {UNION {draft.features[i].ops[j].refs : j \in Untouchable(i)} :
                                                    i \in DOMAIN draft.features}) :
                    n \in DOMAIN draft.dtos => work'.dtos[n] = draft.dtos[n]
          BY <2>2, <3>2, <3>3, ProtectedDtosStay
        <4> QED
          BY <3>1, <3>4, <4>1, <4>2 DEF SharedDtosStay
      <3> QED
        BY <3>1, <3>2, <3>3, <3>5 DEF ContainedInv, Merging, OpsOf
    <2> QED
      BY <2>1, <2>2
  <1>10. ASSUME NEW x \in FaultsOf(work), NEW y \in FaultsOf(work), Fails({x, y})
         PROVE  ContainedInv'
    <2>1. pc = "check" /\ pc' \in {"ask", "blocked"} /\ draft' \in {draft, work}
      BY <1>10 DEF Fails, baseline
    <2> QED
      BY <2>1 DEF ContainedInv, Merging, SharedDtosStay, OpsOf
  <1>11. CASE UNCHANGED vars
    BY <1>11 DEF vars, baseline, patch, ContainedInv, Merging, HasDraft, SharedDtosStay, OpsOf, Untouchable, Blamed
  <1> QED
    BY <1>1, <1>2, <1>3, <1>4, <1>5, <1>6, <1>7, <1>8, <1>9, <1>10, <1>11 DEF Next

\* Only a checked draft becomes the baseline, and it has all that the baseline before it had.
LEMMA StepKeepsAll ==
  ASSUME IInv, ContainedInv, [Next]_vars
  PROVE  /\ Len(draft'.features) >= Len(draft.features)
         /\ \A i \in DOMAIN draft.features :
             /\ draft'.features[i].source = draft.features[i].source
             /\ Len(draft'.features[i].ops) >= Len(draft.features[i].ops)
         /\ DOMAIN draft.dtos \subseteq DOMAIN draft'.dtos
  <1>1. draft' = draft \/ (pc = "check" /\ draft' = work)
    <2>1. ASSUME NEW failure, Again(failure) PROVE draft' = draft
      BY <2>1 DEF Again, baseline
    <2> QED
      BY <2>1 DEF Next, vars, baseline, FallBack, TransportFails, Terminal, Answered, Patched, Passes,
                  Unparseable, Merge, MergeDtos, DropPatch, Fails
  <1>2. \E T : draft.features \in Seq(T)
    BY DEF IInv, BaselineInv, IsDraft
  <1>3. Len(draft.features) \in Nat /\ DOMAIN draft.features = 1..Len(draft.features)
    BY <1>2, LenProperties
  <1>4. \A i \in DOMAIN draft.features : Len(draft.features[i].ops) \in Nat
    BY LenProperties DEF ContainedInv, OpsOf
  <1>5. CASE draft' = draft
    BY <1>3, <1>4, <1>5
  <1>6. CASE pc = "check" /\ draft' = work /\ HasDraft
    <2>1. WorkInv /\ IsDraft(work) /\ Merging
      BY <1>6 DEF IInv, Merging
    <2>2. \E T : work.features \in Seq(T)
      BY <2>1 DEF IsDraft
    <2>3. Len(work.features) \in Nat /\ DOMAIN work.features = 1..Len(work.features)
      BY <2>2, LenProperties
    <2>4. 1..Len(draft.features) \subseteq 1..Len(work.features)
      BY <1>3, <2>1, <2>3 DEF WorkInv
    <2>5. Len(work.features) >= Len(draft.features)
      BY <1>3, <2>3, <2>4
    <2> QED
      BY <1>6, <2>1, <2>5 DEF ContainedInv, WorkInv
  <1>7. CASE pc = "check" /\ draft' = work /\ ~HasDraft
    <2>1. draft.features = <<>> /\ draft.dtos = <<>>
      BY <1>7 DEF HasDraft, NoDraft
    <2>2. \E T : work.features \in Seq(T)
      BY <1>7 DEF IInv, IsDraft
    <2>3. Len(work.features) \in Nat
      BY <2>2, LenProperties
    <2>4. Len(draft.features) = 0 /\ DOMAIN draft.features = {} /\ DOMAIN draft.dtos = {}
      BY <2>1
    <2> QED
      BY <1>7, <2>3, <2>4
  <1> QED
    BY <1>1, <1>5, <1>6, <1>7

\* For any drafts, faults, patches and number of attempts: an accepted patch does not reach the
\* operations no fault names through the DTOs they share with faulty ones, and no repair loses a
\* feature, an operation or a DTO (repair_scope, merge_patch and the loop of generate_document).
THEOREM PatchesStayContained == Spec => PatchesAreContained
  <1> DEFINE All == /\ Len(draft'.features) >= Len(draft.features)
                    /\ \A i \in DOMAIN draft.features :
                        /\ draft'.features[i].source = draft.features[i].source
                        /\ Len(draft'.features[i].ops) >= Len(draft.features[i].ops)
                    /\ DOMAIN draft.dtos \subseteq DOMAIN draft'.dtos
  <1>1. IInv /\ ContainedInv /\ [Next]_vars => [All]_vars
    BY StepKeepsAll
  <1>2. ContainedInv => SharedDtosStay
    BY DEF ContainedInv
  <1>3. Spec => [](IInv /\ ContainedInv)
    BY InitIInv, StepIInv, InitContained, StepContained, PTL DEF Spec
  <1>4. Spec => []SharedDtosStay
    BY <1>2, <1>3, PTL
  <1>5. Spec => [][All]_vars
    BY <1>1, <1>3, PTL DEF Spec
  <1> QED
    BY <1>4, <1>5 DEF PatchesAreContained, NothingVanishes

=============================================================================
