-------------------------------- MODULE Prd --------------------------------
(***************************************************************************)
(* The PRD agent: one worker per item answers in plain text, the manager   *)
(* assembles what they wrote without asking the model again, the user's    *)
(* Phase 1 decisions are laid over the result, and repairs patch the       *)
(* sections the feedback names.                                            *)
(*                                                                         *)
(* What an item says is left out: a feature is written by its worker, a    *)
(* template or boilerplate; a KPI or persona is its signature; goals and   *)
(* release stages, which fall back to templates as features do, and the    *)
(* prose are left out.  Features are known by their names, and "Alike"     *)
(* pairs names of which one has all the words of the other.                *)
(***************************************************************************)
EXTENDS Integers, FiniteSets, Sequences, SequencesExt

CONSTANTS Names,       \* feature names
          Alike,
          Lists,       \* the PM agent's feature lists
          Decisions,     \* Phase 1: names per bucket, and what the plan leaves out
          Priorities,  \* the priorities a worker may give
          Kpis, Segments, Plain,  \* the other slots: numbers, and section names
          Signatures,  \* what a KPI or a persona may say
          Feedback,    \* what a repair may touch: sections and features
          Patches,     \* what the model may answer to a repair
          MaxIncluded, MaxP0, MaxTries, MaxRepairs,
          Absent

\* The PM agent leaves a name of the list out the second time (pm_agent.py:315), a
\* priority is P0 to P2 or none (_normalize_priority), and a repair names what it lists.
ASSUME PrdAssumption ==
  /\ Kpis \in Nat /\ Segments \in Nat
  /\ Lists \subseteq Seq(Names) /\ \A list \in Lists : IsInjective(list)
  /\ "EXCLUDE" \notin Priorities \cup {Absent} /\ Absent # "excluded"
  /\ \A patch \in Patches : patch.core.rewrite \subseteq Names /\ IsFiniteSet(patch.core.rewrite)

VARIABLES features,  \* feature_list
          choice,    \* must, should, could and excluded_features, scope.out
          tries,     \* failed attempts of each worker still at work
          sections,  \* what each worker of the running execute contributed
          stage,     \* where execute is
          prd,       \* prd_document
          blockers,  \* generation_blockers
          repairs, outcome  \* repairs so far, and targeted_repair_results

vars == <<features, choice, tries, sections, stage, prd, blockers, repairs, outcome>>

Omitted == <<"omitted", Absent>>
Fallback == <<"fallback", Absent>>
Wrote(text) == <<"wrote", text>>
Waiting == <<"waiting", Absent>>

Items(kind) == {kind} \X (CASE kind = "core" -> DOMAIN features
                            [] kind = "kpi" -> 1 .. Kpis
                            [] kind = "persona" -> 1 .. Segments
                            [] kind = "plain" -> Plain)

Slots == UNION {Items(kind) : kind \in {"core", "kpi", "persona", "plain"}}

NamesOf(core) == {f.name : f \in ToSet(core)}

\* The elements of a sequence in their order, without those to leave out and those
\* that repeat one before them.
Sifted(seq, out, repeats) ==
  LET kept[i \in 0 .. Len(seq)] ==
        IF i = 0 THEN <<>>
        ELSE IF seq[i] \in out \/ \E x \in ToSet(kept[i - 1]) : <<x, seq[i]>> \in repeats
             THEN kept[i - 1]
             ELSE Append(kept[i - 1], seq[i])
  IN kept[Len(seq)]

Similar(n, m) == n = m \/ <<n, m>> \in Alike \/ <<m, n>> \in Alike

----------------------------------------------------------------------------
(* Assembly                                                                *)

\* _audit_sections: one entry per feature of the list, in its order.
Clean(written) ==
  [i \in DOMAIN features |->
    LET item == written[<<"core", i>>]
    IN [name |-> features[i], scope |-> Absent,
        text |-> IF item = Fallback THEN "template" ELSE "written",
        prio |-> IF item = Fallback THEN Absent ELSE item[2]]]

\* Mutant: dropped duplicates leave no trace.
AssembledSilently(written, kind) ==
  LET n == IF kind = "kpi" THEN Kpis ELSE Segments
      given == Sifted([i \in 1 .. n |-> written[<<kind, i>>]], {Omitted}, {})
  IN [items |-> Sifted(given, {}, {<<item, item>> : item \in ToSet(given)}),
      gaps |-> {<<kind, "worker", i>> : i \in {j \in 1 .. n : written[<<kind, j>>] = Omitted}}]

\* audit_items: of two items that say the same the first is kept.
Assembled(written, kind) ==
  LET n == IF kind = "kpi" THEN Kpis ELSE Segments
      given == Sifted([i \in 1 .. n |-> written[<<kind, i>>]], {Omitted}, {})
      fresh == {i \in DOMAIN given : \A j \in 1 .. i - 1 : given[j] # given[i]}
  IN [items |-> Sifted(given, {}, {<<item, item>> : item \in ToSet(given)}),
      gaps |-> {<<kind, "worker", i>> : i \in {j \in 1 .. n : written[<<kind, j>>] = Omitted}}
                 \cup {<<kind, "assembly", i>> : i \in DOMAIN given \ fresh}]

\* normalize_priorities: what the scope excludes stays out, and the first
\* MaxP0 features of the highest priority keep it.
Reconciled(core, included, excluded) ==
  LET Out(f) == f.name \in excluded \/ f.prio = "EXCLUDE" \/ f.scope = "excluded"
      Raw(f) == IF f.prio # Absent THEN f.prio ELSE IF f.name \in included THEN "P0" ELSE "P1"
      before(i) == {j \in 1 .. i - 1 : ~Out(core[j]) /\ Raw(core[j]) = "P0"}
      Rank(f, full) == IF Out(f) THEN "P3" ELSE IF Raw(f) = "P0" /\ full THEN "P1" ELSE Raw(f)
  IN [i \in DOMAIN core |->
       [core[i] EXCEPT !.scope = IF Out(core[i]) THEN "excluded" ELSE "mvp",
                       !.prio = Rank(core[i], Cardinality(before(i)) >= MaxP0)]]

\* _dedup_list: a name like that of a kept feature is taken for a repetition.
Deduplicated(core) ==
  Sifted(core, {}, {p \in ToSet(core) \X ToSet(core) : Similar(p[1].name, p[2].name)})

\* ensure_registry_core_features: a listed feature that is missing is added
\* back with a text of the program's own.
Ensured(core) ==
  LET missing == Sifted(features, NamesOf(core), {})
  IN core \o [i \in DOMAIN missing |->
               [name |-> missing[i], scope |-> Absent, text |-> "boilerplate", prio |-> "P0"]]

\* _apply_phase1_priorities: the bucket whose names come closest decides, and
\* among equals the one that sorts last.
ByChoice(f) ==
  LET Near(bucket) == \E n \in choice[bucket] : Similar(f.name, n)
      Put(prio, scope) == [f EXCEPT !.prio = prio, !.scope = scope]
  IN IF Near("could") THEN Put("P2", "mvp")
     ELSE IF Near("should") THEN Put("P1", "mvp")
     ELSE IF Near("must") THEN Put("P0", "mvp")
     ELSE IF Near("excluded") THEN Put("EXCLUDE", "excluded") ELSE f

Confirmed == (choice.must \cup choice.should \cup choice.could) \ choice.excluded

\* Mutant: only the names of must leave the excluded ones.
DecidedMustOnly(doc) ==
  LET included == doc.included \cup choice.must
      excluded == doc.excluded \ choice.must
  IN [doc EXCEPT !.included = included, !.excluded = excluded,
                 !.core = Reconciled([i \in DOMAIN doc.core |-> ByChoice(doc.core[i])],
                                     included, excluded)]

\* Mutant: the features are not ranked again.
DecidedUnranked(doc) ==
  [doc EXCEPT !.included = @ \cup choice.must, !.excluded = @ \ (Confirmed \cup choice.must),
              !.core = [i \in DOMAIN doc.core |-> ByChoice(doc.core[i])]]

\* The same decisions for the scope; without any, the document stays as it is.
Decided(doc) ==
  LET included == doc.included \cup choice.must
      excluded == doc.excluded \ (Confirmed \cup choice.must)
  IN IF choice.must \cup choice.should \cup choice.could \cup choice.excluded = {} THEN doc
     ELSE [doc EXCEPT !.included = included, !.excluded = excluded,
                      !.core = Reconciled([i \in DOMAIN doc.core |-> ByChoice(doc.core[i])],
                                          included, excluded)]

\* Mutant: the plan's exclusions are noted, not enforced.
AlignedLoosely(doc) == [doc EXCEPT !.excluded = @ \cup choice.out \cup choice.excluded]

\* align_project_scope: what the plan or the user excludes is not included.
Aligned(doc) ==
  LET excluded == doc.excluded \cup choice.out \cup choice.excluded
  IN [doc EXCEPT !.excluded = excluded, !.included = @ \ excluded]

First == {features[i] : i \in {j \in DOMAIN features : j <= MaxIncluded}}
Rest == ToSet(features) \ First

\* Mutant: a feature taken for a repetition is not restored.
DocumentUnrestored(written) ==
  LET core == Deduplicated(Reconciled(Clean(written), First, Rest))
      kpi == Assembled(written, "kpi")
      personas == Assembled(written, "persona")
  IN Aligned(Decided(
       [core |-> Reconciled(core, First, Rest), included |-> First, excluded |-> Rest,
        kpi |-> kpi.items, personas |-> personas.items, gaps |-> kpi.gaps \cup personas.gaps,
        fallbacks |-> {slot \in Slots : written[slot] = Fallback}, by |-> "workers"]))

\* From the workers' items to the document execute publishes.
Document(written) ==
  LET core == Ensured(Deduplicated(Reconciled(Clean(written), First, Rest)))
      kpi == Assembled(written, "kpi")
      personas == Assembled(written, "persona")
  IN Aligned(Decided(
       [core |-> Reconciled(core, First, Rest), included |-> First, excluded |-> Rest,
        kpi |-> kpi.items, personas |-> personas.items, gaps |-> kpi.gaps \cup personas.gaps,
        fallbacks |-> {slot \in Slots : written[slot] = Fallback}, by |-> "workers"]))

\* The document without a worker: the user's decisions are not in it.
Emergency(by) ==
  [core |-> Reconciled([i \in DOMAIN features |-> [name |-> features[i], scope |-> Absent,
                                                   text |-> "template", prio |-> Absent]],
                       First, Rest),
   included |-> First, excluded |-> Rest, kpi |-> <<>>, personas |-> <<>>, gaps |-> {},
   fallbacks |-> {}, by |-> by]

----------------------------------------------------------------------------
(* execute                                                                 *)

\* execute is called once for a run, with or without an earlier document.
Idle == [slot \in Slots |-> Waiting]

Init ==
  /\ features \in Lists /\ choice \in Decisions
  /\ tries = [slot \in Slots |-> 0] /\ sections = Idle
  /\ stage = "writing" /\ prd \in {Absent, Emergency("earlier")}
  /\ blockers = {} /\ repairs = 0 /\ outcome = Absent

Texts(slot) == CASE slot[1] = "core" -> Priorities
                 [] slot[1] \in {"kpi", "persona"} -> Signatures
                 [] slot[1] = "plain" -> {Absent}

\* A failed plain section is not asked for again, except the overview.
Attempts(slot) == IF slot[1] = "plain" /\ slot[2] # "projectOverview" THEN 1 ELSE MaxTries

\* A worker's answer passes its checks.
Accept(slot, text) ==
  /\ stage = "writing" /\ sections[slot] = Waiting
  /\ sections' = [sections EXCEPT ![slot] = Wrote(text)] /\ tries' = [tries EXCEPT ![slot] = 0]
  /\ UNCHANGED <<features, choice, stage, prd, blockers, repairs, outcome>>

\* It does not: the worker asks once more for the format, never for the
\* meaning, and a KPI or persona it cannot get is left out, not made up.
Reject(slot, meaning) ==
  /\ stage = "writing" /\ sections[slot] = Waiting
  /\ meaning => slot[1] # "plain"
  /\ LET again == ~meaning /\ tries[slot] + 1 < Attempts(slot)
     IN /\ tries' = [tries EXCEPT ![slot] = IF again THEN @ + 1 ELSE 0]
        /\ sections' = [sections EXCEPT ![slot] =
             IF again THEN Waiting
             ELSE IF slot[1] \in {"kpi", "persona"} THEN Omitted ELSE Fallback]
  /\ UNCHANGED <<features, choice, stage, prd, blockers, repairs, outcome>>

\* Every worker has answered.
Review ==
  /\ stage = "writing" /\ \A slot \in Slots : sections[slot] # Waiting
  /\ prd' = Document(sections) /\ stage' = "done" /\ sections' = Idle
  /\ UNCHANGED <<features, choice, tries, blockers, repairs, outcome>>

\* The connection to the model fails while some worker waits for it.
Transport ==
  /\ stage = "writing" /\ \E slot \in Slots : sections[slot] = Waiting
  /\ stage' = "stopped" /\ blockers' = blockers \cup {"PRD_TRANSPORT"}
  /\ tries' = [slot \in Slots |-> 0] /\ sections' = Idle
  /\ UNCHANGED <<features, choice, prd, repairs, outcome>>

\* Mutant: the emergency document replaces a good one.
CrashAnew ==
  /\ stage = "writing"
  /\ prd' = Emergency("nobody") /\ stage' = "done"
  /\ tries' = [slot \in Slots |-> 0] /\ sections' = Idle
  /\ UNCHANGED <<features, choice, blockers, repairs, outcome>>

\* Anything else that goes wrong keeps an earlier document.
Crash ==
  /\ stage = "writing"
  /\ prd' = IF prd = Absent THEN Emergency("nobody") ELSE prd
  /\ stage' = "done" /\ tries' = [slot \in Slots |-> 0] /\ sections' = Idle
  /\ UNCHANGED <<features, choice, blockers, repairs, outcome>>

----------------------------------------------------------------------------
(* repair                                                                  *)

\* Mutant: the features the feedback names are not looked at.
PatchedAnywhere(core, targets, ops) ==
  LET Now(f) == IF f.name \in ops.rewrite THEN [f EXCEPT !.text = "repaired"] ELSE f
      kept == Sifted(core, {f \in ToSet(core) : f.name \in ops.remove}, {})
  IN [i \in DOMAIN kept |-> Now(kept[i])]

\* The features the feedback names, all of them when it names none, are
\* rewritten or removed; the others are not.
PatchedCore(core, targets, ops) ==
  LET May(n) == targets = {} \/ n \in targets
      Now(f) == IF f.name \in ops.rewrite /\ May(f.name) THEN [f EXCEPT !.text = "repaired"] ELSE f
      kept == Sifted(core, {f \in ToSet(core) : f.name \in ops.remove /\ May(f.name)}, {})
      come == SetToSeq({n \in ops.rewrite \ NamesOf(core) : May(n)})
  IN [i \in DOMAIN kept |-> Now(kept[i])]
       \o [i \in DOMAIN come |-> [name |-> come[i], scope |-> Absent, text |-> "repaired", prio |-> Absent]]

\* repair_targets: naming a feature allows the section it is in.
Allowed(feedback) == feedback.sections \cup IF feedback.names = {} THEN {} ELSE {"core"}

Patched(doc, feedback, patch) ==
  LET may == Allowed(feedback) \cap patch.sections
      core == IF "core" \in may THEN PatchedCore(doc.core, feedback.names, patch.core) ELSE doc.core
      kpi == IF "kpi" \in may THEN patch.kpi ELSE doc.kpi
      now == [doc EXCEPT !.core = core, !.kpi = kpi]
  IN IF "scope" \in may
     THEN Aligned([now EXCEPT !.included = patch.included, !.excluded = patch.excluded]) ELSE now

\* A repair is refused without a target or the right base, and as a whole when
\* one of its items does not pass the checks of the workers.
Repair(feedback, patch) ==
  LET may == Allowed(feedback) \cap patch.sections
      valid == "kpi" \in may => patch.kpi # <<>>
  IN /\ stage = "done" /\ repairs < MaxRepairs
     /\ prd' = IF may # {} /\ patch.base /\ valid THEN Patched(prd, feedback, patch) ELSE prd
     /\ outcome' = IF Allowed(feedback) = {} THEN "rejected_scope"
                   ELSE IF ~patch.base THEN "rejected_revision"
                   ELSE IF may = {} THEN outcome
                   ELSE IF ~valid THEN "rejected_validation"
                   ELSE IF prd' = prd THEN "noop" ELSE "applied"
     /\ repairs' = repairs + 1
     /\ UNCHANGED <<features, choice, tries, sections, stage, blockers>>

Next ==
  \/ \E slot \in Slots : \/ \E text \in Texts(slot) : Accept(slot, text)
                         \/ \E meaning \in BOOLEAN : Reject(slot, meaning)
  \/ Review \/ Transport \/ Crash
  \/ \E feedback \in Feedback, patch \in Patches : Repair(feedback, patch)

Spec == Init /\ [][Next]_vars

----------------------------------------------------------------------------
(* Properties                                                              *)

Ready == stage = "done" /\ repairs = 0

\* Workers fail, features are taken for repetitions of each other and the
\* whole run may crash: the PRD lists each feature of the list exactly once.
EveryFeatureIsWritten ==
  Ready => NamesOf(prd.core) = ToSet(features) /\ Len(prd.core) = Len(features)

\* No item is missing or made up in silence: each KPI and persona slot has a
\* worker's item or a diagnostic, and a feature the workers did not write is
\* noted as a fallback, unless it was taken for a repetition of another.
EveryGapIsReported ==
  Ready /\ prd.by = "workers" =>
    /\ Len(prd.kpi) + Cardinality({g \in prd.gaps : g[1] = "kpi"}) = Kpis
    /\ Len(prd.personas) + Cardinality({g \in prd.gaps : g[1] = "persona"}) = Segments
    /\ \A i \in DOMAIN features :
         \/ \E f \in ToSet(prd.core) : f.name = features[i] /\ f.text = "written"
         \/ <<"core", i>> \in prd.fallbacks
         \/ \E n \in ToSet(features) \ {features[i]} : Similar(n, features[i])

\* Both: what the workers owed is there, or its absence is on record.
NothingIsMissing == EveryFeatureIsWritten /\ EveryGapIsReported

\* "Must features cannot be omitted from the MVP by a downstream worker"
\* (prd_agent.py:1428): the list's order and the workers' priorities excluded
\* it first, and still a feature the user confirmed by name is in the release,
\* a must among the included ones, unless the plan leaves it out.
ConfirmedIsInScope ==
  Ready /\ prd.by = "workers" =>
    /\ \A f \in ToSet(prd.core) :
         f.name \in Confirmed \ choice.out => f.scope = "mvp" /\ f.name \notin prd.excluded
    /\ choice.must \ (choice.out \cup choice.excluded) \subseteq prd.included

\* The scope and the features are ranked three times by different rules: a
\* feature the scope does not exclude is in the release, unless the user
\* excluded one of a similar name, and one the scope excludes is not, unless
\* the plan alone leaves it out, or the user left it out and confirmed one of a
\* similar name (every bucket wins the tie against EXCLUDE in _apply_phase1_priorities).
ScopesAgree ==
  Ready /\ prd.by = "workers" =>
    \A f \in ToSet(prd.core) :
      /\ f.scope = "excluded" => \/ f.name \in prd.excluded
                                 \/ \E n \in choice.excluded : Similar(f.name, n)
      /\ f.name \in prd.excluded =>
           \/ f.scope = "excluded" \/ f.name \in choice.out
           \/ /\ f.name \in choice.excluded
              /\ \E n \in choice.must \cup choice.should \cup choice.could : Similar(f.name, n)

\* Neither the assembly nor a repair of the scope brings back what the user or
\* the plan excluded, and nothing is both included and excluded.
ExcludedStaysOut ==
  stage = "done" /\ prd.by = "workers" =>
    prd.included \cap (prd.excluded \cup choice.excluded \cup choice.out) = {}

\* The three together: what the user decided about a feature is what the PRD says.
DecisionsHold == ConfirmedIsInScope /\ ScopesAgree /\ ExcludedStaysOut

\* A run that does not get to the end leaves an earlier PRD as it was.
FailureKeepsThePrd ==
  [][stage = "writing" /\ prd # Absent /\ prd' # prd =>
       \A slot \in Slots : sections[slot] # Waiting]_vars

\* A repair changes what the feedback names and nothing else: not the other
\* sections and, when it names features, not the other features.
RepairStaysInScope ==
  [][\A feedback \in Feedback, patch \in Patches :
       Repair(feedback, patch) =>
         /\ "scope" \notin Allowed(feedback) =>
              prd'.included = prd.included /\ prd'.excluded = prd.excluded
         /\ "kpi" \notin Allowed(feedback) => prd'.kpi = prd.kpi
         /\ feedback.names # {} =>
              \A f \in ToSet(prd.core) \cup ToSet(prd'.core) :
                f.name \notin feedback.names => f \in ToSet(prd.core) /\ f \in ToSet(prd'.core)]_vars

\* Both: a run or a repair that goes wrong takes nothing from a good PRD.
GoodPrdStays == FailureKeepsThePrd /\ RepairStaysInScope
=============================================================================
