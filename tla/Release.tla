------------------------------ MODULE Release ------------------------------
(***************************************************************************)
(* From a validated feature document to the registry every later agent     *)
(* consumes, and back: FeatureSpecAgent.execute adopts the ids the         *)
(* registry already has, normalises the registry, merges duplicates,       *)
(* applies the plan's priorities and publishes a dependency-closed release *)
(* together with the PRD's core features; a repaired PRD then makes the    *)
(* orchestrator run it again and keep only what the repair touched.        *)
(*                                                                         *)
(* A feature is its identity, what it refers to and what it must satisfy;  *)
(* operations, tables, prose and scores are left out, so the order of the  *)
(* published list is that of the document.  A requirement stands for the   *)
(* text of the feature that brought it, named by the document's own id.    *)
(***************************************************************************)
EXTENDS Naturals, FiniteSets, Sequences, SequencesExt

CONSTANTS Names,      \* feature names
          Ids,        \* the semantic ids a document may give
          Routes,     \* contracts: what a feature's operations address
          Derived,    \* the id canonical_feature_id reads off a contract
          Checks,     \* names of generic validation features
          Accounts,   \* names of sign-up, login and profile features
          SignIn,     \* those of sign-up and login alone
          AuthRoutes, \* contracts under /auth/
          AuthIds,    \* ids that begin with auth.
          Alike,      \* names one of which contains the other
          Documents,  \* the documents the model may answer with
          Plans,      \* the project plans: a set of names per bucket
          Planned,    \* the names of the PRD's first core features
          Patches,    \* the core features a PRD repair may write
          Intent,     \* the domain of ids made from a name alone
          MaxMvp, MaxP0, MaxRepairs,
          Absent

ASSUME SubsetsAssumption ==
  /\ Checks \subseteq Names /\ Accounts \subseteq Names /\ SignIn \subseteq Accounts
  /\ AuthRoutes \subseteq Routes /\ AuthIds \subseteq Ids
  /\ Derived \in [Routes -> Ids]

VARIABLES plan,      \* project_plan.priorities
          registry,  \* feature_registry
          names,     \* feature_list: the names of the last whole document
          prd,       \* the PRD's coreFeatures
          draft,     \* the last document generate_document returned
          stage,     \* what the orchestrator does next
          before,    \* registry and coreFeatures when the PRD was repaired
          blockers,  \* generation_blockers
          repairs    \* PRD repairs so far

vars == <<plan, registry, names, prd, draft, stage, before, blockers, repairs>>

IdsOf(fs) == {f.id : f \in ToSet(fs)}
NamesOf(fs) == {f.name : f \in ToSet(fs)}

\* semantic_identifier: a domain and an action; the suffix normalisation adds
\* to a name's digest keeps an id semantic, a counter does not.
Semantic(id) == id \in Ids \/ (id \notin {<<Intent, n>> : n \in Names} /\ id \in Ids \X Names)

Canonical(f) == IF Semantic(f.id) THEN f.id
                ELSE IF f.route = Absent THEN <<Intent, f.name>> ELSE Derived[f.route]

\* The id with the first counter that is free.
Numbered(id, used) == <<id, CHOOSE k \in 2 .. Cardinality(used) + 2 :
                              /\ <<id, k>> \notin used
                              /\ \A j \in 2 .. k - 1 : <<id, j>> \in used>>

LastNamed(fs, n) == fs[CHOOSE i \in DOMAIN fs :
                         fs[i].name = n /\ \A j \in DOMAIN fs : fs[j].name = n => j <= i]

\* build_feature_registry: what stands for a name without an entry, neither core
\* nor ranked, under an id made of the name alone.
Fallback(n) ==
  [id |-> <<Intent, n>>, name |-> n, from |-> Absent, core |-> FALSE, parent |-> Absent,
   deps |-> {}, route |-> Absent, prio |-> Absent, scope |-> Absent, reqs |-> {}]

\* One pass over the names, the last entry of a name speaking for all of them,
\* and one over the entries of no such name.
Renumbered(fs, ns) ==
  LET Fresh(id, used) == IF id \in used THEN Numbered(id, used) ELSE id
      Place(done, n) ==
        LET entry == IF n \in NamesOf(fs) THEN LastNamed(fs, n) ELSE Fallback(n)
            id == Canonical(entry)
            digest == IF id \in IdsOf(done) THEN <<id, n>> ELSE id
        IN Append(done, [entry EXCEPT !.id = Fresh(digest, IdsOf(done))])
      Extra(done, f) ==
        LET id == IF Canonical(f) \in IdsOf(done) THEN Canonical([f EXCEPT !.id = Absent])
                  ELSE Canonical(f)
        IN IF f.name \in NamesOf(done) THEN done
           ELSE Append(done, [f EXCEPT !.id = Fresh(id, IdsOf(done))])
  IN FoldLeft(Extra, FoldLeft(Place, <<>>, ns), fs)

\* normalize_feature_registry of entries against a list of names: parents
\* follow a renamed feature, dependencies do not.
NormalizedTo(fs, ns) ==
  LET out == Renumbered(fs, ns)
      Now(id) == IF id \in IdsOf(fs)
                 THEN LastNamed(out, (CHOOSE f \in ToSet(fs) : f.id = id).name).id
                 ELSE id
  IN [i \in DOMAIN out |-> [out[i] EXCEPT !.parent = Now(@)]]

NameList(fs) == [i \in DOMAIN fs |-> fs[i].name]

\* A document is normalised against its own names.
Normalized(fs) == NormalizedTo(fs, NameList(fs))

\* source_cores: the temporary id a core feature is known by to the model.
SourceOf(core) == IF core.from # Absent THEN core.from
                  ELSE IF core.id # Absent THEN core.id ELSE <<Intent, core.name>>

----------------------------------------------------------------------------
(* What generate_document accepts                                          *)

Edges(fs, hierarchy) ==
  {<<f.id, d>> : f \in ToSet(fs), d \in UNION {{g.parent} \cup g.deps : g \in ToSet(fs)}}
    \cap UNION {{f.id} \X (IF hierarchy THEN {f.parent} \ {Absent} ELSE f.deps) : f \in ToSet(fs)}

\* The features one feature's chain of edges leads to, itself included.
Reach(edges, ids, id) ==
  LET Closed(S) == id \in S /\ \A e \in edges : e[1] \in S => e[2] \in S
      nodes == ids \cup {id} \cup {e[2] : e \in edges}
  IN {n \in nodes : \A S \in SUBSET nodes : Closed(S) => n \in S}

Acyclic(edges, ids) == \A e \in edges : e[1] \notin Reach(edges, ids, e[2])

\* dependency_issues: an unknown feature or a cycle, in either graph.
DependencyIssues(fs) ==
  \E hierarchy \in BOOLEAN :
    LET edges == Edges(fs, hierarchy)
    IN \/ \E e \in edges : e[2] \notin IdsOf(fs)
       \/ ~Acyclic(edges, IdsOf(fs))

DocumentIsValid(doc, cores) ==
  /\ doc # <<>> /\ Len(doc) <= MaxMvp
  /\ Cardinality(IdsOf(doc)) = Len(doc)
  /\ \A core \in ToSet(cores) :
       Cardinality({i \in DOMAIN doc : doc[i].core /\ doc[i].from = SourceOf(core)}) = 1
  /\ \A f \in ToSet(doc) : f.core => f.from \in {SourceOf(core) : core \in ToSet(cores)}
  /\ ~DependencyIssues(doc)

----------------------------------------------------------------------------
(* FeatureSpecAgent.execute                                                *)

Find(fs, Test(_)) == LET found == SelectSeq(fs, Test)
                     IN IF found = <<>> THEN Absent ELSE found[Len(found)]

CoreOf(cores, f) == IF f.core THEN Find(cores, LAMBDA core : SourceOf(core) = f.from) ELSE Absent

\* Mutant: the registry is searched by the document's ids alone.
RegistryEntryByOwnId(known, core, f) == Find(known, LAMBDA g : g.id = f.id)

\* The registry's entry for a feature: by the id of its PRD feature, by name,
\* by its own id.
RegistryEntry(known, core, f) ==
  LET byCore == IF core = Absent THEN Absent ELSE Find(known, LAMBDA g : g.id = core.id)
      byName == Find(known, LAMBDA g : g.name = f.name)
  IN IF byCore # Absent THEN byCore
     ELSE IF byName # Absent THEN byName
     ELSE Find(known, LAMBDA g : g.id = f.id)

Mentions(n, bucket) == \E m \in plan[bucket] : m = n \/ <<n, m>> \in Alike

\* _score_supporting, with the score of its wording left to the document.
SupportPriority(f) ==
  LET wanted == {b \in {"must", "should", "could"} : Mentions(f.name, b)}
  IN IF wanted = {} /\ Mentions(f.name, "wont") THEN "EXCLUDE"
     ELSE IF f.route \in AuthRoutes \/ wanted \cap {"must", "should"} # {} THEN "P1"
     ELSE IF wanted # {} THEN "P2" ELSE f.prio

ScopeOf(known, cores, f) ==
  LET entry == Find(known, LAMBDA g : g.name = f.name)
      core == Find(cores, LAMBDA c : c.name = f.name)
  IN IF entry # Absent /\ entry.scope # Absent THEN entry.scope
     ELSE IF core # Absent THEN core.scope ELSE Absent

\* One feature of the document: the id it takes, and whether it is core.
Adopt(known, cores, done, f) ==
  LET core == CoreOf(cores, f)
      entry == RegistryEntry(known, core, f)
      own == IF entry # Absent /\ Semantic(entry.id) THEN entry.id ELSE f.id
      repeated == own \in done.ids
      id == IF repeated THEN Numbered(own, done.ids) ELSE own
      support == f.name \in Accounts \/ ~f.core
      first == SelectSeq(done.out, LAMBDA g : g.core)
      adopted == [id |-> id, name |-> f.name, from |-> f.from, core |-> ~support,
                  parent |-> IF support /\ f.parent = Absent /\ first # <<>>
                             THEN first[1].id ELSE f.parent,
                  deps |-> f.deps, route |-> f.route,
                  prio |-> IF support THEN SupportPriority(f) ELSE core.prio,
                  scope |-> ScopeOf(known, cores, f), reqs |-> {f.id}]
  IN IF repeated /\ f.name \in NamesOf(done.out) THEN done
     ELSE [ids |-> done.ids \cup {id},
           out |-> IF adopted.prio = "EXCLUDE" THEN done.out ELSE Append(done.out, adopted)]

Adopted(known, cores, doc) ==
  FoldLeft(LAMBDA done, f : Adopt(known, cores, done, f), [ids |-> {}, out |-> <<>>], doc).out

\* The name, the contract or the id of a sign-in journey; an id keeps its
\* beginning under a digest or a counter.
IsAuth(f) ==
  \/ f.name \in SignIn \/ f.route \in AuthRoutes
  \/ f.id \in AuthIds \cup (AuthIds \X Names) \cup ((AuthIds \X Names) \X Nat)

\* Mutant: a duplicate is dropped with what it asked for.
MergeSilently(fs, done, f) ==
  IF ~f.core /\ f.name \in Checks /\ f.parent \in IdsOf(fs)
  THEN [done EXCEPT !.gone = @ \cup {f.id}] ELSE done

\* _merge_semantic_duplicates: generic validation goes to its parent, a second
\* sign-in journey to the first one; each brings its requirements along.
Merge(fs, done, f) ==
  LET isAuth == IsAuth(f)
      owner == IF isAuth THEN done.owners[f.route] ELSE Absent
      Into(id) == [done EXCEPT !.reqs[id] = @ \cup done.reqs[f.id], !.gone = @ \cup {f.id}]
      joins == IF f.core THEN Absent
               ELSE IF f.name \in Checks /\ f.parent \in IdsOf(fs) THEN f.parent ELSE owner
  IN IF joins # Absent THEN Into(joins)
     ELSE IF isAuth /\ f.route # Absent THEN [done EXCEPT !.owners[f.route] = f.id] ELSE done

Merged(fs) ==
  LET end == FoldLeft(LAMBDA done, f : Merge(fs, done, f),
                      [reqs |-> [id \in IdsOf(fs) |-> (CHOOSE f \in ToSet(fs) : f.id = id).reqs],
                       gone |-> {}, owners |-> [r \in Routes \cup {Absent} |-> Absent]], fs)
      kept == SelectSeq(fs, LAMBDA f : f.id \notin end.gone)
  IN [i \in DOMAIN kept |-> [kept[i] EXCEPT !.reqs = end.reqs[kept[i].id]]]

\* apply_project_priorities: the last bucket that lists a name decides.
ByPlan(f) ==
  IF f.name \in plan["wont"] THEN [f EXCEPT !.prio = "EXCLUDE", !.scope = "excluded"]
  ELSE IF f.name \in plan["could"] THEN [f EXCEPT !.prio = "P2", !.scope = "mvp"]
  ELSE IF f.name \in plan["should"] THEN [f EXCEPT !.prio = "P1", !.scope = "mvp"]
  ELSE IF f.name \in plan["must"]
       THEN [f EXCEPT !.prio = IF f.core THEN "P0" ELSE "P1", !.scope = "mvp"] ELSE f

\* Mutant: a core feature beyond the ration leaves the release.
RankedByDropping(fs) ==
  LET Rank(done, f) ==
        LET out == \/ f.prio = "EXCLUDE" \/ f.scope = "excluded"
                   \/ f.prio = "P0" /\ Cardinality({i \in DOMAIN done : done[i].prio = "P0"}) >= MaxP0
        IN Append(done, [f EXCEPT !.scope = IF out THEN "excluded" ELSE "mvp",
                                  !.prio = IF out THEN "P3" ELSE @])
  IN FoldLeft(Rank, <<>>, fs)

\* normalize_priorities: what is excluded leaves the release, and only the
\* first MaxP0 core features keep the highest priority.
Ranked(fs) ==
  LET Rank(done, f) ==
        LET out == f.prio = "EXCLUDE" \/ f.scope = "excluded"
            full == Cardinality({i \in DOMAIN done : done[i].prio = "P0"}) >= MaxP0
        IN Append(done, [f EXCEPT !.scope = IF out THEN "excluded" ELSE "mvp",
                                  !.prio = IF out THEN "P3"
                                           ELSE IF @ = "P0" /\ (~f.core \/ full) THEN "P1" ELSE @])
  IN FoldLeft(Rank, <<>>, fs)

\* Mutant: a feature is released without asking what it needs.
SelectedAlone(fs) == SelectSeq(fs, LAMBDA f : f.scope = "mvp")

\* select_mvp: a feature is released with everything it needs or not at all.
\* A document never exceeds MaxMvp, so the budget does not cut here.
Selected(fs) ==
  LET needs == Edges(fs, TRUE) \cup Edges(fs, FALSE)
      inScope == {f.id : f \in {g \in ToSet(fs) : g.scope = "mvp"}}
  IN SelectSeq(fs, LAMBDA f : Reach(needs, IdsOf(fs), f.id) \subseteq inScope)

\* Mutant: the PRD keeps its features as it knew them.
ProjectedUnrenamed(cores, fs) ==
  SelectSeq(cores, LAMBDA core : \E f \in ToSet(fs) : f.core /\ f.from = SourceOf(core))

\* The PRD keeps the core features that are released, under their final names.
Projected(cores, fs) ==
  LET Final(core) == Find(fs, LAMBDA f : f.core /\ f.from = SourceOf(core))
      kept == SelectSeq(cores, LAMBDA core : Final(core) # Absent)
  IN [i \in DOMAIN kept |->
       [kept[i] EXCEPT !.from = SourceOf(kept[i]), !.id = Final(kept[i]).id,
                       !.name = Final(kept[i]).name]]

\* What a document becomes before it is checked, and what is released of it.
Shaped(doc) == Merged(Normalized(Adopted(NormalizedTo(registry, names), prd, doc)))

Chosen(fs) == Selected(Ranked([i \in DOMAIN fs |-> ByPlan(fs[i])]))

\* The two contract checks: references first, identities at the end.
Publishable(doc) ==
  /\ ~DependencyIssues(Shaped(doc))
  /\ LET final == Normalized(Chosen(Shaped(doc)))
     IN final # <<>> /\ \A id \in IdsOf(final) : Semantic(id)

\* ensure_registry_core_features: a core or P0 feature the PRD does not name is
\* added, unless the PRD has its id.
Ensured(cores, known) ==
  LET Ensure(done, f) ==
        LET entry == LastNamed(known, f.name)
        IN IF \/ ~f.core /\ f.prio # "P0"
              \/ f.name \in NamesOf(done) \/ entry.id \in IdsOf(done) THEN done
           ELSE Append(done, [name |-> f.name, id |-> entry.id, from |-> Absent,
                              prio |-> "P0", scope |-> Absent, rev |-> 0])
  IN FoldLeft(Ensure, cores, known)

\* sync_core_features_with_registry: the registry is normalised against the
\* names of the whole last document, a copy that is not stored; every core
\* feature takes the id and the priority this copy has for its name.
Synced(cores, fs, ns) ==
  LET known == NormalizedTo(fs, ns)
      all == Ensured(cores, known)
      Entry(core) == Find(known, LAMBDA f : f.name = core.name)
  IN [i \in DOMAIN all |->
       IF Entry(all[i]) = Absent THEN all[i]
       ELSE [all[i] EXCEPT !.id = Entry(all[i]).id,
                           !.prio = IF Entry(all[i]).prio = Absent THEN @ ELSE Entry(all[i]).prio]]

----------------------------------------------------------------------------
(* PipelineOrchestrator: the first run, and a resync after a PRD repair    *)

\* A core feature is followed across a repair by its id, or by its name's.
KeyOf(core, fs) ==
  LET entry == Find(fs, LAMBDA f : f.name = core.name)
  IN IF core.id # Absent THEN core.id ELSE IF entry # Absent THEN entry.id ELSE core.name

Keys(cores, fs) == {KeyOf(core, fs) : core \in ToSet(cores)}

\* _changed_prd_feature_ids
Changed(old, new, fs) ==
  {k \in Keys(old, fs) \cup Keys(new, fs) :
     {c \in ToSet(old) : KeyOf(c, fs) = k} # {c \in ToSet(new) : KeyOf(c, fs) = k}}

\* The features whose parents lead into a set of ids.
Descendants(fs, roots) ==
  LET parents == {<<f.parent, f.id>> : f \in ToSet(fs)}
  IN roots \cup UNION {Reach(parents, IdsOf(fs), r) : r \in roots}

Without(fs, ids) == SelectSeq(fs, LAMBDA f : f.id \notin ids)

Removed == Descendants(before.registry,
                       Keys(before.prd, before.registry) \ Keys(prd, before.registry))

\* Mutant: the new document's entries replace the old ones wherever they exist.
RetainedMissing(old, new, changed) == new \o Without(old, IdsOf(new))

\* _retain_unchanged_registry: what the repair did not touch stays as it was.
Affected(old, new, changed) == Descendants(Without(old, IdsOf(new)) \o new, changed)

Retained(old, new, changed) ==
  LET affected == Affected(old, new, changed)
      ByIdIn(fs, id) == Find(fs, LAMBDA f : f.id = id)
      stay == SelectSeq(old, LAMBDA f : f.id \notin affected \/ f.id \in IdsOf(new))
      come == SelectSeq(new, LAMBDA f : f.id \notin IdsOf(old) /\ f.id \in affected)
  IN [i \in DOMAIN stay |-> IF stay[i].id \in affected THEN ByIdIn(new, stay[i].id) ELSE stay[i]]
     \o come

Init ==
  /\ plan \in Plans
  /\ registry = [i \in DOMAIN Planned |->
       [id |-> <<Intent, Planned[i]>>, name |-> Planned[i], from |-> Absent, core |-> TRUE,
        parent |-> Absent, deps |-> {}, route |-> Absent, prio |-> "P1", scope |-> Absent,
        reqs |-> {}]]
  /\ names = Planned
  /\ \E scopes \in [DOMAIN Planned -> {"mvp", "excluded"}] :
       prd = [i \in DOMAIN Planned |->
         [name |-> Planned[i], id |-> <<Intent, Planned[i]>>, from |-> Absent,
          prio |-> IF scopes[i] = "mvp" THEN "P1" ELSE "P3", scope |-> scopes[i], rev |-> 0]]
  /\ draft = <<>> /\ stage = "write" /\ before = Absent /\ blockers = {} /\ repairs = 0

\* execute publishes the first registry.
Publish(doc) ==
  /\ stage = "write" /\ DocumentIsValid(doc, prd) /\ Publishable(doc)
  /\ LET chosen == Chosen(Shaped(doc))
         final == Normalized(chosen)
     IN /\ registry' = final /\ names' = NameList(final)
        /\ prd' = Synced(Projected(prd, chosen), final, names')
  /\ draft' = doc /\ stage' = "published"
  /\ UNCHANGED <<plan, before, blockers, repairs>>

\* execute finds the document's references broken by its own normalisation.
Refuse(doc) ==
  /\ stage \in {"write", "resync"} /\ DocumentIsValid(doc, prd) /\ ~Publishable(doc)
  /\ draft' = doc /\ stage' = "stopped" /\ blockers' = blockers \cup {"FEATURE_SPEC"}
  /\ UNCHANGED <<plan, registry, names, prd, before, repairs>>

\* No document, a contract the final check rejects, or the repair's timeout.
Fail ==
  /\ stage \in {"write", "resync"}
  /\ stage' = "stopped" /\ blockers' = blockers \cup {"FEATURE_SPEC"}
  /\ UNCHANGED <<plan, registry, names, prd, draft, before, repairs>>

\* PrdAgent.repair rewrites, removes or adds one core feature; what it removes
\* leaves the registry with its descendants at once.
Repair(cores) ==
  /\ stage = "published" /\ repairs < MaxRepairs
  /\ Changed(prd, cores, registry) # {}
  /\ prd' = cores
  /\ before' = [registry |-> registry, prd |-> prd]
  /\ LET gone == Descendants(registry, Keys(prd, registry) \ Keys(cores, registry))
         left == Without(registry, gone)
     IN /\ registry' = left
        /\ names' = SelectSeq(names, LAMBDA n : \A f \in ToSet(registry) : f.name = n => f.id \notin gone)
  /\ stage' = "resync" /\ repairs' = repairs + 1
  /\ UNCHANGED <<plan, draft, blockers>>

Rewritten == {[prd EXCEPT ![i].rev = @ + 1] : i \in DOMAIN prd}
               \cup {RemoveAt(prd, i) : i \in DOMAIN prd}
               \cup {Append(prd, core) : core \in {p \in Patches : p.name \notin NamesOf(prd)}}

\* execute answers for the repaired PRD, and only the repaired part is kept.
Resync(doc) ==
  /\ stage = "resync" /\ DocumentIsValid(doc, prd) /\ Publishable(doc)
  /\ LET chosen == Chosen(Shaped(doc))
         final == Normalized(chosen)
         new == Without(final, Removed)
         changed == Changed(before.prd, prd, before.registry)
         merged == Retained(before.registry, new, changed)
     IN /\ registry' = merged /\ names' = NameList(final)
        /\ prd' = Synced(Projected(prd, chosen), merged, names')
  /\ draft' = doc /\ stage' = "published"
  /\ UNCHANGED <<plan, before, blockers, repairs>>

Next ==
  \/ \E doc \in Documents : Publish(doc) \/ Refuse(doc) \/ Resync(doc)
  \/ Fail
  \/ \E cores \in Rewritten : Repair(cores)

Spec == Init /\ [][Next]_vars

----------------------------------------------------------------------------
(* Properties                                                              *)

\* The published document names each of its features once: nothing the check
\* of the document demands, and the names are what normalisation goes by.
NamesDiffer == Cardinality(NamesOf(draft)) = Len(draft)

Fresh == stage = "published" /\ repairs = 0

\* Adoption renames features, normalisation renames them again and merging
\* takes some away; still every parent and dependency of the first release is
\* released, neither graph has a cycle and the highest priority is rationed.
ReleaseIsClosed ==
  Fresh /\ NamesDiffer =>
    /\ ~DependencyIssues(registry)
    /\ Cardinality({f \in ToSet(registry) : f.prio = "P0"}) <= MaxP0

\* The PRD and the registry are rewritten at different points of execute, with
\* a renaming pass between them: each core feature of the PRD is the registry's
\* core feature of the same id, name and source, and there is no other.
PrdNamesTheRegistry ==
  Fresh /\ NamesDiffer =>
    {<<core.id, core.name, SourceOf(core)>> : core \in ToSet(prd)}
      = {<<f.id, f.name, f.from>> : f \in {g \in ToSet(registry) : g.core}}

\* What a feature leads to, by either graph of the document.
Needs(id) == Reach(Edges(draft, TRUE) \cup Edges(draft, FALSE), IdsOf(draft), id)

InPlan(n) == \E b \in {"must", "should", "could"} : n \in plan[b]

\* A feature the plan confirms is released when everything it needs is
\* confirmed too: a published document loses none on its way through.
ConfirmedAreReleased ==
  Fresh /\ NamesDiffer =>
    \A f \in ToSet(draft) :
      (\A g \in ToSet(draft) : g.id \in Needs(f.id) =>
          InPlan(g.name) /\ ~Mentions(g.name, "wont") /\ g.name \notin Checks \cup Accounts)
        => f.name \in NamesOf(registry)

\* Both: the first release has what was confirmed, and nothing that leads out of it.
ReleaseIsComplete == ReleaseIsClosed /\ ConfirmedAreReleased

\* A merged feature's requirements go to the one that takes its place: what a
\* released feature or a feature merged into it asked for is still asked for,
\* unless the feature it was merged into had been merged away itself.
RequirementsSurvive ==
  Fresh /\ NamesDiffer =>
    \A f \in ToSet(draft), g \in ToSet(draft) :
      /\ f.name \in Checks /\ ~f.core /\ f.parent = g.id /\ g.name \notin Checks \cup Accounts
      /\ g.name \in NamesOf(registry)
      /\ ~Mentions(f.name, "wont")
      => \E owner \in ToSet(registry) : owner.name = g.name /\ {f.id, g.id} \subseteq owner.reqs

\* What the resync that ends in this step took from the new document.
Touched == Affected(before.registry, registry', Changed(before.prd, prd, before.registry))

\* An id, once published, is what later artifacts refer to: a core feature the
\* PRD knew by the registry's id keeps it through a resync, as long as no
\* other feature of the new document takes its name or its id, and as the new
\* document renames only what the repair touched.  (A core feature renamed
\* without that keeps its entry under the old name, and the PRD gets an id
\* made of the new one.)
IdsAreStable ==
  [][\A f \in ToSet(registry), core \in ToSet(prd') :
       /\ stage = "resync" /\ stage' = "published"
       /\ f.core /\ f.from = SourceOf(core)
       /\ \E known \in ToSet(prd) : known.id = f.id /\ SourceOf(known) = f.from
       /\ f.id \in Touched \/ f.name = core.name
       /\ \A g \in ToSet(draft') : g.from # f.from => g.id # f.id /\ g.name # f.name
       => core.id = f.id]_vars

\* Both: the PRD and the registry speak of the same features under the same ids.
IdsAgree == []PrdNamesTheRegistry /\ IdsAreStable

\* A resync accepts the new document only for what the repair changed and for
\* its descendants: every other feature is published unchanged.
ResyncStaysInScope ==
  [][stage = "resync" /\ stage' = "published" =>
       \A f \in ToSet(before.registry) : f.id \notin Touched => f \in ToSet(registry')]_vars
=============================================================================
