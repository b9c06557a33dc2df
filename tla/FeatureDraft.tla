---------------------------- MODULE FeatureDraft ----------------------------
(***************************************************************************)
(* The generation of the feature document: generate_document of            *)
(* phase2/feature_generation.py with repair_scope and merge_patch of       *)
(* phase2/feature_draft.py.                                                *)
(*                                                                         *)
(* The model writes a draft, the checks name its faults, and the model may *)
(* answer with patches.  A patch is merged entry by entry under a scope    *)
(* computed from the faults; one entry out of scope and the whole patch is *)
(* dropped.  The steps of a merge are steps of one coroutine that awaits   *)
(* nothing in between.                                                     *)
(*                                                                         *)
(* A draft is reduced to its features with their operations and to the     *)
(* DTOs these refer to.  Tables are merged like unprotected DTOs and are   *)
(* left out, as are the other fields of a feature.  A missing method is    *)
(* taken as the keys (method and path) it may be added under.              *)
(***************************************************************************)
EXTENDS Integers, Sequences, FiniteSets, SequencesExt, TLC

CONSTANTS
    Ids,           \* featureIds
    Sources,       \* sourceFeatureIds of the PRD cores
    NoSource,      \* a patch entry without sourceFeatureId
    Keys,          \* method and path of an operation
    Dtos,          \* names of DTOs
    Bodies,        \* what else an operation or a DTO says
    FirstDrafts,   \* bound: the drafts the model may begin with
    Bases,         \* bound: the drafts it patches
    PatchOps,      \* bound: the operations of a patch
    PatchDtos,     \* bound: the DTO definitions of a patch
    MaxPatchOps,   \* bound: operations in one entry of a patch
    MaxEntries,    \* bound: entries of a patch
    Findable(_),   \* bound: the faults that checks find in a draft, at most two at a time
    MaxAttempts    \* feature_spec_max_attempts

Operations == [key : Keys, refs : SUBSET Dtos, body : Bodies]
Definitions == [refs : SUBSET Dtos, body : Bodies]
Features == [id : Ids, source : Sources, ops : Seq(Operations)]

ASSUME DraftAssumption ==
    /\ MaxAttempts \in Nat \ {0}
    /\ MaxPatchOps \in Nat /\ MaxEntries \in Nat
    /\ IsFiniteSet(Dtos)
    /\ NoSource \notin Sources
    /\ \A d \in FirstDrafts :
        /\ d = [features |-> d.features, dtos |-> d.dtos]
        /\ d.features \in Seq(Features)
        /\ DOMAIN d.dtos \subseteq Dtos /\ Range(d.dtos) \subseteq Definitions
        /\ \A i, j \in DOMAIN d.features : d.features[i].id = d.features[j].id => i = j
    /\ PatchOps \subseteq Operations
    /\ PatchDtos \subseteq Definitions

VARIABLES
    pc,        \* ask, features, dtos, check, or the end: done, blocked
    attempt,   \* attempts begun
    mode,      \* current_mode: json_schema or json_object
    calls,     \* requests to the provider
    draft,     \* draft_baseline
    faults,    \* baseline_issues
    scope,     \* active_scope
    told,      \* the issues in the message of the request to come
    work,      \* the draft being merged or checked
    seen,      \* the features the patch has addressed
    roots      \* the DTOs that the operations of the patch may bring in

patch == <<work, seen, roots>>
baseline == <<draft, faults, scope>>
vars == <<pc, attempt, mode, calls, baseline, told, patch>>

NoDraft == [features |-> <<>>, dtos |-> <<>>]
HasDraft == draft # NoDraft

IdsOf(d) == {d.features[i].id : i \in DOMAIN d.features}
KeysOf(ops) == {ops[j].key : j \in DOMAIN ops}
RefsOf(ops) == UNION {ops[j].refs : j \in DOMAIN ops}

-----------------------------------------------------------------------------
(* Faults.  A check names an operation of a feature by its index, a feature as a whole, a   *)
(* route a workflow needs of a feature, a PRD core without or with several features, a DTO. *)

FaultsOf(d) ==
    (UNION {{<<"operation", i, j>> : j \in DOMAIN d.features[i].ops} : i \in DOMAIN d.features})
    \cup {<<"feature", i>> : i \in DOMAIN d.features}
    \cup {"route"} \X (DOMAIN d.features) \X Keys
    \cup {<<"core", s>> : s \in Sources}
    \cup {<<"dto", n>> : n \in DOMAIN d.dtos}

Holders(d, s) == {i \in DOMAIN d.features : d.features[i].source = s}

\* The features that a fault is about
Faulty(d, found) ==
    {i \in DOMAIN d.features : \E x \in found :
        \/ x[1] \in {"operation", "feature", "route"} /\ x[2] = i
        \/ x[1] = "core" /\ i \in Holders(d, x[2]) /\ Cardinality(Holders(d, x[2])) > 1}

\* The operations that a fault names, a route that exists already among them
Affected(d, found, i) ==
    {j \in DOMAIN d.features[i].ops :
        <<"operation", i, j>> \in found \/ <<"route", i, d.features[i].ops[j].key>> \in found}

\* The routes to be added
Appendable(d, found, i) ==
    {k \in Keys : <<"route", i, k>> \in found} \ KeysOf(d.features[i].ops)

\* A feature with such a fault is open in these operations only, otherwise as a whole.
Restricted(d, found) ==
    {i \in Faulty(d, found) : Affected(d, found, i) # {} \/ Appendable(d, found, i) # {}}

\* names and all that they refer to
Reach(dtos, names) ==
    LET upTo[n \in 0..Cardinality(Dtos)] ==
        IF n = 0 THEN names
        ELSE LET near == upTo[n - 1]
             IN near \cup UNION {dtos[m].refs : m \in near \cap DOMAIN dtos}
    IN upTo[Cardinality(Dtos)]

\* Mutant: the DTOs nested in a DTO are forgotten
ProtectedDirectly(d, ids, open) ==
    UNION {LET f == d.features[i] IN
        IF f.id \notin ids THEN RefsOf(f.ops)
        ELSE IF f.id \in DOMAIN open
        THEN UNION {f.ops[j].refs : j \in DOMAIN f.ops \ open[f.id]}
        ELSE {} : i \in DOMAIN d.features}

\* The DTOs of the operations that a patch has to leave alone
Protected(d, ids, open) ==
    Reach(d.dtos, UNION {LET f == d.features[i] IN
        IF f.id \notin ids THEN RefsOf(f.ops)
        ELSE IF f.id \in DOMAIN open
        THEN UNION {f.ops[j].refs : j \in DOMAIN f.ops \ open[f.id]}
        ELSE {} : i \in DOMAIN d.features})

NoScope == [ids |-> {}, open |-> <<>>, routes |-> <<>>, dtos |-> {}, protected |-> {}, missing |-> {}]

RepairScope(d, found) ==
    LET faulty == Faulty(d, found)
        restricted == Restricted(d, found)
        Id(i) == d.features[i].id
        At(id) == CHOOSE i \in DOMAIN d.features : Id(i) = id
        ids == {Id(i) : i \in faulty}
        open == [id \in {Id(i) : i \in restricted} |-> Affected(d, found, At(id))]
        Named(i) == IF Affected(d, found, i) = {} THEN RefsOf(d.features[i].ops)
                    ELSE UNION {d.features[i].ops[j].refs : j \in Affected(d, found, i)}
        names == (UNION {Named(i) : i \in faulty}) \cup {n \in DOMAIN d.dtos : <<"dto", n>> \in found}
        protected == IF faulty = {} THEN {} ELSE Protected(d, ids, open)
    IN [ids |-> ids, open |-> open,
        routes |-> [id \in DOMAIN open |-> Appendable(d, found, At(id))],
        dtos |-> Reach(d.dtos, names) \ protected,
        protected |-> protected,
        missing |-> {s \in Sources : <<"core", s>> \in found /\ Holders(d, s) = {}}]

-----------------------------------------------------------------------------
(* Merging a patch *)

\* Mutant: an empty list of affected operations is taken for no restriction
OpenUnlessListed(f) ==
    IF f.id \in DOMAIN scope.open /\ scope.open[f.id] # {} THEN scope.open[f.id] ELSE DOMAIN f.ops

\* The operations of a feature that the patch may change
Open(f) == IF f.id \in DOMAIN scope.open THEN scope.open[f.id] ELSE DOMAIN f.ops

Routes(f) == IF f.id \in DOMAIN scope.routes THEN scope.routes[f.id] ELSE {}

Same(old, new, positions) == \A j \in positions : j \in DOMAIN new /\ new[j] = old[j]

\* A full list of operations replaces the old one by index.
FullImage(f, ops) == Len(ops) >= Len(f.ops) /\ Same(f.ops, ops, DOMAIN f.ops \ Open(f))

\* A sparse list addresses known operations by key and adds requested ones.
SparseImage(f, ops) ==
    /\ \A j, k \in DOMAIN ops : ops[j].key = ops[k].key => j = k
    /\ \A op \in Range(ops) :
        LET at == {j \in DOMAIN f.ops : f.ops[j].key = op.key} IN
        \/ Cardinality(at) = 1 /\ (at \subseteq Open(f) \/ Same(f.ops, [j \in at |-> op], at))
        \/ at = {} /\ op.key \in Routes(f)

\* Mutant: operations that the patch omits are dropped
SparseOnly(f, ops) == ops

\* The operations of a patch that the feature does not know, in their order
Added(f, ops) ==
    LET upTo[n \in 0..Len(ops)] ==
        IF n = 0 THEN <<>>
        ELSE IF ops[n].key \in KeysOf(f.ops) THEN upTo[n - 1] ELSE Append(upTo[n - 1], ops[n])
    IN upTo[Len(ops)]

Sparse(f, ops) ==
    [j \in DOMAIN f.ops |->
        IF f.ops[j].key \in KeysOf(ops) THEN CHOOSE op \in Range(ops) : op.key = f.ops[j].key ELSE f.ops[j]]
    \o Added(f, ops)

\* preserve_operations: the merged feature against the one before
Preserves(f, ops) ==
    f.id \in DOMAIN scope.open =>
        /\ Len(ops) >= Len(f.ops)
        /\ Same(f.ops, ops, DOMAIN f.ops \ Open(f))
        /\ \A j \in DOMAIN ops \ DOMAIN f.ops : ops[j].key \in Routes(f)

Merged(f, ops) == IF FullImage(f, ops) THEN ops ELSE Sparse(f, ops)

\* The operations of feature f after an entry, none if it is out of scope
Replacements(f, entry) ==
    IF ~entry.lists THEN {f.ops}
    ELSE {ops \in {Merged(f, entry.ops)} :
            (FullImage(f, entry.ops) \/ SparseImage(f, entry.ops)) /\ Preserves(f, ops)}

\* The entry replaces what it gives; it may rename a feature that it finds by its source.
Replace(i, entry) ==
    {[work.features EXCEPT ![i] = [id |-> entry.id, source |-> @.source, ops |-> ops]] :
        ops \in Replacements(work.features[i], entry)}

BySource(entry) ==
    {i \in DOMAIN work.features : work.features[i].source = entry.source /\ work.features[i].id \in scope.ids}

ById(entry) == {i \in DOMAIN draft.features : draft.features[i].id = entry.id}

\* The features after an entry, none if it is out of scope
MergeEntry(entry) ==
    IF entry.id \in seen THEN {}
    ELSE IF ById(entry) = {} /\ Cardinality(BySource(entry)) = 1
    THEN UNION {Replace(i, entry) : i \in BySource(entry)}
    ELSE IF entry.id \notin scope.ids /\ entry.source \notin scope.missing THEN {}
    ELSE IF ById(entry) # {}
    THEN UNION {Replace(i, entry) : i \in {j \in ById(entry) :
                    entry.source \in {NoSource, work.features[j].source}}}
    ELSE {Append(work.features, [id |-> entry.id, source |-> entry.source,
                                 ops |-> IF entry.lists THEN entry.ops ELSE <<>>])}

\* The feature of the baseline that an entry is about
Subject(entry) ==
    LET eligible == {i \in DOMAIN draft.features : draft.features[i].id \in scope.ids}
        byId == eligible \cap ById(entry)
    IN IF byId # {} THEN byId ELSE {i \in eligible : draft.features[i].source = entry.source}

\* The DTOs an entry may bring in: of a new core, and of the operations it may change or add
BringsIn(entry) ==
    IF ~entry.lists THEN {}
    ELSE IF entry.source \in scope.missing /\ ById(entry) = {} THEN RefsOf(entry.ops)
    ELSE UNION {LET f == draft.features[i]
                    At(op) == {j \in DOMAIN f.ops : f.ops[j].key = op.key}
                    May(j) == \/ f.ops = <<>> /\ f.id \notin DOMAIN scope.open
                              \/ At(entry.ops[j]) \cap Open(f) # {}
                              \/ Len(entry.ops) >= Len(f.ops) /\ j \in Open(f)
                              \/ At(entry.ops[j]) = {} /\ entry.ops[j].key \in Routes(f)
                IN UNION {entry.ops[j].refs : j \in {k \in DOMAIN entry.ops : May(k)}}
                : i \in IF Cardinality(Subject(entry)) = 1 THEN Subject(entry) ELSE {}}

\* They and what they refer to, up to the definitions that exist and are not in scope
NewDtos(defs) ==
    LET stops == DOMAIN draft.dtos \ scope.dtos
    IN Reach([n \in DOMAIN defs \ stops |-> defs[n]], (scope.dtos \cup roots) \ stops) \ stops

\* The definitions with those of a patch in place of the old ones and beside them
Updated(dtos, defs) ==
    [n \in DOMAIN dtos \cup DOMAIN defs |-> IF n \in DOMAIN defs THEN defs[n] ELSE dtos[n]]

\* Every definition of the patch is in scope, and those of untouched operations are the same.
DtosInScope(defs) ==
    LET after == Updated(work.dtos, defs)
        new == NewDtos(defs) \ DOMAIN draft.dtos
    IN
    /\ \A n \in DOMAIN defs :
        IF n \in scope.protected /\ n \in DOMAIN draft.dtos THEN defs[n] = draft.dtos[n]
        ELSE n \in scope.dtos \/ n \in new
    /\ DOMAIN scope.open # {} =>
        \A n \in Protected(draft, scope.ids, scope.open) :
            \/ {n} \cap (DOMAIN draft.dtos \cup DOMAIN after) = {}
            \/ n \in DOMAIN draft.dtos \cap DOMAIN after /\ draft.dtos[n] = after[n]

-----------------------------------------------------------------------------
(* Attempts *)

Init ==
    /\ pc = "ask"
    /\ attempt = 1
    /\ mode = "json_schema"
    /\ calls = 0
    /\ draft = NoDraft /\ faults = {} /\ scope = NoScope
    /\ told = {}
    /\ work = NoDraft /\ seen = {} /\ roots = {}

\* Mutant: only the new failure is told
AgainAlone(failure) ==
    /\ IF attempt < MaxAttempts
       THEN pc' = "ask" /\ attempt' = attempt + 1
       ELSE pc' = "blocked" /\ UNCHANGED attempt
    /\ told' = {<<failure>>}
    /\ work' = NoDraft /\ seen' = {} /\ roots' = {}
    /\ UNCHANGED baseline

\* The model did not answer with a draft, or its patch was dropped.  The baseline stays, and
\* its faults are repeated beside the new one.
Again(failure) ==
    /\ IF attempt < MaxAttempts
       THEN pc' = "ask" /\ attempt' = attempt + 1
       ELSE pc' = "blocked" /\ UNCHANGED attempt
    /\ told' = {<<failure>>} \cup faults
    /\ work' = NoDraft /\ seen' = {} /\ roots' = {}
    /\ UNCHANGED baseline

\* The provider does not know the response format: asked again in the same attempt without it.
FallBack ==
    /\ pc = "ask" /\ mode = "json_schema"
    /\ mode' = "json_object"
    /\ calls' = calls + 1
    /\ UNCHANGED <<pc, attempt, baseline, told, patch>>

\* The request fails in a way that may pass.
TransportFails ==
    /\ pc = "ask"
    /\ calls' = calls + 1
    /\ Again("transport")
    /\ UNCHANGED mode

\* Refused, out of quota, or an error no retry can help
Terminal ==
    /\ pc = "ask"
    /\ calls' = calls + 1
    /\ pc' = "blocked"
    /\ UNCHANGED <<attempt, mode, baseline, told, patch>>

\* The answer is cut off, is no JSON, or has no such arrays.
Unparseable(syntax) ==
    /\ pc = "ask"
    /\ calls' = calls + 1
    /\ mode' = IF syntax THEN "json_object" ELSE mode
    /\ Again("json")

\* A first draft
Answered ==
    /\ pc = "ask" /\ ~HasDraft
    /\ calls' = calls + 1
    /\ pc' = "check"
    /\ \E d \in FirstDrafts : work' = d
    /\ UNCHANGED <<attempt, mode, baseline, told, seen, roots>>

\* A patch: its entries follow.
Patched ==
    /\ pc = "ask" /\ HasDraft /\ draft \in Bases
    /\ calls' = calls + 1
    /\ pc' = "features"
    /\ work' = draft
    /\ told' = {}
    /\ UNCHANGED <<attempt, mode, baseline, seen, roots>>

Entries ==
    [id : Ids, source : Sources \cup {NoSource}, lists : {FALSE}, ops : {<<>>}]
    \cup [id : Ids, source : Sources \cup {NoSource}, lists : {TRUE},
          ops : UNION {[1..n -> PatchOps] : n \in 0..MaxPatchOps}]

DropPatch == Again("scope") /\ UNCHANGED <<mode, calls>>

Merge(entry) ==
    /\ pc = "features" /\ Cardinality(seen) < MaxEntries
    /\ IF MergeEntry(entry) = {} THEN DropPatch
       ELSE /\ \E fs \in MergeEntry(entry) : work' = [work EXCEPT !.features = fs]
            /\ seen' = seen \cup {entry.id}
            /\ roots' = roots \cup BringsIn(entry)
            /\ UNCHANGED <<pc, attempt, mode, calls, baseline, told>>

DtoPatches == UNION {[S -> PatchDtos] : S \in {T \in SUBSET Dtos : Cardinality(T) <= MaxEntries}}

MergeDtos(defs) ==
    /\ pc = "features"
    /\ IF ~DtosInScope(defs) THEN DropPatch
       ELSE /\ work' = [work EXCEPT !.dtos = Updated(@, defs)]
            /\ pc' = "check"
            /\ roots' = {}
            /\ UNCHANGED <<attempt, mode, calls, baseline, told, seen>>

\* The checks of the compiled draft find nothing: it is the result.
Passes ==
    /\ pc = "check"
    /\ pc' = "done"
    /\ UNCHANGED <<attempt, mode, calls, baseline, told, patch>>

\* They find faults: the draft is the baseline of the next attempt.
Fails(found) ==
    /\ pc = "check"
    /\ IF attempt < MaxAttempts
       THEN /\ pc' = "ask" /\ attempt' = attempt + 1
            /\ draft' = work /\ faults' = found /\ scope' = RepairScope(work, found)
       ELSE /\ pc' = "blocked" /\ UNCHANGED <<attempt, baseline>>
    /\ told' = found
    /\ work' = NoDraft /\ seen' = {} /\ roots' = {}
    /\ UNCHANGED <<mode, calls>>

Next ==
    \/ FallBack \/ TransportFails \/ Terminal \/ Answered \/ Patched \/ Passes
    \/ \E syntax \in BOOLEAN : Unparseable(syntax)
    \/ \E entry \in Entries : Merge(entry)
    \/ \E defs \in DtoPatches : MergeDtos(defs)
    \/ \E x, y \in FaultsOf(work) \cap Findable(work) : Fails({x, y})

Spec == Init /\ [][Next]_vars

-----------------------------------------------------------------------------
(* Properties *)

\* A fault gives leave to change an operation if it names it or its route, or its feature and
\* no operation or route of it.
Blamed(i, j) ==
    LET here == {x \in faults : x[1] \in {"operation", "route"} /\ x[2] = i} IN
    IF here # {} THEN \E x \in here : x[3] \in {j, draft.features[i].ops[j].key}
    ELSE i \in Faulty(draft, faults)

Untouchable(i) == {j \in DOMAIN draft.features[i].ops : ~Blamed(i, j)}

\* The patch renamed a feature and then addressed it by its old id.
Readdressed == seen \ IdsOf(work) # {}

UntouchedOps ==
    \A i \in DOMAIN draft.features : Same(draft.features[i].ops, work.features[i].ops, Untouchable(i))

Merging == HasDraft /\ pc \in {"features", "check"}

\* Whatever a patch lists, in full or in part, by index or by key: while it is merged the
\* operations no fault names stay as they are (feature_replacement and preserve_operations).
UnnamedOperationsStay == Merging /\ ~Readdressed => UntouchedOps

\* Nor does an accepted patch change them through the DTOs they share with faulty ones.
SharedDtosStay ==
    pc = "check" /\ HasDraft /\ Faulty(draft, faults) # {} =>
        \A n \in Reach(draft.dtos, UNION {UNION {draft.features[i].ops[j].refs : j \in Untouchable(i)} :
                                            i \in DOMAIN draft.features}) :
            n \in DOMAIN draft.dtos => work.dtos[n] = draft.dtos[n]

\* No repair, dropped or accepted, loses a feature, an operation or a DTO of the baseline.
NothingVanishes ==
    [][ /\ Len(draft'.features) >= Len(draft.features)
        /\ \A i \in DOMAIN draft.features :
            /\ draft'.features[i].source = draft.features[i].source
            /\ Len(draft'.features[i].ops) >= Len(draft.features[i].ops)
        /\ DOMAIN draft.dtos \subseteq DOMAIN draft'.dtos ]_vars

\* Both at once: what a patch may reach stays within what it was asked for.
PatchesAreContained == []SharedDtosStay /\ NothingVanishes

\* A retry asks for the repair of the draft it will merge into: whatever came between, the
\* scope and the faults it is told are those of the baseline.
RetryKnowsBaseline ==
    pc = "ask" /\ HasDraft => faults \subseteq told /\ scope = RepairScope(draft, faults)

\* The provider is asked once per attempt, and once more for a response format it does not know.
CallsAreBounded == calls <= MaxAttempts + 1
=============================================================================
