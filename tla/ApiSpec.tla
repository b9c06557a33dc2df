------------------------------ MODULE ApiSpec ------------------------------
(***************************************************************************)
(* The API agent (phase2/agents/api_agent.py): a plan lists the operations,*)
(* one worker per operation writes its detail, and a chain of deterministic*)
(* passes makes the document a projection of the contract the features     *)
(* declare.  The document is aligned again whenever the database schema    *)
(* becomes final (orchestration_graph.py), and targeted repairs patch it.  *)
(*                                                                         *)
(* A route is a method with a path; Shape forgets the names of the path's  *)
(* parameters.  An entry keeps its route, the features it is linked to,    *)
(* who described it (the worker of a route, Nobody for a skeleton, Canned  *)
(* for the texts the code marks as placeholders, Junk for a contaminated   *)
(* answer), what its reply is: "gap" when the only text there is a         *)
(* placeholder, "text", or a JSON "schema", which no pass rewrites; and    *)
(* whether it is formed: an entry is not when a part that no contract      *)
(* declares and no pass writes, such as its field mappings, has a wrong    *)
(* shape (artifact_shapes.py).                                             *)
(***************************************************************************)
EXTENDS Integers, FiniteSets, Functions, SequencesExt

CONSTANTS
  Features, Routes, Nobody, Canned, Junk,
  FeatureRank, RouteRank,  \* the order of the registry, and of method then path
  Shape,       \* route |-> method and path with the parameter names left out
  Twin,        \* route |-> the same method on `<path>-2`
  Meaning,     \* route |-> the authentication step its words name, or Nobody
  Guess,       \* route |-> the one feature its words or its path point at, or Nobody
  TableClues,  \* route |-> the tables each clue points at, the strongest clue first
  KeptBy,      \* table |-> the table of its users' own state, when there is exactly one
  Personal,    \* the routes meant for the users' own state
  OnTable,     \* <<route, table>> |-> the same operation with the path of the table
  Written,     \* route |-> what aligning makes of its reply: "text", "kept" or "gap"
  UnsafeRoutes,\* GET routes whose path names an action
  Registries, Plans,
  Answers,     \* route |-> the <<route, formed>> its worker may answer
  Targets,
  Patches,     \* route |-> [reply, shape]: a reply of "remove" drops the entry; the shape is
               \* "good" or "bad" when the patch writes the part in question, or else "kept"
  MaxRepairs

(* A registry: its features in order, the routes each declares, the declarations that carry
   a JSON schema for the reply, the features that need no API, and whether the contracts
   themselves are wrong (conflicts, missing core actions, unreachable workflow states). *)
ASSUME RegistriesAreWellFormed ==
  \A R \in Registries : /\ R.features # <<>> /\ ToSet(R.features) \subseteq Features
                        /\ DOMAIN R.routes = ToSet(R.features) /\ R.off \subseteq ToSet(R.features)

Entry(r, fs, who, what) == [route |-> r, feats |-> fs, by |-> who, reply |-> what, formed |-> TRUE]
Placeholder(e) == e.by = Canned \/ e.reply = "gap"
Each(eps, F(_)) == [i \in DOMAIN eps |-> F(eps[i])]
On(eps, r) == {i \in DOMAIN eps : eps[i].route = r}
RoutesOf(eps) == {eps[i].route : i \in DOMAIN eps}

-----------------------------------------------------------------------------
(* What a registry declares. *)
ForApi(R) == [R EXCEPT !.features = SelectSeq(@, LAMBDA f : f \notin R.off)]
Declarations(R) ==
  FlattenSeq([i \in DOMAIN R.features |->
    [j \in DOMAIN R.routes[R.features[i]] |-> <<R.features[i], R.routes[R.features[i]][j]>>]])
Declared(R) == {Declarations(R)[i][2] : i \in DOMAIN Declarations(R)}
DeclaredBy(R, r) == {Declarations(R)[i][1] : i \in {j \in DOMAIN Declarations(R) : Declarations(R)[j][2] = r}}

(* The contract of a feature for a route is the first it declares of that shape. *)
Like(R, f, r) == SelectSeq(R.routes[f], LAMBDA d : Shape[d] = Shape[r])
Typed(R, f, r) == Like(R, f, r) # <<>> /\ <<f, Like(R, f, r)[1]>> \in R.typed
Bind(e, R, fs) == IF \E f \in fs : Typed(R, f, e.route) THEN [e EXCEPT !.reply = "schema"] ELSE e

-----------------------------------------------------------------------------
(* The passes. *)

(* Entries are listed by the comma-joined ids of their features, then by route; those
   of no feature come last. *)
Least(fs) == CHOOSE f \in fs : \A g \in fs : FeatureRank[f] <= FeatureRank[g]
IdsFirst(A, B) ==
  LET m == Least((A \ B) \cup (B \ A))
  IN  /\ A # {} /\ A # B
      /\ \/ B = {}
         \/ m \in A /\ \E g \in B : FeatureRank[g] > FeatureRank[m]
         \/ m \in B /\ \A f \in A : FeatureRank[f] < FeatureRank[m]
Before(d, e) == IF d.feats = e.feats THEN RouteRank[d.route] < RouteRank[e.route] ELSE IdsFirst(d.feats, e.feats)

SameOperation(d, e) ==
  \/ d.route = e.route
  \/ d.feats = {} /\ e.feats = {} /\ Meaning[d.route] = Meaning[e.route] /\ Meaning[d.route] # Nobody
Dedupe(eps) ==
  LET keep(kept, e) == IF \E i \in DOMAIN kept : SameOperation(kept[i], e) THEN kept ELSE Append(kept, e)
  IN  FoldLeft(keep, <<>>, eps)
Clean(e) == e.by # Junk
Normalize(eps) == SortSeq(Dedupe(SelectSeq(eps, Clean)), Before)

(* Two answers for one route: the later one moves to the path with a suffix. *)
Sanitize(eps) ==
  LET place(done, e) == Append(done, IF e.route \in RoutesOf(done) THEN [e EXCEPT !.route = Twin[@]] ELSE e)
  IN  FoldLeft(place, <<>>, eps)

(* Every declaration gets an entry: the one on its route, or else one of its shape, which
   takes its path, or else a new skeleton.  `at` and `like` are the two dictionaries the
   code builds once and updates as it goes. *)
Latest(is) == CHOOSE i \in is : \A j \in is : j <= i
Ensure(eps, R) ==
  LET likes == [s \in {Shape[r] : r \in RoutesOf(eps)} |-> Latest({i \in DOMAIN eps : Shape[eps[i].route] = s})]
      start == [eps |-> eps, at |-> [r \in RoutesOf(eps) |-> Latest(On(eps, r))], like |-> likes]
      link(e, f, r) == Bind([e EXCEPT !.feats = @ \cup {f}, !.route = r], R, {f})
      found(S, f, r, i) ==
        [S EXCEPT !.eps[i] = link(@, f, IF r \in DOMAIN S.at THEN @.route ELSE r), !.at = @ @@ (r :> i)]
      added(S, f, r) ==
        LET n == Len(S.eps) + 1
        IN  [eps |-> Append(S.eps, link(Entry(r, {}, Nobody, "gap"), f, r)),
             at |-> S.at @@ (r :> n), like |-> S.like @@ (Shape[r] :> n)]
      serve(S, d) ==
        IF d[2] \in DOMAIN S.at THEN found(S, d[1], d[2], S.at[d[2]])
        ELSE IF Shape[d[2]] \in DOMAIN S.like THEN found(S, d[1], d[2], S.like[Shape[d[2]]])
        ELSE added(S, d[1], d[2])
  IN  FoldLeft(serve, start, Declarations(R)).eps

(* A declared route is linked to exactly the features that declare it; another keeps the
   links the registry knows, or else gets the one feature it points at. *)
Links(e, R) ==
  IF DeclaredBy(R, e.route) # {} THEN DeclaredBy(R, e.route)
  ELSE IF e.feats \cap ToSet(R.features) # {} THEN e.feats \cap ToSet(R.features)
  ELSE {Guess[e.route]} \cap ToSet(R.features)
Annotate(eps, R) == Each(eps, LAMBDA e : [e EXCEPT !.feats = Links(e, R)])

(* With the tables known, an entry that is no declared route of its first feature takes the
   path of its table, and a reply without a schema is written anew from the columns. *)
TableOf(r) ==
  LET sure == SelectSeq(TableClues[r], LAMBDA ts : Cardinality(ts) = 1)
  IN  IF sure = <<>> THEN Nobody ELSE CHOOSE t \in sure[1] : TRUE
TablePath(r) ==
  LET t == TableOf(r)
  IN  IF t = Nobody THEN r
      ELSE IF r \in Personal /\ KeptBy[t] # Nobody THEN OnTable[<<r, KeptBy[t]>>] ELSE OnTable[<<r, t>>]
Explicit(e, R) == e.feats # {} /\ Like(R, Least(e.feats), e.route) # <<>>
First(e) == IF e.feats = {} THEN {} ELSE {Least(e.feats)}
Rewritten(e) == [e EXCEPT !.reply = IF @ = "schema" \/ Written[e.route] = "kept" THEN @ ELSE Written[e.route]]
AlignedEverywhere(e, R) == Bind([Rewritten(Bind(e, R, First(e))) EXCEPT !.route = TablePath(@)], R, First(e))
Aligned(e, R) ==
  LET w == Rewritten(Bind(e, R, First(e)))
  IN  Bind(IF Explicit(e, R) THEN w ELSE [w EXCEPT !.route = TablePath(@)], R, First(e))
Finalize(eps, R, withTables) ==
  LET prepared == Annotate(Ensure(Normalize(eps), R), R)
  IN  IF withTables THEN Normalize(Each(prepared, LAMBDA e : Aligned(e, R))) ELSE prepared

(* The self-check judges the linked entries, drops what the contract does not declare and
   projects the contract on the rest: a declared route nobody serves gets a canned entry.
   One malformed entry ends it before it begins: nothing is dropped, projected or judged. *)
Malformed(eps) == {eps[i].route : i \in {j \in DOMAIN eps : ~eps[j].formed}}
Contracted(e, R) == {f \in e.feats : f \in DeclaredBy(R, e.route)}
IssuesOfTitles(eps, R) ==
  {<<"unlinked", eps[i].route>> : i \in {j \in DOMAIN eps : eps[j].feats = {}}}
    \cup {<<"placeholder", eps[i].route>> : i \in {j \in DOMAIN eps : Contracted(eps[j], R) # {} /\ eps[j].by = Canned}}
Issues(eps, R) ==
  {<<"unlinked", eps[i].route>> : i \in {j \in DOMAIN eps : eps[j].feats = {}}}
    \cup {<<"placeholder", eps[i].route>> : i \in {j \in DOMAIN eps : Contracted(eps[j], R) # {} /\ Placeholder(eps[j])}}
    \cup {<<"unsafe", r>> : r \in RoutesOf(eps) \cap UnsafeRoutes}
    \cup (IF R.flawed THEN {<<"registry", Nobody>>} ELSE {})
Served(eps, R, r) == {i \in On(eps, r) : Contracted(eps[i], R) # {}}
Projected(eps, R, r) ==
  LET e == IF Served(eps, R, r) = {} THEN Entry(r, {}, Canned, "gap") ELSE eps[CHOOSE i \in Served(eps, R, r) : TRUE]
      declaring == {f \in ToSet(R.features) : Like(R, f, r) # <<>>}
  IN  Bind([e EXCEPT !.feats = DeclaredBy(R, r)], R, declaring)
Projection(eps, R) ==
  [eps |-> SortSeq(SetToSeq({Projected(eps, R, r) : r \in Declared(R)}), Before), issues |-> Issues(eps, R)]
SelfCheck(eps, registry0) ==
  LET R == ForApi(registry0)
      checked == Annotate(Normalize(Ensure(Normalize(eps), R)), R)
  IN  IF Malformed(eps) # {} THEN [eps |-> eps, issues |-> {"shape"} \X Malformed(eps)]
      ELSE IF R.features = <<>> THEN [eps |-> checked, issues |-> {}]
      ELSE Projection(checked, R)

-----------------------------------------------------------------------------
VARIABLES
  registry,    \* the feature registry the run is given
  withTables,  \* the database schema is known to the agent
  phase, plan, made,
  api,         \* the entries of the stored document
  judged,      \* the document is as the last self-check left it
  blockers, outcome, repairs,
  asked,       \* ghost: the routes the last repair was allowed to touch, and those it wrote
  gaveUp       \* ghost: some self-check of the stored document ended at a malformed entry

vars == <<registry, withTables, phase, plan, made, api, judged, blockers, outcome, repairs, asked, gaveUp>>
Generated == <<registry, plan, made>>

Init ==
  /\ registry \in Registries /\ withTables \in BOOLEAN
  /\ phase = "plan" /\ plan = <<>> /\ made = <<>> /\ api = <<>> /\ judged = FALSE
  /\ blockers = {} /\ outcome = "none" /\ repairs = 0
  /\ asked = [allowed |-> {}, wrote |-> {}] /\ gaveUp = FALSE

(* No feature needs an API: an empty document, and nothing to blame. *)
NothingToServe ==
  /\ phase = "plan" /\ ForApi(registry).features = <<>>
  /\ phase' = "saved" /\ blockers' = {}
  /\ UNCHANGED <<Generated, withTables, api, judged, outcome, repairs, asked, gaveUp>>

(* When every feature declares its routes the plan is read off the contract; otherwise
   the model is asked, and the contract completes what it answers. *)
Covered(R) == \A f \in ToSet(R.features) : R.routes[f] # <<>>
Skeletons(rs) == Each(SetToSortSeq(rs, LAMBDA a, b : RouteRank[a] < RouteRank[b]), LAMBDA r : Entry(r, {}, Nobody, "gap"))
Drafts(R) == IF Covered(R) THEN {{}} ELSE Plans \ {{}}   \* all batches merged, pruned, topped up
Plan(R) ==
  /\ phase = "plan" /\ R.features # <<>>
  /\ \E rs \in Drafts(R) : plan' = Annotate(Ensure(Skeletons(rs), R), R)
  /\ phase' = "work"
  /\ UNCHANGED <<registry, withTables, made, api, judged, blockers, outcome, repairs, asked, gaveUp>>

(* One worker per planned entry.  Its call fails, its answer is contaminated, or it
   answers for a route - not always its own. *)
Worker(i) ==
  /\ phase = "work" /\ i \in DOMAIN plan \ DOMAIN made
  /\ LET p == plan[i]
         answers == {[Entry(a[1], p.feats, p.route, what) EXCEPT !.formed = a[2]] :
                       a \in Answers[p.route], what \in {"text", "schema"}}
     IN  \E e \in answers \cup {Entry(p.route, p.feats, Nobody, "gap"), Entry(p.route, p.feats, Junk, "text")} :
           made' = made @@ (i :> e)
  /\ UNCHANGED <<registry, withTables, phase, plan, api, judged, blockers, outcome, repairs, asked, gaveUp>>

(* The review reads the answers in the order of the plan, whoever came back first; the
   state of the graph is gone when the document is stored. *)
Review(eps, R) ==
  Finalize(Annotate(Ensure(Normalize(Sanitize(eps)), R), R), R, withTables)
Store(checked, extra) ==
  /\ api' = Normalize(SelectSeq(checked.eps, LAMBDA e : e.feats # {}))
  /\ blockers' = blockers \cup checked.issues \cup extra
  /\ judged' = TRUE /\ phase' = "saved" /\ gaveUp' = (Malformed(checked.eps) # {})
  /\ plan' = <<>> /\ made' = <<>>
  /\ UNCHANGED <<registry, withTables, outcome, repairs, asked>>
SaveUnaligned(eps, R, extra) == Store(SelfCheck(Annotate(Ensure(Normalize(eps), R), R), registry), extra)
Save(eps, R, extra) ==
  Store(SelfCheck(Annotate(Ensure(Finalize(eps, R, withTables), R), R), registry), extra)
Finish(R) ==
  /\ phase = "work" /\ DOMAIN made = DOMAIN plan
  /\ Save(Review([i \in DOMAIN plan |-> made[i]], R), R, {})

(* The model plans nothing: no worker runs, and the contract itself is stored and flagged. *)
Fallback(R) == Normalize(Each(Declarations(R), LAMBDA d : Entry(d[2], {d[1]}, Canned, "gap")))
PlanIsEmpty(R) ==
  /\ phase = "plan" /\ R.features # <<>> /\ ~Covered(R) /\ {} \in Plans
  /\ Save(Fallback(R), R, {<<"generation", Nobody>>})

(* An exception anywhere in the graph: the document is lost and the failure recorded. *)
Fails ==
  /\ phase \in {"plan", "work"} /\ ForApi(registry).features # <<>>
  /\ phase' = "failed" /\ blockers' = blockers \cup {<<"generation", Nobody>>}
  /\ plan' = <<>> /\ made' = <<>>
  /\ UNCHANGED <<registry, withTables, api, judged, outcome, repairs, asked, gaveUp>>

(* The database agent is back, or a repair moved the tables: the stored entries are aligned
   with the final schema - against the whole registry, and without a self-check - unless one
   of them is malformed. *)
Join ==
  /\ phase = "saved" /\ judged /\ withTables' = TRUE
  /\ IF Malformed(api) = {} THEN api' = Finalize(api, registry, TRUE) /\ judged' = FALSE
                             ELSE UNCHANGED <<api, judged>>
  /\ UNCHANGED <<Generated, phase, blockers, outcome, repairs, asked, gaveUp>>

-----------------------------------------------------------------------------
(* Targeted repair. *)
Allowed(told) == told \cap (RoutesOf(api) \cup Declared(registry))
InScope(answer, allowed) == [r \in DOMAIN answer \cap allowed |-> answer[r]]
Applied(answer) == \E r \in DOMAIN answer : answer[r].reply = "remove" => r \in RoutesOf(api)
Patched(answer) ==
  LET written == {r \in DOMAIN answer : answer[r].reply # "remove"}
      write(e, what) == [e EXCEPT !.by = e.route, !.reply = what,
                           !.formed = CASE answer[e.route].shape = "kept" -> @
                                        [] answer[e.route].shape = "good" -> TRUE
                                        [] OTHER -> FALSE]
      new(e) == write(e, answer[e.route].reply)
      patch(e) == IF e.route \notin written THEN e ELSE IF e.reply = "schema" THEN write(e, "schema") ELSE new(e)
  IN  Each(SelectSeq(api, LAMBDA e : e.route \notin DOMAIN answer \ written), patch)
        \o Each(Skeletons(written \ RoutesOf(api)), new)

PreserveNothing(old, new, allowed) == new
Preserve(old, new, allowed) ==
  LET latest(e) == IF e.route \in allowed THEN new[CHOOSE i \in On(new, e.route) : TRUE] ELSE e
  IN  Each(SelectSeq(old, LAMBDA e : e.route \notin allowed \/ e.route \in RoutesOf(new)), latest)
        \o SelectSeq(new, LAMBDA e : e.route \in allowed \ RoutesOf(old))

ApplyRepair(answer, allowed) ==
  LET checked == SelfCheck(Annotate(Finalize(Normalize(Patched(answer)), registry, withTables), registry), registry)
      doc == Preserve(api, Normalize(checked.eps), allowed)
  IN  /\ api' = doc /\ blockers' = checked.issues /\ judged' = TRUE
      /\ gaveUp' = (gaveUp \/ Malformed(checked.eps) # {})
      /\ outcome' = IF doc # api THEN "applied" ELSE "noop"
      /\ asked' = [allowed |-> allowed, wrote |-> {r \in DOMAIN answer : answer[r].reply # "remove"}]

NoBaseline ==
  /\ phase = "failed" /\ repairs < MaxRepairs
  /\ repairs' = repairs + 1 /\ outcome' = "missing_baseline"
  /\ blockers' = blockers \cup {<<"baseline", Nobody>>}
  /\ UNCHANGED <<Generated, withTables, phase, api, judged, asked, gaveUp>>

(* One call: it may fail or answer nothing usable (the state comes back as it was), answer
   for an older document, or answer a patch, of which only the allowed part is applied. *)
Unanswered(allowed) ==
  /\ \/ allowed = {} /\ outcome' = "rejected_scope"
     \/ allowed # {} /\ outcome' \in {"rejected_revision", outcome}
  /\ UNCHANGED <<api, judged, blockers, asked, gaveUp>>
Repair(told) ==
  /\ phase = "saved" /\ repairs < MaxRepairs
  /\ repairs' = repairs + 1
  /\ LET allowed == Allowed(told)
     IN  \/ Unanswered(allowed)
         \/ \E answer \in Patches :
              /\ allowed # {} /\ Applied(InScope(answer, allowed))
              /\ ApplyRepair(InScope(answer, allowed), allowed)
  /\ UNCHANGED <<Generated, withTables, phase>>

Next ==
  \/ NothingToServe \/ Plan(ForApi(registry)) \/ PlanIsEmpty(ForApi(registry)) \/ Finish(ForApi(registry))
  \/ Fails \/ Join \/ NoBaseline
  \/ \E i \in DOMAIN plan : Worker(i)
  \/ \E told \in Targets : Repair(told)

Spec == Init /\ [][Next]_vars

-----------------------------------------------------------------------------
(* Two features may declare one operation under different parameter names; then the passes
   move its entry from one name to the other, and what follows does not hold of it. *)
OneNamePerShape(R) == \A r, d \in Declared(R) : Shape[r] = Shape[d] => r = d

(* Whatever the workers answered, whichever failed, and whatever repairs removed, each route
   has one entry, none of them a contaminated answer, and every feature has the operations
   it declares and no other, nor has the document.  A self-check that gave up leaves other
   operations in it, and once a repair has healed the malformed entry without them, the
   next alignment may let one take the place of a declared one. *)
Operations(eps, f) == {eps[i].route : i \in {j \in DOMAIN eps : f \in eps[j].feats}}
DocumentIsTheContract ==
  phase = "saved" =>
    /\ Cardinality(RoutesOf(api)) = Len(api) /\ \A i \in DOMAIN api : Clean(api[i])
    /\ gaveUp /\ asked.allowed = {} /\ OneNamePerShape(registry) =>
         \A f \in ToSet(ForApi(registry).features) : ToSet(registry.routes[f]) \subseteq Operations(api, f)
    /\ ~gaveUp =>
         /\ RoutesOf(api) \subseteq Declared(registry)
         /\ \A f \in ToSet(ForApi(registry).features) : Operations(api, f) = ToSet(registry.routes[f])

(* No placeholder is stored in silence: an entry whose text is one of the phrases the code
   itself calls a placeholder is a blocker of the self-check that stored it.  When a
   self-check gave up, that is a blocker until a repair is applied. *)
PlaceholdersAreReported ==
  phase = "saved" /\ judged /\ OneNamePerShape(registry) =>
    IF gaveUp THEN asked.allowed = {} => blockers \cap ({"shape"} \X Routes) # {}
    ELSE \A i \in DOMAIN api :
           Placeholder(api[i]) /\ api[i].route \in Declared(ForApi(registry)) => <<"placeholder", api[i].route>> \in blockers

(* Checking a stored document again changes nothing and finds nothing new. *)
SavedIsStable ==
  phase = "saved" /\ judged /\ ~gaveUp /\ OneNamePerShape(registry) /\ ForApi(registry) = registry =>
    LET again == SelfCheck(Annotate(Finalize(api, registry, withTables), registry), registry)
    IN  ToSet(again.eps) = ToSet(api) /\ again.issues \subseteq blockers

(* Both: what is stored has been judged as it is stored. *)
SavedIsSettled == PlaceholdersAreReported /\ SavedIsStable

(* A repair leaves every entry outside its scope as it was, and adds none there. *)
Outside(eps, allowed) == SelectSeq(eps, LAMBDA e : e.route \notin allowed)
RepairStaysInScope ==
  [][repairs' > repairs /\ api' # api => Outside(api', asked'.allowed) = Outside(api, asked'.allowed)]_vars
=============================================================================
