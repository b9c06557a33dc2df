------------------------------ MODULE DbSchema ------------------------------
(***************************************************************************)
(* The database agent (phase2/agents/dba_agent.py): a plan names the       *)
(* tables, one worker per planned table designs it, the review and the     *)
(* agent then pass the whole schema through a chain of deterministic       *)
(* corrections, and later targeted repairs patch the saved document        *)
(* (repair_scope.py bounds them, fk_validation.py judges it).              *)
(*                                                                         *)
(* A schema is a function from table names to tables; a column keeps its   *)
(* type, whether it is the primary key, and the table its REFERENCES       *)
(* clause names (the referenced column is always the key Id).  A table is  *)
(* formed unless a part of it that no pass reads, such as a foreignKeys    *)
(* entry without a target, has a wrong shape (artifact_shapes.py).  What a *)
(* name means is data: Denotes says which tables a `<x>_id` column can     *)
(* stand for, Means which contract names a table name is an alias of,      *)
(* BaseName the table of which `x_final`, `x_v2` are revisions.            *)
(***************************************************************************)
EXTENDS Integers, FiniteSets, Functions, SequencesExt

CONSTANTS
  Names, Columns, Types, Features,
  Id, KeyType, None,
  Rank,         \* the order in which the documents list their tables
  Denotes,      \* column |-> the tables its name can refer to
  Means,        \* table name |-> the contract names it may be an alias of
  BaseName,     \* table name |-> the name without _final, _v2, _copy, ...
  NormType,     \* type |-> the spelling PostgreSQL uses
  External,     \* provider_message_id, target_id: identifiers of others, whatever they name
  Mutable,      \* quantity, balance, stock: state an aggregate owns
  Happened,     \* occurred_at, recorded_at: what makes a table an event table
  KeyColumn,    \* table |-> `<singular of the table>_id`
  Registries,   \* the contracts a run may start from
  Plans,        \* the sets of tables a plan may name
  Designs,      \* table |-> what its worker may answer
  Feedbacks,    \* what a repair may be told: the tables, and the columns it singles out
  Patches,      \* what a repair may answer: table |-> patch
  MaxRepairs

Column(ty, key, to) == [type |-> ty, pk |-> key, ref |-> to]
Minimal == [cols |-> [c \in {Id} |-> Column(KeyType, TRUE, None)], idx |-> {}, formed |-> TRUE]
Has(t) == DOMAIN t.cols
Cells(S) == {p \in (DOMAIN S) \X Columns : p[2] \in Has(S[p[1]])}
Ref(S, p) == S[p[1]].cols[p[2]].ref
Unique(s) == IF \E x \in s : s = {x} THEN CHOOSE x \in s : TRUE ELSE None
Latest(s) == CHOOSE t \in s : \A u \in s : Rank[u] <= Rank[t]

(* A pass is a map over tables, or over the columns of each table.  Once(S) is S: to
   compare a value with itself makes TLC evaluate a pass once, not once per use. *)
Once(S) == IF S = S THEN S ELSE S
EachTable(D, F(_)) == Once([t \in D |-> F(t)])
EachColumn(S, F(_, _, _)) ==
  Once([t \in DOMAIN S |-> [cols |-> [c \in Has(S[t]) |-> F(t, c, S[t].cols[c])], idx |-> S[t].idx, formed |-> S[t].formed]])
With(t, cs, F(_)) ==
  [t EXCEPT !.cols = [c \in DOMAIN @ \cup cs |-> IF c \in DOMAIN @ THEN @[c] ELSE F(c)]]
Without(t, cs) == [t EXCEPT !.cols = [c \in DOMAIN @ \ cs |-> @[c]]]

-----------------------------------------------------------------------------
(* What a registry says. *)
Declared(R) == UNION {R.tables[f] : f \in DOMAIN R.tables}
Stored(R) == DOMAIN R.tables \ R.off   \* the features that need a database
DeclaredTarget(R, t, c) == IF <<t, c>> \in DOMAIN R.keys THEN R.keys[<<t, c>>] ELSE None
FkTarget(S, c) == Unique(Denotes[c] \cap DOMAIN S)

-----------------------------------------------------------------------------
(* The passes, in the order of the source. *)

(* Tables without columns get the minimal ones; types get a valid spelling;
   indexes on columns the table does not have are dropped. *)
KnownIndexes(t) == [t EXCEPT !.idx = @ \cap Has(t)]
Sanitize(S) ==
  LET sane(t) == KnownIndexes(IF Has(S[t]) = {} THEN [S[t] EXCEPT !.cols = Minimal.cols] ELSE S[t])
  IN  EachTable(DOMAIN S, sane)

(* An undeclared table takes the one contract name it is an alias of, unless the
   schema has that table already or an earlier table took the name. *)
Alias(S, R, t) ==
  LET c == Unique(Means[t] \cap Declared(R))
  IN  IF t \in Declared(R) \/ c = None \/ c \in DOMAIN S THEN t ELSE c
NewName(S, R, t) ==
  IF \E u \in DOMAIN S : Rank[u] < Rank[t] /\ Alias(S, R, u) = Alias(S, R, t)
  THEN t ELSE Alias(S, R, t)
Renamed(S, R, x) == IF x \in DOMAIN S THEN NewName(S, R, x) ELSE x
CanonicalNames(S, R) ==
  LET retarget(t, c, col) == [col EXCEPT !.ref = Renamed(S, R, @)]
      T == EachColumn(S, retarget)
      named(n) == T[CHOOSE t \in DOMAIN S : NewName(S, R, t) = n]
  IN  EachTable({NewName(S, R, t) : t \in DOMAIN S}, named)
CanonicalRels(rels, S, R) == {<<Renamed(S, R, p[1]), Renamed(S, R, p[2])>> : p \in rels}

(* Tables the contract names and nobody designed get the minimal columns. *)
ContractTablesPlanned(S, R) == S
ContractTables(S, R) ==
  [t \in (DOMAIN S) \cup Declared(R) |-> IF t \in DOMAIN S THEN S[t] ELSE Minimal]

(* A revision the review appended is merged into its base table; the richer of
   the two keeps its columns.  References to the revision's name stay as they are. *)
Revisions(S) == {t \in DOMAIN S : BaseName[t] # t /\ BaseName[t] \in DOMAIN S}
Richer(S, t) ==   \* the revisions of t that, when their turn comes, have more columns than what is kept
  LET size(u) == Cardinality(Has(S[u]))
      group == {u \in Revisions(S) : BaseName[u] = t}
  IN  {u \in group : size(u) > size(t) /\ \A v \in group : Rank[v] < Rank[u] => size(v) < size(u)}
MergeRevisions(S) ==
  LET kept(t, us) == IF us = {} THEN t ELSE Latest(us)
      merged(t) == [cols |-> S[kept(t, Richer(S, t))].cols,
                    idx |-> S[kept(t, {u \in Richer(S, t) : S[u].idx # {}})].idx, formed |-> S[t].formed]
  IN  EachTable((DOMAIN S) \ Revisions(S), merged)

PrimaryKeys(S) ==
  LET key(t) == IF Id \in Has(S[t]) THEN [S[t].cols[Id] EXCEPT !.pk = TRUE] ELSE Minimal.cols[Id]
      keyed(t) == IF \E c \in Has(S[t]) : S[t].cols[c].pk THEN S[t]
                  ELSE [S[t] EXCEPT !.cols = [c \in (DOMAIN @) \cup {Id} |-> IF c = Id THEN key(t) ELSE @[c]]]
  IN  EachTable(DOMAIN S, keyed)

(* External and polymorphic identifiers lose their REFERENCES clause.  ReconcileTypes starts
   with it, and may then write one again: it asks what the name denotes, as for any column. *)
SpecialReferences(S) ==
  LET strip(t, c, col) == IF c \in External THEN [col EXCEPT !.ref = None] ELSE col
  IN  EachColumn(S, strip)

(* A key column gets the target the contract declares, or else keeps a target
   that exists, or else the one table its name denotes - which for an external identifier
   would be stripped again before anything reads it. *)
ForeignKeys(S, R) ==
  LET target(t, c) == IF DeclaredTarget(R, t, c) # None
                      THEN IF DeclaredTarget(R, t, c) \in DOMAIN S THEN DeclaredTarget(R, t, c) ELSE None
                      ELSE FkTarget(S, c)
      fix(t, c, col) ==
        IF \/ target(t, c) = None
           \/ DeclaredTarget(R, t, c) = None /\ (c \in External \cup {Id} \/ col.ref \in DOMAIN S)
        THEN col ELSE [col EXCEPT !.ref = target(t, c)]
  IN  EachColumn(S, fix)

(* Type spellings. *)
DomainTypes(S) ==
  LET spell(t, c, col) == [col EXCEPT !.type = NormType[@]]
  IN  EachColumn(S, spell)

(* Every column a REFERENCES clause or the PRD needs an index for has one. *)
Indexes(S) ==
  LET indexed(t) == [KnownIndexes(S[t]) EXCEPT !.idx = @ \cup {c \in Has(S[t]) : S[t].cols[c].ref # None}]
  IN  EachTable(DOMAIN S, indexed)

(* Fields and action chains the PRD asks for explicitly. *)
PrdColumns(S, R) ==
  LET wanted(t) == {c \in Columns : /\ <<t, c>> \in DOMAIN R.prd
                                    /\ R.prd[<<t, c>>] \in (DOMAIN S) \cup {None}}
      extended(t) == With(S[t], wanted(t), LAMBDA c : Column(KeyType, FALSE, R.prd[<<t, c>>]))
  IN  EachTable(DOMAIN S, extended)

(* Roles are read from columns, never from table names: an event table says when
   something happened and points at a table; an aggregate owns mutable state. *)
Targets(S, t) == {FkTarget(S, c) : c \in Has(S[t])} \ {None}
Events(S) == {t \in DOMAIN S : Has(S[t]) \cap Happened # {} /\ Targets(S, t) # {}}
Aggregates(S) == {t \in DOMAIN S \ Events(S) : Has(S[t]) \cap Mutable # {}}
Catalogs(S, a) == Targets(S, a) \ {a}

(* A catalogue loses the mutable columns an aggregate that points at it owns: those the
   aggregate still has when its turn comes. *)
OwnMutableState(S) ==
  LET catalogs == [a \in Aggregates(S) |-> Catalogs(S, a)]
      owns[a \in DOMAIN catalogs] ==
        (Has(S[a]) \cap Mutable)
          \ UNION {owns[b] : b \in {d \in DOMAIN catalogs : Rank[d] < Rank[a] /\ a \in catalogs[d]}}
      lost(t) == UNION {owns[a] : a \in {b \in DOMAIN catalogs : t \in catalogs[b]}}
      kept(t) == Without(S[t], lost(t))
  IN  EachTable(DOMAIN S, kept)

(* An event that points at a catalogue points at the one aggregate over it instead; of
   several, at the one that shares most of the mutable columns the event records. *)
EventsPointAtAggregates(S, events, catalogs) ==
  LET near(t) == {a \in (DOMAIN catalogs) \ {t} : catalogs[a] \cap Targets(S, t) # {}}
      score(t, a) == Cardinality(Has(S[a]) \cap Mutable \cap Has(S[t]))
      best(t) == {a \in near(t) : score(t, a) > 0 /\ \A b \in near(t) : score(t, b) <= score(t, a)}
      over(t) == Unique(IF Cardinality(near(t)) > 1 THEN best(t) ELSE near(t))
      repoint(t, a) == Without(With(S[t], {KeyColumn[a]}, LAMBDA c : Column(KeyType, FALSE, None)),
                               {c \in Has(S[t]) : FkTarget(S, c) \in catalogs[a]})
      event(t) == IF t \notin events \/ over(t) = None THEN S[t] ELSE repoint(t, over(t))
  IN  EachTable(DOMAIN S, event)
SchemaContracts(S, R) ==
  LET P == PrdColumns(S, R)
      E == EventsPointAtAggregates(OwnMutableState(P), Events(P), [a \in Aggregates(P) |-> Catalogs(P, a)])
      indexed(t) == [E[t] EXCEPT !.idx = @ \cup {c \in Has(E[t]) : FkTarget(E, c) # None}]
  IN  EachTable(DOMAIN E, indexed)

(* A key column takes the type of the key it references.  A column that has no
   REFERENCES clause gets the one its name denotes, unless the clauses already
   written lead from there back to this table. *)
Edges(S) == {<<p[1], Ref(S, p)>> : p \in {q \in Cells(S) : Ref(S, q) \in DOMAIN S}}
HasPath(edges, from, to) ==
  LET grow(r, k) == r \cup {e[2] : e \in {d \in edges : d[1] \in r}}
  IN  to \in FoldLeft(grow, {from}, [k \in 1..Cardinality(edges) |-> k])
Keyed(S) == {t \in DOMAIN S : Id \in Has(S[t])}
KeyTypeOf(S, t) == S[t].cols[Id].type
ReconcileTypes(S0) ==
  LET S == SpecialReferences(S0)
      edges == Edges(S)
      fix(t, c, col) ==
        IF col.ref # None
        THEN IF col.ref \in Keyed(S) THEN [col EXCEPT !.type = KeyTypeOf(S, col.ref)] ELSE col
        ELSE IF FkTarget(S, c) \notin Keyed(S) \/ HasPath(edges, FkTarget(S, c), t) THEN col
             ELSE Column(KeyTypeOf(S, FkTarget(S, c)), col.pk, FkTarget(S, c))
  IN  Indexes(EachColumn(S, fix))

(* Relationships are pairs <<parent, child>>: those that name two stored tables
   (the same one only with a key onto itself), and those the keys imply. *)
Implied(S) ==
  {<<IF Ref(S, p) \in DOMAIN S THEN Ref(S, p) ELSE FkTarget(S, p[2]), p[1]>> : p \in Cells(S)}
Relationships(rels, S) ==
  {p \in rels : /\ p[1] \in DOMAIN S /\ p[2] \in DOMAIN S
                /\ p[1] = p[2] => \E c \in Has(S[p[1]]) \ {Id} : S[p[1]].cols[c].ref = p[1]}
  \cup {p \in Implied(S) : p[1] # None /\ p[1] # p[2]}

(* Each feature is mapped to one table; a table whose rows belong to a principal
   gets the key column of that principal. *)
PrimaryTable(stored, R, f) ==
  IF R.tables[f] # {} THEN (IF R.primary[f] \in stored THEN R.primary[f] ELSE None)
  ELSE LET fitting == SelectSeq(R.fit[f], LAMBDA t : t \in stored)
       IN  IF fitting = <<>> THEN None ELSE Head(fitting)
OwnerColumnRetyped(cols, c, o) == Column(KeyType, FALSE, o)
OwnerColumnWeak(cols, c, o) == Column(IF c \in DOMAIN cols THEN cols[c].type ELSE KeyType, FALSE, None)
OwnerColumn(cols, c, o) == Column(IF c \in DOMAIN cols THEN cols[c].type ELSE KeyType, FALSE, o)
OwnerKey(t, o) ==
  LET k == KeyColumn[o]
  IN  [cols |-> [c \in Has(t) \cup {k} |-> IF c = k THEN OwnerColumn(t.cols, k, o) ELSE t.cols[c]],
       idx |-> t.idx \cup {k}, formed |-> t.formed]
Owned(stored, R, f) == R.owner[f] \in stored /\ PrimaryTable(stored, R, f) # None
Own(S, R, f) ==
  IF Owned(DOMAIN S, R, f)
  THEN [S EXCEPT ![PrimaryTable(DOMAIN S, R, f)] = OwnerKey(@, R.owner[f])] ELSE S
FeatureMappings(S, R) ==
  LET specs == SetToSeq(DOMAIN R.tables)
      mapped[k \in 0..Len(specs)] == IF k = 0 THEN S ELSE Own(mapped[k - 1], R, specs[k])
  IN  mapped[Len(specs)]

(* Declared fields are put back after every heuristic; a field that is neither
   stored nor typed by its contract is an issue. *)
FieldsOf(R, t) == {c \in Columns : <<t, c>> \in DOMAIN R.fields}
ExplicitFields(S, R) ==
  LET old(t, c) == IF c \in Has(S[t]) THEN S[t].cols[c] ELSE Column(KeyType, FALSE, None)
      field(t, c) == IF c \in FieldsOf(R, t) THEN [old(t, c) EXCEPT !.type = R.fields[<<t, c>>]] ELSE old(t, c)
      declared(t) == [S[t] EXCEPT !.cols = [c \in (DOMAIN @) \cup FieldsOf(R, t) |-> field(t, c)]]
  IN  EachTable(DOMAIN S, declared)
UnknownFields(S, R) == {<<"field", p>> : p \in {q \in DOMAIN R.fields : q[1] \notin DOMAIN S}}

(* A registry that declares every column is the schema: workers' tables only lend it indexes. *)
Complete(R) == Declared(R) # {} /\ \A t \in Declared(R) : <<t, Id>> \in DOMAIN R.fields
Projected(S, R) ==
  LET project(t) == [cols |-> [c \in FieldsOf(R, t) |-> Column(R.fields[<<t, c>>], c = Id, DeclaredTarget(R, t, c))],
                     idx |-> IF t \in DOMAIN S THEN S[t].idx ELSE {}, formed |-> TRUE]
  IN  EachTable(Declared(R), project)

(* What fk_validation and the self-check report of a schema. *)
KeyIssues(S) ==
  {<<"key", p>> : p \in {q \in Cells(S) : /\ Ref(S, q) # None
                                          /\ \/ Ref(S, q) \notin Keyed(S)
                                             \/ KeyTypeOf(S, Ref(S, q)) # S[q[1]].cols[q[2]].type
                                             \/ ~S[Ref(S, q)].cols[Id].pk}}
NoPrimaryKey(S) == {<<"pk", t>> : t \in {u \in DOMAIN S : \A c \in Has(S[u]) : ~S[u].cols[c].pk}}
Unresolved(S) ==
  {<<"target", p>> : p \in {q \in Cells(S) : /\ Denotes[q[2]] # {} /\ q[2] \notin External
                                             /\ Ref(S, q) \notin DOMAIN S /\ FkTarget(S, q[2]) = None}}

Document(S, rels) == [tables |-> S, rels |-> rels]
Checked(S, rels, issues) == [doc |-> Document(S, rels), issues |-> issues]

(* One malformed table ends the self-check before it begins: nothing is projected, corrected
   or judged. *)
Malformed(S) == {t \in DOMAIN S : ~S[t].formed}
SelfCheck(S, rels, R) ==
  IF Malformed(S) # {} THEN Checked(S, rels, {"shape"} \X Malformed(S))
  ELSE IF Complete(R)
  THEN LET P == Indexes(Projected(S, R))
       IN  Checked(P, {<<R.keys[p], p[1]>> : p \in DOMAIN R.keys}, KeyIssues(P))
  ELSE LET A == Sanitize(S)
           B == MergeRevisions(ContractTables(CanonicalNames(A, R), R))
           C == Indexes(ReconcileTypes(ForeignKeys(SpecialReferences(PrimaryKeys(B)), R)))
           D == ReconcileTypes(ExplicitFields(C, R))
       IN  Checked(D, Relationships(CanonicalRels(rels, A, R), D),
                   UnknownFields(C, R) \cup KeyIssues(D) \cup NoPrimaryKey(D) \cup Unresolved(D))

-----------------------------------------------------------------------------
(* The schema the registry alone implies, for a run whose plan or workers failed. *)
Endpoints(R) == {p[1] : p \in DOMAIN R.keys} \cup Range(R.keys)
Fallback(R) ==
  [t \in Declared(R) \cup Endpoints(R) |->
     With(Minimal, {c \in Columns : <<t, c>> \in DOMAIN R.keys},
          LAMBDA c : Column(KeyType, FALSE, R.keys[<<t, c>>]))]

(* The review of the workers' tables, and what execute makes of its answer. *)
Reviewed(S, R) ==
  LET A == ContractTables(CanonicalNames(Sanitize(S), R), R)
  IN  ReconcileTypes(SchemaContracts(DomainTypes(ForeignKeys(PrimaryKeys(A), R)), R))
Corrected(S, rels, R) ==
  LET A == Sanitize(ContractTables(CanonicalNames(S, R), R))
      links == CanonicalRels(CanonicalRels(rels, S, R), A, R)
      B == PrimaryKeys(MergeRevisions(CanonicalNames(A, R)))
      C == ReconcileTypes(SchemaContracts(DomainTypes(ForeignKeys(B, R)), R))
      D == ReconcileTypes(FeatureMappings(C, R))
  IN  SelfCheck(D, Relationships(links \cup Relationships({}, C), D), R)

(* What execute still does to what the self-check gave back: a complete contract's documents
   get the relationships their keys imply beside the declared ones, the features their tables. *)
Normalized(doc) == [doc EXCEPT !.rels = Relationships(@, doc.tables)]
Mapped(doc, R) == [doc EXCEPT !.tables = FeatureMappings(@, R)]

IsColumn(c) == c = Column(c.type, c.pk, c.ref)
IsTable(t) ==
  /\ t = [cols |-> t.cols, idx |-> t.idx, formed |-> t.formed] /\ t.formed \in BOOLEAN
  /\ t.cols = [c \in Has(t) |-> t.cols[c]] /\ Has(t) \subseteq Columns
  /\ \A c \in Has(t) : IsColumn(t.cols[c])

ASSUME NamesAreOrdered ==
  /\ IsFiniteSet(Names) /\ None \notin Names
  /\ Rank \in [Names -> 1..Cardinality(Names)] /\ \A s, t \in Names : Rank[s] = Rank[t] => s = t
ASSUME KeysAreColumns ==
  /\ Id \in Columns \ External /\ Denotes[Id] = {}
  /\ \A t \in Names : KeyColumn[t] \in Columns \ {Id}
ASSUME ContractsAreFormed ==
  \A R \in Registries :
    /\ IsFiniteSet(DOMAIN R.tables) /\ Declared(R) \subseteq Names
    /\ \A f \in R.off : f \in DOMAIN R.tables => R.tables[f] = {}
    /\ \A f \in DOMAIN R.tables : R.owner[f] \in Names \cup {None}
ASSUME AnswersAreTables ==
  /\ \A P \in Plans : P # {} /\ P \subseteq Names
  /\ \A t \in Names : \A d \in Designs[t] : IsTable(d)

-----------------------------------------------------------------------------
VARIABLES
  registry,  \* the contract of this run
  phase,     \* "plan", "work", "done"
  plan,      \* the planned tables
  made,      \* the tables workers returned so far
  db,        \* the saved document
  blockers,  \* qa_db_blockers
  approved,  \* qa_approved
  outcome,   \* targeted_repair_results["db"]
  repairs,   \* repairs tried
  asked      \* the tables the last repair was allowed to touch, and the columns it was given

vars == <<registry, phase, plan, made, db, blockers, approved, outcome, repairs, asked>>

NoDocument == Document(<<>>, {})

Init ==
  /\ registry \in Registries
  /\ phase = "plan" /\ plan = {} /\ made = <<>> /\ db = NoDocument
  /\ blockers = {} /\ approved = TRUE /\ outcome = "none" /\ repairs = 0
  /\ asked = [tables |-> {}, cells |-> {}]

(* No feature needs a database: the empty document, and no call. *)
NothingToStore ==
  /\ phase = "plan" /\ Stored(registry) = {}
  /\ phase' = "done" /\ blockers' = {}
  /\ UNCHANGED <<registry, plan, made, db, approved, outcome, repairs, asked>>

(* The plan the model answers, replaced by the contract's own tables when that is complete. *)
Plan ==
  /\ phase = "plan" /\ Stored(registry) # {}
  /\ plan' \in IF Complete(registry) THEN {Declared(registry)} ELSE Plans
  /\ phase' = "work"
  /\ UNCHANGED <<registry, made, db, blockers, approved, outcome, repairs, asked>>

(* A worker is sent for every planned table. *)
Unbuilt == plan \ DOMAIN made

(* One worker returns its table; an answer that cannot be used leaves the minimal one. *)
Worker(t) ==
  /\ phase = "work" /\ t \in Unbuilt
  /\ \E d \in Designs[t] \cup {Minimal} :
       LET kept == IF Complete(registry)
                   THEN Without(d, {c \in Has(d) \ {Id} : <<t, c>> \notin DOMAIN registry.fields}) ELSE d
       IN  made' = [u \in DOMAIN made \cup {t} |-> IF u = t THEN kept ELSE made[u]]
  /\ UNCHANGED <<registry, phase, plan, db, blockers, approved, outcome, repairs, asked>>

VerdictAfresh(issues) == issues = {}
Verdict(issues) == approved /\ issues = {}
Save(checked, extra) ==
  /\ db' = Mapped(Normalized(checked.doc), registry)
  /\ blockers' = blockers \cup checked.issues \cup extra
  /\ approved' = Verdict(checked.issues \cup extra)

(* Every worker is back: the review, the corrections, the self-check, the mappings. *)
Finish ==
  /\ phase = "work" /\ DOMAIN made = plan
  /\ LET S == Reviewed(made, registry) IN Save(Corrected(S, Relationships({}, S), registry), {})
  /\ phase' = "done"
  /\ UNCHANGED <<registry, plan, made, outcome, repairs, asked>>

(* The plan could not be had: no worker runs, the registry's own schema is corrected and flagged. *)
PlanFails ==
  /\ phase = "plan" /\ Stored(registry) # {}
  /\ Save(Corrected(Fallback(registry), {<<registry.keys[p], p[1]>> : p \in DOMAIN registry.keys}, registry),
          {<<"generation", None>>})
  /\ phase' = "done"
  /\ UNCHANGED <<registry, plan, made, outcome, repairs, asked>>

-----------------------------------------------------------------------------
(* Targeted repair.  Of what the model answers only the allowed part is applied, the
   whole schema is corrected again, and everything out of scope is put back. *)
PreserveNothing(old, new, allowed) == new
Preserve(old, new, allowed) ==
  [k \in ((DOMAIN old) \ allowed) \cup (DOMAIN new \cap allowed) |->
     IF k \in allowed THEN new[k] ELSE old[k]]
MergeColumns(old, patch) ==
  [c \in ((DOMAIN old) \cup DOMAIN patch.cols) \ patch.drop |->
     IF c \in DOMAIN patch.cols THEN patch.cols[c] ELSE old[c]]

Allowed(targets) == (DOMAIN db.tables \cup Declared(registry)) \cap targets
Removed(answer, allowed) == {t \in DOMAIN answer \cap allowed : answer[t].remove}
Patched(answer, allowed) ==
  LET S == db.tables
  IN  [t \in (DOMAIN S \cup (DOMAIN answer \cap allowed)) \ Removed(answer, allowed) |->
         IF t \notin DOMAIN answer \cap allowed THEN S[t]
         ELSE [cols |-> MergeColumns(IF t \in DOMAIN S THEN S[t].cols ELSE <<>>, answer[t]),
               idx |-> IF answer[t].idx # {} \/ t \notin DOMAIN S THEN answer[t].idx ELSE S[t].idx,
               formed |-> \/ answer[t].shape = "good"
                          \/ answer[t].shape = "kept" /\ (t \in DOMAIN S => S[t].formed)]]
Touching(rels, allowed) == {p \in rels : p[1] \in allowed \/ p[2] \in allowed}
Applied(answer, allowed) ==
  \E t \in DOMAIN answer \cap allowed : answer[t].remove => t \in DOMAIN db.tables

Recorrected(S, rels, R) ==
  LET A == PrimaryKeys(MergeRevisions(Sanitize(S)))
      B == ForeignKeys(ContractTables(CanonicalNames(A, R), R), R)
      C == ReconcileTypes(FeatureMappings(B, R))
  IN  SelfCheck(C, Relationships(CanonicalRels(rels, A, R), C), R)

(* Columns the patch did not mention, and indexes it did not give, come from the old table. *)
Restored(new, answer, allowed) ==
  [t \in DOMAIN new |->
     IF t \notin DOMAIN db.tables \cap allowed THEN new[t]
     ELSE LET p == IF t \in DOMAIN answer THEN answer[t] ELSE [cols |-> <<>>, drop |-> {}, idx |-> {}]
              old == db.tables[t]
          IN  [cols |-> Preserve(old.cols, new[t].cols, DOMAIN p.cols \cup p.drop),
               idx |-> IF p.idx = {} THEN old.idx ELSE new[t].idx, formed |-> new[t].formed]]

(* Feedback that names columns of a table limits the patch to those columns. *)
Scoped(answer, t, named) ==
  LET p == answer[t]
  IN  IF \A c \in Columns : <<t, c>> \notin named THEN p
      ELSE [p EXCEPT !.cols = [c \in {x \in DOMAIN @ : <<t, x>> \in named} |-> @[c]],
                     !.drop = {c \in @ : <<t, c>> \in named}]

Reject(why) ==
  /\ outcome' = why
  /\ UNCHANGED <<registry, phase, plan, made, db, blockers, approved>>

ApplyRepair(answer, rels, allowed) ==
  LET S == Patched(answer, allowed)
      kept == (db.rels \ Touching(db.rels, allowed)) \cup Touching(rels, allowed)
      checked == Recorrected(S, Relationships(kept, S), registry)
      tables == Preserve(db.tables, Restored(checked.doc.tables, answer, allowed), allowed)
      links == (db.rels \ Touching(db.rels, allowed)) \cup Touching(checked.doc.rels, allowed)
      doc == Mapped(Document(tables, links), registry)
  IN  IF ~Applied(answer, allowed) /\ Relationships(kept, S) = Relationships(db.rels, S)
      THEN Reject("rejected_contract_external")
      ELSE /\ db' = doc /\ blockers' = checked.issues
           /\ approved' = Verdict(checked.issues)
           /\ outcome' = IF doc # db THEN "applied" ELSE "noop"
           /\ UNCHANGED <<registry, phase, plan, made>>

(* There is no document to repair yet. *)
NoBaseline ==
  /\ phase = "plan" /\ repairs < MaxRepairs
  /\ repairs' = repairs + 1 /\ outcome' = "missing_baseline"
  /\ blockers' = blockers \cup {<<"baseline", None>>} /\ approved' = FALSE
  /\ UNCHANGED <<registry, phase, plan, made, db, asked>>

(* One call: it may fail (the state comes back as it was), answer for an older document,
   or answer a patch. *)
Mentioned(answer) == {p \in (DOMAIN answer) \X Columns : p[2] \in DOMAIN answer[p[1]].cols \cup answer[p[1]].drop}
Answered(answer, rels, allowed) ==
  /\ ApplyRepair(answer, rels, allowed)
  /\ asked' = [tables |-> allowed, cells |-> Mentioned(answer)]
Unanswered(allowed) ==
  /\ \/ allowed = {} /\ Reject("rejected_scope")
     \/ allowed # {} /\ Reject("rejected_revision")
     \/ allowed # {} /\ UNCHANGED <<registry, phase, plan, made, db, blockers, approved, outcome>>
  /\ UNCHANGED asked
Repair(feedback) ==
  /\ phase = "done" /\ repairs < MaxRepairs
  /\ repairs' = repairs + 1
  /\ LET allowed == Allowed(feedback.targets)
     IN  \/ Unanswered(allowed)
         \/ /\ allowed # {}
            /\ \E answer \in Patches : \E rels \in {db.rels, {}} :
                 Answered([t \in DOMAIN answer |-> Scoped(answer, t, feedback.named)], rels, allowed)

Next ==
  \/ NothingToStore \/ Plan \/ PlanFails \/ Finish \/ NoBaseline
  \/ \E t \in Names : Worker(t)
  \/ \E feedback \in Feedbacks : Repair(feedback)

Spec == Init /\ [][Next]_vars

-----------------------------------------------------------------------------
(* No merge, rename, projection or repair - not even one that removes the table - loses a
   table of the contract.  dedupe_meta_tables does not know the contract, so a declared table
   lasts for sure only if its name is no revision's. *)
Lasting(R) == {t \in Declared(R) : BaseName[t] = t}
ContractTablesStay == phase = "done" => Lasting(registry) \subseteq DOMAIN db.tables

(* A contract that can be met: its names last or nothing is left to design, its keys point
   at its own tables, and a column that is the key of an owner is that owner's alone.  The mapping is run once more after the
   self-check, on the features that need no database too: where the contract declares every
   column, an owner's key it does not declare would enter the document unseen. *)
OwnerCells(stored, R) == {<<PrimaryTable(stored, R, f), KeyColumn[R.owner[f]]>> :
                            f \in {g \in DOMAIN R.tables : Owned(stored, R, g)}}
OwnersOf(R) == {R.owner[f] : f \in DOMAIN R.tables} \ {None}
Coherent(R) ==
  /\ Complete(R) \/ Declared(R) = Lasting(R)
  /\ Complete(R) => OwnerCells(Declared(R), R) \subseteq DOMAIN R.fields \cap DOMAIN R.keys
  /\ \A p \in DOMAIN R.keys : R.keys[p] \in Declared(R) /\ p[2] \notin External
  /\ \A o \in OwnersOf(R) :
       /\ KeyColumn[o] \notin External
       /\ \A u \in OwnersOf(R) : KeyColumn[u] = KeyColumn[o] => u = o
       /\ \A p \in DOMAIN R.keys : p[2] = KeyColumn[o] => R.keys[p] = o
Accepted == phase = "done" /\ repairs = 0 /\ blockers = {} /\ Coherent(registry)

(* An accepted schema has every table of the contract, and a declared key column has the
   declared target - unless no worker wrote the column: then it is added as a declared field
   once the keys are written. *)
KeysHaveTheirTarget ==
  Accepted =>
    /\ Declared(registry) \subseteq DOMAIN db.tables
    /\ \A p \in DOMAIN registry.keys \cap Cells(db.tables) :
         Complete(registry) \/ p \notin DOMAIN registry.fields => Ref(db.tables, p) = registry.keys[p]

ContractIsStored == ContractTablesStay /\ KeysHaveTheirTarget

(* A schema the agent saves without a blocker really has a key in every table, and every
   reference resolves to a stored key of the same type - although the owner columns are
   added to it after the self-check has looked.  A column that is named like a key resolves
   too, unless the contract declares every column: then its names are not judged. *)
SavedIsSound ==
  Accepted =>
    /\ KeyIssues(db.tables) \cup NoPrimaryKey(db.tables) = {}
    /\ Complete(registry) \/ Unresolved(db.tables) = {}

(* Checking a saved schema again changes nothing: "repeated selective repairs are
   idempotent instead of oscillating" (dba_agent.py:1171), over the whole chain; of a complete
   contract the check itself drops the implied relationships and execute adds them again.
   The exceptions: a declared field was added too late for its key, which a second look would
   write, or an external identifier names a table, and its key is inferred anew each time. *)
Late(S, R) ==
  {p \in Cells(S) \cap DOMAIN R.fields :
     IF p \in DOMAIN R.keys THEN Ref(S, p) # R.keys[p]
     ELSE Ref(S, p) = None /\ FkTarget(S, p[2]) # None}
  \cup {p \in Cells(S) : p[2] \in External /\ FkTarget(S, p[2]) # None}
SavedIsStable ==
  Accepted /\ Stored(registry) # {} /\ (Complete(registry) \/ Late(db.tables, registry) = {}) =>
    LET again == SelfCheck(db.tables, db.rels, registry).doc
    IN  Normalized(again) = db /\ (Complete(registry) \/ again = db)

(* A schema made without the workers is never approved, whatever repairs clear its blockers. *)
FallbackIsNeverApproved ==
  phase = "done" /\ plan = {} /\ Stored(registry) # {} => ~approved

(* The three: an approval means what it says, and a second look would not take it back. *)
SavedIsSettled == SavedIsSound /\ SavedIsStable /\ FallbackIsNeverApproved

(* A repair changes nothing else: tables and relationships out of its scope stay, and in scope
   the columns its answer does not mention.  The one exception is the key of the principal that
   owns a feature's rows, which the mapping after the repair may still add anywhere. *)
RepairStaysInScope ==
  [][db' # db /\ repairs' > repairs =>
       /\ (DOMAIN db.tables) \ asked'.tables = (DOMAIN db'.tables) \ asked'.tables
       /\ \A p \in Cells(db.tables) \ OwnerCells(DOMAIN db'.tables, registry) :
            p[1] \in DOMAIN db'.tables /\ ~(p[1] \in asked'.tables /\ p \in asked'.cells) =>
              p \in Cells(db'.tables) /\ db'.tables[p[1]].cols[p[2]] = db.tables[p[1]].cols[p[2]]
       /\ \A p \in Cells(db'.tables) \ (Cells(db.tables) \cup OwnerCells(DOMAIN db'.tables, registry)) : p[1] \in asked'.tables
       /\ db.rels \ Touching(db.rels, asked'.tables) = db'.rels \ Touching(db'.rels, asked'.tables)]_vars
=============================================================================
