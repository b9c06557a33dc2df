--------------------------- MODULE DbSchemaProofs ---------------------------
(***************************************************************************)
(* A repair of the database schema stays in its scope, the contract is     *)
(* stored, what is saved without a blocker is sound and a second           *)
(* self-check leaves it alone, and a schema made without workers is never  *)
(* approved: for any contracts, plans, tables, feedback and answers of     *)
(* the model, and any number of repairs.                                   *)
(***************************************************************************)
EXTENDS DbSchema, FiniteSetTheorems, WellFoundedInduction, TLAPS

-----------------------------------------------------------------------------
(* Loops.  A loop over a sequence is a function of the number of turns it has   *)
(* made; Turns says that f is such a function with the body Turn of the mapping. *)

LEMMA NatSetInduction ==
    ASSUME NEW T, 0 \in T, \A n \in Nat : n \in T => n + 1 \in T
    PROVE  Nat \subseteq T
<1> SUFFICES ASSUME Nat \ T # {} PROVE FALSE
  OBVIOUS
<1> DEFINE Less == {ss \in Nat \X Nat : ss[1] < ss[2]}
<1>1. IsWellFoundedOn(Less, Nat)
  BY NatLessThanWellFounded DEF OpToRel
<1>2. Nat \ T \subseteq Nat
  OBVIOUS
<1> HIDE DEF Less
<1>3. PICK n \in Nat \ T : \A m \in Nat \ T : ~(<<m, n>> \in Less)
  BY <1>1, <1>2, WFMin
<1>4. n # 0 /\ n - 1 \in Nat /\ <<n - 1, n>> \in Nat \X Nat /\ n - 1 < n
  BY <1>3
<1>5. <<n - 1, n>> \in Less
  BY <1>4 DEF Less
<1>6. n - 1 + 1 \in T
  BY <1>3, <1>4, <1>5
<1> QED
  BY <1>3, <1>4, <1>6

Turn(m, S, R, specs, k) == IF k = 0 THEN S ELSE Own(m[k - 1], R, specs[k])
Turns(m, S, R, specs, n) == m = [k \in 0..n |-> Turn(m, S, R, specs, k)]

\* A loop can make any number of turns.
LEMMA TurnsExist ==
    ASSUME NEW S, NEW R, NEW specs, NEW N \in Nat
    PROVE  \E m : Turns(m, S, R, specs, N)
<1> DEFINE T == {n \in Nat : \E m : Turns(m, S, R, specs, n)}
<1>1. 0 \in T
  <2> DEFINE m == [k \in 0..0 |-> S]
  <2>1. m = [k \in 0..0 |-> Turn(m, S, R, specs, k)]
    BY DEF Turn
  <2> QED
    BY <2>1 DEF Turns
<1>2. ASSUME NEW n \in Nat, n \in T PROVE n + 1 \in T
  <2>1. PICK m : Turns(m, S, R, specs, n)
    BY <1>2
  <2>2. m = [k \in 0..n |-> Turn(m, S, R, specs, k)]
    BY <2>1 DEF Turns
  <2> DEFINE g == [k \in 0..(n + 1) |-> IF k <= n THEN m[k] ELSE Turn(m, S, R, specs, n + 1)]
  <2>3. ASSUME NEW k \in 0..(n + 1) PROVE g[k] = Turn(g, S, R, specs, k)
    <3>1. k <= n => m[k] = Turn(m, S, R, specs, k)
      BY <2>2
    <3>2. ~(k <= n) => k = n + 1
      OBVIOUS
    <3>3. g[k] = Turn(m, S, R, specs, k)
      BY <3>1, <3>2
    <3>4. k # 0 => g[k - 1] = m[k - 1]
      OBVIOUS
    <3> HIDE DEF g
    <3> QED
      BY <3>3, <3>4 DEF Turn
  <2>4. g = [k \in 0..(n + 1) |-> Turn(g, S, R, specs, k)]
    BY <2>3
  <2> HIDE DEF g
  <2> QED
    BY <2>4 DEF Turns
<1> HIDE DEF T
<1>3. N \in T
  BY <1>1, <1>2, NatSetInduction
<1> QED
  BY <1>3 DEF T

-----------------------------------------------------------------------------
(* The owner columns *)

\* T has the tables of S and, but for the cells in own, its columns.
Same(S, T, those) ==
    /\ DOMAIN T = DOMAIN S
    /\ \A t \in DOMAIN S : \A c :
          <<t, c>> \notin those =>
              /\ c \in DOMAIN T[t].cols <=> c \in DOMAIN S[t].cols
              /\ c \in DOMAIN S[t].cols => T[t].cols[c] = S[t].cols[c]

\* One feature adds at most the key of its owner to its primary table.
LEMMA OwnSame ==
    ASSUME NEW S, NEW R, NEW f \in DOMAIN R.tables
    PROVE  Same(S, Own(S, R, f), OwnerCells(DOMAIN S, R))
<1> DEFINE p == PrimaryTable(DOMAIN S, R, f)
           o == R.owner[f]
           E == [S EXCEPT ![p] = OwnerKey(S[p], o)]
           own == OwnerCells(DOMAIN S, R)
<1>1. CASE ~Owned(DOMAIN S, R, f)
  <2>1. Own(S, R, f) = S
    BY <1>1 DEF Own
  <2> QED
    BY <2>1 DEF Same
<1>2. CASE Owned(DOMAIN S, R, f)
  <2>1. Own(S, R, f) = E /\ <<p, KeyColumn[o]>> \in own
    BY <1>2 DEF Own, OwnerCells
  <2>2. DOMAIN E = DOMAIN S /\ \A t \in DOMAIN S : E[t] = IF t = p THEN OwnerKey(S[p], o) ELSE S[t]
    OBVIOUS
  <2>3. ASSUME NEW c, c # KeyColumn[o]
        PROVE  /\ c \in DOMAIN OwnerKey(S[p], o).cols <=> c \in DOMAIN S[p].cols
               /\ c \in DOMAIN S[p].cols => OwnerKey(S[p], o).cols[c] = S[p].cols[c]
    BY <2>3 DEF OwnerKey, Has
  <2> HIDE DEF p, o, E, own
  <2>4. Same(S, E, own)
    <3> SUFFICES ASSUME NEW t \in DOMAIN S, NEW c, <<t, c>> \notin own
                 PROVE  /\ c \in DOMAIN E[t].cols <=> c \in DOMAIN S[t].cols
                        /\ c \in DOMAIN S[t].cols => E[t].cols[c] = S[t].cols[c]
      BY <2>2 DEF Same
    <3>1. CASE t = p
      <4>1. c # KeyColumn[o]
        BY <2>1, <3>1
      <4> QED
        BY <2>2, <2>3, <3>1, <4>1
    <3> QED
      BY <2>2, <3>1
  <2> QED
    BY <2>1, <2>4 DEF own
<1> QED
  BY <1>1, <1>2

LEMMA SpecsInSeq ==
    ASSUME NEW D, IsFiniteSet(D)
    PROVE  /\ Len(SetToSeq(D)) \in Nat /\ \A k \in 1..Len(SetToSeq(D)) : SetToSeq(D)[k] \in D
           /\ \A x \in D : \E k \in 1..Len(SetToSeq(D)) : SetToSeq(D)[k] = x
<1> DEFINE n == Cardinality(D)
<1>1. n \in Nat /\ ExistsBijection(1..n, D)
  BY FS_CardinalityType
<1>2. \E s \in [1..n -> D] : IsInjective(s)
  BY <1>1 DEF ExistsBijection, Bijection, Injection, IsInjective
<1>3. SetToSeq(D) \in [1..n -> D] /\ IsInjective(SetToSeq(D))
  BY <1>2 DEF SetToSeq
<1>4. Cardinality(1..n) = n
  BY <1>1, FS_Interval
<1>5. SetToSeq(D) \in Injection(1..n, D)
  BY <1>3 DEF Injection
<1>6. SetToSeq(D) \in Surjection(1..n, D)
  BY <1>4, <1>5, FS_Injection
<1> HIDE DEF n
<1>7. Len(SetToSeq(D)) = n
  BY <1>1, <1>3
<1> QED
  BY <1>1, <1>3, <1>6, <1>7 DEF Surjection

\* build_feature_mappings takes the features one after the other, every one of them.
FeatureTurns(S, R, mapped, specs, n) ==
    /\ n \in Nat /\ mapped[0] = S /\ mapped[n] = FeatureMappings(S, R)
    /\ \A k \in 1..n : specs[k] \in DOMAIN R.tables /\ mapped[k] = Own(mapped[k - 1], R, specs[k])
    /\ \A f \in DOMAIN R.tables : \E k \in 1..n : specs[k] = f

LEMMA MappingTurns ==
    ASSUME NEW S, NEW R, IsFiniteSet(DOMAIN R.tables)
    PROVE  \E mapped, specs, n : FeatureTurns(S, R, mapped, specs, n)
<1> DEFINE specs == SetToSeq(DOMAIN R.tables)
           n == Len(specs)
           mapped[k \in 0..n] == IF k = 0 THEN S ELSE Own(mapped[k - 1], R, specs[k])
<1>1. FeatureMappings(S, R) = mapped[n]
  BY DEF FeatureMappings
<1>2. /\ n \in Nat /\ \A k \in 1..n : specs[k] \in DOMAIN R.tables
      /\ \A f \in DOMAIN R.tables : \E k \in 1..n : specs[k] = f
  BY SpecsInSeq
<1> HIDE DEF specs
<1>3. Turns(mapped, S, R, specs, n)
  <2>1. mapped = CHOOSE m : Turns(m, S, R, specs, n)
    BY DEF Turns, Turn
  <2>2. \E m : Turns(m, S, R, specs, n)
    BY <1>2, TurnsExist
  <2> HIDE DEF mapped
  <2> QED
    BY <2>1, <2>2
<1> HIDE DEF mapped, n
<1>4. \A k \in 0..n : mapped[k] = IF k = 0 THEN S ELSE Own(mapped[k - 1], R, specs[k])
  BY <1>3 DEF Turns, Turn
<1>5. 0 \in 0..n /\ \A k \in 1..n : k \in 0..n /\ k # 0
  BY <1>2
<1>6. mapped[0] = S /\ \A k \in 1..n : mapped[k] = Own(mapped[k - 1], R, specs[k])
  BY <1>4, <1>5
<1>7. FeatureTurns(S, R, mapped, specs, n)
  BY <1>1, <1>2, <1>6 DEF FeatureTurns
<1> QED
  BY <1>7

\* build_feature_mappings changes the tables only where an owner's key belongs.
LEMMA MappingsSame ==
    ASSUME NEW S, NEW R, IsFiniteSet(DOMAIN R.tables)
    PROVE  Same(S, FeatureMappings(S, R), OwnerCells(DOMAIN S, R))
<1>1. PICK mapped, specs, n : FeatureTurns(S, R, mapped, specs, n)
  BY MappingTurns
<1>2. /\ n \in Nat /\ mapped[0] = S /\ mapped[n] = FeatureMappings(S, R)
      /\ \A k \in 1..n : specs[k] \in DOMAIN R.tables /\ mapped[k] = Own(mapped[k - 1], R, specs[k])
  BY <1>1 DEF FeatureTurns
<1> DEFINE own == OwnerCells(DOMAIN S, R)
<1> HIDE DEF own
<1> DEFINE T == {k \in Nat : k <= n => Same(S, mapped[k], own)}
<1>3. 0 \in T
  <2>1. Same(S, S, own)
    BY DEF Same
  <2> QED
    BY <1>2, <2>1
<1>4. ASSUME NEW k \in Nat, k \in T PROVE k + 1 \in T
  <2> SUFFICES ASSUME k + 1 <= n PROVE Same(S, mapped[k + 1], own)
    OBVIOUS
  <2>1. Same(S, mapped[k], own) /\ k + 1 \in 1..n /\ (k + 1) - 1 = k
    BY <1>2, <1>4
  <2>2. mapped[k + 1] = Own(mapped[k], R, specs[k + 1])
    BY <1>2, <2>1
  <2>3. Same(mapped[k], mapped[k + 1], OwnerCells(DOMAIN mapped[k], R))
    BY <1>2, <2>1, <2>2, OwnSame
  <2>4. DOMAIN mapped[k] = DOMAIN S
    BY <2>1 DEF Same
  <2>5. Same(mapped[k], mapped[k + 1], own)
    BY <2>3, <2>4 DEF own
  <2> QED
    BY <2>1, <2>5 DEF Same
<1> HIDE DEF T
<1>5. n \in T
  BY <1>2, <1>3, <1>4, NatSetInduction
<1> QED
  BY <1>2, <1>5 DEF T, own

-----------------------------------------------------------------------------
(* A repair *)

\* What RepairStaysInScope asks of a step that changes the document.
InScope ==
    /\ (DOMAIN db.tables) \ asked'.tables = (DOMAIN db'.tables) \ asked'.tables
    /\ \A p \in Cells(db.tables) \ OwnerCells(DOMAIN db'.tables, registry) :
         p[1] \in DOMAIN db'.tables /\ ~(p[1] \in asked'.tables /\ p \in asked'.cells) =>
           p \in Cells(db'.tables) /\ db'.tables[p[1]].cols[p[2]] = db.tables[p[1]].cols[p[2]]
    /\ \A p \in Cells(db'.tables) \ (Cells(db.tables) \cup OwnerCells(DOMAIN db'.tables, registry)) : p[1] \in asked'.tables
    /\ db.rels \ Touching(db.rels, asked'.tables) = db'.rels \ Touching(db'.rels, asked'.tables)

\* Putting the rest back keeps the tables out of scope, and of those in scope the
\* columns the answer does not mention.
LEMMA PreservedTables ==
    ASSUME NEW answer, NEW new, NEW allowed, NEW T,
           T = Preserve(db.tables, Restored(new, answer, allowed), allowed)
    PROVE  /\ (DOMAIN db.tables) \ allowed = (DOMAIN T) \ allowed
           /\ \A t \in DOMAIN T \ allowed : T[t] = db.tables[t]
           /\ \A t \in DOMAIN T \cap DOMAIN db.tables \cap allowed :
                \A c \in DOMAIN db.tables[t].cols \cap Columns :
                   <<t, c>> \notin Mentioned(answer) =>
                      c \in DOMAIN T[t].cols /\ T[t].cols[c] = db.tables[t].cols[c]
<1> DEFINE N == Restored(new, answer, allowed)
<1>1. DOMAIN T = ((DOMAIN db.tables) \ allowed) \cup (DOMAIN N \cap allowed)
  BY DEF Preserve
<1>2. \A t \in DOMAIN T : T[t] = IF t \in allowed THEN N[t] ELSE db.tables[t]
  BY <1>1 DEF Preserve
<1>3. ASSUME NEW t \in DOMAIN T \cap DOMAIN db.tables \cap allowed,
             NEW c \in DOMAIN db.tables[t].cols \cap Columns,
             <<t, c>> \notin Mentioned(answer)
      PROVE  c \in DOMAIN T[t].cols /\ T[t].cols[c] = db.tables[t].cols[c]
  <2> DEFINE P == IF t \in DOMAIN answer THEN answer[t] ELSE [cols |-> <<>>, drop |-> {}, idx |-> {}]
             given == DOMAIN P.cols \cup P.drop
  <2>1. c \notin given
    <3>1. CASE t \in DOMAIN answer
      <4>1. c \notin DOMAIN answer[t].cols \cup answer[t].drop
        BY <1>3, <3>1 DEF Mentioned
      <4> QED
        BY <3>1, <4>1
    <3>2. CASE t \notin DOMAIN answer
      <4>1. P = [cols |-> <<>>, drop |-> {}, idx |-> {}]
        BY <3>2
      <4>2. DOMAIN P.cols = {} /\ P.drop = {}
        BY <4>1
      <4> QED
        BY <4>2
    <3> QED
      BY <3>1, <3>2
  <2>2. T[t] = N[t] /\ t \in DOMAIN new
    BY <1>1, <1>2, <1>3 DEF Restored
  <2>3. N[t].cols = Preserve(db.tables[t].cols, new[t].cols, given)
    BY <1>3, <2>2 DEF Restored
  <2> HIDE DEF P, given, N
  <2>4. /\ c \in DOMAIN N[t].cols
        /\ N[t].cols[c] = db.tables[t].cols[c]
    BY <1>3, <2>1, <2>3 DEF Preserve
  <2> QED
    BY <2>2, <2>4
<1> HIDE DEF N
<1> QED
  BY <1>1, <1>2, <1>3

LEMMA KeptLinks ==
    ASSUME NEW rels, NEW others, NEW allowed, NEW links,
           links = (rels \ Touching(rels, allowed)) \cup Touching(others, allowed)
    PROVE  rels \ Touching(rels, allowed) = links \ Touching(links, allowed)
BY DEF Touching

\* What is saved is in scope, whatever document the corrections made of the answer.
LEMMA SavedInScope ==
    ASSUME NEW answer, NEW new, NEW others, NEW allowed, NEW T, NEW links,
           registry \in Registries,
           T = Preserve(db.tables, Restored(new, answer, allowed), allowed),
           links = (db.rels \ Touching(db.rels, allowed)) \cup Touching(others, allowed),
           db' = Mapped(Document(T, links), registry),
           asked' = [tables |-> allowed, cells |-> Mentioned(answer)]
    PROVE  InScope
<1> DEFINE S == db'.tables
           own == OwnerCells(DOMAIN T, registry)
<1>1. S = FeatureMappings(T, registry) /\ db'.rels = links
  BY DEF Mapped, Document
<1>2. Same(T, S, own)
  BY <1>1, MappingsSame, ContractsAreFormed
<1>3. DOMAIN S = DOMAIN T
  BY <1>2 DEF Same
<1>4. OwnerCells(DOMAIN db'.tables, registry) = own
  BY <1>3
<1>5. asked'.tables = allowed /\ asked'.cells = Mentioned(answer)
  OBVIOUS
<1>6. /\ (DOMAIN db.tables) \ allowed = (DOMAIN T) \ allowed
      /\ \A t \in DOMAIN T \ allowed : T[t] = db.tables[t]
      /\ \A t \in DOMAIN T \cap DOMAIN db.tables \cap allowed :
           \A c \in DOMAIN db.tables[t].cols \cap Columns :
              <<t, c>> \notin Mentioned(answer) =>
                 c \in DOMAIN T[t].cols /\ T[t].cols[c] = db.tables[t].cols[c]
  BY PreservedTables
<1> HIDE DEF S, own
<1>7. ASSUME NEW t \in DOMAIN T, NEW c, <<t, c>> \notin own
      PROVE  /\ c \in DOMAIN S[t].cols <=> c \in DOMAIN T[t].cols
             /\ c \in DOMAIN T[t].cols => S[t].cols[c] = T[t].cols[c]
  BY <1>2, <1>7 DEF Same
<1>8. ASSUME NEW t \in DOMAIN db.tables, NEW c \in Columns, c \in DOMAIN db.tables[t].cols,
             <<t, c>> \notin own, t \in DOMAIN S,
             ~(t \in allowed /\ <<t, c>> \in Mentioned(answer))
      PROVE  c \in DOMAIN S[t].cols /\ S[t].cols[c] = db.tables[t].cols[c]
  <2>1. t \in DOMAIN T
    BY <1>3, <1>8
  <2>2. c \in DOMAIN T[t].cols /\ T[t].cols[c] = db.tables[t].cols[c]
    BY <1>6, <1>8, <2>1
  <2> QED
    BY <1>7, <1>8, <2>1, <2>2
<1>9. ASSUME NEW t \in DOMAIN S, NEW c \in Columns, c \in DOMAIN S[t].cols,
             <<t, c>> \notin own, t \notin allowed
      PROVE  t \in DOMAIN db.tables /\ c \in DOMAIN db.tables[t].cols
  BY <1>3, <1>6, <1>7, <1>9
<1>10. \A U : \A p : p \in Cells(U) <=>
          \E t \in DOMAIN U, c \in Columns : p = <<t, c>> /\ c \in DOMAIN U[t].cols
  BY DEF Cells, Has
<1>11. \A p \in Cells(db.tables) \ OwnerCells(DOMAIN db'.tables, registry) :
         p[1] \in DOMAIN S /\ ~(p[1] \in allowed /\ p \in Mentioned(answer)) =>
           p \in Cells(S) /\ S[p[1]].cols[p[2]] = db.tables[p[1]].cols[p[2]]
  BY <1>4, <1>8, <1>10
<1>12. \A p \in Cells(S) \ (Cells(db.tables) \cup OwnerCells(DOMAIN db'.tables, registry)) : p[1] \in allowed
  BY <1>4, <1>9, <1>10
<1>13. db.rels \ Touching(db.rels, allowed) = links \ Touching(links, allowed)
  BY KeptLinks
<1>14. (DOMAIN db.tables) \ allowed = (DOMAIN S) \ allowed
  BY <1>3, <1>6
<1> QED
  BY <1>1, <1>5, <1>11, <1>12, <1>13, <1>14 DEF InScope, S

LEMMA ApplyRepairInScope ==
    ASSUME NEW answer, NEW rels, NEW allowed, registry \in Registries,
           Answered(answer, rels, allowed), db' # db
    PROVE  InScope
<1> DEFINE S == Patched(answer, allowed)
           kept == (db.rels \ Touching(db.rels, allowed)) \cup Touching(rels, allowed)
           checked == Recorrected(S, Relationships(kept, S), registry)
           new == checked.doc.tables
           others == checked.doc.rels
           T == Preserve(db.tables, Restored(new, answer, allowed), allowed)
           links == (db.rels \ Touching(db.rels, allowed)) \cup Touching(others, allowed)
<1>1. ApplyRepair(answer, rels, allowed) /\ asked' = [tables |-> allowed, cells |-> Mentioned(answer)]
  BY DEF Answered
<1>2. db' = Mapped(Document(T, links), registry)
  BY <1>1 DEF ApplyRepair, Reject
<1> HIDE DEF new, others
<1> QED
  BY <1>1, <1>2, SavedInScope

-----------------------------------------------------------------------------
(* The specification *)

KnownContract == registry \in Registries /\ repairs \in Nat

LEMMA ContractStays == Spec => []KnownContract
<1>1. Init => KnownContract
  BY DEF Init, KnownContract
<1>2. KnownContract /\ [Next]_vars => KnownContract'
  <2> SUFFICES ASSUME KnownContract, [Next]_vars
               PROVE  registry' = registry /\ repairs' \in {repairs, repairs + 1}
    BY DEF KnownContract
  <2>1. CASE UNCHANGED vars
    BY <2>1 DEF vars
  <2>2. CASE NothingToStore \/ Plan \/ NoBaseline
    BY <2>2 DEF NothingToStore, Plan, NoBaseline
  <2>3. CASE PlanFails \/ Finish
    BY <2>3 DEF PlanFails, Finish
  <2>4. ASSUME NEW t \in Names, Worker(t) PROVE registry' = registry /\ repairs' = repairs
    BY <2>4 DEF Worker
  <2>5. ASSUME NEW feedback \in Feedbacks, Repair(feedback)
        PROVE  registry' = registry /\ repairs' = repairs + 1
    <3>1. repairs' = repairs + 1
      BY <2>5 DEF Repair
    <3>2. ASSUME NEW answer, NEW rels, NEW allowed, ApplyRepair(answer, rels, allowed)
          PROVE  registry' = registry
      BY <3>2 DEF ApplyRepair, Reject
    <3>3. ASSUME NEW allowed, Unanswered(allowed) PROVE registry' = registry
      BY <3>3 DEF Unanswered, Reject
    <3> QED
      BY <2>5, <3>1, <3>2, <3>3 DEF Repair, Answered
  <2> QED
    BY <2>1, <2>2, <2>3, <2>4, <2>5 DEF Next
<1> QED
  BY <1>1, <1>2, PTL DEF Spec

LEMMA StepInScope ==
    ASSUME KnownContract, [Next]_vars, db' # db, repairs' > repairs
    PROVE  InScope
<1>1. CASE \E feedback \in Feedbacks : Repair(feedback)
  <2>1. PICK feedback \in Feedbacks : Repair(feedback)
    BY <1>1
  <2> DEFINE allowed == Allowed(feedback.targets)
  <2>2. \E answer \in Patches : \E rels \in {db.rels, {}} :
          Answered([t \in DOMAIN answer |-> Scoped(answer, t, feedback.named)], rels, allowed)
    BY <2>1 DEF Repair, Unanswered, Reject
  <2> QED
    BY <2>2, ApplyRepairInScope DEF KnownContract
<1>2. CASE ~\E feedback \in Feedbacks : Repair(feedback)
  <2>1. repairs' = repairs \/ db' = db
    BY <1>2 DEF Next, vars, NothingToStore, Plan, PlanFails, Finish, NoBaseline, Worker
  <2>2. ~(repairs > repairs)
    BY DEF KnownContract
  <2> QED
    BY <2>1, <2>2
<1> QED
  BY <1>1, <1>2

(* A repair changes the tables, columns and relationships it was told to, and but for an *)
(* owner's key no other - whatever the corrections of the whole schema made of its answer. *)
THEOREM RepairsStayInScope == Spec => RepairStaysInScope
<1>1. KnownContract /\ [Next]_vars => [db' # db /\ repairs' > repairs => InScope]_vars
  BY StepInScope
<1> QED
  BY <1>1, ContractStays, PTL DEF Spec, RepairStaysInScope, InScope

-----------------------------------------------------------------------------
(* The tables of the contract *)

\* Most passes change tables but neither add nor remove one.
LEMMA PassesKeepTables ==
    ASSUME NEW S, NEW R
    PROVE  /\ DOMAIN Sanitize(S) = DOMAIN S
           /\ DOMAIN PrimaryKeys(S) = DOMAIN S
           /\ DOMAIN SpecialReferences(S) = DOMAIN S
           /\ DOMAIN ForeignKeys(S, R) = DOMAIN S
           /\ DOMAIN Indexes(S) = DOMAIN S
           /\ DOMAIN ReconcileTypes(S) = DOMAIN S
           /\ DOMAIN ExplicitFields(S, R) = DOMAIN S
<1>1. \A T : DOMAIN Once(T) = DOMAIN T
  BY DEF Once
<1>2. DOMAIN Sanitize(S) = DOMAIN S
  BY <1>1 DEF Sanitize, EachTable
<1>3. DOMAIN PrimaryKeys(S) = DOMAIN S
  BY <1>1 DEF PrimaryKeys, EachTable
<1>4. \A T : DOMAIN SpecialReferences(T) = DOMAIN T
  BY <1>1 DEF SpecialReferences, EachColumn
<1>5. DOMAIN ForeignKeys(S, R) = DOMAIN S
  BY <1>1 DEF ForeignKeys, EachColumn
<1>6. \A T : DOMAIN Indexes(T) = DOMAIN T
  BY <1>1 DEF Indexes, EachTable
<1>7. DOMAIN ReconcileTypes(S) = DOMAIN S
  BY <1>1, <1>4, <1>6 DEF ReconcileTypes, EachColumn
<1>8. DOMAIN ExplicitFields(S, R) = DOMAIN S
  BY <1>1 DEF ExplicitFields, EachTable
<1> QED
  BY <1>2, <1>3, <1>4, <1>5, <1>6, <1>7, <1>8

\* Only revisions are merged away.
LEMMA MergeKeepsBases ==
    ASSUME NEW S, NEW t \in DOMAIN S, BaseName[t] = t
    PROVE  t \in DOMAIN MergeRevisions(S)
<1>1. DOMAIN MergeRevisions(S) = (DOMAIN S) \ Revisions(S)
  BY DEF MergeRevisions, EachTable, Once
<1> QED
  BY <1>1 DEF Revisions

\* The self-check returns the tables of the contract, be it that a malformed one ended it.
LEMMA SelfCheckStores ==
    ASSUME NEW S, NEW rels, NEW R, Lasting(R) \subseteq DOMAIN S
    PROVE  Lasting(R) \subseteq DOMAIN SelfCheck(S, rels, R).doc.tables
<1>1. CASE Malformed(S) = {} /\ Complete(R)
  <2> DEFINE P == Indexes(Projected(S, R))
  <2>1. SelfCheck(S, rels, R).doc.tables = P
    BY <1>1 DEF SelfCheck, Checked, Document
  <2>2. DOMAIN Projected(S, R) = Declared(R)
    BY DEF Projected, EachTable, Once
  <2>3. DOMAIN P = Declared(R)
    BY <2>2, PassesKeepTables
  <2> QED
    BY <2>1, <2>3 DEF Lasting
<1>2. CASE Malformed(S) = {} /\ ~Complete(R)
  <2> DEFINE A == Sanitize(S)
             N == ContractTables(CanonicalNames(A, R), R)
             B == MergeRevisions(N)
             C == Indexes(ReconcileTypes(ForeignKeys(SpecialReferences(PrimaryKeys(B)), R)))
             D == ReconcileTypes(ExplicitFields(C, R))
  <2>1. SelfCheck(S, rels, R).doc.tables = D
    BY <1>2 DEF SelfCheck, Checked, Document
  <2>2. DOMAIN D = DOMAIN B
    <3> DEFINE K == PrimaryKeys(B)
               L == SpecialReferences(K)
               F == ForeignKeys(L, R)
               T == ReconcileTypes(F)
               X == ExplicitFields(C, R)
    <3>1. DOMAIN K = DOMAIN B
      BY PassesKeepTables
    <3>2. DOMAIN L = DOMAIN K
      BY PassesKeepTables
    <3>3. DOMAIN F = DOMAIN L
      BY PassesKeepTables
    <3>4. DOMAIN T = DOMAIN F
      BY PassesKeepTables
    <3>5. DOMAIN C = DOMAIN T
      BY PassesKeepTables
    <3>6. DOMAIN X = DOMAIN C
      BY PassesKeepTables
    <3>7. DOMAIN D = DOMAIN X
      BY PassesKeepTables
    <3> QED
      BY <3>1, <3>2, <3>3, <3>4, <3>5, <3>6, <3>7
  <2>3. Declared(R) \subseteq DOMAIN N
    BY DEF ContractTables
  <2> HIDE DEF N, D
  <2> QED
    BY <1>2, <2>1, <2>2, <2>3, MergeKeepsBases DEF Lasting
<1>3. CASE Malformed(S) # {}
  BY <1>3 DEF SelfCheck, Checked, Document
<1> QED
  BY <1>1, <1>2, <1>3

\* Once the schema has every table of the contract, no table is renamed.
LEMMA NamesAreKept ==
    ASSUME NEW S, NEW R, Declared(R) \subseteq DOMAIN S
    PROVE  /\ \A t \in DOMAIN S : NewName(S, R, t) = t
           /\ \A x : Renamed(S, R, x) = x
<1>1. ASSUME NEW t PROVE Alias(S, R, t) = t
  <2> DEFINE c == Unique(Means[t] \cap Declared(R))
  <2>1. c = None \/ c \in Declared(R)
    BY DEF Unique
  <2> QED
    BY <2>1 DEF Alias
<1> QED
  BY <1>1 DEF NewName, Renamed

\* What the corrections hand to the self-check has the tables of the contract.
LEMMA MergeStores ==
    ASSUME NEW S, NEW R, Declared(R) \subseteq DOMAIN S
    PROVE  Lasting(R) \subseteq DOMAIN MergeRevisions(S)
BY MergeKeepsBases DEF Lasting

LEMMA RenamedStores ==
    ASSUME NEW S, NEW R, Declared(R) \subseteq DOMAIN S
    PROVE  Declared(R) \subseteq DOMAIN CanonicalNames(S, R)
<1>1. \A t \in DOMAIN S : NewName(S, R, t) = t
  BY NamesAreKept
<1>2. DOMAIN CanonicalNames(S, R) = {NewName(S, R, t) : t \in DOMAIN S}
  BY DEF CanonicalNames, EachTable, Once
<1> QED
  BY <1>1, <1>2

LEMMA DesignsKeepTables ==
    ASSUME NEW S, NEW R
    PROVE  DOMAIN DomainTypes(S) = DOMAIN S /\ DOMAIN SchemaContracts(S, R) = DOMAIN S
<1>1. \A T : DOMAIN Once(T) = DOMAIN T
  BY DEF Once
<1>2. DOMAIN DomainTypes(S) = DOMAIN S
  BY <1>1 DEF DomainTypes, EachColumn
<1>3. PICK P : P = PrdColumns(S, R)
  OBVIOUS
<1>4. PICK M, E : /\ M = OwnMutableState(P)
                  /\ E = EventsPointAtAggregates(M, Events(P), [a \in Aggregates(P) |-> Catalogs(P, a)])
  OBVIOUS
<1>5. DOMAIN P = DOMAIN S
  BY <1>1, <1>3 DEF PrdColumns, EachTable
<1>6. DOMAIN M = DOMAIN P
  BY <1>1, <1>4 DEF OwnMutableState, EachTable
<1>7. DOMAIN E = DOMAIN M
  BY <1>1, <1>4 DEF EventsPointAtAggregates, EachTable
<1>8. DOMAIN SchemaContracts(S, R) = DOMAIN E
  BY <1>1, <1>3, <1>4 DEF SchemaContracts, EachTable
<1> QED
  BY <1>2, <1>5, <1>6, <1>7, <1>8

LEMMA CorrectedStores ==
    ASSUME NEW S, NEW rels, NEW R \in Registries
    PROVE  \E T, links : Corrected(S, rels, R) = SelfCheck(T, links, R) /\ Lasting(R) \subseteq DOMAIN T
<1>1. PICK N, A, B, F, Y, E, C, M, T :
        /\ N = ContractTables(CanonicalNames(S, R), R) /\ A = Sanitize(N)
        /\ B = MergeRevisions(CanonicalNames(A, R)) /\ F = ForeignKeys(PrimaryKeys(B), R)
        /\ Y = DomainTypes(F) /\ E = SchemaContracts(Y, R) /\ C = ReconcileTypes(E)
        /\ M = FeatureMappings(C, R) /\ T = ReconcileTypes(M)
  OBVIOUS
<1>2. Declared(R) \subseteq DOMAIN A
  BY <1>1, PassesKeepTables DEF ContractTables
<1>3. Lasting(R) \subseteq DOMAIN B
  BY <1>1, <1>2, RenamedStores, MergeStores
<1>4. DOMAIN F = DOMAIN B
  <2>1. DOMAIN PrimaryKeys(B) = DOMAIN B
    BY PassesKeepTables
  <2> QED
    BY <1>1, <2>1, PassesKeepTables
<1>5. DOMAIN E = DOMAIN Y /\ DOMAIN Y = DOMAIN F
  BY <1>1, DesignsKeepTables
<1>6. DOMAIN C = DOMAIN E
  BY <1>1, PassesKeepTables
<1>7. DOMAIN M = DOMAIN C
  BY <1>1, ContractsAreFormed, MappingsSame DEF Same
<1>8. DOMAIN T = DOMAIN M
  BY <1>1, PassesKeepTables
<1>9. \E links : Corrected(S, rels, R) = SelfCheck(T, links, R)
  BY <1>1 DEF Corrected
<1> QED
  BY <1>3, <1>4, <1>5, <1>6, <1>7, <1>8, <1>9

LEMMA RecorrectedStores ==
    ASSUME NEW S, NEW rels, NEW R \in Registries
    PROVE  \E T, links : Recorrected(S, rels, R) = SelfCheck(T, links, R) /\ Lasting(R) \subseteq DOMAIN T
<1>1. PICK A, N, B, M, C :
        /\ A = PrimaryKeys(MergeRevisions(Sanitize(S))) /\ N = ContractTables(CanonicalNames(A, R), R)
        /\ B = ForeignKeys(N, R) /\ M = FeatureMappings(B, R) /\ C = ReconcileTypes(M)
  OBVIOUS
<1>2. Lasting(R) \subseteq DOMAIN N
  BY <1>1 DEF ContractTables, Lasting
<1>3. DOMAIN B = DOMAIN N
  BY <1>1, PassesKeepTables
<1>4. DOMAIN M = DOMAIN B
  BY <1>1, ContractsAreFormed, MappingsSame DEF Same
<1>5. DOMAIN C = DOMAIN M
  BY <1>1, PassesKeepTables
<1>6. \E links : Recorrected(S, rels, R) = SelfCheck(C, links, R)
  BY <1>1 DEF Recorrected
<1> QED
  BY <1>2, <1>3, <1>4, <1>5, <1>6

\* Neither do the mappings that follow it.
LEMMA MappedStores ==
    ASSUME NEW S, NEW rels, NEW R \in Registries, Lasting(R) \subseteq DOMAIN S,
           NEW doc, doc = Document(S, rels)
    PROVE  Lasting(R) \subseteq DOMAIN Mapped(doc, R).tables
<1>1. Mapped(doc, R).tables = FeatureMappings(S, R)
  BY DEF Mapped, Document
<1>2. DOMAIN FeatureMappings(S, R) = DOMAIN S
  BY ContractsAreFormed, MappingsSame DEF Same
<1> QED
  BY <1>1, <1>2

LEMMA SaveStores ==
    ASSUME NEW S, NEW rels, NEW extra, registry \in Registries, Lasting(registry) \subseteq DOMAIN S,
           Save(SelfCheck(S, rels, registry), extra)
    PROVE  Lasting(registry) \subseteq DOMAIN db'.tables
<1> DEFINE doc == SelfCheck(S, rels, registry).doc
<1>1. db' = Mapped(Normalized(doc), registry)
  BY DEF Save
<1>2. \E T, links : doc = Document(T, links)
  BY DEF SelfCheck, Checked
<1>3. PICK T, links : doc = Document(T, links)
  BY <1>2
<1>4. doc.tables = T
  BY <1>3 DEF Document
<1>5. Lasting(registry) \subseteq DOMAIN T
  BY <1>4, SelfCheckStores
<1>6. Normalized(doc) = Document(T, Relationships(links, T))
  BY <1>3 DEF Normalized, Document
<1> QED
  BY <1>1, <1>5, <1>6, MappedStores

\* A repair puts back what it was not allowed to touch, and of the rest it saves what the
\* self-check returned.
LEMMA RepairStores ==
    ASSUME NEW answer, NEW rels, NEW allowed, registry \in Registries,
           ApplyRepair(answer, rels, allowed), Lasting(registry) \subseteq DOMAIN db.tables
    PROVE  Lasting(registry) \subseteq DOMAIN db'.tables
<1> DEFINE S == Patched(answer, allowed)
           kept == (db.rels \ Touching(db.rels, allowed)) \cup Touching(rels, allowed)
           checked == Recorrected(S, Relationships(kept, S), registry)
           new == checked.doc.tables
           T == Preserve(db.tables, Restored(new, answer, allowed), allowed)
           links == (db.rels \ Touching(db.rels, allowed)) \cup Touching(checked.doc.rels, allowed)
<1>1. db' = db \/ db' = Mapped(Document(T, links), registry)
  BY DEF ApplyRepair, Reject
<1>2. Lasting(registry) \subseteq DOMAIN new
  BY RecorrectedStores, SelfCheckStores
<1> HIDE DEF new, links
<1>3. DOMAIN T = ((DOMAIN db.tables) \ allowed) \cup (DOMAIN new \cap allowed)
  BY DEF Preserve, Restored
<1>4. Lasting(registry) \subseteq DOMAIN T
  BY <1>2, <1>3
<1> HIDE DEF T
<1>5. Lasting(registry) \subseteq DOMAIN Mapped(Document(T, links), registry).tables
  BY <1>4, MappedStores
<1> QED
  BY <1>1, <1>5

LEMMA StepStores ==
    ASSUME KnownContract, ContractTablesStay, [Next]_vars
    PROVE  ContractTablesStay'
<1> SUFFICES ASSUME phase' = "done" PROVE Lasting(registry)' \subseteq DOMAIN db'.tables
  BY DEF ContractTablesStay
<1> USE DEF KnownContract
<1>1. CASE UNCHANGED vars
  BY <1>1 DEF vars, ContractTablesStay, Lasting
<1>2. CASE NothingToStore
  <2>1. registry' = registry /\ Stored(registry) = {}
    BY <1>2 DEF NothingToStore
  <2>2. \A f \in DOMAIN registry.tables : registry.tables[f] = {}
    BY <2>1, ContractsAreFormed DEF Stored
  <2>3. Lasting(registry)' = {}
    BY <2>1, <2>2 DEF Lasting, Declared
  <2> QED
    BY <2>3
<1>3. CASE PlanFails
  <2>1. registry' = registry
    BY <1>3 DEF PlanFails
  <2> QED
    BY <1>3, <2>1, CorrectedStores, SaveStores DEF PlanFails
<1>4. CASE Finish
  <2>1. registry' = registry
    BY <1>4 DEF Finish
  <2> QED
    BY <1>4, <2>1, CorrectedStores, SaveStores DEF Finish
<1>5. ASSUME NEW feedback \in Feedbacks, Repair(feedback)
      PROVE  Lasting(registry)' \subseteq DOMAIN db'.tables
  <2> DEFINE allowed == Allowed(feedback.targets)
  <2>1. phase = "done" /\ Lasting(registry) \subseteq DOMAIN db.tables
    BY <1>5 DEF Repair, ContractTablesStay
  <2>2. CASE Unanswered(allowed)
    <3>1. db' = db /\ registry' = registry
      BY <2>2 DEF Unanswered, Reject
    <3> QED
      BY <2>1, <3>1 DEF Lasting
  <2>3. ASSUME NEW answer, NEW rels, ApplyRepair(answer, rels, allowed)
        PROVE  Lasting(registry)' \subseteq DOMAIN db'.tables
    <3>1. registry' = registry
      BY <2>3 DEF ApplyRepair, Reject
    <3> QED
      BY <2>1, <2>3, <3>1, RepairStores
  <2> QED
    BY <1>5, <2>2, <2>3 DEF Repair, Answered
<1>6. CASE Plan \/ NoBaseline \/ \E t \in Names : Worker(t)
  BY <1>6 DEF Plan, NoBaseline, Worker
<1> QED
  BY <1>1, <1>2, <1>3, <1>4, <1>5, <1>6 DEF Next

(* For any contracts, designs, patches and number of repairs: the saved document has every table *)
(* of the contract whose name is no revision's (_ensure_contract_tables in execute, in           *)
(* dba_self_check and in _apply_repair), also when a malformed table ends the self-check.        *)
THEOREM ContractTablesAreStored == Spec => []ContractTablesStay
<1>1. Init => ContractTablesStay
  BY DEF Init, ContractTablesStay
<1> QED
  BY <1>1, StepStores, ContractStays, PTL DEF Spec

-----------------------------------------------------------------------------
(* The fallback *)

\* Once an approval is taken away it does not come back, and only a run whose plan failed has
\* no plan at its end.
ApprovalInv ==
    /\ phase \in {"plan", "work", "done"}
    /\ phase = "plan" => plan = {}
    /\ phase = "work" => plan # {}
    /\ FallbackIsNeverApproved

LEMMA StepApproval ==
    ASSUME ApprovalInv, [Next]_vars
    PROVE  ApprovalInv'
<1> USE DEF ApprovalInv, FallbackIsNeverApproved
<1>1. CASE UNCHANGED vars
  BY <1>1 DEF vars
<1>2. CASE NothingToStore
  BY <1>2 DEF NothingToStore
<1>3. CASE Plan
  <2>1. plan' # {}
    BY <1>3, AnswersAreTables DEF Plan, Complete
  <2> QED
    BY <1>3, <2>1 DEF Plan
<1>4. CASE PlanFails
  <2>1. ~approved'
    BY <1>4 DEF PlanFails, Save, Verdict
  <2> QED
    BY <1>4, <2>1 DEF PlanFails
<1>5. CASE Finish
  BY <1>5 DEF Finish
<1>6. CASE NoBaseline
  BY <1>6 DEF NoBaseline
<1>7. ASSUME NEW t \in Names, Worker(t) PROVE ApprovalInv'
  BY <1>7 DEF Worker
<1>8. ASSUME NEW feedback \in Feedbacks, Repair(feedback) PROVE ApprovalInv'
  <2>1. ASSUME NEW answer, NEW rels, NEW allowed, ApplyRepair(answer, rels, allowed)
        PROVE  UNCHANGED <<registry, phase, plan>> /\ (approved' => approved)
    BY <2>1 DEF ApplyRepair, Reject, Verdict
  <2>2. ASSUME NEW allowed, Unanswered(allowed)
        PROVE  UNCHANGED <<registry, phase, plan>> /\ (approved' => approved)
    BY <2>2 DEF Unanswered, Reject
  <2>3. UNCHANGED <<registry, phase, plan>> /\ (approved' => approved)
    BY <1>8, <2>1, <2>2 DEF Repair, Answered
  <2> QED
    BY <2>3
<1> QED
  BY <1>1, <1>2, <1>3, <1>4, <1>5, <1>6, <1>7, <1>8 DEF Next

(* A schema made without the workers is never approved, for any number and outcome of repairs: *)
(* the self-check that finds nothing clears its blocker, not the verdict (_apply_repair).      *)
THEOREM FallbackStaysUnapproved == Spec => []FallbackIsNeverApproved
<1>1. Init => ApprovalInv
  BY DEF Init, ApprovalInv, FallbackIsNeverApproved
<1>2. ApprovalInv => FallbackIsNeverApproved
  BY DEF ApprovalInv
<1> QED
  BY <1>1, <1>2, StepApproval, PTL DEF Spec

-----------------------------------------------------------------------------
(* Schemas.  Every pass makes a schema of a schema. *)

IsSchema(S) ==
    /\ S = [t \in DOMAIN S |-> S[t]]
    /\ DOMAIN S \subseteq Names
    /\ \A t \in DOMAIN S : IsTable(S[t])

LEMMA ColumnIs ==
    ASSUME NEW ty, NEW key, NEW to
    PROVE  /\ Column(ty, key, to).type = ty /\ Column(ty, key, to).pk = key /\ Column(ty, key, to).ref = to
           /\ IsColumn(Column(ty, key, to))
BY DEF Column, IsColumn

LEMMA ColumnExcept ==
    ASSUME NEW c, IsColumn(c), NEW x
    PROVE  /\ [c EXCEPT !.type = x] = Column(x, c.pk, c.ref)
           /\ [c EXCEPT !.pk = x] = Column(c.type, x, c.ref)
           /\ [c EXCEPT !.ref = x] = Column(c.type, c.pk, x)
<1>1. PICK a, b, d : c = [type |-> a, pk |-> b, ref |-> d]
  BY DEF IsColumn, Column
<1>2. [c EXCEPT !.type = x] = [type |-> x, pk |-> b, ref |-> d]
  BY <1>1
<1>3. [c EXCEPT !.pk = x] = [type |-> a, pk |-> x, ref |-> d]
  BY <1>1
<1>4. [c EXCEPT !.ref = x] = [type |-> a, pk |-> b, ref |-> x]
  BY <1>1
<1> QED
  BY <1>1, <1>2, <1>3, <1>4 DEF Column

LEMMA TableExcept ==
    ASSUME NEW t, IsTable(t), NEW x
    PROVE  /\ [t EXCEPT !.cols = x] = [cols |-> x, idx |-> t.idx, formed |-> t.formed]
           /\ [t EXCEPT !.idx = x] = [cols |-> t.cols, idx |-> x, formed |-> t.formed]
<1>1. PICK a, b, d : t = [cols |-> a, idx |-> b, formed |-> d]
  BY DEF IsTable
<1> QED
  BY <1>1

LEMMA MinimalIs ==
    /\ IsTable(Minimal) /\ Has(Minimal) = {Id} /\ Minimal.idx = {} /\ Minimal.formed = TRUE
    /\ Minimal.cols = [c \in {Id} |-> Column(KeyType, TRUE, None)]
BY KeysAreColumns DEF Minimal, IsTable, IsColumn, Has, Column

\* A table put together from columns is a table.
LEMMA TableOf ==
    ASSUME NEW D, D \subseteq Columns, NEW f, NEW ix, NEW fm \in BOOLEAN, f = [c \in D |-> f[c]],
           \A c \in D : IsColumn(f[c])
    PROVE  LET u == [cols |-> f, idx |-> ix, formed |-> fm] IN IsTable(u) /\ Has(u) = D
BY DEF IsTable, Has

\* A table with other indexes is a table.
LEMMA TableIndexed ==
    ASSUME NEW t, IsTable(t), NEW ix, NEW fm \in BOOLEAN, NEW u,
           u = [cols |-> t.cols, idx |-> ix, formed |-> fm]
    PROVE  IsTable(u) /\ Has(u) = Has(t) /\ u.cols = t.cols /\ u.idx = ix /\ u.formed = fm
BY DEF IsTable, Has

LEMMA KnownIs ==
    ASSUME NEW t, IsTable(t)
    PROVE  KnownIndexes(t) = [cols |-> t.cols, idx |-> t.idx \cap Has(t), formed |-> t.formed]
BY TableExcept DEF KnownIndexes

\* A pass that computes each column makes a table of a table.
LEMMA ColumnTable ==
    ASSUME NEW s, IsTable(s), NEW u, u = [cols |-> u.cols, idx |-> s.idx, formed |-> s.formed],
           u.cols = [c \in Has(s) |-> u.cols[c]], \A c \in Has(s) : IsColumn(u.cols[c])
    PROVE  IsTable(u) /\ Has(u) = Has(s) /\ u.idx = s.idx /\ u.formed = s.formed
<1>1. PICK f : u = [cols |-> f, idx |-> s.idx, formed |-> s.formed] /\ f = [c \in Has(s) |-> f[c]] /\ \A c \in Has(s) : IsColumn(f[c])
  OBVIOUS
<1>2. Has(s) \subseteq Columns /\ s.formed \in BOOLEAN
  BY DEF IsTable
<1> QED
  BY <1>1, <1>2, TableOf

LEMMA SpecialIs ==
    ASSUME NEW S, IsSchema(S), NEW T, T = SpecialReferences(S)
    PROVE  /\ IsSchema(T) /\ DOMAIN T = DOMAIN S
           /\ \A t \in DOMAIN S :
                /\ Has(T[t]) = Has(S[t]) /\ T[t].idx = S[t].idx /\ T[t].formed = S[t].formed
                /\ \A c \in Has(S[t]) :
                     /\ c \in External => T[t].cols[c] = Column(S[t].cols[c].type, S[t].cols[c].pk, None)
                     /\ c \notin External => T[t].cols[c] = S[t].cols[c]
<1>1. T = [t \in DOMAIN S |->
             [cols |-> [c \in Has(S[t]) |-> IF c \in External THEN [S[t].cols[c] EXCEPT !.ref = None] ELSE S[t].cols[c]],
              idx |-> S[t].idx, formed |-> S[t].formed]]
  BY DEF SpecialReferences, EachColumn, Once
<1>2. ASSUME NEW t \in DOMAIN S, NEW c \in Has(S[t])
      PROVE  /\ IsColumn(T[t].cols[c])
             /\ c \in External => T[t].cols[c] = Column(S[t].cols[c].type, S[t].cols[c].pk, None)
             /\ c \notin External => T[t].cols[c] = S[t].cols[c]
  <2>1. IsColumn(S[t].cols[c])
    BY DEF IsSchema, IsTable
  <2>2. [S[t].cols[c] EXCEPT !.ref = None] = Column(S[t].cols[c].type, S[t].cols[c].pk, None)
    BY <2>1, ColumnExcept
  <2> QED
    BY <1>1, <2>1, <2>2, ColumnIs
<1>3. ASSUME NEW t \in DOMAIN S
      PROVE  IsTable(T[t]) /\ Has(T[t]) = Has(S[t]) /\ T[t].idx = S[t].idx /\ T[t].formed = S[t].formed
  <2>1. /\ T[t] = [cols |-> T[t].cols, idx |-> S[t].idx, formed |-> S[t].formed]
        /\ T[t].cols = [c \in Has(S[t]) |-> T[t].cols[c]]
        /\ \A c \in Has(S[t]) : IsColumn(T[t].cols[c])
    BY <1>1, <1>2
  <2>2. IsTable(S[t])
    BY DEF IsSchema
  <2> QED
    BY <2>1, <2>2, ColumnTable
<1>4. T = [t \in DOMAIN S |-> T[t]]
  BY <1>1
<1> QED
  BY <1>2, <1>3, <1>4 DEF IsSchema

\* The table a key column of t is to reference.
FkRef(S, R, t, c) ==
    LET target == IF DeclaredTarget(R, t, c) # None
                  THEN IF DeclaredTarget(R, t, c) \in DOMAIN S THEN DeclaredTarget(R, t, c) ELSE None
                  ELSE FkTarget(S, c)
    IN  IF \/ target = None
           \/ DeclaredTarget(R, t, c) = None /\ (c \in External \cup {Id} \/ S[t].cols[c].ref \in DOMAIN S)
        THEN S[t].cols[c].ref ELSE target

LEMMA ForeignIs ==
    ASSUME NEW S, IsSchema(S), NEW R, NEW T, T = ForeignKeys(S, R)
    PROVE  /\ IsSchema(T) /\ DOMAIN T = DOMAIN S
           /\ \A t \in DOMAIN S :
                /\ Has(T[t]) = Has(S[t]) /\ T[t].idx = S[t].idx /\ T[t].formed = S[t].formed
                /\ \A c \in Has(S[t]) :
                     T[t].cols[c] = Column(S[t].cols[c].type, S[t].cols[c].pk, FkRef(S, R, t, c))
<1> DEFINE target(t, c) == IF DeclaredTarget(R, t, c) # None
                           THEN IF DeclaredTarget(R, t, c) \in DOMAIN S THEN DeclaredTarget(R, t, c) ELSE None
                           ELSE FkTarget(S, c)
           fix(t, c, col) ==
             IF \/ target(t, c) = None
                \/ DeclaredTarget(R, t, c) = None /\ (c \in External \cup {Id} \/ col.ref \in DOMAIN S)
             THEN col ELSE [col EXCEPT !.ref = target(t, c)]
<1>1. T = [t \in DOMAIN S |-> [cols |-> [c \in Has(S[t]) |-> fix(t, c, S[t].cols[c])],
                  idx |-> S[t].idx, formed |-> S[t].formed]]
  BY DEF ForeignKeys, EachColumn, Once
<1>2. ASSUME NEW t \in DOMAIN S, NEW c \in Has(S[t])
      PROVE  /\ IsColumn(T[t].cols[c])
             /\ T[t].cols[c] = Column(S[t].cols[c].type, S[t].cols[c].pk, FkRef(S, R, t, c))
  <2>1. IsColumn(S[t].cols[c])
    BY DEF IsSchema, IsTable
  <2>2. [S[t].cols[c] EXCEPT !.ref = target(t, c)] = Column(S[t].cols[c].type, S[t].cols[c].pk, target(t, c))
    BY <2>1, ColumnExcept
  <2>3. S[t].cols[c] = Column(S[t].cols[c].type, S[t].cols[c].pk, S[t].cols[c].ref)
    BY <2>1 DEF IsColumn
  <2>4. T[t].cols[c] = fix(t, c, S[t].cols[c])
    <3> HIDE DEF fix
    <3>1. T[t].cols = [d \in Has(S[t]) |-> fix(t, d, S[t].cols[d])]
      BY <1>1
    <3> QED
      BY <3>1
  <2>5. fix(t, c, S[t].cols[c]) = Column(S[t].cols[c].type, S[t].cols[c].pk, FkRef(S, R, t, c))
    BY <2>2, <2>3 DEF FkRef
  <2> QED
    BY <2>4, <2>5, ColumnIs
<1>3. ASSUME NEW t \in DOMAIN S
      PROVE  IsTable(T[t]) /\ Has(T[t]) = Has(S[t]) /\ T[t].idx = S[t].idx /\ T[t].formed = S[t].formed
  <2>1. /\ T[t] = [cols |-> T[t].cols, idx |-> S[t].idx, formed |-> S[t].formed]
        /\ T[t].cols = [c \in Has(S[t]) |-> T[t].cols[c]]
        /\ \A c \in Has(S[t]) : IsColumn(T[t].cols[c])
    BY <1>1, <1>2
  <2>2. IsTable(S[t])
    BY DEF IsSchema
  <2> QED
    BY <2>1, <2>2, ColumnTable
<1>4. T = [t \in DOMAIN S |-> T[t]]
  BY <1>1
<1> QED
  BY <1>2, <1>3, <1>4 DEF IsSchema

LEMMA DomainIs ==
    ASSUME NEW S, IsSchema(S), NEW T, T = DomainTypes(S)
    PROVE  IsSchema(T) /\ DOMAIN T = DOMAIN S
<1>1. T = [t \in DOMAIN S |->
             [cols |-> [c \in Has(S[t]) |-> [S[t].cols[c] EXCEPT !.type = NormType[S[t].cols[c].type]]],
              idx |-> S[t].idx, formed |-> S[t].formed]]
  BY DEF DomainTypes, EachColumn, Once
<1>2. ASSUME NEW t \in DOMAIN S, NEW c \in Has(S[t]) PROVE IsColumn(T[t].cols[c])
  <2>1. IsColumn(S[t].cols[c])
    BY DEF IsSchema, IsTable
  <2>2. [S[t].cols[c] EXCEPT !.type = NormType[S[t].cols[c].type]]
          = Column(NormType[S[t].cols[c].type], S[t].cols[c].pk, S[t].cols[c].ref)
    BY <2>1, ColumnExcept
  <2> QED
    BY <1>1, <2>2, ColumnIs
<1>3. ASSUME NEW t \in DOMAIN S
      PROVE  IsTable(T[t]) /\ Has(T[t]) = Has(S[t]) /\ T[t].idx = S[t].idx /\ T[t].formed = S[t].formed
  <2>1. /\ T[t] = [cols |-> T[t].cols, idx |-> S[t].idx, formed |-> S[t].formed]
        /\ T[t].cols = [c \in Has(S[t]) |-> T[t].cols[c]]
        /\ \A c \in Has(S[t]) : IsColumn(T[t].cols[c])
    BY <1>1, <1>2
  <2>2. IsTable(S[t])
    BY DEF IsSchema
  <2> QED
    BY <2>1, <2>2, ColumnTable
<1>4. T = [t \in DOMAIN S |-> T[t]]
  BY <1>1
<1> QED
  BY <1>2, <1>3, <1>4 DEF IsSchema

LEMMA IndexesIs ==
    ASSUME NEW S, IsSchema(S), NEW T, T = Indexes(S)
    PROVE  /\ IsSchema(T) /\ DOMAIN T = DOMAIN S
           /\ \A t \in DOMAIN S :
                /\ T[t].cols = S[t].cols /\ T[t].formed = S[t].formed
                /\ T[t].idx = (S[t].idx \cap Has(S[t])) \cup {c \in Has(S[t]) : S[t].cols[c].ref # None}
<1> DEFINE refs(t) == {c \in Has(S[t]) : S[t].cols[c].ref # None}
<1>1. T = [t \in DOMAIN S |-> [KnownIndexes(S[t]) EXCEPT !.idx = @ \cup refs(t)]]
  BY DEF Indexes, EachTable, Once
<1>2. ASSUME NEW t \in DOMAIN S
      PROVE  /\ IsTable(T[t]) /\ T[t].cols = S[t].cols /\ T[t].formed = S[t].formed
             /\ T[t].idx = (S[t].idx \cap Has(S[t])) \cup refs(t)
  <2>1. IsTable(S[t]) /\ S[t].formed \in BOOLEAN
    BY DEF IsSchema, IsTable
  <2>2. KnownIndexes(S[t]) = [cols |-> S[t].cols, idx |-> S[t].idx \cap Has(S[t]), formed |-> S[t].formed]
    BY <2>1, KnownIs
  <2>3. IsTable(KnownIndexes(S[t]))
    BY <2>1, <2>2, TableIndexed
  <2>4. T[t] = [cols |-> S[t].cols, idx |-> (S[t].idx \cap Has(S[t])) \cup refs(t), formed |-> S[t].formed]
    <3> DEFINE K == KnownIndexes(S[t])
    <3>1. T[t] = [K EXCEPT !.idx = K.idx \cup refs(t)]
      BY <1>1
    <3> HIDE DEF K, refs
    <3>2. T[t] = [cols |-> K.cols, idx |-> K.idx \cup refs(t), formed |-> K.formed]
      BY <2>3, <3>1, TableExcept DEF K
    <3> QED
      BY <2>2, <3>2 DEF K
  <2> HIDE DEF refs
  <2> QED
    BY <2>1, <2>4, TableIndexed
<1>3. T = [t \in DOMAIN S |-> T[t]]
  BY <1>1
<1> QED
  BY <1>2, <1>3 DEF IsSchema

\* What reconcile_fk_types makes of the column old of a table of S.
Reconciled(S, c, old, new) ==
    /\ new.pk = old.pk
    /\ c \notin External /\ old.ref # None =>
         new = IF old.ref \in Keyed(S) THEN Column(KeyTypeOf(S, old.ref), old.pk, old.ref) ELSE old
    /\ c \in External \/ old.ref = None =>
         \/ new = Column(old.type, old.pk, None)
         \/ /\ FkTarget(S, c) \in Keyed(S)
            /\ new = Column(KeyTypeOf(S, FkTarget(S, c)), old.pk, FkTarget(S, c))

LEMMA ReconcileIs ==
    ASSUME NEW S0, IsSchema(S0), NEW T, T = ReconcileTypes(S0)
    PROVE  /\ IsSchema(T) /\ DOMAIN T = DOMAIN S0
           /\ \A t \in DOMAIN S0 :
                /\ Has(T[t]) = Has(S0[t]) /\ T[t].formed = S0[t].formed
                /\ T[t].idx = (S0[t].idx \cap Has(S0[t])) \cup {c \in Has(T[t]) : T[t].cols[c].ref # None}
                /\ \A c \in Has(S0[t]) : Reconciled(S0, c, S0[t].cols[c], T[t].cols[c])
<1>0. PICK S : S = SpecialReferences(S0)
  OBVIOUS
<1> DEFINE edges == Edges(S)
           fix(t, c, col) ==
             IF col.ref # None
             THEN IF col.ref \in Keyed(S) THEN [col EXCEPT !.type = KeyTypeOf(S, col.ref)] ELSE col
             ELSE IF FkTarget(S, c) \notin Keyed(S) \/ HasPath(edges, FkTarget(S, c), t) THEN col
                  ELSE Column(KeyTypeOf(S, FkTarget(S, c)), col.pk, FkTarget(S, c))
<1>1. T = Indexes([t \in DOMAIN S |-> [cols |-> [c \in Has(S[t]) |-> fix(t, c, S[t].cols[c])],
                  idx |-> S[t].idx, formed |-> S[t].formed]])
  BY <1>0 DEF ReconcileTypes, EachColumn, Once
<1>2. PICK E : /\ T = Indexes(E)
               /\ E = [t \in DOMAIN S |-> [cols |-> [c \in Has(S[t]) |-> fix(t, c, S[t].cols[c])],
                  idx |-> S[t].idx, formed |-> S[t].formed]]
  BY <1>1
<1>3. /\ IsSchema(S) /\ DOMAIN S = DOMAIN S0
      /\ \A t \in DOMAIN S0 :
            /\ Has(S[t]) = Has(S0[t]) /\ S[t].idx = S0[t].idx /\ S[t].formed = S0[t].formed
            /\ \A c \in Has(S0[t]) :
                 /\ c \in External => S[t].cols[c] = Column(S0[t].cols[c].type, S0[t].cols[c].pk, None)
                 /\ c \notin External => S[t].cols[c] = S0[t].cols[c]
  BY <1>0, SpecialIs
<1>4. /\ Keyed(S) = Keyed(S0)
      /\ \A u \in Keyed(S0) : KeyTypeOf(S, u) = KeyTypeOf(S0, u)
      /\ \A c : FkTarget(S, c) = FkTarget(S0, c)
      /\ None \notin Keyed(S0)
  BY <1>3, KeysAreColumns, NamesAreOrdered, ColumnIs DEF Keyed, KeyTypeOf, FkTarget, IsSchema
<1> HIDE DEF edges
<1>5. ASSUME NEW t \in DOMAIN S, NEW c \in Has(S[t])
      PROVE  IsColumn(E[t].cols[c]) /\ Reconciled(S0, c, S0[t].cols[c], E[t].cols[c])
  <2> DEFINE col == S[t].cols[c]
             old == S0[t].cols[c]
  <2>1. IsColumn(col) /\ IsColumn(old)
    BY <1>3 DEF IsSchema, IsTable
  <2>2. E[t].cols[c] = fix(t, c, col)
    BY <1>2
  <2>3. \A x : [col EXCEPT !.type = x] = Column(x, col.pk, col.ref)
    BY <2>1, ColumnExcept
  <2> DEFINE x == KeyTypeOf(S, col.ref)
  <2>4. [col EXCEPT !.type = x] = Column(x, col.pk, col.ref)
    BY <2>1, ColumnExcept
  <2>5. /\ c \in External => col = Column(old.type, old.pk, None)
        /\ c \notin External => col = old
    BY <1>3
  <2> HIDE DEF col, old
  <2>6. CASE col.ref # None /\ col.ref \in Keyed(S)
    <3>1. E[t].cols[c] = Column(x, col.pk, col.ref)
      BY <2>2, <2>4, <2>6
    <3>2. c \notin External /\ col = old
      BY <2>5, <2>6, ColumnIs
    <3> QED
      BY <1>4, <2>6, <3>1, <3>2, ColumnIs DEF Reconciled, old
  <2>7. CASE col.ref # None /\ col.ref \notin Keyed(S)
    <3>1. E[t].cols[c] = col
      BY <2>2, <2>7
    <3>2. c \notin External /\ col = old
      BY <2>5, <2>7, ColumnIs
    <3> QED
      BY <1>4, <2>1, <2>7, <3>1, <3>2 DEF Reconciled, old
  <2>8. CASE col.ref = None /\ (FkTarget(S, c) \notin Keyed(S) \/ HasPath(edges, FkTarget(S, c), t))
    <3>1. E[t].cols[c] = col
      BY <2>2, <2>8
    <3>2. col = Column(old.type, old.pk, None) /\ (c \in External \/ old.ref = None)
      BY <2>1, <2>5, <2>8 DEF IsColumn
    <3>3. col.pk = old.pk
      BY <3>2, ColumnIs
    <3> QED
      BY <3>1, <3>2, <3>3, ColumnIs DEF Reconciled, old
  <2>9. CASE col.ref = None /\ ~(FkTarget(S, c) \notin Keyed(S) \/ HasPath(edges, FkTarget(S, c), t))
    <3>1. E[t].cols[c] = Column(KeyTypeOf(S, FkTarget(S, c)), col.pk, FkTarget(S, c))
      BY <2>2, <2>9
    <3>2. FkTarget(S, c) \in Keyed(S0) /\ FkTarget(S, c) = FkTarget(S0, c)
      BY <1>4, <2>9
    <3>3. KeyTypeOf(S, FkTarget(S, c)) = KeyTypeOf(S0, FkTarget(S0, c))
      BY <1>4, <3>2
    <3>4. col.pk = old.pk /\ (c \in External \/ old.ref = None)
      BY <2>5, <2>9, ColumnIs
    <3> QED
      BY <2>9, <3>1, <3>2, <3>3, <3>4, ColumnIs DEF Reconciled, old
  <2> QED
    BY <2>6, <2>7, <2>8, <2>9
<1> HIDE DEF fix
<1>6. ASSUME NEW t \in DOMAIN S
      PROVE  IsTable(E[t]) /\ Has(E[t]) = Has(S[t]) /\ E[t].idx = S[t].idx /\ E[t].formed = S[t].formed
  <2>1. /\ E[t] = [cols |-> E[t].cols, idx |-> S[t].idx, formed |-> S[t].formed]
        /\ E[t].cols = [c \in Has(S[t]) |-> E[t].cols[c]]
        /\ \A c \in Has(S[t]) : IsColumn(E[t].cols[c])
    BY <1>2, <1>5
  <2>2. IsTable(S[t])
    BY <1>3 DEF IsSchema
  <2> QED
    BY <2>1, <2>2, ColumnTable
<1>7. E = [t \in DOMAIN S |-> E[t]]
  BY <1>2
<1>8. /\ IsSchema(E) /\ DOMAIN E = DOMAIN S
      /\ \A t \in DOMAIN S : Has(E[t]) = Has(S[t]) /\ E[t].idx = S[t].idx /\ E[t].formed = S[t].formed
  BY <1>3, <1>6, <1>7 DEF IsSchema
<1>9. /\ IsSchema(T) /\ DOMAIN T = DOMAIN E
      /\ \A t \in DOMAIN E :
            /\ T[t].cols = E[t].cols /\ T[t].formed = E[t].formed
            /\ T[t].idx = (E[t].idx \cap Has(E[t])) \cup {c \in Has(E[t]) : E[t].cols[c].ref # None}
  <2>1. T = Indexes(E) /\ IsSchema(E)
    BY <1>2, <1>8
  <2> QED
    BY <2>1, IndexesIs
<1>10. ASSUME NEW t \in DOMAIN S0
       PROVE  /\ Has(T[t]) = Has(S0[t]) /\ T[t].formed = S0[t].formed
              /\ T[t].idx = (S0[t].idx \cap Has(S0[t])) \cup {c \in Has(T[t]) : T[t].cols[c].ref # None}
              /\ \A c \in Has(S0[t]) : Reconciled(S0, c, S0[t].cols[c], T[t].cols[c])
  <2>1. T[t].cols = E[t].cols
    BY <1>3, <1>8, <1>9
  <2>2. Has(T[t]) = Has(E[t]) /\ Has(E[t]) = Has(S[t]) /\ Has(S[t]) = Has(S0[t])
    BY <1>3, <1>8, <2>1 DEF Has
  <2>3. T[t].idx = (E[t].idx \cap Has(E[t])) \cup {c \in Has(E[t]) : E[t].cols[c].ref # None}
    BY <1>3, <1>8, <1>9
  <2>4. E[t].idx = S0[t].idx /\ T[t].formed = S0[t].formed
    BY <1>3, <1>8, <1>9
  <2>5. \A c \in Has(S0[t]) : Reconciled(S0, c, S0[t].cols[c], E[t].cols[c])
    BY <1>3, <1>5
  <2> QED
    BY <2>1, <2>2, <2>3, <2>4, <2>5
<1> QED
  BY <1>3, <1>8, <1>9, <1>10

LEMMA PrimaryIs ==
    ASSUME NEW S, IsSchema(S), NEW T, T = PrimaryKeys(S)
    PROVE  /\ IsSchema(T) /\ DOMAIN T = DOMAIN S
           /\ \A t \in DOMAIN S :
                /\ (Has(T[t]) = Has(S[t]) \cup {Id} \/ T[t] = S[t]) /\ T[t].formed = S[t].formed
                /\ (\E c \in Has(S[t]) : S[t].cols[c].pk) => T[t] = S[t]
                /\ \A c \in Has(S[t]) \ {Id} : T[t].cols[c] = S[t].cols[c]
<1> DEFINE key(t) == IF Id \in Has(S[t]) THEN [S[t].cols[Id] EXCEPT !.pk = TRUE] ELSE Minimal.cols[Id]
           cols(t) == [c \in Has(S[t]) \cup {Id} |-> IF c = Id THEN key(t) ELSE S[t].cols[c]]
<1>1. T = [t \in DOMAIN S |-> IF \E c \in Has(S[t]) : S[t].cols[c].pk THEN S[t]
                              ELSE [S[t] EXCEPT !.cols = cols(t)]]
  BY DEF PrimaryKeys, EachTable, Once, Has
<1>2. ASSUME NEW t \in DOMAIN S
      PROVE  /\ IsTable(T[t])
             /\ (Has(T[t]) = Has(S[t]) \cup {Id} \/ T[t] = S[t]) /\ T[t].formed = S[t].formed
             /\ (\E c \in Has(S[t]) : S[t].cols[c].pk) => T[t] = S[t]
             /\ \A c \in Has(S[t]) \ {Id} : T[t].cols[c] = S[t].cols[c]
  <2>1. IsTable(S[t])
    BY DEF IsSchema
  <2>2. CASE \E c \in Has(S[t]) : S[t].cols[c].pk
    <3>1. T[t] = S[t]
      BY <1>1, <2>2
    <3> QED
      BY <2>1, <3>1
  <2>3. CASE ~\E c \in Has(S[t]) : S[t].cols[c].pk
    <3>1. T[t] = [S[t] EXCEPT !.cols = cols(t)]
      BY <1>1, <2>3
    <3>2. IsColumn(key(t))
      <4>1. CASE Id \in Has(S[t])
        <5>1. IsColumn(S[t].cols[Id])
          BY <2>1, <4>1 DEF IsTable
        <5>2. [S[t].cols[Id] EXCEPT !.pk = TRUE] = Column(S[t].cols[Id].type, TRUE, S[t].cols[Id].ref)
          BY <5>1, ColumnExcept
        <5>3. key(t) = Column(S[t].cols[Id].type, TRUE, S[t].cols[Id].ref)
          BY <4>1, <5>2
        <5> HIDE DEF key
        <5> QED
          BY <5>3 DEF IsColumn, Column
      <4>2. CASE Id \notin Has(S[t])
        <5>1. key(t) = Column(KeyType, TRUE, None)
          BY <4>2, MinimalIs
        <5> HIDE DEF key
        <5> QED
          BY <5>1 DEF IsColumn, Column
      <4> QED
        BY <4>1, <4>2
    <3> HIDE DEF key
    <3>3. \A c \in Has(S[t]) \cup {Id} : IsColumn(cols(t)[c])
      BY <2>1, <3>2 DEF IsTable
    <3>4. Has(S[t]) \cup {Id} \subseteq Columns /\ S[t].formed \in BOOLEAN
      BY <2>1, KeysAreColumns DEF IsTable
    <3>5. cols(t) = [c \in Has(S[t]) \cup {Id} |-> cols(t)[c]] /\ \A c \in Has(S[t]) \ {Id} : cols(t)[c] = S[t].cols[c]
      OBVIOUS
    <3> HIDE DEF cols
    <3>6. T[t] = [cols |-> cols(t), idx |-> S[t].idx, formed |-> S[t].formed]
      BY <2>1, <3>1, TableExcept
    <3>7. IsTable(T[t]) /\ Has(T[t]) = Has(S[t]) \cup {Id} /\ T[t].cols = cols(t) /\ T[t].formed = S[t].formed
      BY <3>3, <3>4, <3>5, <3>6, TableOf
    <3> QED
      BY <2>3, <3>5, <3>7
  <2> QED
    BY <2>2, <2>3
<1>3. T = [t \in DOMAIN S |-> T[t]]
  BY <1>1
<1> QED
  BY <1>2, <1>3 DEF IsSchema

\* The type the contract gives a column, if it gives one.
FieldType(R, t, c, ty) == IF c \in FieldsOf(R, t) THEN R.fields[<<t, c>>] ELSE ty

LEMMA ExplicitIs ==
    ASSUME NEW S, IsSchema(S), NEW R, NEW T, T = ExplicitFields(S, R)
    PROVE  /\ IsSchema(T) /\ DOMAIN T = DOMAIN S
           /\ \A t \in DOMAIN S :
                /\ Has(T[t]) = Has(S[t]) \cup FieldsOf(R, t) /\ T[t].idx = S[t].idx /\ T[t].formed = S[t].formed
                /\ \A c \in Has(S[t]) :
                     T[t].cols[c] = Column(FieldType(R, t, c, S[t].cols[c].type), S[t].cols[c].pk, S[t].cols[c].ref)
                /\ \A c \in FieldsOf(R, t) : T[t].cols[c].type = FieldType(R, t, c, KeyType)
<1> DEFINE old(t, c) == IF c \in Has(S[t]) THEN S[t].cols[c] ELSE Column(KeyType, FALSE, None)
           field(t, c) == IF c \in FieldsOf(R, t) THEN [old(t, c) EXCEPT !.type = R.fields[<<t, c>>]] ELSE old(t, c)
           cols(t) == [c \in Has(S[t]) \cup FieldsOf(R, t) |-> field(t, c)]
<1>1. T = [t \in DOMAIN S |-> [S[t] EXCEPT !.cols = cols(t)]]
  BY DEF ExplicitFields, EachTable, Once, Has
<1>2. ASSUME NEW t \in DOMAIN S
      PROVE  /\ IsTable(T[t])
             /\ Has(T[t]) = Has(S[t]) \cup FieldsOf(R, t) /\ T[t].idx = S[t].idx /\ T[t].formed = S[t].formed
             /\ \A c \in Has(S[t]) :
                  T[t].cols[c] = Column(FieldType(R, t, c, S[t].cols[c].type), S[t].cols[c].pk, S[t].cols[c].ref)
             /\ \A c \in FieldsOf(R, t) : T[t].cols[c].type = FieldType(R, t, c, KeyType)
  <2>1. IsTable(S[t])
    BY DEF IsSchema
  <2>2. T[t] = [S[t] EXCEPT !.cols = cols(t)]
    BY <1>1
  <2>3. ASSUME NEW c \in Has(S[t]) \cup FieldsOf(R, t)
        PROVE  /\ IsColumn(cols(t)[c]) /\ (c \in FieldsOf(R, t) => cols(t)[c].type = FieldType(R, t, c, KeyType))
               /\ c \in Has(S[t]) =>
                    cols(t)[c] = Column(FieldType(R, t, c, S[t].cols[c].type), S[t].cols[c].pk, S[t].cols[c].ref)
    <3> DEFINE o == old(t, c)
    <3>1. IsColumn(o)
      BY <2>1, ColumnIs DEF IsTable
    <3>2. [o EXCEPT !.type = R.fields[<<t, c>>]] = Column(R.fields[<<t, c>>], o.pk, o.ref)
      BY <3>1, ColumnExcept
    <3>3. o = Column(o.type, o.pk, o.ref)
      BY <3>1 DEF IsColumn
    <3>4. cols(t)[c] = field(t, c)
      OBVIOUS
    <3>5. field(t, c) = Column(FieldType(R, t, c, o.type), o.pk, o.ref)
      BY <3>2, <3>3 DEF FieldType
    <3>6. c \in Has(S[t]) => o = S[t].cols[c]
      OBVIOUS
    <3> HIDE DEF o, field, cols
    <3>7. IsColumn(cols(t)[c]) /\ cols(t)[c].type = FieldType(R, t, c, o.type)
      BY <3>4, <3>5, ColumnIs
    <3>8. c \in FieldsOf(R, t) => cols(t)[c].type = FieldType(R, t, c, KeyType)
      BY <3>7 DEF FieldType
    <3> QED
      BY <3>4, <3>5, <3>6, <3>7, <3>8
  <2>4. Has(S[t]) \cup FieldsOf(R, t) \subseteq Columns /\ S[t].formed \in BOOLEAN
    BY <2>1 DEF IsTable, FieldsOf
  <2>5. cols(t) = [c \in Has(S[t]) \cup FieldsOf(R, t) |-> cols(t)[c]]
    OBVIOUS
  <2> HIDE DEF cols
  <2>6. T[t] = [cols |-> cols(t), idx |-> S[t].idx, formed |-> S[t].formed]
    BY <2>1, <2>2, TableExcept
  <2>7. \A c \in Has(S[t]) \cup FieldsOf(R, t) : IsColumn(cols(t)[c])
    BY <2>3
  <2>8. IsTable(T[t]) /\ Has(T[t]) = Has(S[t]) \cup FieldsOf(R, t)
    BY <2>4, <2>5, <2>6, <2>7, TableOf
  <2>9. T[t].cols = cols(t) /\ T[t].idx = S[t].idx /\ T[t].formed = S[t].formed
    BY <2>6
  <2> QED
    BY <2>3, <2>8, <2>9
<1>3. T = [t \in DOMAIN S |-> T[t]]
  BY <1>1
<1> QED
  BY <1>2, <1>3 DEF IsSchema

LEMMA ContractIs ==
    ASSUME NEW S, IsSchema(S), NEW R, Declared(R) \subseteq Names, NEW T, T = ContractTables(S, R)
    PROVE  /\ IsSchema(T) /\ DOMAIN T = DOMAIN S \cup Declared(R)
           /\ Declared(R) \subseteq DOMAIN S => T = S
<1>1. T = [t \in DOMAIN S \cup Declared(R) |-> IF t \in DOMAIN S THEN S[t] ELSE Minimal]
  BY DEF ContractTables
<1>2. \A t \in DOMAIN T : IsTable(T[t])
  BY <1>1, MinimalIs DEF IsSchema
<1>3. ASSUME Declared(R) \subseteq DOMAIN S PROVE T = S
  <2>1. DOMAIN T = DOMAIN S /\ \A t \in DOMAIN S : T[t] = S[t]
    BY <1>1, <1>3
  <2>2. S = [t \in DOMAIN S |-> S[t]] /\ T = [t \in DOMAIN T |-> T[t]]
    BY <1>1 DEF IsSchema
  <2> QED
    BY <2>1, <2>2
<1> QED
  BY <1>1, <1>2, <1>3 DEF IsSchema

LEMMA CanonicalIs ==
    ASSUME NEW S, IsSchema(S), NEW R, Declared(R) \subseteq Names, NEW T, T = CanonicalNames(S, R)
    PROVE  IsSchema(T) /\ (Declared(R) \subseteq DOMAIN S => T = S)
<1>0. PICK E : E = [t \in DOMAIN S |->
                     [cols |-> [c \in Has(S[t]) |-> [S[t].cols[c] EXCEPT !.ref = Renamed(S, R, S[t].cols[c].ref)]],
                      idx |-> S[t].idx, formed |-> S[t].formed]]
  OBVIOUS
<1> DEFINE origin(n) == CHOOSE t \in DOMAIN S : NewName(S, R, t) = n
<1>1. T = [n \in {NewName(S, R, t) : t \in DOMAIN S} |-> E[origin(n)]]
  BY <1>0 DEF CanonicalNames, EachTable, EachColumn, Once
<1>2. ASSUME NEW t \in DOMAIN S, NEW c \in Has(S[t])
      PROVE  /\ IsColumn(E[t].cols[c])
             /\ Renamed(S, R, S[t].cols[c].ref) = S[t].cols[c].ref => E[t].cols[c] = S[t].cols[c]
  <2>1. IsColumn(S[t].cols[c])
    BY DEF IsSchema, IsTable
  <2>0. PICK r : r = Renamed(S, R, S[t].cols[c].ref)
    OBVIOUS
  <2>2. [S[t].cols[c] EXCEPT !.ref = r] = Column(S[t].cols[c].type, S[t].cols[c].pk, r)
    BY <2>1, ColumnExcept
  <2>3. E[t].cols[c] = Column(S[t].cols[c].type, S[t].cols[c].pk, r)
    BY <1>0, <2>0, <2>2
  <2> QED
    BY <2>0, <2>1, <2>3, ColumnIs DEF IsColumn
<1>3. ASSUME NEW t \in DOMAIN S
      PROVE  IsTable(E[t]) /\ Has(E[t]) = Has(S[t]) /\ E[t].idx = S[t].idx /\ E[t].formed = S[t].formed
             /\ E[t].cols = [c \in Has(S[t]) |-> E[t].cols[c]]
  <2>1. /\ E[t] = [cols |-> E[t].cols, idx |-> S[t].idx, formed |-> S[t].formed]
        /\ E[t].cols = [c \in Has(S[t]) |-> E[t].cols[c]]
        /\ \A c \in Has(S[t]) : IsColumn(E[t].cols[c])
    BY <1>0, <1>2
  <2>2. IsTable(S[t])
    BY DEF IsSchema
  <2> QED
    BY <2>1, <2>2, ColumnTable
<1>4. \A t \in DOMAIN S : NewName(S, R, t) \in Names
  <2>1. \A t : Alias(S, R, t) = t \/ Alias(S, R, t) \in Declared(R)
    BY DEF Alias, Unique
  <2> QED
    BY <2>1 DEF NewName, IsSchema
<1>5. IsSchema(T)
  <2>1. \A n \in DOMAIN T : origin(n) \in DOMAIN S /\ n \in Names
    BY <1>1, <1>4
  <2>2. \A n \in DOMAIN T : IsTable(T[n])
    BY <1>1, <1>3, <2>1
  <2>3. T = [n \in DOMAIN T |-> T[n]]
    BY <1>1
  <2> QED
    BY <2>1, <2>2, <2>3 DEF IsSchema
<1>6. ASSUME Declared(R) \subseteq DOMAIN S PROVE T = S
  <2>1. /\ \A t \in DOMAIN S : NewName(S, R, t) = t
        /\ \A x : Renamed(S, R, x) = x
    BY <1>6, NamesAreKept
  <2>2. DOMAIN T = DOMAIN S /\ \A t \in DOMAIN S : T[t] = E[t]
    BY <1>1, <2>1
  <2>3. ASSUME NEW t \in DOMAIN S PROVE E[t] = S[t]
    <3>1. IsTable(S[t]) /\ IsTable(E[t])
      BY <1>3 DEF IsSchema
    <3>2. E[t].cols = S[t].cols
      BY <1>2, <1>3, <2>1, <3>1 DEF IsTable
    <3> QED
      BY <1>3, <3>1, <3>2 DEF IsTable
  <2>4. S = [t \in DOMAIN S |-> S[t]] /\ T = [t \in DOMAIN T |-> T[t]]
    BY <1>1 DEF IsSchema
  <2> QED
    BY <2>2, <2>3, <2>4
<1> QED
  BY <1>5, <1>6

\* Of a set of tables one comes last.
LEMMA LatestIs ==
    ASSUME NEW us, us # {}, us \subseteq Names
    PROVE  Latest(us) \in us
<1> DEFINE n == Cardinality(Names)
           T == {k \in Nat : k <= n => \A t \in us : Rank[t] >= n - k => \E m \in us : \A u \in us : Rank[u] <= Rank[m]}
<1>1. n \in Nat /\ \A t \in Names : Rank[t] \in 1..n
  BY NamesAreOrdered, FS_CardinalityType
<1> HIDE DEF n
<1>2. 0 \in T
  <2>1. ASSUME NEW t \in us, Rank[t] >= n PROVE \A u \in us : Rank[u] <= Rank[t]
    BY <1>1, <2>1
  <2> QED
    BY <1>1, <2>1
<1>3. ASSUME NEW k \in Nat, k \in T PROVE k + 1 \in T
  <2> SUFFICES ASSUME k + 1 <= n, NEW t \in us, Rank[t] >= n - (k + 1)
               PROVE  \E m \in us : \A u \in us : Rank[u] <= Rank[m]
    OBVIOUS
  <2>1. CASE \E v \in us : Rank[v] >= n - k
    BY <1>1, <1>3, <2>1
  <2>2. CASE \A v \in us : ~(Rank[v] >= n - k)
    <3>1. \A v \in us : Rank[v] <= Rank[t]
      BY <1>1, <2>2
    <3> QED
      BY <3>1
  <2> QED
    BY <2>1, <2>2
<1> HIDE DEF T
<1>4. n \in T
  BY <1>1, <1>2, <1>3, NatSetInduction
<1>5. PICK t \in us : TRUE
  OBVIOUS
<1>6. \E m \in us : \A u \in us : Rank[u] <= Rank[m]
  BY <1>1, <1>4, <1>5 DEF T
<1> QED
  BY <1>6 DEF Latest

LEMMA MergeIs ==
    ASSUME NEW S, IsSchema(S), NEW T, T = MergeRevisions(S)
    PROVE  /\ IsSchema(T) /\ DOMAIN T = (DOMAIN S) \ Revisions(S) /\ Revisions(T) = {}
           /\ Revisions(S) = {} => T = S
<1> DEFINE kept(t, us) == IF us = {} THEN t ELSE Latest(us)
           given(t) == {u \in Richer(S, t) : S[u].idx # {}}
<1>1. T = [t \in (DOMAIN S) \ Revisions(S) |->
             [cols |-> S[kept(t, Richer(S, t))].cols, idx |-> S[kept(t, given(t))].idx, formed |-> S[t].formed]]
  BY DEF MergeRevisions, EachTable, Once
<1>2. \A t : Richer(S, t) \subseteq Revisions(S)
  BY DEF Richer
<1>3. Revisions(S) \subseteq DOMAIN S /\ DOMAIN S \subseteq Names
  BY DEF Revisions, IsSchema
<1>4. DOMAIN T = (DOMAIN S) \ Revisions(S)
  BY <1>1
<1>5. ASSUME NEW t \in DOMAIN T
      PROVE  IsTable(T[t]) /\ (Revisions(S) = {} => T[t] = S[t])
  <2> DEFINE a == kept(t, Richer(S, t))
             b == kept(t, given(t))
  <2>1. a \in DOMAIN S
    BY <1>2, <1>3, <1>4, LatestIs
  <2>2. T[t] = [cols |-> S[a].cols, idx |-> S[b].idx, formed |-> S[t].formed]
    BY <1>1, <1>4
  <2>3. Revisions(S) = {} => a = t /\ b = t
    BY <1>2
  <2> HIDE DEF a, b
  <2>4. IsTable(S[a]) /\ IsTable(S[t]) /\ S[t].formed \in BOOLEAN
    BY <1>4, <2>1 DEF IsSchema, IsTable
  <2>5. IsTable(T[t])
    BY <2>2, <2>4, TableIndexed
  <2>6. S[t] = [cols |-> S[t].cols, idx |-> S[t].idx, formed |-> S[t].formed]
    BY <2>4 DEF IsTable
  <2> QED
    BY <2>2, <2>3, <2>5, <2>6
<1>6. T = [t \in DOMAIN T |-> T[t]]
  BY <1>1
<1>7. Revisions(T) = {}
  BY <1>4 DEF Revisions
<1>8. ASSUME Revisions(S) = {} PROVE T = S
  <2>1. DOMAIN T = DOMAIN S /\ \A t \in DOMAIN S : T[t] = S[t]
    BY <1>4, <1>5, <1>8
  <2>2. S = [t \in DOMAIN S |-> S[t]]
    BY DEF IsSchema
  <2> QED
    BY <1>6, <2>1, <2>2
<1> QED
  BY <1>3, <1>4, <1>5, <1>6, <1>7, <1>8 DEF IsSchema

\* A table whose columns are replaced by columns is a table.
LEMMA TableWith ==
    ASSUME NEW t, IsTable(t), NEW D, D \subseteq Columns, NEW f, f = [c \in D |-> f[c]], \A c \in D : IsColumn(f[c])
    PROVE  IsTable([t EXCEPT !.cols = f])
<1>1. [t EXCEPT !.cols = f] = [cols |-> f, idx |-> t.idx, formed |-> t.formed]
  BY TableExcept
<1>2. t.formed \in BOOLEAN
  BY DEF IsTable
<1>3. IsTable([cols |-> f, idx |-> t.idx, formed |-> t.formed])
  BY <1>2, TableOf
<1> QED
  BY <1>1, <1>3

LEMMA WithoutIs ==
    ASSUME NEW t, IsTable(t), NEW cs
    PROVE  IsTable(Without(t, cs))
<1>1. PICK f : f = [c \in Has(t) \ cs |-> t.cols[c]]
  OBVIOUS
<1>2. Without(t, cs) = [t EXCEPT !.cols = f]
  BY <1>1 DEF Without, Has
<1>3. Has(t) \ cs \subseteq Columns /\ \A c \in Has(t) \ cs : IsColumn(f[c])
  BY <1>1 DEF IsTable
<1>4. f = [c \in Has(t) \ cs |-> f[c]]
  BY <1>1
<1>5. IsTable([t EXCEPT !.cols = f])
  BY <1>3, <1>4, TableWith
<1> QED
  BY <1>2, <1>5

LEMMA PrdIs ==
    ASSUME NEW S, IsSchema(S), NEW R, NEW T, T = PrdColumns(S, R)
    PROVE  IsSchema(T) /\ DOMAIN T = DOMAIN S
<1> DEFINE wanted(t) == {c \in Columns : /\ <<t, c>> \in DOMAIN R.prd
                                          /\ R.prd[<<t, c>>] \in (DOMAIN S) \cup {None}}
           cols(t) == [c \in Has(S[t]) \cup wanted(t) |->
                         IF c \in Has(S[t]) THEN S[t].cols[c] ELSE Column(KeyType, FALSE, R.prd[<<t, c>>])]
<1>1. T = [t \in DOMAIN S |-> [S[t] EXCEPT !.cols = cols(t)]]
  BY DEF PrdColumns, EachTable, Once, Has, With
<1>2. ASSUME NEW t \in DOMAIN S PROVE IsTable(T[t])
  <2>1. IsTable(S[t])
    BY DEF IsSchema
  <2>2. PICK f : f = cols(t)
    OBVIOUS
  <2>3. \A c \in Has(S[t]) \cup wanted(t) : IsColumn(f[c])
    BY <2>1, <2>2, ColumnIs DEF IsTable
  <2>4. Has(S[t]) \cup wanted(t) \subseteq Columns
    BY <2>1 DEF IsTable
  <2>5. f = [c \in Has(S[t]) \cup wanted(t) |-> f[c]]
    BY <2>2
  <2>6. T[t] = [S[t] EXCEPT !.cols = f]
    BY <1>1, <2>2
  <2> HIDE DEF wanted
  <2> QED
    BY <2>1, <2>3, <2>4, <2>5, <2>6, TableWith
<1>3. T = [t \in DOMAIN S |-> T[t]]
  BY <1>1
<1> QED
  BY <1>2, <1>3 DEF IsSchema

LEMMA OwnMutableIs ==
    ASSUME NEW S, IsSchema(S), NEW T, T = OwnMutableState(S)
    PROVE  IsSchema(T) /\ DOMAIN T = DOMAIN S
<1>1. \E lost : T = [t \in DOMAIN S |-> Without(S[t], lost[t])]
  <2> DEFINE catalogs == [a \in Aggregates(S) |-> Catalogs(S, a)]
             owns[a \in DOMAIN catalogs] ==
               (Has(S[a]) \cap Mutable)
                 \ UNION {owns[b] : b \in {d \in DOMAIN catalogs : Rank[d] < Rank[a] /\ a \in catalogs[d]}}
             lost == [t \in DOMAIN S |-> UNION {owns[a] : a \in {b \in DOMAIN catalogs : t \in catalogs[b]}}]
  <2>1. T = [t \in DOMAIN S |-> Without(S[t], lost[t])]
    BY DEF OwnMutableState, EachTable, Once
  <2> QED
    BY <2>1
<1>2. PICK lost : T = [t \in DOMAIN S |-> Without(S[t], lost[t])]
  BY <1>1
<1>3. ASSUME NEW t \in DOMAIN S PROVE IsTable(T[t])
  <2>1. IsTable(S[t])
    BY DEF IsSchema
  <2> QED
    BY <1>2, <2>1, WithoutIs
<1>4. T = [t \in DOMAIN S |-> T[t]]
  BY <1>2
<1> QED
  BY <1>3, <1>4 DEF IsSchema

LEMMA EventsIs ==
    ASSUME NEW S, IsSchema(S), NEW events, NEW catalogs, DOMAIN catalogs \subseteq Names,
           NEW T, T = EventsPointAtAggregates(S, events, catalogs)
    PROVE  IsSchema(T) /\ DOMAIN T = DOMAIN S
<1> DEFINE near(t) == {a \in (DOMAIN catalogs) \ {t} : catalogs[a] \cap Targets(S, t) # {}}
           score(t, a) == Cardinality(Has(S[a]) \cap Mutable \cap Has(S[t]))
           best(t) == {a \in near(t) : score(t, a) > 0 /\ \A b \in near(t) : score(t, b) <= score(t, a)}
           over(t) == Unique(IF Cardinality(near(t)) > 1 THEN best(t) ELSE near(t))
           cols(t) == [c \in Has(S[t]) \cup {KeyColumn[over(t)]} |->
                         IF c \in Has(S[t]) THEN S[t].cols[c] ELSE Column(KeyType, FALSE, None)]
           gone(t) == {c \in Has(S[t]) : FkTarget(S, c) \in catalogs[over(t)]}
<1>1. T = [t \in DOMAIN S |-> IF t \notin events \/ over(t) = None THEN S[t]
                              ELSE Without([S[t] EXCEPT !.cols = cols(t)], gone(t))]
  BY DEF EventsPointAtAggregates, EachTable, Once, With, Has
<1>2. ASSUME NEW t \in DOMAIN S PROVE IsTable(T[t])
  <2>1. IsTable(S[t])
    BY DEF IsSchema
  <2>2. CASE t \notin events \/ over(t) = None
    BY <1>1, <2>1, <2>2
  <2>3. CASE ~(t \notin events \/ over(t) = None)
    <3>1. over(t) \in Names
      <4>1. best(t) \subseteq near(t) /\ near(t) \subseteq Names
        OBVIOUS
      <4> HIDE DEF best, near
      <4> QED
        BY <2>3, <4>1 DEF Unique
    <3> HIDE DEF over, gone
    <3>2. KeyColumn[over(t)] \in Columns
      BY <3>1, KeysAreColumns
    <3>3. PICK f : f = cols(t)
      OBVIOUS
    <3>4. PICK D : D = Has(S[t]) \cup {KeyColumn[over(t)]}
      OBVIOUS
    <3>5. f = [c \in D |-> f[c]] /\ D \subseteq Columns /\ \A c \in D : IsColumn(f[c])
      BY <2>1, <3>2, <3>3, <3>4, ColumnIs DEF IsTable
    <3>6. IsTable([S[t] EXCEPT !.cols = f])
      BY <2>1, <3>5, TableWith
    <3>7. T[t] = Without([S[t] EXCEPT !.cols = f], gone(t))
      BY <1>1, <2>3, <3>3
    <3> QED
      BY <3>6, <3>7, WithoutIs
  <2> QED
    BY <2>2, <2>3
<1>3. T = [t \in DOMAIN S |-> T[t]]
  BY <1>1
<1> QED
  BY <1>2, <1>3 DEF IsSchema

LEMMA SchemaContractsIs ==
    ASSUME NEW S, IsSchema(S), NEW R, NEW T, T = SchemaContracts(S, R)
    PROVE  IsSchema(T) /\ DOMAIN T = DOMAIN S
<1>1. PICK P : P = PrdColumns(S, R)
  OBVIOUS
<1>2. PICK M : M = OwnMutableState(P)
  OBVIOUS
<1>3. PICK catalogs : catalogs = [a \in Aggregates(P) |-> Catalogs(P, a)]
  OBVIOUS
<1>4. PICK E : E = EventsPointAtAggregates(M, Events(P), catalogs)
  OBVIOUS
<1>5. T = [t \in DOMAIN E |-> [E[t] EXCEPT !.idx = @ \cup {c \in Has(E[t]) : FkTarget(E, c) # None}]]
  BY <1>1, <1>2, <1>3, <1>4 DEF SchemaContracts, EachTable, Once
<1>6. IsSchema(P) /\ DOMAIN P = DOMAIN S
  BY <1>1, PrdIs
<1>7. IsSchema(M) /\ DOMAIN M = DOMAIN P
  BY <1>2, <1>6, OwnMutableIs
<1>8. DOMAIN catalogs \subseteq Names
  BY <1>3, <1>6 DEF Aggregates, IsSchema
<1>9. IsSchema(E) /\ DOMAIN E = DOMAIN M
  BY <1>4, <1>7, <1>8, EventsIs
<1>10. ASSUME NEW t \in DOMAIN E PROVE IsTable(T[t])
  <2>1. IsTable(E[t]) /\ E[t].formed \in BOOLEAN
    BY <1>9 DEF IsSchema, IsTable
  <2>2. PICK ix : ix = E[t].idx \cup {c \in Has(E[t]) : FkTarget(E, c) # None}
    OBVIOUS
  <2>3. T[t] = [E[t] EXCEPT !.idx = ix]
    BY <1>5, <2>2
  <2>4. T[t] = [cols |-> E[t].cols, idx |-> ix, formed |-> E[t].formed]
    BY <2>1, <2>3, TableExcept
  <2> QED
    BY <2>1, <2>4, TableIndexed
<1>11. T = [t \in DOMAIN E |-> T[t]]
  BY <1>5
<1> QED
  BY <1>6, <1>7, <1>9, <1>10, <1>11 DEF IsSchema

\* Sanitizing keeps the columns of a table that has some.
LEMMA SanitizeIs ==
    ASSUME NEW S, IsSchema(S), NEW T, T = Sanitize(S)
    PROVE  /\ IsSchema(T) /\ DOMAIN T = DOMAIN S
           /\ \A t \in DOMAIN S :
                /\ T[t].formed = S[t].formed
                /\ Has(S[t]) # {} => T[t].cols = S[t].cols /\ T[t].idx = S[t].idx \cap Has(S[t])
<1>1. T = [t \in DOMAIN S |->
             KnownIndexes(IF Has(S[t]) = {} THEN [S[t] EXCEPT !.cols = Minimal.cols] ELSE S[t])]
  BY DEF Sanitize, EachTable, Once
<1>2. ASSUME NEW t \in DOMAIN S
      PROVE  /\ IsTable(T[t]) /\ T[t].formed = S[t].formed
             /\ Has(S[t]) # {} => T[t].cols = S[t].cols /\ T[t].idx = S[t].idx \cap Has(S[t])
  <2>1. IsTable(S[t]) /\ S[t].formed \in BOOLEAN
    BY DEF IsSchema, IsTable
  <2>2. PICK u : u = IF Has(S[t]) = {} THEN [S[t] EXCEPT !.cols = Minimal.cols] ELSE S[t]
    OBVIOUS
  <2>3. [S[t] EXCEPT !.cols = Minimal.cols] = [cols |-> Minimal.cols, idx |-> S[t].idx, formed |-> S[t].formed]
    BY <2>1, TableExcept
  <2>4. IsTable(u) /\ u.formed = S[t].formed
    <3>1. PICK f : f = Minimal.cols
      OBVIOUS
    <3>2. f = [c \in {Id} |-> f[c]] /\ {Id} \subseteq Columns /\ \A c \in {Id} : IsColumn(f[c])
      BY <3>1, MinimalIs DEF IsTable
    <3>3. IsTable([cols |-> f, idx |-> S[t].idx, formed |-> S[t].formed])
      BY <2>1, <3>2, TableOf
    <3> QED
      BY <2>1, <2>2, <2>3, <3>1, <3>3
  <2>5. T[t] = [cols |-> u.cols, idx |-> u.idx \cap Has(u), formed |-> u.formed]
    BY <1>1, <2>2, <2>4, KnownIs
  <2>6. u.formed \in BOOLEAN
    BY <2>1, <2>4
  <2>7. IsTable(T[t]) /\ T[t].formed = S[t].formed
    BY <2>4, <2>5, <2>6, TableIndexed
  <2>8. ASSUME Has(S[t]) # {} PROVE T[t].cols = S[t].cols /\ T[t].idx = S[t].idx \cap Has(S[t])
    <3>1. u = S[t]
      BY <2>2, <2>8
    <3> QED
      BY <2>5, <3>1
  <2> QED
    BY <2>7, <2>8
<1>3. T = [t \in DOMAIN S |-> T[t]]
  BY <1>1
<1> QED
  BY <1>2, <1>3 DEF IsSchema

-----------------------------------------------------------------------------
(* The keys of the owners *)

\* A column that is a key to table o.
KeyTo(c, o) == c = Column(c.type, FALSE, o)

LEMMA OwnerKeyIs ==
    ASSUME NEW t, IsTable(t), NEW o \in Names, NEW u, u = OwnerKey(t, o)
    PROVE  /\ IsTable(u) /\ Has(u) = Has(t) \cup {KeyColumn[o]} /\ u.idx = t.idx \cup {KeyColumn[o]} /\ u.formed = t.formed
           /\ KeyTo(u.cols[KeyColumn[o]], o)
           /\ KeyColumn[o] \in Has(t) => u.cols[KeyColumn[o]].type = t.cols[KeyColumn[o]].type
           /\ \A c \in Has(t) \ {KeyColumn[o]} : u.cols[c] = t.cols[c]
<1>1. PICK k : k = KeyColumn[o]
  OBVIOUS
<1>2. PICK ty : ty = IF k \in Has(t) THEN t.cols[k].type ELSE KeyType
  OBVIOUS
<1>3. PICK f : f = [c \in Has(t) \cup {k} |-> IF c = k THEN Column(ty, FALSE, o) ELSE t.cols[c]]
  OBVIOUS
<1>4. u = [cols |-> f, idx |-> t.idx \cup {k}, formed |-> t.formed]
  BY <1>1, <1>2, <1>3 DEF OwnerKey, OwnerColumn, Has
<1>5. k \in Columns /\ Has(t) \subseteq Columns /\ t.formed \in BOOLEAN /\ \A c \in Has(t) : IsColumn(t.cols[c])
  BY <1>1, KeysAreColumns DEF IsTable
<1>6. f = [c \in Has(t) \cup {k} |-> f[c]] /\ \A c \in Has(t) \cup {k} : IsColumn(f[c])
  BY <1>3, <1>5, ColumnIs
<1>7. IsTable(u) /\ Has(u) = Has(t) \cup {k}
  <2>1. Has(t) \cup {k} \subseteq Columns
    BY <1>5
  <2> QED
    BY <1>4, <1>5, <1>6, <2>1, TableOf
<1>8. u.cols = f /\ u.idx = t.idx \cup {k} /\ u.formed = t.formed
  BY <1>4
<1>9. f[k] = Column(ty, FALSE, o) /\ f[k].type = ty /\ \A c \in Has(t) \ {k} : f[c] = t.cols[c]
  BY <1>3 DEF Column
<1> QED
  BY <1>1, <1>2, <1>7, <1>8, <1>9 DEF KeyTo

LEMMA OwnerKeyRest ==
    ASSUME NEW t, IsTable(t), NEW o \in Names, KeyColumn[o] \in Has(t), KeyTo(t.cols[KeyColumn[o]], o),
           KeyColumn[o] \in t.idx
    PROVE  OwnerKey(t, o) = t
<1>1. PICK u, k : u = OwnerKey(t, o) /\ k = KeyColumn[o]
  OBVIOUS
<1>2. /\ IsTable(u) /\ Has(u) = Has(t) \cup {k} /\ u.idx = t.idx \cup {k} /\ u.formed = t.formed
      /\ KeyTo(u.cols[k], o) /\ u.cols[k].type = t.cols[k].type
      /\ \A c \in Has(t) \ {k} : u.cols[c] = t.cols[c]
  BY <1>1, OwnerKeyIs
<1>3. u.cols[k] = t.cols[k]
  BY <1>1, <1>2 DEF KeyTo
<1>4. Has(u) = Has(t) /\ u.idx = t.idx
  BY <1>1, <1>2
<1>5. u.cols = t.cols
  BY <1>2, <1>3, <1>4 DEF IsTable
<1> QED
  BY <1>1, <1>2, <1>4, <1>5 DEF IsTable

\* The table f is mapped to has the key of the principal that owns f's rows.
KeyedFor(S, R, f) ==
    LET t == PrimaryTable(DOMAIN S, R, f)
        k == KeyColumn[R.owner[f]]
    IN  Owned(DOMAIN S, R, f) /\ t \in DOMAIN S =>
          k \in Has(S[t]) /\ KeyTo(S[t].cols[k], R.owner[f])

LEMMA OwnIs ==
    ASSUME NEW S, IsSchema(S), NEW R, NEW f \in DOMAIN R.tables, NEW T, T = Own(S, R, f)
    PROVE  /\ IsSchema(T) /\ DOMAIN T = DOMAIN S /\ KeyedFor(T, R, f)
           /\ \A t \in DOMAIN S : \A c \in Has(S[t]) :
                /\ c \in Has(T[t])
                /\ T[t].cols[c] = S[t].cols[c]
                     \/ /\ Owned(DOMAIN S, R, f) /\ t = PrimaryTable(DOMAIN S, R, f) /\ c = KeyColumn[R.owner[f]]
                        /\ KeyTo(T[t].cols[c], R.owner[f])
<1>1. CASE ~Owned(DOMAIN S, R, f) \/ PrimaryTable(DOMAIN S, R, f) \notin DOMAIN S
  <2>1. T = S
    BY <1>1 DEF Own, IsSchema
  <2> QED
    BY <1>1, <2>1 DEF KeyedFor
<1>2. CASE Owned(DOMAIN S, R, f) /\ PrimaryTable(DOMAIN S, R, f) \in DOMAIN S
  <2>1. PICK p, o : p = PrimaryTable(DOMAIN S, R, f) /\ o = R.owner[f]
    OBVIOUS
  <2>2. PICK u : u = OwnerKey(S[p], o)
    OBVIOUS
  <2>3. p \in DOMAIN S /\ o \in Names /\ IsTable(S[p])
    BY <1>2, <2>1 DEF Owned, IsSchema
  <2>4. T = [S EXCEPT ![p] = u]
    BY <1>2, <2>1, <2>2 DEF Own
  <2>5. DOMAIN T = DOMAIN S /\ T[p] = u /\ \A t \in DOMAIN S \ {p} : T[t] = S[t]
    BY <2>3, <2>4
  <2>6. /\ IsTable(u) /\ Has(u) = Has(S[p]) \cup {KeyColumn[o]}
        /\ KeyTo(u.cols[KeyColumn[o]], o)
        /\ \A c \in Has(S[p]) \ {KeyColumn[o]} : u.cols[c] = S[p].cols[c]
    BY <2>2, <2>3, OwnerKeyIs
  <2>7. T = [t \in DOMAIN S |-> T[t]]
    BY <2>4
  <2>8. IsSchema(T)
    BY <2>5, <2>6, <2>7 DEF IsSchema
  <2>9. KeyedFor(T, R, f)
    BY <2>1, <2>5, <2>6 DEF KeyedFor
  <2> QED
    BY <1>2, <2>1, <2>5, <2>6, <2>8, <2>9
<1> QED
  BY <1>1, <1>2

\* No two principals have the same key column.
KeysApart(R) == \A o, u \in OwnersOf(R) : KeyColumn[u] = KeyColumn[o] => u = o

LEMMA OwnKeeps ==
    ASSUME NEW S, IsSchema(S), NEW R, NEW f \in DOMAIN R.tables, NEW g \in DOMAIN R.tables, KeysApart(R),
           KeyedFor(S, R, g)
    PROVE  KeyedFor(Own(S, R, f), R, g)
<1>1. PICK T : T = Own(S, R, f)
  OBVIOUS
<1>2. PICK t, k : t = PrimaryTable(DOMAIN S, R, g) /\ k = KeyColumn[R.owner[g]]
  OBVIOUS
<1>3. /\ DOMAIN T = DOMAIN S
      /\ \A s \in DOMAIN S : \A c \in Has(S[s]) :
           /\ c \in Has(T[s])
           /\ T[s].cols[c] = S[s].cols[c]
                \/ /\ Owned(DOMAIN S, R, f) /\ s = PrimaryTable(DOMAIN S, R, f) /\ c = KeyColumn[R.owner[f]]
                   /\ KeyTo(T[s].cols[c], R.owner[f])
  BY <1>1, OwnIs
<1>4. SUFFICES ASSUME Owned(DOMAIN S, R, g), t \in DOMAIN S
               PROVE  k \in Has(T[t]) /\ KeyTo(T[t].cols[k], R.owner[g])
  BY <1>1, <1>2, <1>3 DEF KeyedFor
<1>5. k \in Has(S[t]) /\ KeyTo(S[t].cols[k], R.owner[g])
  BY <1>2, <1>4 DEF KeyedFor
<1>6. \A h \in DOMAIN R.tables : Owned(DOMAIN S, R, h) => R.owner[h] \in OwnersOf(R)
  BY NamesAreOrdered DEF Owned, OwnersOf, IsSchema
<1>7. Owned(DOMAIN S, R, f) /\ k = KeyColumn[R.owner[f]] => R.owner[f] = R.owner[g]
  BY <1>2, <1>4, <1>6 DEF KeysApart
<1> QED
  BY <1>3, <1>4, <1>5, <1>7

\* The mapping gives every feature's table the key of its owner.
OwnerKeyed(S, R) == \A f \in DOMAIN R.tables : KeyedFor(S, R, f)

LEMMA MappingsAre ==
    ASSUME NEW S, IsSchema(S), NEW R, IsFiniteSet(DOMAIN R.tables), NEW T, T = FeatureMappings(S, R)
    PROVE  /\ IsSchema(T) /\ DOMAIN T = DOMAIN S
           /\ KeysApart(R) => OwnerKeyed(T, R)
<1>1. PICK m, specs, n : FeatureTurns(S, R, m, specs, n)
  BY MappingTurns
<1>2. /\ n \in Nat /\ m[0] = S /\ m[n] = T
      /\ \A k \in 1..n : specs[k] \in DOMAIN R.tables /\ m[k] = Own(m[k - 1], R, specs[k])
      /\ \A f \in DOMAIN R.tables : \E k \in 1..n : specs[k] = f
  BY <1>1 DEF FeatureTurns
<1> DEFINE Good(k) == /\ IsSchema(m[k]) /\ DOMAIN m[k] = DOMAIN S
                      /\ KeysApart(R) => \A j \in 1..k : KeyedFor(m[k], R, specs[j])
           G == {k \in Nat : k <= n => Good(k)}
<1>3. 0 \in G
  BY <1>2
<1>4. ASSUME NEW k \in Nat, k \in G PROVE k + 1 \in G
  <2> SUFFICES ASSUME k + 1 <= n PROVE Good(k + 1)
    OBVIOUS
  <2>1. Good(k) /\ k + 1 \in 1..n /\ (k + 1) - 1 = k
    BY <1>2, <1>4
  <2>2. m[k + 1] = Own(m[k], R, specs[k + 1]) /\ specs[k + 1] \in DOMAIN R.tables
    BY <1>2, <2>1
  <2>3. IsSchema(m[k + 1]) /\ DOMAIN m[k + 1] = DOMAIN S /\ KeyedFor(m[k + 1], R, specs[k + 1])
    BY <2>1, <2>2, OwnIs
  <2>4. ASSUME KeysApart(R), NEW j \in 1..k PROVE KeyedFor(m[k + 1], R, specs[j])
    <3>1. specs[j] \in DOMAIN R.tables /\ KeyedFor(m[k], R, specs[j])
      BY <1>2, <2>1, <2>4
    <3> QED
      BY <2>1, <2>2, <2>4, <3>1, OwnKeeps
  <2>5. \A j \in 1..(k + 1) : j \in 1..k \/ j = k + 1
    OBVIOUS
  <2> QED
    BY <2>3, <2>4, <2>5
<1> HIDE DEF Good, G
<1>5. n \in G
  BY <1>2, <1>3, <1>4, NatSetInduction
<1>6. Good(n)
  BY <1>2, <1>5 DEF G
<1> QED
  BY <1>2, <1>6 DEF Good, OwnerKeyed

\* Every column with a REFERENCES clause has an index.
KeysIndexed(S) == \A t \in DOMAIN S : \A c \in Has(S[t]) : S[t].cols[c].ref # None => c \in S[t].idx

\* Where every owner's key is, and is indexed, there is nothing left to map.
LEMMA MappingsRest ==
    ASSUME NEW S, IsSchema(S), NEW R, IsFiniteSet(DOMAIN R.tables), OwnerKeyed(S, R), KeysIndexed(S)
    PROVE  FeatureMappings(S, R) = S
<1>1. ASSUME NEW f \in DOMAIN R.tables PROVE Own(S, R, f) = S
  <2>1. PICK p, o, k : p = PrimaryTable(DOMAIN S, R, f) /\ o = R.owner[f] /\ k = KeyColumn[o]
    OBVIOUS
  <2>2. CASE ~Owned(DOMAIN S, R, f) \/ p \notin DOMAIN S
    BY <2>1, <2>2 DEF Own, IsSchema
  <2>3. CASE Owned(DOMAIN S, R, f) /\ p \in DOMAIN S
    <3>1. k \in Has(S[p]) /\ KeyTo(S[p].cols[k], o)
      BY <2>1, <2>3 DEF OwnerKeyed, KeyedFor
    <3>2. o \in Names /\ o # None /\ IsTable(S[p])
      BY <2>1, <2>3, NamesAreOrdered DEF Owned, IsSchema
    <3>3. S[p].cols[k].ref # None
      BY <3>1, <3>2 DEF KeyTo, Column
    <3>4. k \in S[p].idx
      BY <2>3, <3>1, <3>3 DEF KeysIndexed
    <3>5. OwnerKey(S[p], o) = S[p]
      BY <2>1, <3>1, <3>2, <3>4, OwnerKeyRest
    <3>6. Own(S, R, f) = [S EXCEPT ![p] = S[p]]
      BY <2>1, <2>3, <3>5 DEF Own
    <3> QED
      BY <3>6 DEF IsSchema
  <2> QED
    BY <2>2, <2>3
<1>2. PICK m, specs, n : FeatureTurns(S, R, m, specs, n)
  BY MappingTurns
<1>3. /\ n \in Nat /\ m[0] = S /\ m[n] = FeatureMappings(S, R)
      /\ \A k \in 1..n : specs[k] \in DOMAIN R.tables /\ m[k] = Own(m[k - 1], R, specs[k])
  BY <1>2 DEF FeatureTurns
<1> DEFINE G == {k \in Nat : k <= n => m[k] = S}
<1>4. 0 \in G
  BY <1>3
<1>5. ASSUME NEW k \in Nat, k \in G PROVE k + 1 \in G
  <2> SUFFICES ASSUME k + 1 <= n PROVE m[k + 1] = S
    OBVIOUS
  <2>1. m[k] = S /\ k + 1 \in 1..n /\ (k + 1) - 1 = k
    BY <1>3, <1>5
  <2>2. specs[k + 1] \in DOMAIN R.tables /\ m[k + 1] = Own(m[k], R, specs[k + 1])
    BY <1>3, <2>1
  <2> QED
    BY <1>1, <2>1, <2>2
<1> HIDE DEF G
<1>6. n \in G
  BY <1>3, <1>4, <1>5, NatSetInduction
<1> QED
  BY <1>3, <1>6 DEF G

-----------------------------------------------------------------------------
(* What the corrections leave alone *)

\* T keeps the shapes of S's tables, and the key and the reference of a column of S that points
\* at a table of S, unless the contract says otherwise.
Settles(S, T, R) ==
    /\ DOMAIN T = DOMAIN S /\ \A t \in DOMAIN S : T[t].formed = S[t].formed
    /\ \A t \in DOMAIN S : \A c \in Has(S[t]) \ (External \cup {Id}) :
         S[t].cols[c].ref \in DOMAIN S /\ DeclaredTarget(R, t, c) \in {None, S[t].cols[c].ref} =>
           c \in Has(T[t]) /\ T[t].cols[c].pk = S[t].cols[c].pk /\ T[t].cols[c].ref = S[t].cols[c].ref

LEMMA KeyToIs ==
    ASSUME NEW c, NEW d, NEW o, KeyTo(c, o), IsColumn(d), d.pk = c.pk, d.ref = c.ref
    PROVE  c.ref = o /\ KeyTo(d, o)
BY DEF KeyTo, IsColumn, Column

LEMMA SettlesOwners ==
    ASSUME NEW S, IsSchema(S), NEW T, IsSchema(T), NEW R, Settles(S, T, R), Coherent(R), OwnerKeyed(S, R)
    PROVE  OwnerKeyed(T, R)
<1> SUFFICES ASSUME NEW f \in DOMAIN R.tables PROVE KeyedFor(T, R, f)
  BY DEF OwnerKeyed
<1>1. PICK t, o, k : t = PrimaryTable(DOMAIN S, R, f) /\ o = R.owner[f] /\ k = KeyColumn[o]
  OBVIOUS
<1>2. DOMAIN T = DOMAIN S
  BY DEF Settles
<1> SUFFICES ASSUME Owned(DOMAIN S, R, f), t \in DOMAIN S
             PROVE  k \in Has(T[t]) /\ KeyTo(T[t].cols[k], o)
  BY <1>1, <1>2 DEF KeyedFor
<1>3. k \in Has(S[t]) /\ KeyTo(S[t].cols[k], o)
  BY <1>1 DEF OwnerKeyed, KeyedFor
<1>4. o \in DOMAIN S /\ o \in Names /\ o # None
  BY <1>1, NamesAreOrdered DEF Owned, IsSchema
<1>5. S[t].cols[k].ref = o
  BY <1>3 DEF KeyTo, Column
<1>6. o \in OwnersOf(R)
  BY <1>1, <1>4 DEF OwnersOf
<1>7. k \notin External \cup {Id}
  BY <1>1, <1>4, <1>6, KeysAreColumns DEF Coherent
<1>8. DeclaredTarget(R, t, k) \in {None, o}
  <2>1. CASE <<t, k>> \in DOMAIN R.keys
    <3>1. <<t, k>>[2] = k
      OBVIOUS
    <3>2. R.keys[<<t, k>>] = o
      BY <1>1, <1>6, <2>1, <3>1 DEF Coherent
    <3> QED
      BY <2>1, <3>2 DEF DeclaredTarget
  <2>2. CASE <<t, k>> \notin DOMAIN R.keys
    BY <2>2 DEF DeclaredTarget
  <2> QED
    BY <2>1, <2>2
<1>9. k \in Has(T[t]) /\ T[t].cols[k].pk = S[t].cols[k].pk /\ T[t].cols[k].ref = S[t].cols[k].ref
  BY <1>3, <1>4, <1>5, <1>7, <1>8 DEF Settles
<1>10. IsColumn(T[t].cols[k])
  BY <1>2, <1>9 DEF IsSchema, IsTable
<1> QED
  BY <1>3, <1>9, <1>10, KeyToIs

LEMMA SanitizeSettles ==
    ASSUME NEW S, IsSchema(S), NEW R
    PROVE  Settles(S, Sanitize(S), R)
<1>1. PICK T : T = Sanitize(S)
  OBVIOUS
<1>2. /\ DOMAIN T = DOMAIN S
      /\ \A t \in DOMAIN S : T[t].formed = S[t].formed /\ (Has(S[t]) # {} => T[t].cols = S[t].cols)
  BY <1>1, SanitizeIs
<1> QED
  BY <1>1, <1>2 DEF Settles, Has

LEMMA PrimarySettles ==
    ASSUME NEW S, IsSchema(S), NEW R
    PROVE  Settles(S, PrimaryKeys(S), R)
<1>1. PICK T : T = PrimaryKeys(S)
  OBVIOUS
<1>2. /\ DOMAIN T = DOMAIN S
      /\ \A t \in DOMAIN S :
           /\ (Has(T[t]) = Has(S[t]) \cup {Id} \/ T[t] = S[t]) /\ T[t].formed = S[t].formed
           /\ \A c \in Has(S[t]) \ {Id} : T[t].cols[c] = S[t].cols[c]
  BY <1>1, PrimaryIs
<1> QED
  BY <1>1, <1>2 DEF Settles

LEMMA SpecialSettles ==
    ASSUME NEW S, IsSchema(S), NEW R
    PROVE  Settles(S, SpecialReferences(S), R)
<1>1. PICK T : T = SpecialReferences(S)
  OBVIOUS
<1>2. /\ DOMAIN T = DOMAIN S
      /\ \A t \in DOMAIN S :
           /\ Has(T[t]) = Has(S[t]) /\ T[t].formed = S[t].formed
           /\ \A c \in Has(S[t]) : c \notin External => T[t].cols[c] = S[t].cols[c]
  BY <1>1, SpecialIs
<1> QED
  BY <1>1, <1>2 DEF Settles

LEMMA ForeignSettles ==
    ASSUME NEW S, IsSchema(S), NEW R
    PROVE  Settles(S, ForeignKeys(S, R), R)
<1>1. PICK T : T = ForeignKeys(S, R)
  OBVIOUS
<1>2. /\ DOMAIN T = DOMAIN S
      /\ \A t \in DOMAIN S :
           /\ Has(T[t]) = Has(S[t]) /\ T[t].formed = S[t].formed
           /\ \A c \in Has(S[t]) : T[t].cols[c] = Column(S[t].cols[c].type, S[t].cols[c].pk, FkRef(S, R, t, c))
  BY <1>1, ForeignIs
<1>3. ASSUME NEW t \in DOMAIN S, NEW c \in Has(S[t]), S[t].cols[c].ref \in DOMAIN S,
             DeclaredTarget(R, t, c) \in {None, S[t].cols[c].ref}
      PROVE  FkRef(S, R, t, c) = S[t].cols[c].ref
  BY <1>3, NamesAreOrdered DEF FkRef, IsSchema
<1> QED
  BY <1>1, <1>2, <1>3, ColumnIs DEF Settles

LEMMA ReconcileSettles ==
    ASSUME NEW S, IsSchema(S), NEW R
    PROVE  Settles(S, ReconcileTypes(S), R)
<1>1. PICK T : T = ReconcileTypes(S)
  OBVIOUS
<1>2. /\ DOMAIN T = DOMAIN S
      /\ \A t \in DOMAIN S :
           /\ Has(T[t]) = Has(S[t]) /\ T[t].formed = S[t].formed
           /\ \A c \in Has(S[t]) : Reconciled(S, c, S[t].cols[c], T[t].cols[c])
  BY <1>1, ReconcileIs
<1>3. ASSUME NEW t \in DOMAIN S, NEW c \in Has(S[t]) \ External, S[t].cols[c].ref \in DOMAIN S
      PROVE  T[t].cols[c].pk = S[t].cols[c].pk /\ T[t].cols[c].ref = S[t].cols[c].ref
  <2>1. S[t].cols[c].ref # None
    BY <1>3, NamesAreOrdered DEF IsSchema
  <2> QED
    BY <1>2, <1>3, <2>1, ColumnIs DEF Reconciled
<1> QED
  BY <1>1, <1>2, <1>3 DEF Settles

LEMMA IndexesSettles ==
    ASSUME NEW S, IsSchema(S), NEW R
    PROVE  Settles(S, Indexes(S), R)
<1>1. PICK T : T = Indexes(S)
  OBVIOUS
<1>2. DOMAIN T = DOMAIN S /\ \A t \in DOMAIN S : T[t].cols = S[t].cols /\ T[t].formed = S[t].formed
  BY <1>1, IndexesIs
<1> QED
  BY <1>1, <1>2 DEF Settles, Has

LEMMA ExplicitSettles ==
    ASSUME NEW S, IsSchema(S), NEW R
    PROVE  Settles(S, ExplicitFields(S, R), R)
<1>1. PICK T : T = ExplicitFields(S, R)
  OBVIOUS
<1>2. /\ IsSchema(T) /\ DOMAIN T = DOMAIN S
      /\ \A t \in DOMAIN S :
           /\ Has(T[t]) = Has(S[t]) \cup FieldsOf(R, t) /\ T[t].idx = S[t].idx /\ T[t].formed = S[t].formed
           /\ \A c \in Has(S[t]) :
                T[t].cols[c] = Column(FieldType(R, t, c, S[t].cols[c].type), S[t].cols[c].pk, S[t].cols[c].ref)
           /\ \A c \in FieldsOf(R, t) : T[t].cols[c].type = FieldType(R, t, c, KeyType)
  BY <1>1, ExplicitIs
<1> QED
  BY <1>1, <1>2, ColumnIs DEF Settles

-----------------------------------------------------------------------------
(* What ensure_fk_references writes stays written *)

LinkedCell(S, R, t, c) ==
    LET col == S[t].cols[c]
    IN  /\ DeclaredTarget(R, t, c) \in DOMAIN S => col.ref = DeclaredTarget(R, t, c)
        /\ DeclaredTarget(R, t, c) = None /\ c # Id /\ col.ref = None => FkTarget(S, c) = None
Linked(S, R) == \A t \in DOMAIN S : \A c \in Has(S[t]) \ (External \cup FieldsOf(R, t)) : LinkedCell(S, R, t, c)

LEMMA TargetIs ==
    ASSUME NEW S, NEW T, DOMAIN T = DOMAIN S
    PROVE  \A c : FkTarget(T, c) = FkTarget(S, c)
BY DEF FkTarget

LEMMA ForeignLinks ==
    ASSUME NEW S, IsSchema(S), NEW R
    PROVE  Linked(ForeignKeys(S, R), R)
<1>1. PICK T : T = ForeignKeys(S, R)
  OBVIOUS
<1>2. /\ DOMAIN T = DOMAIN S
      /\ \A t \in DOMAIN S :
           /\ Has(T[t]) = Has(S[t])
           /\ \A c \in Has(S[t]) : T[t].cols[c] = Column(S[t].cols[c].type, S[t].cols[c].pk, FkRef(S, R, t, c))
  BY <1>1, ForeignIs
<1>3. None \notin DOMAIN S
  BY NamesAreOrdered DEF IsSchema
<1>4. ASSUME NEW t \in DOMAIN S, NEW c \in Has(S[t]) \ External
      PROVE  LinkedCell(T, R, t, c)
  <2>1. T[t].cols[c].ref = FkRef(S, R, t, c)
    BY <1>2, ColumnIs
  <2>2. DeclaredTarget(R, t, c) \in DOMAIN S => FkRef(S, R, t, c) = DeclaredTarget(R, t, c)
    BY <1>3 DEF FkRef
  <2>3. DeclaredTarget(R, t, c) = None /\ c # Id /\ FkRef(S, R, t, c) = None => FkTarget(S, c) = None
    BY <1>3, <1>4 DEF FkRef
  <2>4. FkTarget(T, c) = FkTarget(S, c)
    BY <1>2, TargetIs
  <2> QED
    BY <1>2, <2>1, <2>2, <2>3, <2>4 DEF LinkedCell
<1> QED
  BY <1>1, <1>2, <1>4 DEF Linked

LEMMA ReconcileLinks ==
    ASSUME NEW S, IsSchema(S), NEW R, Linked(S, R)
    PROVE  Linked(ReconcileTypes(S), R)
<1>1. PICK T : T = ReconcileTypes(S)
  OBVIOUS
<1>2. /\ DOMAIN T = DOMAIN S
      /\ \A t \in DOMAIN S :
           Has(T[t]) = Has(S[t]) /\ \A c \in Has(S[t]) : Reconciled(S, c, S[t].cols[c], T[t].cols[c])
  BY <1>1, ReconcileIs
<1>3. None \notin DOMAIN S
  BY NamesAreOrdered DEF IsSchema
<1>4. ASSUME NEW t \in DOMAIN S, NEW c \in Has(S[t]) \ (External \cup FieldsOf(R, t))
      PROVE  LinkedCell(T, R, t, c)
  <2>1. LinkedCell(S, R, t, c) /\ FkTarget(T, c) = FkTarget(S, c)
    BY <1>2, TargetIs DEF Linked
  <2>2. Reconciled(S, c, S[t].cols[c], T[t].cols[c])
    BY <1>2
  <2>3. S[t].cols[c].ref # None => T[t].cols[c].ref = S[t].cols[c].ref
    BY <2>2, <1>4, ColumnIs DEF Reconciled
  <2> QED
    BY <1>2, <1>3, <2>1, <2>3 DEF LinkedCell
<1> QED
  BY <1>1, <1>2, <1>4 DEF Linked

LEMMA IndexesLinks ==
    ASSUME NEW S, IsSchema(S), NEW R, Linked(S, R)
    PROVE  Linked(Indexes(S), R)
<1>1. PICK T : T = Indexes(S)
  OBVIOUS
<1>2. DOMAIN T = DOMAIN S /\ \A t \in DOMAIN S : T[t].cols = S[t].cols
  BY <1>1, IndexesIs
<1>3. \A c : FkTarget(T, c) = FkTarget(S, c)
  BY <1>2, TargetIs
<1> QED
  BY <1>1, <1>2, <1>3 DEF Linked, LinkedCell, Has

LEMMA ExplicitLinks ==
    ASSUME NEW S, IsSchema(S), NEW R, Linked(S, R)
    PROVE  Linked(ExplicitFields(S, R), R)
<1>1. PICK T : T = ExplicitFields(S, R)
  OBVIOUS
<1>2. /\ IsSchema(T) /\ DOMAIN T = DOMAIN S
      /\ \A t \in DOMAIN S :
           /\ Has(T[t]) = Has(S[t]) \cup FieldsOf(R, t) /\ T[t].idx = S[t].idx /\ T[t].formed = S[t].formed
           /\ \A c \in Has(S[t]) :
                T[t].cols[c] = Column(FieldType(R, t, c, S[t].cols[c].type), S[t].cols[c].pk, S[t].cols[c].ref)
           /\ \A c \in FieldsOf(R, t) : T[t].cols[c].type = FieldType(R, t, c, KeyType)
  BY <1>1, ExplicitIs
<1>3. ASSUME NEW t \in DOMAIN S, NEW c \in Has(T[t]) \ (External \cup FieldsOf(R, t))
      PROVE  LinkedCell(T, R, t, c)
  <2>1. c \in Has(S[t]) \ (External \cup FieldsOf(R, t))
    BY <1>2, <1>3
  <2>2. LinkedCell(S, R, t, c) /\ FkTarget(T, c) = FkTarget(S, c)
    BY <1>2, <2>1, TargetIs DEF Linked
  <2>3. T[t].cols[c].ref = S[t].cols[c].ref
    BY <1>2, <2>1, ColumnIs
  <2> QED
    BY <1>2, <2>2, <2>3 DEF LinkedCell
<1> QED
  BY <1>1, <1>2, <1>3 DEF Linked

-----------------------------------------------------------------------------
(* The self-check *)

\* What holds of a schema once a self-check has made it.
CheckedCell(D, R, t, c) ==
    LET col == D[t].cols[c]
    IN  /\ c \in External /\ FkTarget(D, c) = None => col.ref = None
        /\ c \in FieldsOf(R, t) /\ col.ref = None => col.type = FieldType(R, t, c, KeyType)
        /\ col.ref \in Keyed(D) /\ Id \in FieldsOf(R, col.ref) => col.type = FieldType(R, col.ref, Id, KeyType)
IsChecked(D, R) ==
    /\ IsSchema(D) /\ Linked(D, R) /\ KeysIndexed(D) /\ Malformed(D) = {}
    /\ Declared(R) \subseteq DOMAIN D /\ Revisions(D) = {}
    /\ \A t \in DOMAIN D :
         /\ FieldsOf(R, t) \subseteq Has(D[t]) /\ D[t].idx \subseteq Has(D[t])
         /\ \A c \in Has(D[t]) : CheckedCell(D, R, t, c)

LEMMA FormedStays ==
    ASSUME NEW S, NEW T, NEW R, Settles(S, T, R), Malformed(S) = {}
    PROVE  Malformed(T) = {}
BY DEF Settles, Malformed

\* The declared fields are put back last, and the keys once more take the types of what they reference.
LEMMA FieldsAreChecked ==
    ASSUME NEW C, IsSchema(C), NEW R, Linked(C, R), Declared(R) \subseteq DOMAIN C, Revisions(C) = {}, Malformed(C) = {},
           NEW D, D = ReconcileTypes(ExplicitFields(C, R))
    PROVE  IsChecked(D, R)
<1>1. PICK X : X = ExplicitFields(C, R)
  OBVIOUS
<1>2. /\ IsSchema(X) /\ DOMAIN X = DOMAIN C
      /\ \A t \in DOMAIN C :
           /\ Has(X[t]) = Has(C[t]) \cup FieldsOf(R, t) /\ X[t].idx = C[t].idx /\ X[t].formed = C[t].formed
           /\ \A c \in Has(C[t]) :
                X[t].cols[c] = Column(FieldType(R, t, c, C[t].cols[c].type), C[t].cols[c].pk, C[t].cols[c].ref)
           /\ \A c \in FieldsOf(R, t) : X[t].cols[c].type = FieldType(R, t, c, KeyType)
  BY <1>1, ExplicitIs
<1>3. Linked(X, R) /\ D = ReconcileTypes(X)
  BY <1>1, ExplicitLinks
<1>4. /\ IsSchema(D) /\ DOMAIN D = DOMAIN X
      /\ \A t \in DOMAIN X :
           /\ Has(D[t]) = Has(X[t]) /\ D[t].formed = X[t].formed
           /\ D[t].idx = (X[t].idx \cap Has(X[t])) \cup {c \in Has(D[t]) : D[t].cols[c].ref # None}
           /\ \A c \in Has(X[t]) : Reconciled(X, c, X[t].cols[c], D[t].cols[c])
  BY <1>2, <1>3, ReconcileIs
<1>5. Linked(D, R)
  BY <1>2, <1>3, ReconcileLinks
<1>6. Keyed(D) = Keyed(X) /\ None \notin Keyed(X)
  BY <1>4, NamesAreOrdered DEF Keyed, IsSchema
<1>7. ASSUME NEW t \in DOMAIN D, NEW c \in Has(D[t]) PROVE CheckedCell(D, R, t, c)
  <2>1. PICK old, new : old = X[t].cols[c] /\ new = D[t].cols[c]
    OBVIOUS
  <2>2. Reconciled(X, c, old, new)
    BY <1>4, <2>1
  <2>3. c \in External /\ FkTarget(D, c) = None => new.ref = None
    <3>1. FkTarget(D, c) = FkTarget(X, c)
      BY <1>4, TargetIs
    <3> QED
      BY <1>6, <2>2, <3>1, ColumnIs DEF Reconciled
  <2>4. new.ref = None => new.type = old.type
    BY <1>6, <2>2, ColumnIs DEF Reconciled
  <2>5. new.ref \in Keyed(X) => new.type = KeyTypeOf(X, new.ref)
    BY <1>6, <2>2, ColumnIs DEF Reconciled
  <2>6. c \in FieldsOf(R, t) => old.type = FieldType(R, t, c, KeyType)
    BY <1>2, <1>4, <2>1
  <2>7. \A u \in DOMAIN X : Id \in FieldsOf(R, u) => KeyTypeOf(X, u) = FieldType(R, u, Id, KeyType)
    BY <1>2 DEF KeyTypeOf
  <2>8. Keyed(X) \subseteq DOMAIN X
    BY DEF Keyed
  <2> QED
    BY <1>6, <2>1, <2>3, <2>4, <2>5, <2>6, <2>7, <2>8 DEF CheckedCell
<1>8. KeysIndexed(D)
  BY <1>4 DEF KeysIndexed
<1>9. \A t \in DOMAIN D : FieldsOf(R, t) \subseteq Has(D[t]) /\ D[t].idx \subseteq Has(D[t])
  BY <1>2, <1>4
<1>10. Declared(R) \subseteq DOMAIN D /\ Revisions(D) = {}
  BY <1>2, <1>4 DEF Revisions
<1>11. Malformed(D) = {}
  BY <1>2, <1>4 DEF Malformed
<1> QED
  BY <1>4, <1>5, <1>7, <1>8, <1>9, <1>10, <1>11 DEF IsChecked

\* A self-check of a schema that has the tables of the contract, and no revisions.
LEMMA SelfCheckIs ==
    ASSUME NEW T, IsSchema(T), NEW R, NEW rels, ~Complete(R),
           Declared(R) \subseteq DOMAIN T, Revisions(T) = {}, Malformed(T) = {}
    PROVE  \E D :
             /\ SelfCheck(T, rels, R).doc = Document(D, Relationships(CanonicalRels(rels, Sanitize(T), R), D))
             /\ KeyIssues(D) \cup NoPrimaryKey(D) \cup Unresolved(D) \subseteq SelfCheck(T, rels, R).issues
             /\ IsChecked(D, R)
             /\ Coherent(R) /\ OwnerKeyed(T, R) => OwnerKeyed(D, R)
<1>1. PICK A : A = Sanitize(T)
  OBVIOUS
<1>2. IsSchema(A) /\ DOMAIN A = DOMAIN T /\ Settles(T, A, R)
  BY <1>1, SanitizeIs, SanitizeSettles
<1>3. Declared(R) \subseteq DOMAIN A /\ Declared(R) \subseteq Names /\ Revisions(A) = {}
  BY <1>2 DEF IsSchema, Revisions
<1>4. MergeRevisions(ContractTables(CanonicalNames(A, R), R)) = A
  BY <1>2, <1>3, CanonicalIs, ContractIs, MergeIs
<1>5. PICK K, P, F : K = PrimaryKeys(A) /\ P = SpecialReferences(K) /\ F = ForeignKeys(P, R)
  OBVIOUS
<1>6. IsSchema(K) /\ DOMAIN K = DOMAIN A /\ Settles(A, K, R)
  BY <1>2, <1>5, PrimaryIs, PrimarySettles
<1>7. IsSchema(P) /\ DOMAIN P = DOMAIN K /\ Settles(K, P, R)
  BY <1>5, <1>6, SpecialIs, SpecialSettles
<1>8. IsSchema(F) /\ DOMAIN F = DOMAIN P /\ Settles(P, F, R) /\ Linked(F, R)
  BY <1>5, <1>7, ForeignIs, ForeignSettles, ForeignLinks
<1>9. PICK Q, C, X, D : Q = ReconcileTypes(F) /\ C = Indexes(Q) /\ X = ExplicitFields(C, R) /\ D = ReconcileTypes(X)
  OBVIOUS
<1>10. IsSchema(Q) /\ DOMAIN Q = DOMAIN F /\ Settles(F, Q, R) /\ Linked(Q, R)
  BY <1>8, <1>9, ReconcileIs, ReconcileSettles, ReconcileLinks
<1>11. IsSchema(C) /\ DOMAIN C = DOMAIN Q /\ Settles(Q, C, R) /\ Linked(C, R)
  BY <1>9, <1>10, IndexesIs, IndexesSettles, IndexesLinks
<1>12. IsSchema(X) /\ Settles(C, X, R)
  BY <1>9, <1>11, ExplicitIs, ExplicitSettles
<1>13. IsSchema(D) /\ Settles(X, D, R)
  BY <1>9, <1>12, ReconcileIs, ReconcileSettles
<1>14. Declared(R) \subseteq DOMAIN C /\ Revisions(C) = {}
  BY <1>3, <1>6, <1>7, <1>8, <1>10, <1>11 DEF Revisions
<1>15. IsChecked(D, R)
  <2>1. Malformed(A) = {}
    BY <1>2, FormedStays
  <2>2. Malformed(K) = {}
    BY <1>6, <2>1, FormedStays
  <2>3. Malformed(P) = {}
    BY <1>7, <2>2, FormedStays
  <2>4. Malformed(F) = {}
    BY <1>8, <2>3, FormedStays
  <2>5. Malformed(Q) = {}
    BY <1>10, <2>4, FormedStays
  <2>6. Malformed(C) = {}
    BY <1>11, <2>5, FormedStays
  <2> QED
    BY <1>9, <1>11, <1>14, <2>6, FieldsAreChecked
<1>16. ASSUME Coherent(R), OwnerKeyed(T, R) PROVE OwnerKeyed(D, R)
  <2>1. OwnerKeyed(A, R)
    BY <1>2, <1>16, SettlesOwners
  <2>2. OwnerKeyed(K, R)
    BY <1>2, <1>6, <1>16, <2>1, SettlesOwners
  <2>3. OwnerKeyed(P, R)
    BY <1>6, <1>7, <1>16, <2>2, SettlesOwners
  <2>4. OwnerKeyed(F, R)
    BY <1>7, <1>8, <1>16, <2>3, SettlesOwners
  <2>5. OwnerKeyed(Q, R)
    BY <1>8, <1>10, <1>16, <2>4, SettlesOwners
  <2>6. OwnerKeyed(C, R)
    BY <1>10, <1>11, <1>16, <2>5, SettlesOwners
  <2>7. OwnerKeyed(X, R)
    BY <1>11, <1>12, <1>16, <2>6, SettlesOwners
  <2> QED
    BY <1>12, <1>13, <1>16, <2>7, SettlesOwners
<1>17. SelfCheck(T, rels, R) =
         Checked(D, Relationships(CanonicalRels(rels, A, R), D),
                 UnknownFields(C, R) \cup KeyIssues(D) \cup NoPrimaryKey(D) \cup Unresolved(D))
  BY <1>1, <1>4, <1>5, <1>9 DEF SelfCheck
<1>18. /\ SelfCheck(T, rels, R).doc = Document(D, Relationships(CanonicalRels(rels, Sanitize(T), R), D))
       /\ KeyIssues(D) \cup NoPrimaryKey(D) \cup Unresolved(D) \subseteq SelfCheck(T, rels, R).issues
  BY <1>1, <1>17 DEF Checked
<1> QED
  BY <1>15, <1>16, <1>18

-----------------------------------------------------------------------------
(* The corrections before the self-check *)

LEMMA ReviewedIs ==
    ASSUME NEW S, IsSchema(S), NEW R, Declared(R) \subseteq Names
    PROVE  IsSchema(Reviewed(S, R))
<1>1. PICK A0, A1, A : A0 = Sanitize(S) /\ A1 = CanonicalNames(A0, R) /\ A = ContractTables(A1, R)
  OBVIOUS
<1>2. IsSchema(A0)
  BY <1>1, SanitizeIs
<1>3. IsSchema(A1)
  BY <1>1, <1>2, CanonicalIs
<1>4. IsSchema(A)
  BY <1>1, <1>3, ContractIs
<1>5. PICK B, C, D, E : B = PrimaryKeys(A) /\ C = ForeignKeys(B, R) /\ D = DomainTypes(C) /\ E = SchemaContracts(D, R)
  OBVIOUS
<1>6. IsSchema(B)
  BY <1>4, <1>5, PrimaryIs
<1>7. IsSchema(C)
  BY <1>5, <1>6, ForeignIs
<1>8. IsSchema(D)
  BY <1>5, <1>7, DomainIs
<1>9. IsSchema(E)
  BY <1>5, <1>8, SchemaContractsIs
<1>10. Reviewed(S, R) = ReconcileTypes(E)
  BY <1>1, <1>5 DEF Reviewed
<1> QED
  BY <1>9, <1>10, ReconcileIs

\* Coherent contracts keep their tables through a merge.
LEMMA MergeKeepsDeclared ==
    ASSUME NEW S, NEW R, Coherent(R), ~Complete(R), Declared(R) \subseteq DOMAIN S
    PROVE  Declared(R) \subseteq (DOMAIN S) \ Revisions(S)
BY DEF Coherent, Lasting, Revisions

\* What execute makes of the reviewed tables goes to the self-check with every owner's key.
LEMMA CorrectedIs ==
    ASSUME NEW S, IsSchema(S), NEW rels, NEW R, IsFiniteSet(DOMAIN R.tables), Declared(R) \subseteq Names
    PROVE  \E T, links :
             /\ Corrected(S, rels, R) = SelfCheck(T, links, R) /\ IsSchema(T)
             /\ Coherent(R) /\ ~Complete(R) =>
                  Declared(R) \subseteq DOMAIN T /\ Revisions(T) = {} /\ OwnerKeyed(T, R)
<1>1. PICK A0, A1, A : A0 = CanonicalNames(S, R) /\ A1 = ContractTables(A0, R) /\ A = Sanitize(A1)
  OBVIOUS
<1>2. IsSchema(A0)
  BY <1>1, CanonicalIs
<1>3. IsSchema(A1) /\ DOMAIN A1 = DOMAIN A0 \cup Declared(R)
  BY <1>1, <1>2, ContractIs
<1>4. IsSchema(A) /\ DOMAIN A = DOMAIN A1
  BY <1>1, <1>3, SanitizeIs
<1>5. CanonicalNames(A, R) = A
  BY <1>3, <1>4, CanonicalIs
<1>6. PICK B0, B : B0 = MergeRevisions(A) /\ B = PrimaryKeys(B0)
  OBVIOUS
<1>7. IsSchema(B0) /\ DOMAIN B0 = (DOMAIN A) \ Revisions(A) /\ Revisions(B0) = {}
  BY <1>4, <1>6, MergeIs
<1>8. IsSchema(B) /\ DOMAIN B = DOMAIN B0
  BY <1>6, <1>7, PrimaryIs
<1>9. PICK F, N, E, C : F = ForeignKeys(B, R) /\ N = DomainTypes(F) /\ E = SchemaContracts(N, R) /\ C = ReconcileTypes(E)
  OBVIOUS
<1>10. IsSchema(F) /\ DOMAIN F = DOMAIN B
  BY <1>8, <1>9, ForeignIs
<1>11. IsSchema(N) /\ DOMAIN N = DOMAIN F
  BY <1>9, <1>10, DomainIs
<1>12. IsSchema(E) /\ DOMAIN E = DOMAIN N
  BY <1>9, <1>11, SchemaContractsIs
<1>13. IsSchema(C) /\ DOMAIN C = DOMAIN E
  BY <1>9, <1>12, ReconcileIs
<1>14. PICK M, T : M = FeatureMappings(C, R) /\ T = ReconcileTypes(M)
  OBVIOUS
<1>15. IsSchema(M) /\ DOMAIN M = DOMAIN C /\ (KeysApart(R) => OwnerKeyed(M, R))
  BY <1>13, <1>14, MappingsAre
<1>16. IsSchema(T) /\ DOMAIN T = DOMAIN M /\ Settles(M, T, R)
  BY <1>14, <1>15, ReconcileIs, ReconcileSettles
<1>17. DOMAIN T = (DOMAIN A) \ Revisions(A)
  BY <1>7, <1>8, <1>10, <1>11, <1>12, <1>13, <1>15, <1>16
<1>18. ASSUME Coherent(R), ~Complete(R)
       PROVE  Declared(R) \subseteq DOMAIN T /\ Revisions(T) = {} /\ OwnerKeyed(T, R)
  <2>1. Declared(R) \subseteq (DOMAIN A) \ Revisions(A)
    BY <1>3, <1>4, <1>18, MergeKeepsDeclared
  <2>2. Revisions(T) = {}
    BY <1>17 DEF Revisions
  <2>3. KeysApart(R)
    BY <1>18 DEF Coherent, KeysApart
  <2>4. OwnerKeyed(T, R)
    BY <1>15, <1>16, <1>18, <2>3, SettlesOwners
  <2> QED
    BY <1>17, <2>1, <2>2, <2>4
<1>19. \E links : Corrected(S, rels, R) = SelfCheck(T, links, R)
  BY <1>1, <1>5, <1>6, <1>9, <1>14 DEF Corrected
<1> QED
  BY <1>16, <1>18, <1>19

-----------------------------------------------------------------------------
(* A second look *)

\* A schema a self-check has made without an issue; no field came too late for its key, and no
\* external identifier names a table.
RestCell(D, R, t, c) ==
    LET col == D[t].cols[c]
    IN  /\ col.ref # None => col.ref \in Keyed(D) /\ KeyTypeOf(D, col.ref) = col.type
        /\ FkRef(D, R, t, c) = col.ref
        /\ c \in External \/ col.ref = None => FkTarget(D, c) = None
AtRest(D, R) ==
    /\ IsChecked(D, R)
    /\ \A t \in DOMAIN D : /\ \E c \in Has(D[t]) : D[t].cols[c].pk
                           /\ \A c \in Has(D[t]) : RestCell(D, R, t, c)

LEMMA CellIs ==
    ASSUME NEW D, IsSchema(D), NEW t \in DOMAIN D, NEW c \in Has(D[t])
    PROVE  /\ <<t, c>> \in Cells(D) /\ Ref(D, <<t, c>>) = D[t].cols[c].ref /\ c \in Columns
           /\ IsColumn(D[t].cols[c])
<1>1. c \in Columns /\ IsColumn(D[t].cols[c])
  BY DEF IsSchema, IsTable
<1>2. <<t, c>> \in (DOMAIN D) \X Columns
  BY <1>1
<1>3. <<t, c>>[1] = t /\ <<t, c>>[2] = c
  OBVIOUS
<1> QED
  BY <1>1, <1>2, <1>3 DEF Cells, Ref

\* In a schema without key issues every reference names a keyed table of the key's type.
LEMMA KeysAreSound ==
    ASSUME NEW D, IsSchema(D), KeyIssues(D) = {}, NEW t \in DOMAIN D, NEW c \in Has(D[t]),
           D[t].cols[c].ref # None
    PROVE  D[t].cols[c].ref \in Keyed(D) /\ KeyTypeOf(D, D[t].cols[c].ref) = D[t].cols[c].type
<1>1. PICK p : p = <<t, c>>
  OBVIOUS
<1>2. p \in Cells(D) /\ Ref(D, p) = D[t].cols[c].ref /\ D[p[1]].cols[p[2]].type = D[t].cols[c].type
  BY <1>1, CellIs
<1>3. <<"key", p>> \notin KeyIssues(D)
  OBVIOUS
<1> QED
  BY <1>2, <1>3 DEF KeyIssues

LEMMA KeyedTables ==
    ASSUME NEW D, NoPrimaryKey(D) = {}, NEW t \in DOMAIN D
    PROVE  \E c \in Has(D[t]) : D[t].cols[c].pk
<1>1. <<"pk", t>> \notin NoPrimaryKey(D)
  OBVIOUS
<1> QED
  BY <1>1 DEF NoPrimaryKey

LEMMA DeclaredIs ==
    ASSUME NEW R, Coherent(R), Declared(R) \subseteq Names, NEW t, NEW c, DeclaredTarget(R, t, c) # None
    PROVE  DeclaredTarget(R, t, c) \in Declared(R) /\ c \notin External /\ <<t, c>> \in DOMAIN R.keys
<1>1. <<t, c>> \in DOMAIN R.keys /\ DeclaredTarget(R, t, c) = R.keys[<<t, c>>]
  BY DEF DeclaredTarget
<1>2. <<t, c>>[2] = c
  OBVIOUS
<1> QED
  BY <1>1, <1>2 DEF Coherent

LEMMA RestIs ==
    ASSUME NEW D, NEW R, IsChecked(D, R), KeyIssues(D) = {}, NoPrimaryKey(D) = {}, Coherent(R),
           Late(D, R) = {}
    PROVE  AtRest(D, R)
<1>1. /\ IsSchema(D) /\ Declared(R) \subseteq DOMAIN D /\ DOMAIN D \subseteq Names /\ Linked(D, R)
      /\ None \notin DOMAIN D
  BY NamesAreOrdered DEF IsChecked, IsSchema
<1>2. \A t \in DOMAIN D : \E c \in Has(D[t]) : D[t].cols[c].pk
  BY KeyedTables
<1>3. ASSUME NEW t \in DOMAIN D, NEW c \in Has(D[t]) PROVE RestCell(D, R, t, c)
  <2>1. PICK col, to, p : col = D[t].cols[c] /\ to = DeclaredTarget(R, t, c) /\ p = <<t, c>>
    OBVIOUS
  <2>2. p \in Cells(D) /\ Ref(D, p) = col.ref /\ c \in Columns /\ p[2] = c
    BY <1>1, <2>1, CellIs
  <2>3. col.ref # None => col.ref \in Keyed(D) /\ KeyTypeOf(D, col.ref) = col.type
    BY <1>1, <2>1, KeysAreSound
  <2>4. to # None => to \in DOMAIN D /\ c \notin External /\ p \in DOMAIN R.keys
    BY <1>1, <2>1, DeclaredIs
  <2>5. to = None => p \notin DOMAIN R.keys
    <3>1. p \in DOMAIN R.keys => R.keys[p] \in Declared(R)
      BY DEF Coherent
    <3> QED
      BY <1>1, <2>1, <3>1 DEF DeclaredTarget
  <2>6. p \notin Late(D, R)
    OBVIOUS
  <2>7. c \in FieldsOf(R, t) <=> p \in DOMAIN R.fields
    BY <2>1, <2>2 DEF FieldsOf
  <2>8. c \notin FieldsOf(R, t) /\ c \notin External => LinkedCell(D, R, t, c)
    BY <1>1 DEF Linked
  <2>9. to # None => col.ref = to
    <3>1. CASE c \in FieldsOf(R, t)
      <4>1. to # None => R.keys[p] = to
        BY <2>1 DEF DeclaredTarget
      <4> QED
        BY <2>2, <2>4, <2>6, <2>7, <3>1, <4>1 DEF Late
    <3>2. CASE c \notin FieldsOf(R, t)
      BY <2>1, <2>4, <2>8, <3>2 DEF LinkedCell
    <3> QED
      BY <3>1, <3>2
  <2>10. c \in External \cup {Id} => FkTarget(D, c) = None
    <3>1. FkTarget(D, Id) = None
      BY KeysAreColumns DEF FkTarget, Unique
    <3>2. c \in External => FkTarget(D, c) = None
      BY <2>2, <2>6 DEF Late
    <3> QED
      BY <3>1, <3>2
  <2>11. to = None /\ c \notin External \cup {Id} /\ col.ref = None => FkTarget(D, c) = None
    <3>1. CASE c \in FieldsOf(R, t)
      BY <2>2, <2>5, <2>6, <2>7, <3>1 DEF Late
    <3>2. CASE c \notin FieldsOf(R, t)
      BY <2>1, <2>8, <3>2 DEF LinkedCell
    <3> QED
      BY <3>1, <3>2
  <2>12. col.ref # None => col.ref \in DOMAIN D
    BY <2>3 DEF Keyed
  <2>13. FkRef(D, R, t, c) = col.ref
    <3>1. CASE to # None
      BY <2>1, <2>4, <2>9, <3>1 DEF FkRef
    <3>2. CASE to = None
      BY <2>1, <2>11, <2>12, <3>2 DEF FkRef
    <3> QED
      BY <3>1, <3>2
  <2>14. c \in External \/ col.ref = None => FkTarget(D, c) = None
    BY <1>1, <2>4, <2>9, <2>11, <2>10
  <2> QED
    BY <2>1, <2>3, <2>13, <2>14 DEF RestCell
<1> QED
  BY <1>2, <1>3 DEF AtRest

LEMMA SchemaSame ==
    ASSUME NEW S, IsSchema(S), NEW T, IsSchema(T), DOMAIN T = DOMAIN S,
           \A t \in DOMAIN S : /\ Has(T[t]) = Has(S[t]) /\ T[t].idx = S[t].idx /\ T[t].formed = S[t].formed
                               /\ \A c \in Has(S[t]) : T[t].cols[c] = S[t].cols[c]
    PROVE  T = S
<1>1. ASSUME NEW t \in DOMAIN S PROVE T[t] = S[t]
  <2>1. IsTable(S[t]) /\ IsTable(T[t])
    BY DEF IsSchema
  <2>2. T[t].cols = S[t].cols
    BY <2>1 DEF IsTable
  <2> QED
    BY <2>1, <2>2 DEF IsTable
<1> QED
  BY <1>1 DEF IsSchema

\* The passes of the self-check, one after the other, leave such a schema alone.
LEMMA RestSanitized ==
    ASSUME NEW D, NEW R, AtRest(D, R)
    PROVE  Sanitize(D) = D
<1>1. PICK T : T = Sanitize(D)
  OBVIOUS
<1>2. IsSchema(D) /\ \A t \in DOMAIN D : Has(D[t]) # {} /\ D[t].idx \subseteq Has(D[t])
  BY DEF AtRest, IsChecked
<1>3. /\ IsSchema(T) /\ DOMAIN T = DOMAIN D
      /\ \A t \in DOMAIN D :
           /\ T[t].formed = D[t].formed
           /\ Has(D[t]) # {} => T[t].cols = D[t].cols /\ T[t].idx = D[t].idx \cap Has(D[t])
  BY <1>1, <1>2, SanitizeIs
<1>4. \A t \in DOMAIN D : /\ Has(T[t]) = Has(D[t]) /\ T[t].idx = D[t].idx /\ T[t].formed = D[t].formed
                          /\ \A c \in Has(D[t]) : T[t].cols[c] = D[t].cols[c]
  BY <1>2, <1>3 DEF Has
<1> QED
  BY <1>1, <1>2, <1>3, <1>4, SchemaSame

LEMMA RestKeyed ==
    ASSUME NEW D, NEW R, AtRest(D, R)
    PROVE  PrimaryKeys(D) = D
<1>1. PICK T : T = PrimaryKeys(D)
  OBVIOUS
<1>2. IsSchema(D) /\ \A t \in DOMAIN D : \E c \in Has(D[t]) : D[t].cols[c].pk
  BY DEF AtRest, IsChecked
<1>3. /\ IsSchema(T) /\ DOMAIN T = DOMAIN D
      /\ \A t \in DOMAIN D : (\E c \in Has(D[t]) : D[t].cols[c].pk) => T[t] = D[t]
  BY <1>1, <1>2, PrimaryIs
<1> QED
  BY <1>1, <1>2, <1>3 DEF IsSchema

LEMMA RestSpecial ==
    ASSUME NEW D, NEW R, AtRest(D, R)
    PROVE  SpecialReferences(D) = D
<1>1. PICK T : T = SpecialReferences(D)
  OBVIOUS
<1>2. IsSchema(D) /\ \A t \in DOMAIN D : \A c \in Has(D[t]) : CheckedCell(D, R, t, c) /\ RestCell(D, R, t, c)
  BY DEF AtRest, IsChecked
<1>3. /\ IsSchema(T) /\ DOMAIN T = DOMAIN D
      /\ \A t \in DOMAIN D :
           /\ Has(T[t]) = Has(D[t]) /\ T[t].idx = D[t].idx /\ T[t].formed = D[t].formed
           /\ \A c \in Has(D[t]) :
                /\ c \in External => T[t].cols[c] = Column(D[t].cols[c].type, D[t].cols[c].pk, None)
                /\ c \notin External => T[t].cols[c] = D[t].cols[c]
  BY <1>1, <1>2, SpecialIs
<1>4. ASSUME NEW t \in DOMAIN D, NEW c \in Has(D[t]) PROVE T[t].cols[c] = D[t].cols[c]
  <2>1. c \in External => D[t].cols[c].ref = None
    BY <1>2 DEF CheckedCell, RestCell
  <2>2. D[t].cols[c] = Column(D[t].cols[c].type, D[t].cols[c].pk, D[t].cols[c].ref)
    BY <1>2 DEF IsSchema, IsTable, IsColumn
  <2> QED
    BY <1>3, <2>1, <2>2
<1> QED
  BY <1>1, <1>2, <1>3, <1>4, SchemaSame

LEMMA RestForeign ==
    ASSUME NEW D, NEW R, AtRest(D, R)
    PROVE  ForeignKeys(D, R) = D
<1>1. PICK T : T = ForeignKeys(D, R)
  OBVIOUS
<1>2. IsSchema(D) /\ \A t \in DOMAIN D : \A c \in Has(D[t]) : FkRef(D, R, t, c) = D[t].cols[c].ref
  BY DEF AtRest, IsChecked, RestCell
<1>3. /\ IsSchema(T) /\ DOMAIN T = DOMAIN D
      /\ \A t \in DOMAIN D :
           /\ Has(T[t]) = Has(D[t]) /\ T[t].idx = D[t].idx /\ T[t].formed = D[t].formed
           /\ \A c \in Has(D[t]) : T[t].cols[c] = Column(D[t].cols[c].type, D[t].cols[c].pk, FkRef(D, R, t, c))
  BY <1>1, <1>2, ForeignIs
<1>4. ASSUME NEW t \in DOMAIN D, NEW c \in Has(D[t]) PROVE T[t].cols[c] = D[t].cols[c]
  <2>1. D[t].cols[c] = Column(D[t].cols[c].type, D[t].cols[c].pk, D[t].cols[c].ref)
    BY <1>2 DEF IsSchema, IsTable, IsColumn
  <2> QED
    BY <1>2, <1>3, <2>1
<1> QED
  BY <1>1, <1>2, <1>3, <1>4, SchemaSame

\* A column that references a key has the key's type already; the others reference nothing.
LEMMA RestCells ==
    ASSUME NEW D, NEW R, AtRest(D, R), NEW X, IsSchema(X), DOMAIN X = DOMAIN D,
           NEW t \in DOMAIN D, NEW c \in Has(D[t]), NEW old, IsColumn(old), NEW new, Reconciled(X, c, old, new),
           old.pk = D[t].cols[c].pk, old.ref = D[t].cols[c].ref,
           old.ref = None => old.type = D[t].cols[c].type,
           Keyed(X) = Keyed(D), old.ref # None => KeyTypeOf(X, old.ref) = KeyTypeOf(D, old.ref)
    PROVE  new = D[t].cols[c]
<1>1. PICK col : col = D[t].cols[c]
  OBVIOUS
<1>2. RestCell(D, R, t, c) /\ CheckedCell(D, R, t, c) /\ IsSchema(D) /\ None \notin Keyed(D)
  BY NamesAreOrdered DEF AtRest, IsChecked, IsSchema, Keyed
<1>3. IsColumn(col)
  BY <1>1, <1>2 DEF IsSchema, IsTable
<1>4. FkTarget(X, c) = FkTarget(D, c)
  BY TargetIs
<1>5. CASE old.ref = None
  <2>1. old = col
    BY <1>1, <1>3, <1>5 DEF IsColumn
  <2>2. FkTarget(X, c) \notin Keyed(X)
    BY <1>1, <1>2, <1>4, <1>5 DEF RestCell
  <2>3. new = Column(old.type, old.pk, None)
    BY <1>5, <2>2 DEF Reconciled
  <2> QED
    BY <1>1, <1>3, <1>5, <2>1, <2>3 DEF IsColumn
<1>6. CASE old.ref # None
  <2>1. c \notin External /\ col.ref \in Keyed(X) /\ KeyTypeOf(D, col.ref) = col.type
    BY <1>1, <1>2, <1>6 DEF RestCell, CheckedCell
  <2>2. new = Column(KeyTypeOf(X, old.ref), old.pk, old.ref)
    BY <1>1, <1>6, <2>1 DEF Reconciled
  <2>3. new = Column(col.type, col.pk, col.ref)
    BY <1>1, <1>6, <2>1, <2>2
  <2> QED
    BY <1>1, <1>3, <2>3 DEF IsColumn
<1> QED
  BY <1>5, <1>6

LEMMA RestReconciled ==
    ASSUME NEW D, NEW R, AtRest(D, R)
    PROVE  ReconcileTypes(D) = D
<1>1. PICK T : T = ReconcileTypes(D)
  OBVIOUS
<1>2. /\ IsSchema(D) /\ KeysIndexed(D) /\ \A t \in DOMAIN D : D[t].idx \subseteq Has(D[t])
      /\ \A t \in DOMAIN D : \A c \in Has(D[t]) : IsColumn(D[t].cols[c])
  BY DEF AtRest, IsChecked, IsSchema, IsTable
<1>3. /\ IsSchema(T) /\ DOMAIN T = DOMAIN D
      /\ \A t \in DOMAIN D :
           /\ Has(T[t]) = Has(D[t]) /\ T[t].formed = D[t].formed
           /\ T[t].idx = (D[t].idx \cap Has(D[t])) \cup {c \in Has(T[t]) : T[t].cols[c].ref # None}
           /\ \A c \in Has(D[t]) : Reconciled(D, c, D[t].cols[c], T[t].cols[c])
  BY <1>1, <1>2, ReconcileIs
<1>4. ASSUME NEW t \in DOMAIN D, NEW c \in Has(D[t]) PROVE T[t].cols[c] = D[t].cols[c]
  BY <1>2, <1>3, RestCells
<1>5. ASSUME NEW t \in DOMAIN D PROVE T[t].idx = D[t].idx /\ T[t].formed = D[t].formed
  <2>1. \A c \in Has(T[t]) : T[t].cols[c].ref # None => c \in D[t].idx
    BY <1>2, <1>3, <1>4 DEF KeysIndexed
  <2>2. D[t].idx \cap Has(D[t]) = D[t].idx
    BY <1>2, <1>3, <1>4
  <2>3. T[t].idx = (D[t].idx \cap Has(D[t])) \cup {c \in Has(T[t]) : T[t].cols[c].ref # None}
    BY <1>2, <1>3, <1>4
  <2> QED
    BY <1>3, <2>1, <2>2, <2>3
<1> QED
  BY <1>1, <1>2, <1>3, <1>4, <1>5, SchemaSame

LEMMA RestIndexed ==
    ASSUME NEW D, NEW R, AtRest(D, R)
    PROVE  Indexes(D) = D
<1>1. PICK T : T = Indexes(D)
  OBVIOUS
<1>2. IsSchema(D) /\ KeysIndexed(D) /\ \A t \in DOMAIN D : D[t].idx \subseteq Has(D[t])
  BY DEF AtRest, IsChecked
<1>3. /\ IsSchema(T) /\ DOMAIN T = DOMAIN D
      /\ \A t \in DOMAIN D :
           /\ T[t].cols = D[t].cols /\ T[t].formed = D[t].formed
           /\ T[t].idx = (D[t].idx \cap Has(D[t])) \cup {c \in Has(D[t]) : D[t].cols[c].ref # None}
  BY <1>1, <1>2, IndexesIs
<1>4. \A t \in DOMAIN D : /\ Has(T[t]) = Has(D[t]) /\ T[t].idx = D[t].idx /\ T[t].formed = D[t].formed
                          /\ \A c \in Has(D[t]) : T[t].cols[c] = D[t].cols[c]
  BY <1>2, <1>3 DEF Has, KeysIndexed
<1> QED
  BY <1>1, <1>2, <1>3, <1>4, SchemaSame

\* The declared types are put back, and give way again to those of the keys.
LEMMA RestDeclared ==
    ASSUME NEW D, NEW R, AtRest(D, R)
    PROVE  ReconcileTypes(ExplicitFields(D, R)) = D
<1>1. PICK X, T : X = ExplicitFields(D, R) /\ T = ReconcileTypes(X)
  OBVIOUS
<1>2. /\ IsSchema(D) /\ KeysIndexed(D)
      /\ \A t \in DOMAIN D : D[t].idx \subseteq Has(D[t]) /\ FieldsOf(R, t) \subseteq Has(D[t])
      /\ \A t \in DOMAIN D : \A c \in Has(D[t]) : CheckedCell(D, R, t, c) /\ RestCell(D, R, t, c)
  BY DEF AtRest, IsChecked
<1>3. /\ IsSchema(X) /\ DOMAIN X = DOMAIN D
      /\ \A t \in DOMAIN D :
           /\ Has(X[t]) = Has(D[t]) \cup FieldsOf(R, t) /\ X[t].idx = D[t].idx /\ X[t].formed = D[t].formed
           /\ \A c \in Has(D[t]) :
                X[t].cols[c] = Column(FieldType(R, t, c, D[t].cols[c].type), D[t].cols[c].pk, D[t].cols[c].ref)
           /\ \A c \in FieldsOf(R, t) : X[t].cols[c].type = FieldType(R, t, c, KeyType)
  BY <1>1, <1>2, ExplicitIs
<1>4. \A t \in DOMAIN D : Has(X[t]) = Has(D[t])
  BY <1>2, <1>3
<1>5. /\ IsSchema(T) /\ DOMAIN T = DOMAIN X
      /\ \A t \in DOMAIN X :
           /\ Has(T[t]) = Has(X[t]) /\ T[t].formed = X[t].formed
           /\ T[t].idx = (X[t].idx \cap Has(X[t])) \cup {c \in Has(T[t]) : T[t].cols[c].ref # None}
           /\ \A c \in Has(X[t]) : Reconciled(X, c, X[t].cols[c], T[t].cols[c])
  BY <1>1, <1>3, ReconcileIs
<1>6. Keyed(X) = Keyed(D)
  BY <1>3, <1>4 DEF Keyed
<1>7. ASSUME NEW t \in DOMAIN D, NEW c \in Has(D[t]) PROVE T[t].cols[c] = D[t].cols[c]
  <2>1. PICK col, old, new : col = D[t].cols[c] /\ old = X[t].cols[c] /\ new = T[t].cols[c]
    OBVIOUS
  <2>2. old = Column(FieldType(R, t, c, col.type), col.pk, col.ref)
    BY <1>3, <2>1
  <2>3. IsColumn(old) /\ old.type = FieldType(R, t, c, col.type) /\ old.pk = col.pk /\ old.ref = col.ref
    BY <2>2, ColumnIs
  <2>4. Reconciled(X, c, old, new)
    BY <1>3, <1>4, <1>5, <2>1
  <2>5. CheckedCell(D, R, t, c) /\ RestCell(D, R, t, c)
    BY <1>2
  <2>6. old.ref = None => old.type = col.type
    BY <2>1, <2>3, <2>5 DEF CheckedCell, FieldType
  <2>7. ASSUME old.ref # None PROVE KeyTypeOf(X, old.ref) = KeyTypeOf(D, old.ref)
    <3>1. PICK u : u = old.ref
      OBVIOUS
    <3>2. u \in Keyed(D) /\ KeyTypeOf(D, u) = col.type
      BY <2>1, <2>3, <2>5, <2>7, <3>1 DEF RestCell
    <3>3. u \in DOMAIN D /\ Id \in Has(D[u])
      BY <3>2 DEF Keyed
    <3>4. X[u].cols[Id].type = FieldType(R, u, Id, D[u].cols[Id].type)
      BY <1>3, <3>3, ColumnIs
    <3>5. CASE Id \in FieldsOf(R, u)
      <4>1. col.type = FieldType(R, u, Id, KeyType)
        BY <2>1, <2>3, <2>5, <3>1, <3>2, <3>5 DEF CheckedCell
      <4> QED
        BY <3>1, <3>2, <3>4, <3>5, <4>1 DEF KeyTypeOf, FieldType
    <3>6. CASE Id \notin FieldsOf(R, u)
      BY <3>1, <3>4, <3>6 DEF KeyTypeOf, FieldType
    <3> QED
      BY <3>5, <3>6
  <2>8. old.pk = D[t].cols[c].pk /\ old.ref = D[t].cols[c].ref /\ (old.ref = None => old.type = D[t].cols[c].type)
    BY <2>1, <2>3, <2>6
  <2>9. new = D[t].cols[c]
    BY <1>3, <1>6, <2>3, <2>4, <2>7, <2>8, RestCells
  <2> QED
    BY <2>1, <2>9
<1>8. ASSUME NEW t \in DOMAIN D PROVE T[t].idx = D[t].idx /\ T[t].formed = D[t].formed
  <2>1. \A c \in Has(T[t]) : T[t].cols[c].ref # None => c \in D[t].idx
    BY <1>2, <1>3, <1>4, <1>5, <1>7 DEF KeysIndexed
  <2>2. X[t].idx \cap Has(X[t]) = D[t].idx
    BY <1>2, <1>3, <1>4, <1>5, <1>7
  <2>3. T[t].idx = (X[t].idx \cap Has(X[t])) \cup {c \in Has(T[t]) : T[t].cols[c].ref # None}
    BY <1>2, <1>3, <1>4, <1>5, <1>7
  <2> QED
    BY <1>3, <1>5, <2>1, <2>2, <2>3
<1> QED
  BY <1>1, <1>2, <1>3, <1>4, <1>5, <1>7, <1>8, SchemaSame

LEMMA RestSelfCheck ==
    ASSUME NEW D, NEW R, AtRest(D, R), ~Complete(R), NEW rels
    PROVE  SelfCheck(D, rels, R).doc = Document(D, Relationships(CanonicalRels(rels, D, R), D))
<1>1. IsSchema(D) /\ Declared(R) \subseteq DOMAIN D /\ Declared(R) \subseteq Names /\ Revisions(D) = {}
  BY DEF AtRest, IsChecked, IsSchema
<1>2. Sanitize(D) = D
  BY RestSanitized
<1>3. MergeRevisions(ContractTables(CanonicalNames(D, R), R)) = D
  BY <1>1, CanonicalIs, ContractIs, MergeIs
<1>4. Indexes(ReconcileTypes(ForeignKeys(SpecialReferences(PrimaryKeys(D)), R))) = D
  BY RestKeyed, RestSpecial, RestForeign, RestReconciled, RestIndexed
<1>5. ReconcileTypes(ExplicitFields(D, R)) = D
  BY RestDeclared
<1>6. Malformed(D) = {}
  BY DEF AtRest, IsChecked
<1>7. \E issues : SelfCheck(D, rels, R) = Checked(D, Relationships(CanonicalRels(rels, D, R), D), issues)
  BY <1>2, <1>3, <1>4, <1>5, <1>6 DEF SelfCheck
<1> QED
  BY <1>7 DEF Checked

LEMMA RelationshipsTwice ==
    ASSUME NEW S, NEW rels
    PROVE  Relationships(Relationships(rels, S), S) = Relationships(rels, S)
BY DEF Relationships

LEMMA NormalizedIs ==
    ASSUME NEW S, NEW links
    PROVE  Normalized(Document(S, links)) = Document(S, Relationships(links, S))
BY DEF Normalized, Document

\* The relationships of a schema, collected once more, are the same.
LEMMA RelationshipsRest ==
    ASSUME NEW S, NEW R, Declared(R) \subseteq DOMAIN S, NEW rels, rels = CanonicalRels(rels, S, R)
    PROVE  LET links == Relationships(rels, S)
           IN  Relationships(CanonicalRels(links, S, R), S) = links
<1>1. PICK links : links = Relationships(rels, S)
  OBVIOUS
<1>2. \A x : Renamed(S, R, x) = x
  BY NamesAreKept
<1>3. \A p \in rels : p = <<p[1], p[2]>>
  BY <1>2 DEF CanonicalRels
<1>4. \A p \in Implied(S) : p = <<p[1], p[2]>>
  BY DEF Implied
<1>5. links \subseteq rels \cup Implied(S)
  BY <1>1 DEF Relationships
<1>6. \A p \in links : p = <<p[1], p[2]>>
  BY <1>3, <1>4, <1>5
<1>7. CanonicalRels(links, S, R) = links
  <2>1. CanonicalRels(links, S, R) = {<<p[1], p[2]>> : p \in links}
    BY <1>2 DEF CanonicalRels
  <2>2. \A p \in links : p \in {<<q[1], q[2]>> : q \in links}
    BY <1>6
  <2>3. \A x \in {<<q[1], q[2]>> : q \in links} : x \in links
    BY <1>6
  <2> QED
    BY <2>1, <2>2, <2>3
<1>8. Relationships(links, S) = links
  BY <1>1, RelationshipsTwice
<1> QED
  BY <1>1, <1>7, <1>8

-----------------------------------------------------------------------------
(* The saved schema *)

\* SavedIsSound, KeysHaveTheirTarget and SavedIsStable of a document.
SoundTables(S, R) ==
    /\ KeyIssues(S) \cup NoPrimaryKey(S) = {}
    /\ Complete(R) \/ Unresolved(S) = {}
TargetsKept(S, R) ==
    /\ Declared(R) \subseteq DOMAIN S
    /\ \A p \in DOMAIN R.keys \cap Cells(S) :
         Complete(R) \/ p \notin DOMAIN R.fields => Ref(S, p) = R.keys[p]
StableDocument(doc, R) ==
    Complete(R) \/ Late(doc.tables, R) = {} =>
      LET again == SelfCheck(doc.tables, doc.rels, R).doc
      IN  Normalized(again) = doc /\ (Complete(R) \/ again = doc)
Settled(doc, R) == SoundTables(doc.tables, R) /\ TargetsKept(doc.tables, R) /\ StableDocument(doc, R)

\* A contract that declares every column is saved as it is.
ContractColumn(R, t, c) == Column(R.fields[<<t, c>>], c = Id, DeclaredTarget(R, t, c))

LEMMA ContractColumnIs ==
    ASSUME NEW R, NEW t, NEW c
    PROVE  /\ IsColumn(ContractColumn(R, t, c)) /\ ContractColumn(R, t, c).ref = DeclaredTarget(R, t, c)
           /\ c = Id => ContractColumn(R, t, c).pk
<1>1. PICK b : ContractColumn(R, t, c) = Column(R.fields[<<t, c>>], b, DeclaredTarget(R, t, c))
  BY DEF ContractColumn
<1>2. IsColumn(ContractColumn(R, t, c)) /\ ContractColumn(R, t, c).ref = DeclaredTarget(R, t, c)
  BY <1>1, ColumnIs
<1>3. ASSUME c = Id PROVE ContractColumn(R, t, c).pk
  <2>1. ContractColumn(R, t, c) = Column(R.fields[<<t, c>>], TRUE, DeclaredTarget(R, t, c))
    BY <1>3 DEF ContractColumn
  <2> QED
    BY <2>1 DEF Column
<1> QED
  BY <1>2, <1>3

LEMMA ProjectedIs ==
    ASSUME NEW S, NEW R, Declared(R) \subseteq Names, NEW T, T = Projected(S, R)
    PROVE  /\ IsSchema(T) /\ DOMAIN T = Declared(R) /\ Malformed(T) = {}
           /\ \A t \in Declared(R) :
                /\ Has(T[t]) = FieldsOf(R, t) /\ T[t].idx = (IF t \in DOMAIN S THEN S[t].idx ELSE {})
                /\ T[t].cols = [c \in FieldsOf(R, t) |-> ContractColumn(R, t, c)]
<1>1. T = [t \in Declared(R) |->
             [cols |-> [c \in FieldsOf(R, t) |-> ContractColumn(R, t, c)],
              idx |-> IF t \in DOMAIN S THEN S[t].idx ELSE {}, formed |-> TRUE]]
  BY DEF Projected, EachTable, Once, ContractColumn
<1>2. ASSUME NEW t \in Declared(R)
      PROVE  /\ IsTable(T[t]) /\ Has(T[t]) = FieldsOf(R, t) /\ T[t].idx = (IF t \in DOMAIN S THEN S[t].idx ELSE {})
             /\ T[t].cols = [c \in FieldsOf(R, t) |-> ContractColumn(R, t, c)]
  <2>1. PICK f : f = [c \in FieldsOf(R, t) |-> ContractColumn(R, t, c)]
    OBVIOUS
  <2>2. PICK ix : ix = IF t \in DOMAIN S THEN S[t].idx ELSE {}
    OBVIOUS
  <2>3. PICK fm \in BOOLEAN : fm = TRUE
    OBVIOUS
  <2>4. T[t] = [cols |-> f, idx |-> ix, formed |-> fm]
    BY <1>1, <2>1, <2>2, <2>3
  <2>5. \A c \in FieldsOf(R, t) : IsColumn(f[c])
    BY <2>1, ContractColumnIs
  <2>6. FieldsOf(R, t) \subseteq Columns /\ f = [c \in FieldsOf(R, t) |-> f[c]]
    BY <2>1 DEF FieldsOf
  <2>7. IsTable(T[t]) /\ Has(T[t]) = FieldsOf(R, t)
    BY <2>4, <2>5, <2>6, TableOf
  <2> QED
    BY <2>1, <2>2, <2>4, <2>7
<1>3. T = [t \in Declared(R) |-> T[t]]
  BY <1>1
<1>4. Malformed(T) = {}
  BY <1>1 DEF Malformed
<1> QED
  BY <1>2, <1>3, <1>4 DEF IsSchema

LEMMA FormedAlike ==
    ASSUME NEW P, IsSchema(P), Malformed(P) = {}, NEW t \in DOMAIN P
    PROVE  P[t].formed = TRUE
<1>1. P[t].formed \in BOOLEAN
  BY DEF IsSchema, IsTable
<1>2. t \notin Malformed(P)
  OBVIOUS
<1> QED
  BY <1>1, <1>2 DEF Malformed

LEMMA ProjectedRests ==
    ASSUME NEW S, NEW R, Declared(R) \subseteq Names, NEW P, P = Indexes(Projected(S, R))
    PROVE  IsSchema(P) /\ KeysIndexed(P) /\ Malformed(P) = {} /\ Indexes(Projected(P, R)) = P
<1>1. PICK T, U, Q : T = Projected(S, R) /\ U = Projected(P, R) /\ Q = Indexes(U)
  OBVIOUS
<1>2. /\ IsSchema(T) /\ DOMAIN T = Declared(R) /\ Malformed(T) = {}
      /\ \A t \in Declared(R) :
           /\ Has(T[t]) = FieldsOf(R, t) /\ T[t].idx = (IF t \in DOMAIN S THEN S[t].idx ELSE {})
           /\ T[t].cols = [c \in FieldsOf(R, t) |-> ContractColumn(R, t, c)]
  BY <1>1, ProjectedIs
<1>3. /\ IsSchema(U) /\ DOMAIN U = Declared(R) /\ Malformed(U) = {}
      /\ \A t \in Declared(R) :
           /\ Has(U[t]) = FieldsOf(R, t) /\ U[t].idx = (IF t \in DOMAIN P THEN P[t].idx ELSE {})
           /\ U[t].cols = [c \in FieldsOf(R, t) |-> ContractColumn(R, t, c)]
  BY <1>1, ProjectedIs
<1>4. /\ IsSchema(P) /\ DOMAIN P = DOMAIN T
      /\ \A t \in DOMAIN T :
           /\ P[t].cols = T[t].cols /\ P[t].formed = T[t].formed
           /\ P[t].idx = (T[t].idx \cap Has(T[t])) \cup {c \in Has(T[t]) : T[t].cols[c].ref # None}
  BY <1>1, <1>2, IndexesIs
<1>5. /\ IsSchema(Q) /\ DOMAIN Q = DOMAIN U
      /\ \A t \in DOMAIN U :
           /\ Q[t].cols = U[t].cols /\ Q[t].formed = U[t].formed
           /\ Q[t].idx = (U[t].idx \cap Has(U[t])) \cup {c \in Has(U[t]) : U[t].cols[c].ref # None}
  BY <1>1, <1>3, IndexesIs
<1>6. ASSUME NEW t \in Declared(R)
      PROVE  Q[t].cols = P[t].cols /\ Q[t].idx = P[t].idx /\ Has(Q[t]) = Has(P[t]) /\ Q[t].formed = P[t].formed
  <2>1. U[t].cols = T[t].cols /\ Q[t].cols = U[t].cols /\ P[t].cols = T[t].cols
    BY <1>2, <1>3, <1>4, <1>5
  <2>2. PICK h, r : h = Has(T[t]) /\ r = {c \in Has(T[t]) : T[t].cols[c].ref # None}
    OBVIOUS
  <2>3. r \subseteq h /\ Has(U[t]) = h /\ {c \in Has(U[t]) : U[t].cols[c].ref # None} = r
    BY <2>1, <2>2 DEF Has
  <2>4. P[t].idx = (T[t].idx \cap h) \cup r
    BY <1>2, <1>4, <2>2
  <2>5. Q[t].idx = (U[t].idx \cap h) \cup r
    BY <1>3, <1>5, <2>3
  <2>6. U[t].idx = P[t].idx
    BY <1>2, <1>3, <1>4
  <2>7. Q[t].idx = P[t].idx
    BY <2>3, <2>4, <2>5, <2>6
  <2>8. Q[t].formed = P[t].formed
    <3>1. T[t].formed = TRUE
      BY <1>2, FormedAlike
    <3>2. U[t].formed = TRUE
      BY <1>3, FormedAlike
    <3>3. Q[t].formed = U[t].formed /\ P[t].formed = T[t].formed
      BY <1>2, <1>3, <1>4, <1>5
    <3> QED
      BY <3>1, <3>2, <3>3
  <2> QED
    BY <2>1, <2>7, <2>8 DEF Has
<1>7. Q = P
  BY <1>2, <1>3, <1>4, <1>5, <1>6, SchemaSame
<1>8. KeysIndexed(P)
  BY <1>4 DEF KeysIndexed, Has
<1>9. Malformed(P) = {}
  BY <1>2, <1>4 DEF Malformed
<1> QED
  BY <1>1, <1>4, <1>7, <1>8, <1>9

\* A malformed table is an issue.
LEMMA ShapesAreIssues ==
    ASSUME NEW S, NEW rels, NEW R, SelfCheck(S, rels, R).issues = {}
    PROVE  Malformed(S) = {}
<1> SUFFICES ASSUME NEW t \in Malformed(S) PROVE FALSE
  OBVIOUS
<1>1. SelfCheck(S, rels, R) = Checked(S, rels, {"shape"} \X Malformed(S))
  BY DEF SelfCheck
<1>2. <<"shape", t>> \in {"shape"} \X Malformed(S)
  OBVIOUS
<1> QED
  BY <1>1, <1>2 DEF Checked

LEMMA CompleteIsSettled ==
    ASSUME NEW S, NEW R, IsFiniteSet(DOMAIN R.tables), Declared(R) \subseteq Names, Coherent(R), Complete(R),
           NEW rels, SelfCheck(S, rels, R).issues = {},
           NEW doc, doc = Mapped(Normalized(SelfCheck(S, rels, R).doc), R)
    PROVE  Settled(doc, R)
<1>1. PICK T, P, links, all :
        /\ T = Projected(S, R) /\ P = Indexes(T) /\ links = {<<R.keys[p], p[1]>> : p \in DOMAIN R.keys}
        /\ all = Relationships(links, P)
  OBVIOUS
<1>2. \A Z, r : Malformed(Z) = {} => SelfCheck(Z, r, R) = Checked(Indexes(Projected(Z, R)), links, KeyIssues(Indexes(Projected(Z, R))))
  BY <1>1 DEF SelfCheck
<1>3. SelfCheck(S, rels, R).doc = Document(P, links) /\ KeyIssues(P) = {}
  <2>1. SelfCheck(S, rels, R) = Checked(P, links, KeyIssues(P))
    BY <1>1, <1>2, ShapesAreIssues
  <2> QED
    BY <2>1 DEF Checked
<1>4. IsSchema(P) /\ KeysIndexed(P) /\ Malformed(P) = {} /\ Indexes(Projected(P, R)) = P
  BY <1>1, ProjectedRests
<1>5. /\ DOMAIN P = Declared(R) /\ IsSchema(T) /\ DOMAIN T = Declared(R)
      /\ \A t \in Declared(R) :
           P[t].cols = [c \in FieldsOf(R, t) |-> ContractColumn(R, t, c)]
  <2>1. /\ IsSchema(T) /\ DOMAIN T = Declared(R) /\ Malformed(T) = {}
        /\ \A t \in Declared(R) :
             /\ Has(T[t]) = FieldsOf(R, t) /\ T[t].idx = (IF t \in DOMAIN S THEN S[t].idx ELSE {})
             /\ T[t].cols = [c \in FieldsOf(R, t) |-> ContractColumn(R, t, c)]
    BY <1>1, ProjectedIs
  <2>2. DOMAIN P = DOMAIN T /\ \A t \in DOMAIN T : P[t].cols = T[t].cols
    BY <1>1, <2>1, IndexesIs
  <2> QED
    BY <2>1, <2>2
<1>6. OwnerKeyed(P, R)
  <2> SUFFICES ASSUME NEW f \in DOMAIN R.tables PROVE KeyedFor(P, R, f)
    BY DEF OwnerKeyed
  <2>1. PICK t, o, k : t = PrimaryTable(DOMAIN P, R, f) /\ o = R.owner[f] /\ k = KeyColumn[o]
    OBVIOUS
  <2>2. SUFFICES ASSUME Owned(DOMAIN P, R, f), t \in DOMAIN P PROVE k \in Has(P[t]) /\ KeyTo(P[t].cols[k], o)
    BY <2>1 DEF KeyedFor
  <2>3. o \in Names /\ o \in OwnersOf(R) /\ k \in Columns \ {Id}
    BY <1>4, <2>1, <2>2, NamesAreOrdered, KeysAreColumns DEF Owned, OwnersOf, IsSchema
  <2>4. <<t, k>> \in OwnerCells(Declared(R), R)
    BY <1>5, <2>1, <2>2 DEF OwnerCells
  <2>5. <<t, k>> \in DOMAIN R.fields /\ <<t, k>> \in DOMAIN R.keys
    BY <2>4 DEF Coherent
  <2>6. R.keys[<<t, k>>] = o
    BY <2>1, <2>3, <2>5 DEF Coherent
  <2>7. k \in FieldsOf(R, t) /\ P[t].cols = [c \in FieldsOf(R, t) |-> ContractColumn(R, t, c)]
    BY <1>5, <2>2, <2>3, <2>5 DEF FieldsOf
  <2>8. k \in Has(P[t]) /\ P[t].cols[k] = ContractColumn(R, t, k)
    BY <2>7 DEF Has
  <2>9. ContractColumn(R, t, k) = Column(R.fields[<<t, k>>], FALSE, o)
    BY <2>3, <2>5, <2>6 DEF ContractColumn, DeclaredTarget
  <2> QED
    BY <2>8, <2>9 DEF KeyTo, Column
<1>7. FeatureMappings(P, R) = P
  BY <1>4, <1>6, MappingsRest
<1>8. doc = Document(P, all)
  <2>1. Normalized(SelfCheck(S, rels, R).doc) = Document(P, all)
    BY <1>1, <1>3, NormalizedIs
  <2> QED
    BY <1>7, <2>1 DEF Mapped, Document
<1>9. doc.tables = P /\ doc.rels = all
  BY <1>8 DEF Document
<1>10. NoPrimaryKey(P) = {}
  <2>1. ASSUME NEW t \in DOMAIN P PROVE \E c \in Has(P[t]) : P[t].cols[c].pk
    <3>1. Id \in FieldsOf(R, t)
      BY <1>5, <2>1, KeysAreColumns DEF Complete, FieldsOf
    <3>2. Id \in Has(P[t]) /\ P[t].cols[Id] = ContractColumn(R, t, Id)
      BY <1>5, <2>1, <3>1 DEF Has
    <3> QED
      BY <3>2, ContractColumnIs
  <2> QED
    BY <2>1 DEF NoPrimaryKey
<1>11. TargetsKept(P, R)
  <2> SUFFICES ASSUME NEW p \in DOMAIN R.keys \cap Cells(P) PROVE Ref(P, p) = R.keys[p]
    BY <1>5 DEF TargetsKept
  <2>1. PICK t \in DOMAIN P, c \in Columns : p = <<t, c>> /\ c \in Has(P[t])
    BY DEF Cells
  <2>2. c \in FieldsOf(R, t)
    BY <1>5, <2>1 DEF Has
  <2>3. P[t].cols[c] = ContractColumn(R, t, c)
    BY <1>5, <2>1, <2>2
  <2>4. P[t].cols[c].ref = DeclaredTarget(R, t, c)
    BY <2>3, ContractColumnIs
  <2> QED
    BY <2>1, <2>4 DEF Ref, DeclaredTarget
<1>12. StableDocument(doc, R)
  <2>1. SelfCheck(P, all, R) = Checked(P, links, KeyIssues(P))
    BY <1>2, <1>4
  <2>2. SelfCheck(P, all, R).doc = Document(P, links)
    BY <2>1 DEF Checked
  <2>3. Normalized(Document(P, links)) = doc
    BY <1>1, <1>8, NormalizedIs
  <2> QED
    BY <1>9, <2>2, <2>3 DEF StableDocument
<1> QED
  BY <1>3, <1>9, <1>10, <1>11, <1>12 DEF Settled, SoundTables

LEMMA CanonicalPairs ==
    ASSUME NEW rels, NEW A, NEW S, NEW R, Declared(R) \subseteq DOMAIN S, NEW links, links = CanonicalRels(rels, A, R)
    PROVE  links = CanonicalRels(links, S, R)
<1>1. \A x : Renamed(S, R, x) = x
  BY NamesAreKept
<1>2. \A p \in links : p = <<p[1], p[2]>>
  BY DEF CanonicalRels
<1>3. CanonicalRels(links, S, R) = {<<p[1], p[2]>> : p \in links}
  BY <1>1 DEF CanonicalRels
<1>4. \A p \in links : p \in {<<q[1], q[2]>> : q \in links}
  BY <1>2
<1>5. \A x \in {<<q[1], q[2]>> : q \in links} : x \in links
  BY <1>2
<1> QED
  BY <1>3, <1>4, <1>5

\* A schema the self-check found nothing to say of.
LEMMA PassedIsSettled ==
    ASSUME NEW T, IsSchema(T), NEW R, IsFiniteSet(DOMAIN R.tables), Coherent(R), ~Complete(R),
           Declared(R) \subseteq DOMAIN T, Revisions(T) = {}, OwnerKeyed(T, R),
           NEW rels, SelfCheck(T, rels, R).issues = {},
           NEW doc, doc = Mapped(Normalized(SelfCheck(T, rels, R).doc), R)
    PROVE  Settled(doc, R)
<1>1. PICK D :
        /\ SelfCheck(T, rels, R).doc = Document(D, Relationships(CanonicalRels(rels, Sanitize(T), R), D))
        /\ KeyIssues(D) \cup NoPrimaryKey(D) \cup Unresolved(D) \subseteq SelfCheck(T, rels, R).issues
        /\ IsChecked(D, R)
        /\ Coherent(R) /\ OwnerKeyed(T, R) => OwnerKeyed(D, R)
  BY ShapesAreIssues, SelfCheckIs
<1>2. PICK r, links : r = CanonicalRels(rels, Sanitize(T), R) /\ links = Relationships(r, D)
  OBVIOUS
<1>3. KeyIssues(D) = {} /\ NoPrimaryKey(D) = {} /\ Unresolved(D) = {}
  BY <1>1
<1>4. IsSchema(D) /\ KeysIndexed(D) /\ Declared(R) \subseteq DOMAIN D /\ Linked(D, R)
  BY <1>1 DEF IsChecked
<1>5. FeatureMappings(D, R) = D
  BY <1>1, <1>4, MappingsRest
<1>6. Normalized(Document(D, links)) = Document(D, links)
  BY <1>2, NormalizedIs, RelationshipsTwice
<1>7. doc = Document(D, links)
  BY <1>1, <1>2, <1>5, <1>6 DEF Mapped, Document
<1>8. doc.tables = D /\ doc.rels = links
  BY <1>7 DEF Document
<1>9. TargetsKept(D, R)
  <2> SUFFICES ASSUME NEW p \in DOMAIN R.keys \cap Cells(D), p \notin DOMAIN R.fields PROVE Ref(D, p) = R.keys[p]
    BY <1>4 DEF TargetsKept
  <2>1. PICK t \in DOMAIN D, c \in Columns : p = <<t, c>> /\ c \in Has(D[t])
    BY DEF Cells
  <2>2. c \notin External /\ R.keys[p] \in DOMAIN D
    BY <1>4, <2>1 DEF Coherent
  <2>3. c \notin FieldsOf(R, t)
    BY <2>1 DEF FieldsOf
  <2>4. LinkedCell(D, R, t, c)
    BY <1>4, <2>1, <2>2, <2>3 DEF Linked
  <2>5. DeclaredTarget(R, t, c) = R.keys[p]
    BY <2>1 DEF DeclaredTarget
  <2> QED
    BY <2>1, <2>2, <2>4, <2>5 DEF LinkedCell, Ref
<1>10. ASSUME Late(D, R) = {} PROVE SelfCheck(D, links, R).doc = Document(D, links)
  <2>1. AtRest(D, R)
    BY <1>1, <1>3, <1>10, RestIs
  <2>2. SelfCheck(D, links, R).doc = Document(D, Relationships(CanonicalRels(links, D, R), D))
    BY <2>1, RestSelfCheck
  <2>3. r = CanonicalRels(r, D, R)
    BY <1>2, <1>4, CanonicalPairs
  <2>4. Relationships(CanonicalRels(links, D, R), D) = links
    BY <1>2, <1>4, <2>3, RelationshipsRest
  <2> QED
    BY <2>2, <2>4
<1>11. StableDocument(doc, R)
  BY <1>7, <1>8, <1>10, <1>6 DEF StableDocument
<1> QED
  BY <1>3, <1>8, <1>9, <1>11 DEF Settled, SoundTables

\* What execute saves without an issue.
LEMMA CorrectedIsSettled ==
    ASSUME NEW S, IsSchema(S), NEW rels, NEW R, IsFiniteSet(DOMAIN R.tables), Declared(R) \subseteq Names, Coherent(R),
           NEW checked, checked = Corrected(S, rels, R), checked.issues = {}
    PROVE  Settled(Mapped(Normalized(checked.doc), R), R)
<1>1. PICK T, links :
        /\ Corrected(S, rels, R) = SelfCheck(T, links, R) /\ IsSchema(T)
        /\ Coherent(R) /\ ~Complete(R) => Declared(R) \subseteq DOMAIN T /\ Revisions(T) = {} /\ OwnerKeyed(T, R)
  BY CorrectedIs
<1>2. PICK doc : doc = Mapped(Normalized(SelfCheck(T, links, R).doc), R)
  OBVIOUS
<1>3. SelfCheck(T, links, R).issues = {} /\ doc = Mapped(Normalized(checked.doc), R)
  BY <1>1, <1>2
<1>4. CASE Complete(R)
  BY <1>2, <1>3, <1>4, CompleteIsSettled
<1>5. CASE ~Complete(R)
  <2>1. Declared(R) \subseteq DOMAIN T /\ Revisions(T) = {} /\ OwnerKeyed(T, R)
    BY <1>1, <1>5
  <2>2. Settled(doc, R)
    BY <1>1, <1>2, <1>3, <1>5, <2>1, PassedIsSettled
  <2> QED
    BY <1>3, <2>2
<1> QED
  BY <1>4, <1>5

-----------------------------------------------------------------------------
(* The run *)

\* The workers' tables are a schema of planned names; what is accepted is settled, or nothing was to be stored.
SettledInv ==
    /\ registry \in Registries /\ repairs \in Nat
    /\ IsSchema(made) /\ plan \subseteq Names
    /\ phase # "done" => db = NoDocument
    /\ Accepted => Settled(db, registry) \/ (db = NoDocument /\ Stored(registry) = {})

LEMMA EmptyIsSchema == IsSchema(<<>>)
BY DEF IsSchema

LEMMA StepSettled ==
    ASSUME SettledInv, [Next]_vars
    PROVE  SettledInv'
<1>1. CASE UNCHANGED vars
  BY <1>1 DEF SettledInv, vars, Accepted
<1>2. CASE NothingToStore
  BY <1>2 DEF NothingToStore, SettledInv
<1>3. CASE Plan
  <2>1. plan' \subseteq Names
    BY <1>3, ContractsAreFormed, AnswersAreTables DEF Plan, SettledInv
  <2>2. phase' = "work" /\ UNCHANGED <<registry, made, db, repairs>> /\ phase = "plan"
    BY <1>3 DEF Plan
  <2>3. ~Accepted'
    BY <2>2 DEF Accepted
  <2>4. IsSchema(made') /\ db' = NoDocument /\ registry' \in Registries /\ repairs' \in Nat
    BY <2>2 DEF SettledInv
  <2> QED
    BY <2>1, <2>3, <2>4 DEF SettledInv
<1>4. CASE PlanFails
  <2>1. blockers' # {}
    BY <1>4 DEF PlanFails, Save
  <2> QED
    BY <1>4, <2>1 DEF PlanFails, SettledInv, Accepted
<1>5. CASE Finish
  <2>1. /\ registry' = registry /\ repairs' = repairs /\ made' = made /\ plan' = plan /\ phase' = "done"
        /\ registry \in Registries /\ IsSchema(made)
    BY <1>5 DEF Finish, SettledInv
  <2>2. PICK S : S = Reviewed(made, registry)
    OBVIOUS
  <2>3. PICK checked : checked = Corrected(S, Relationships({}, S), registry)
    OBVIOUS
  <2>4. db' = Mapped(Normalized(checked.doc), registry) /\ blockers' = blockers \cup checked.issues \cup {}
    BY <1>5, <2>2, <2>3 DEF Finish, Save
  <2>5. IsFiniteSet(DOMAIN registry.tables) /\ Declared(registry) \subseteq Names
    BY <2>1, ContractsAreFormed
  <2>6. IsSchema(S)
    BY <2>1, <2>2, <2>5, ReviewedIs
  <2>7. ASSUME Coherent(registry), blockers' = {} PROVE Settled(db', registry)
    <3>1. checked.issues = {}
      BY <2>4, <2>7
    <3>2. PICK rels : checked = Corrected(S, rels, registry)
      BY <2>3
    <3>3. Settled(Mapped(Normalized(checked.doc), registry), registry)
      BY <2>5, <2>6, <2>7, <3>1, <3>2, CorrectedIsSettled
    <3> QED
      BY <2>4, <3>3
  <2>8. Accepted' => Coherent(registry) /\ blockers' = {}
    BY <2>1 DEF Accepted
  <2> QED
    BY <2>1, <2>7, <2>8 DEF SettledInv
<1>6. CASE NoBaseline
  BY <1>6 DEF NoBaseline, SettledInv, Accepted
<1>7. ASSUME NEW t \in Names, Worker(t) PROVE SettledInv'
  <2>1. PICK d \in Designs[t] \cup {Minimal} :
          LET kept == IF Complete(registry)
                      THEN Without(d, {c \in Has(d) \ {Id} : <<t, c>> \notin DOMAIN registry.fields}) ELSE d
          IN  made' = [u \in DOMAIN made \cup {t} |-> IF u = t THEN kept ELSE made[u]]
    BY <1>7 DEF Worker
  <2>2. IsTable(d)
    BY AnswersAreTables, MinimalIs
  <2>3. PICK kept : IsTable(kept) /\ made' = [u \in DOMAIN made \cup {t} |-> IF u = t THEN kept ELSE made[u]]
    BY <2>1, <2>2, WithoutIs
  <2>4. IsSchema(made')
    BY <2>3 DEF SettledInv, IsSchema
  <2> QED
    BY <1>7, <2>4 DEF Worker, SettledInv, Accepted
<1>8. ASSUME NEW feedback \in Feedbacks, Repair(feedback) PROVE SettledInv'
  <2>1. ASSUME NEW answer, NEW rels, NEW allowed, ApplyRepair(answer, rels, allowed)
        PROVE  UNCHANGED <<registry, phase, plan, made>>
    BY <2>1 DEF ApplyRepair, Reject
  <2>2. ASSUME NEW allowed, Unanswered(allowed)
        PROVE  UNCHANGED <<registry, phase, plan, made>>
    BY <2>2 DEF Unanswered, Reject
  <2>3. UNCHANGED <<registry, phase, plan, made>>
    BY <1>8, <2>1, <2>2 DEF Repair, Answered
  <2>4. phase = "done" /\ repairs' = repairs + 1
    BY <1>8 DEF Repair
  <2> QED
    BY <2>3, <2>4 DEF SettledInv, Accepted
<1> QED
  BY <1>1, <1>2, <1>3, <1>4, <1>5, <1>6, <1>7, <1>8 DEF Next

LEMMA SettledStays == Spec => []SettledInv
<1>1. Init => SettledInv
  <2> SUFFICES ASSUME Init PROVE SettledInv
    OBVIOUS
  <2>1. /\ registry \in Registries /\ repairs \in Nat /\ plan \subseteq Names
        /\ phase # "done" /\ db = NoDocument /\ made = <<>>
    BY DEF Init
  <2>2. ~Accepted
    BY <2>1 DEF Accepted
  <2> QED
    BY <2>1, <2>2, EmptyIsSchema DEF SettledInv
<1>2. SettledInv /\ [Next]_vars => SettledInv'
  BY StepSettled
<1> QED
  BY <1>1, <1>2, PTL DEF Spec

LEMMA NothingIsSound == SoundTables(NoDocument.tables, registry) /\ Cells(NoDocument.tables) = {}
<1>1. NoDocument.tables = <<>>
  BY DEF NoDocument, Document
<1>2. DOMAIN <<>> = {}
  OBVIOUS
<1>3. Cells(NoDocument.tables) = {}
  BY <1>1, <1>2 DEF Cells
<1>4. NoPrimaryKey(NoDocument.tables) = {}
  BY <1>1, <1>2 DEF NoPrimaryKey
<1>5. KeyIssues(NoDocument.tables) = {} /\ Unresolved(NoDocument.tables) = {}
  BY <1>3 DEF KeyIssues, Unresolved
<1> QED
  BY <1>3, <1>4, <1>5 DEF SoundTables

\* The contract is stored: its tables and the targets of its keys (_ensure_contract_tables,
\* _ensure_fk_references) outlast every later pass of execute and of the self-check, and the
\* mapping that comes after them.
THEOREM ContractStaysStored == Spec => []ContractIsStored
<1>1. SettledInv => KeysHaveTheirTarget
  <2> SUFFICES ASSUME SettledInv, Accepted PROVE TargetsKept(db.tables, registry)
    BY DEF KeysHaveTheirTarget, TargetsKept
  <2>1. CASE Settled(db, registry)
    BY <2>1 DEF Settled
  <2>2. CASE db = NoDocument /\ Stored(registry) = {}
    <3>1. \A f \in DOMAIN registry.tables : registry.tables[f] = {}
      BY <2>2, ContractsAreFormed DEF Stored, SettledInv
    <3>2. Declared(registry) = {}
      BY <3>1 DEF Declared
    <3> QED
      BY <2>2, <3>2, NothingIsSound DEF TargetsKept
  <2> QED
    BY <2>1, <2>2 DEF SettledInv
<1> QED
  BY <1>1, SettledStays, ContractTablesAreStored, PTL DEF ContractIsStored

\* An accepted schema is sound (foreign_key_issues and the rules of dba_self_check hold of it
\* although build_feature_mappings came after them), a second self-check changes nothing, and
\* the schema of a failed plan is never approved.
THEOREM SavedStaysSettled == Spec => []SavedIsSettled
<1>1. SettledInv => SavedIsSound
  <2> SUFFICES ASSUME SettledInv, Accepted PROVE SoundTables(db.tables, registry)
    BY DEF SavedIsSound, SoundTables
  <2>1. CASE Settled(db, registry)
    BY <2>1 DEF Settled
  <2>2. CASE db = NoDocument
    BY <2>2, NothingIsSound
  <2> QED
    BY <2>1, <2>2 DEF SettledInv
<1>2. SettledInv => SavedIsStable
  <2> SUFFICES ASSUME SettledInv, Accepted, Stored(registry) # {} PROVE StableDocument(db, registry)
    BY DEF SavedIsStable, StableDocument
  <2>1. Settled(db, registry)
    BY DEF SettledInv
  <2> QED
    BY <2>1 DEF Settled
<1> QED
  BY <1>1, <1>2, SettledStays, FallbackStaysUnapproved, PTL DEF SavedIsSettled
=============================================================================
