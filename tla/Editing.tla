------------------------------ MODULE Editing ------------------------------
(***************************************************************************)
(* Document editing: POST /api/v1/document/{doc_type}/edit                 *)
(* (src/routers/document.py), for the ERD, whose two list sections refer   *)
(* to each other.                                                          *)
(*                                                                         *)
(* One request is classified, then each target section is rewritten by a   *)
(* coroutine of its own, and the results are joined into one proposal; the *)
(* rename or the loss of a table is carried into the foreign keys and the  *)
(* relations of the same proposal.  The document itself changes only when  *)
(* the user approves the proposal, which the front end does (external).    *)
(*                                                                         *)
(* Every call of the language model is a free choice of its answer.  The   *)
(* three attempts of a rewrite ask one question and keep nothing of a      *)
(* refused answer, so their outcome is any acceptable answer, or None.     *)
(*                                                                         *)
(* A table is its name, the columns it holds and its further keys; a       *)
(* column is the table `t` its name refers to (the name `t_id`, NoTable    *)
(* for an ordinary one) and the table its constraint names.  A relation is *)
(* the two tables of its text.  Item order matters, column order does not. *)
(***************************************************************************)
EXTENDS Integers, Sequences, FiniteSets, SequencesExt

CONSTANTS
    Folded,           \* _norm_label: the label a name is compared under
    NoTable,          \* an ordinary column, or no constraint
    Lost,             \* the name key is missing from an answer
    Absent,           \* None: a section the document has not, no result
    MaxTargetItems,   \* _MAX_TARGET_ITEMS
    MaxAddedItems,    \* _MAX_ADDED_ITEMS
    MaxRewriteItems,  \* _MAX_REWRITE_CHARS, counted in items
    MaxRequests,      \* bound on the requests of a behaviour
    Documents,        \* the documents a behaviour starts from
    ItemAnswers,      \* what the model may answer for one item of a section
    NewItems,         \* ... for items to append
    ListAnswers       \* ... for a whole section

VARIABLES
    doc,       \* the document the front end holds
    phase,     \* "idle", "rewriting" (the gather) or "proposed"
    targets,   \* decision["targets"]
    work,      \* per target section: where its coroutine is, and its locals
    edits,     \* the proposal: section -> "after"
    requests   \* requests made so far

vars == <<doc, phase, targets, work, edits, requests>>

Sections == {"tables", "relationships"}
Operations == {"edit", "add", "remove"}

-----------------------------------------------------------------------------
(* Items                                                                    *)

\* _norm_label(_item_label_of(sec, item)).
Label(s, item) ==
    IF s = "tables" THEN Folded[item.name] ELSE <<item.left, item.right>>

\* _clean_section on one item: a required key is empty.
Hollow(s, item) == s = "tables" /\ item.columns = {}

HollowCount(s, items) == Cardinality({i \in DOMAIN items : Hollow(s, items[i])})

\* As Reconcile, had the columns an answer dropped been left out.
ReconcileKeysOnly(s, item, answer, known) ==
    IF s = "relationships" THEN answer
    ELSE [name |-> IF answer.name = Lost THEN item.name ELSE answer.name,
          columns |-> answer.columns,
          extra |-> (answer.extra \cap (known \cup item.extra)) \cup item.extra]

\* _reconcile_with_original: what the answer dropped comes back from the
\* original, a key no item of the section knows is dropped.
Reconcile(s, item, answer, known) ==
    IF s = "relationships" THEN answer
    ELSE [name    |-> IF answer.name = Lost THEN item.name ELSE answer.name,
          columns |-> answer.columns \cup
                      {c \in item.columns : \A d \in answer.columns : d.of # c.of},
          extra   |-> (answer.extra \cap (known \cup item.extra)) \cup item.extra]

\* The keys the other items of the section use.
KnownKeys(s, items) ==
    IF s = "tables" THEN UNION {items[i].extra : i \in DOMAIN items} ELSE {}

\* _rewrite_item: an accepted answer, or None after three refused ones.
RewriteItem(s, item, known) ==
    {Absent} \cup {r \in {Reconcile(s, item, a, known) : a \in ItemAnswers[s]} :
                     ~Hollow(s, r)}

\* As RevertColliding, had every edit been kept.
RevertNothing(s, base, merged) == merged

\* _revert_colliding_edits: an edit that took the label of another item goes.
RevertColliding(s, base, merged) ==
    LET baseLabels == {Label(s, base[i]) : i \in DOMAIN base}
        Taken(i) == /\ Label(s, merged[i]) # Label(s, base[i])
                    /\ Label(s, merged[i]) \in baseLabels
    IN [i \in DOMAIN base |-> IF Taken(i) THEN base[i] ELSE merged[i]]

\* _add_items: complete items whose label is new, at most MaxAddedItems.
FreshItems(s, base, answer) ==
    LET cleaned == SelectSeq(answer, LAMBDA x : ~Hollow(s, x))
        seen == {Label(s, base[i]) : i \in DOMAIN base}
        Keep(acc, x) ==
            IF \/ Label(s, x) \in seen
               \/ \E i \in DOMAIN acc : Label(s, acc[i]) = Label(s, x)
            THEN acc ELSE Append(acc, x)
    IN FoldLeft(Keep, <<>>,
                SubSeq(cleaned, 1, IF Len(cleaned) < MaxAddedItems
                                   THEN Len(cleaned) ELSE MaxAddedItems))

\* _drop_duplicate_items: of two items under one label the changed one stays.
DropDuplicates(s, base, items) ==
    LET original == {base[i] : i \in DOMAIN base}
        Merge(kept, x) ==
            LET at == {i \in DOMAIN kept : Label(s, kept[i]) = Label(s, x)}
            IN IF at = {} THEN Append(kept, x)
               ELSE LET i == CHOOSE i \in at : TRUE
                    IN IF kept[i] \in original /\ x \notin original
                       THEN [kept EXCEPT ![i] = x] ELSE kept
    IN FoldLeft(Merge, <<>>, items)

\* The whole-section rewrite accepts an answer that is not more hollow, not
\* empty and, unless a removal was asked for, not shorter.
RewriteWhole(s, base, op) ==
    LET items == IF base = Absent THEN <<>> ELSE base
        Accepted(v) ==
            /\ v # <<>>
            /\ HollowCount(s, v) <= HollowCount(s, items)
            /\ op = "remove" \/ Len(DropDuplicates(s, items, v)) >= Len(items)
    IN {DropDuplicates(s, items, v) : v \in {v \in ListAnswers[s] : Accepted(v)}}

Oversized(items) == items # Absent /\ Len(items) > MaxRewriteItems

-----------------------------------------------------------------------------
(* Consistency of the two sections                                          *)

TableNames(tables) == {tables[i].name : i \in DOMAIN tables}

\* _table_renames: names are paired by position, if the lengths agree; the
\* last pair of a name wins.
Renames(before, after) ==
    LET Moved == IF Len(before) # Len(after) THEN {}
                 ELSE {i \in DOMAIN before : before[i].name # after[i].name}
        LastOf(n) == CHOOSE i \in Moved : /\ before[i].name = n
                                        /\ \A j \in Moved : before[j].name = n => j <= i
    IN [n \in {before[i].name : i \in Moved} |-> after[LastOf(n)].name]

Gone(before, after) ==
    (TableNames(before) \ TableNames(after)) \ DOMAIN Renames(before, after)

\* The name n as the renames know it (renames.get(n, n)).
Renamed(renames, n) == IF n \in DOMAIN renames THEN renames[n] ELSE n

\* The orders _identifier_renames may give the pairs: longest first, and pairs
\* of one length in the order of a Python set.
PairOrders(renames) ==
    {o \in [1..Cardinality(DOMAIN renames) -> DOMAIN renames] :
       \A i, j \in DOMAIN o : i # j => o[i] # o[j]}

\* _token_sub: one substitution after the other, on the text so far.
TokenSub(n, renames, order) ==
    FoldLeft(LAMBDA text, old : IF text = old THEN renames[old] ELSE text, n, order)

\* As SyncForeignKeys, had only the column names followed.
SyncColumnNames(tables, renames, order) ==
    [i \in DOMAIN tables |->
       [tables[i] EXCEPT !.columns =
          {[of |-> Renamed(renames, c.of), ref |-> c.ref] : c \in @}]]

\* _sync_fk_references: column names at once, constraints pair by pair.
SyncForeignKeys(tables, renames, order) ==
    [i \in DOMAIN tables |->
       [tables[i] EXCEPT !.columns =
          {[of |-> Renamed(renames, c.of), ref |-> TokenSub(c.ref, renames, order)]
             : c \in @}]]

\* As SyncRelations, had the relations of lost tables stayed.
RenameRelations(rels, renames, gone) ==
    [i \in DOMAIN rels |-> [left  |-> Renamed(renames, rels[i].left),
                            right |-> Renamed(renames, rels[i].right)]]

\* _sync_relationships.
SyncRelations(rels, renames, gone) ==
    LET alive == SelectSeq(rels, LAMBDA r : r.left \notin gone /\ r.right \notin gone)
    IN [i \in DOMAIN alive |-> [left  |-> Renamed(renames, alive[i].left),
                                right |-> Renamed(renames, alive[i].right)]]

\* _append_relationship_sync: the proposal with the renames and losses of its
\* tables carried into the foreign keys and the relations.
WithSync(proposal, order) ==
    IF "tables" \notin DOMAIN proposal THEN proposal
    ELSE
    LET before  == IF doc.tables = Absent THEN <<>> ELSE doc.tables
        after   == proposal.tables
        renames == Renames(before, after)
        gone    == Gone(before, after)
        synced  == SyncForeignKeys(after, renames, order)
        base    == IF "relationships" \in DOMAIN proposal
                   THEN proposal.relationships ELSE doc.relationships
        rels    == IF base = Absent THEN base ELSE SyncRelations(base, renames, gone)
        also    == IF rels = base THEN {} ELSE {"relationships"}
    IN IF DOMAIN renames = {} /\ gone = {} THEN proposal
       ELSE [s \in DOMAIN proposal \cup also |->
               IF s = "tables" THEN synced ELSE rels]

-----------------------------------------------------------------------------
(* The request                                                              *)

Waiting == [stage |-> "scope", mode |-> "none", op |-> "edit", picked |-> {}, value |-> Absent]

NoEdits == [s \in {} |-> Absent]

Init ==
    /\ doc \in Documents
    /\ phase = "idle" /\ targets = {} /\ requests = 0
    /\ work = [s \in Sections |-> Waiting]
    /\ edits = NoEdits

\* _classify answered "chat", named no known section, or failed: the reply is
\* an answer to the question and no edit.
AnswerQuestion ==
    /\ phase = "idle" /\ requests < MaxRequests
    /\ requests' = requests + 1
    /\ UNCHANGED <<doc, phase, targets, work, edits>>

\* _classify answered "edit" with a known section.
Classify(ts) ==
    /\ phase = "idle" /\ requests < MaxRequests
    /\ ts # {}
    /\ phase' = "rewriting" /\ targets' = ts /\ requests' = requests + 1
    /\ work' = [s \in Sections |-> Waiting]
    /\ UNCHANGED <<doc, edits>>

At(s, stage) == phase = "rewriting" /\ s \in targets /\ work[s].stage = stage

Finish(s, mode, value) ==
    work' = [work EXCEPT ![s].stage = "done", ![s].mode = mode, ![s].value = value]

\* _rewrite_section up to the scope decision.  A list that is not empty is
\* narrowed first; one too long to rewrite whole is asked about once more when
\* the answer named no item.
Scope(s, first, second) ==
    LET items == IF doc[s] = Absent THEN <<>> ELSE doc[s]
        Valid(answer) == answer.picked \cap DOMAIN items
        again == Oversized(items) /\ Valid(first) = {} /\ first.op # "add"
        said == IF again /\ Valid(second) # {} THEN second ELSE first
        op == IF items # <<>> THEN said.op ELSE "edit"
        picked == Valid(said)
        next == CASE op = "add" -> "add"
                  [] op # "add" /\ picked # {} -> "items"
                  [] OTHER -> "whole"
    IN /\ At(s, "scope")
       /\ Cardinality(picked) <= MaxTargetItems
       /\ work' = [work EXCEPT ![s] = [Waiting EXCEPT
                     !.op = op, !.picked = picked,
                     !.stage = IF op = "remove" /\ picked # {} THEN "remove" ELSE next]]
       /\ UNCHANGED <<doc, phase, targets, edits, requests>>

\* The removal needs no model: the picked items go, the others stay.
RemoveItems(s) ==
    /\ At(s, "remove")
    /\ Finish(s, "remove",
              LET kept == SetToSortSeq(DOMAIN doc[s] \ work[s].picked, LAMBDA i, j : i < j)
              IN [k \in DOMAIN kept |-> doc[s][kept[k]]])
    /\ UNCHANGED <<doc, phase, targets, edits, requests>>

\* The new items follow the old ones; without any, the whole section is next.
AddItems(s, answer) ==
    LET fresh == FreshItems(s, doc[s], answer) IN
    /\ At(s, "add")
    /\ IF fresh # <<>> THEN Finish(s, "add", doc[s] \o fresh)
       ELSE work' = [work EXCEPT ![s].stage = "whole", ![s].picked = {}]
    /\ UNCHANGED <<doc, phase, targets, edits, requests>>

\* The picked items are rewritten in place; if none changed, the whole section.
EditItems(s, results) ==
    LET base == doc[s]
        merged == [i \in DOMAIN base |->
                     IF i \in work[s].picked /\ results[i] # Absent
                     THEN results[i] ELSE base[i]]
        kept == RevertColliding(s, base, merged)
    IN /\ At(s, "items")
       /\ IF kept # base THEN Finish(s, "items", kept)
          ELSE work' = [work EXCEPT ![s].stage = "whole"]
       /\ UNCHANGED <<doc, phase, targets, edits, requests>>

\* The whole section, unless it is too long; None when every attempt failed.
RewriteSection(s, value) ==
    /\ At(s, "whole")
    /\ ~Oversized(doc[s]) \/ value = Absent
    /\ Finish(s, "whole", value)
    /\ UNCHANGED <<doc, phase, targets, edits, requests>>

\* _build_diff: the rendering of the section has a line that is not the same.
Differs(s) == work[s].value # Absent /\ work[s].value # doc[s]

\* edit_document after the gather: a section that failed or did not change is
\* left out; without any edit the reply is a chat.
Propose ==
    LET changed == {s \in targets : Differs(s)}
        plain == [s \in changed |-> work[s].value]
        orders == IF "tables" \in changed
                  THEN PairOrders(Renames(IF doc.tables = Absent THEN <<>> ELSE doc.tables,
                                          plain.tables))
                  ELSE {<<>>}
    IN /\ phase = "rewriting"
       /\ \A s \in targets : work[s].stage = "done"
       /\ \E o \in orders : edits' = WithSync(plain, o)
       /\ phase' = IF changed = {} THEN "idle" ELSE "proposed"
       /\ UNCHANGED <<doc, targets, work, requests>>

\* External: the front end applies the whole proposal on one approval, or none.
Approve ==
    /\ phase = "proposed"
    /\ doc' = [s \in Sections |-> IF s \in DOMAIN edits THEN edits[s] ELSE doc[s]]
    /\ phase' = "idle" /\ edits' = NoEdits /\ targets' = {}
    /\ work' = [s \in Sections |-> Waiting]
    /\ UNCHANGED requests

Dismiss ==
    /\ phase = "proposed"
    /\ phase' = "idle" /\ edits' = NoEdits /\ targets' = {}
    /\ work' = [s \in Sections |-> Waiting]
    /\ UNCHANGED <<doc, requests>>

ScopeAnswers == [picked : SUBSET (1..3), op : Operations]

Results(s) ==
    [work[s].picked -> UNION {RewriteItem(s, doc[s][i], KnownKeys(s, doc[s])) :
                                i \in work[s].picked}]

Next ==
    \/ \E ts \in SUBSET Sections : Classify(ts)
    \/ \E s \in Sections :
         \/ \E a, b \in ScopeAnswers : Scope(s, a, b)
         \/ RemoveItems(s)
         \/ \E n \in NewItems[s] : AddItems(s, n)
         \/ /\ At(s, "items")
            /\ \E r \in Results(s) :
                 /\ \A i \in work[s].picked :
                      r[i] \in RewriteItem(s, doc[s][i], KnownKeys(s, doc[s]))
                 /\ EditItems(s, r)
         \/ /\ At(s, "whole")
            /\ \E v \in {Absent} \cup RewriteWhole(s, doc[s], work[s].op) :
                 RewriteSection(s, v)
    \/ AnswerQuestion \/ Propose \/ Approve \/ Dismiss

Spec == Init /\ [][Next]_vars

-----------------------------------------------------------------------------
(* Properties                                                               *)

Proposed(s) == IF s \in DOMAIN edits THEN edits[s] ELSE doc[s]

TableRenames ==
    IF "tables" \in DOMAIN edits /\ doc.tables # Absent
    THEN Renames(doc.tables, edits.tables) ELSE [n \in {} |-> n]

\* The columns of a table that no rename reaches.
Quiet(columns) ==
    {c \in columns : {c.of, c.ref} \cap DOMAIN TableRenames = {}}

\* The tables of a proposal say what was asked and nothing else
\* (document.py:12-16): an item that was not picked stays as it was, but for
\* the columns that follow a rename; a picked one keeps every key and every
\* column it had and gains no key its siblings do not use.
OnlyWhatWasAsked ==
    (phase = "proposed" /\ "tables" \in targets \cap DOMAIN edits /\ doc.tables # Absent) =>
    LET before == doc.tables  after == edits.tables  w == work.tables
        Same(b, a) == /\ b.name = a.name /\ b.extra = a.extra
                      /\ Quiet(b.columns) \subseteq a.columns
                      /\ Cardinality(a.columns) <= Cardinality(b.columns)
    IN CASE w.mode = "items" ->
              /\ Len(after) = Len(before)
              /\ \A i \in DOMAIN before :
                   IF i \notin w.picked THEN Same(before[i], after[i])
                   ELSE /\ before[i].extra \subseteq after[i].extra
                        /\ after[i].extra \subseteq KnownKeys("tables", before)
                        /\ \A c \in before[i].columns : \E d \in after[i].columns :
                             d.of = Renamed(TableRenames, c.of)
         [] w.mode = "remove" ->
              Len(after) = Len(before) - Cardinality(w.picked)
         [] w.mode = "add" ->
              /\ Len(after) > Len(before)
              /\ \A i \in DOMAIN before : after[i] = before[i]
         [] OTHER -> w.op # "remove" => Len(after) >= Len(before)

\* A proposal never gives the label of one table to another: no label of the
\* document becomes more frequent (document.py:616-626, 1190, 577-582).
NoNameIsTaken ==
    \A s \in DOMAIN edits \cap targets : doc[s] # Absent =>
      \A l \in {Label(s, doc[s][i]) : i \in DOMAIN doc[s]} :
        LET Bearers(items) == {i \in DOMAIN items : Label(s, items[i]) = l} IN
        s = "tables" => Cardinality(Bearers(edits[s])) <= Cardinality(Bearers(doc[s]))

\* Both: a proposal is what was asked for, under names that tell the items apart.
ProposalsAreFaithful == OnlyWhatWasAsked /\ NoNameIsTaken

\* When a proposal touches the tables, a relation it leaves in the document
\* names no table that this proposal renamed or removed, whichever section was
\* rewritten first and whatever it was rewritten to (document.py:1580-1587).
RelationsResolve ==
    ("tables" \in DOMAIN edits /\ doc.tables # Absent /\ Proposed("relationships") # Absent) =>
      \A i \in DOMAIN Proposed("relationships") :
        LET r == Proposed("relationships")[i] IN
        {r.left, r.right} \cap TableNames(doc.tables) \subseteq TableNames(edits.tables)

\* A renamed table is renamed everywhere: no column name and no constraint of
\* the proposal still carries a name that a rename took out of the document
\* (document.py:1598-1606).
RenameReachesReferences ==
    \A n \in DOMAIN TableRenames : n \notin TableNames(edits.tables) =>
      \A i \in DOMAIN edits.tables : \A c \in edits.tables[i].columns :
        n \notin {c.of, c.ref}

\* Both: a proposal renames and removes a table in the whole document.
ReferencesFollow == RelationsResolve /\ RenameReachesReferences
=============================================================================
