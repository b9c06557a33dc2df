----------------------------- MODULE MCEditing -----------------------------
(* Editing on ERDs of at most three tables under three names and a fourth    *)
(* that folds to the label of the first.                                     *)
EXTENDS Editing

MCNames == {"a", "A", "b", "c"}
MCFolded == [n \in MCNames |-> IF n = "A" THEN "a" ELSE n]

Plain == [of |-> "none", ref |-> "none"]
Fk(n) == [of |-> n, ref |-> n]
T(n, columns, extra) == [name |-> n, columns |-> columns, extra |-> extra]
R(l, r) == [left |-> l, right |-> r]

MCDocuments ==
    { [tables |-> <<T("a", {Plain}, {"indexes"}), T("b", {Plain, Fk("a")}, {})>>,
       relationships |-> <<R("a", "b")>>],
      [tables |-> <<T("a", {Plain}, {}), T("b", {Fk("a")}, {}), T("b", {}, {})>>,
       relationships |-> <<R("a", "b"), R("c", "b")>>],
      [tables |-> <<T("a", {Plain, Fk("c")}, {}), T("b", {Fk("a"), Fk("c")}, {}),
                    T("c", {Plain}, {"indexes"})>>,
       relationships |-> Absent] }

MCItemAnswers ==
    [s \in Sections |->
       IF s = "tables"
       THEN {T(n, cs, ex) : n \in MCNames \cup {Lost}, cs \in {{}, {Plain}, {Fk("a")}},
                            ex \in {{}, {"indexes", "junk"}}}
       ELSE {R("c", "b"), R("a", "c")}]

MCNewItems ==
    [s \in Sections |->
       IF s = "tables" THEN {<<>>, <<T("A", {Plain}, {}), T("c", {Fk("b")}, {})>>,
                             <<T("c", {}, {}), T("c", {Plain}, {}), T("c", {Fk("a")}, {})>>}
       ELSE {<<R("a", "b"), R("b", "c")>>}]

MCListAnswers ==
    [s \in Sections |->
       IF s = "tables"
       THEN LET Item == {T(n, cs, {}) : n \in {"a", "b", "c"}, cs \in {{Plain}, {Plain, Fk("a")}}}
            IN UNION {[1..k -> Item] : k \in 1..2}
               \cup {<<T("b", {Plain, Fk("a")}, {}), T("c", {Plain}, {}), T("a", {Fk("c")}, {})>>,
                     <<T("a", {Plain}, {}), T("b", {Fk("a")}, {}), T("a", {Fk("b")}, {})>>}
       ELSE {<<>>, <<R("b", "c")>>, <<R("a", "b"), R("a", "b"), R("a", "c")>>}]
=============================================================================
