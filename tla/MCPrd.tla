------------------------------- MODULE MCPrd -------------------------------
EXTENDS Prd

CONSTANTS f1, f2, f3, f4

MCNames == {f1, f2, f3, f4}
\* The words of f1 are all in f3: "submit homework", "homework reminder ...".
MCAlike == {<<f1, f3>>}
\* In the second list the user left out the first feature and confirmed one like it.
MCLists == {<<f2, f3, f1>>, <<f3, f1>>}
MCDecisions ==
  {[must |-> {}, should |-> {}, could |-> {}, excluded |-> {}, out |-> {f2}],
   [must |-> {f1}, should |-> {}, could |-> {f2}, excluded |-> {}, out |-> {}],
   [must |-> {f2}, should |-> {}, could |-> {f1}, excluded |-> {f3}, out |-> {f4}]}
MCFeedback ==
  {[sections |-> s, names |-> n] :
     s \in {{}, {"scope"}, {"kpi", "core"}}, n \in {{}, {f1}}}
MCPatches ==
  {[sections |-> {"core", "scope"}, base |-> b,
    core |-> [rewrite |-> {f1, f4}, remove |-> {f2}], kpi |-> <<>>,
    included |-> {f1, f2, f3}, excluded |-> {f1}] : b \in BOOLEAN}
  \cup {[sections |-> {"kpi", "core"}, base |-> TRUE,
         core |-> [rewrite |-> {}, remove |-> {f1, f3}], kpi |-> k,
         included |-> {}, excluded |-> {}] : k \in {<<>>, <<Wrote("x")>>}}
=============================================================================
