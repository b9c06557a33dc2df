----------------------------- MODULE MCRelease -----------------------------
EXTENDS Release

CONSTANTS c1, c2, c3, r1, v1, v2, l1, l2, w1, a, b, d, x, y, R1, R2, R3, Ra

MCNames == {c1, c2, c3, r1, v1, v2, l1, l2, w1}
MCIds == {a, b, d, x, y}
MCRoutes == {R1, R2, R3, Ra}
MCDerived == [r \in MCRoutes |-> CASE r = R1 -> a [] r = R2 -> a [] r = R3 -> d [] r = Ra -> y]
MCAlike == {<<l2, v2>>}
MCPlanned == <<c1, c2>>
MCPlans ==
  {[must |-> {c1, c2, r1}, should |-> {w1, v1, l1}, could |-> {}, wont |-> {}],
   [must |-> {c1}, should |-> {}, could |-> {w1}, wont |-> {v2}]}
MCPatches == {[name |-> c3, id |-> Absent, from |-> Absent, prio |-> "P1", scope |-> "mvp", rev |-> 0]}

Core(n, source, id, deps, route) ==
  [id |-> id, name |-> n, from |-> <<Intent, source>>, core |-> TRUE, parent |-> Absent,
   deps |-> deps, route |-> route, prio |-> "P1"]
Support(n, id, parent, deps, route) ==
  [id |-> id, name |-> n, from |-> Absent, core |-> FALSE, parent |-> parent,
   deps |-> deps, route |-> route, prio |-> "P2"]

\* Two core features and one supporting feature, which refer to each other.
Linked ==
  {<<Core(n, c1, a, e, R1), Core(c2, c2, b, f, R2), Support(m, x, p, {}, R3)>> :
     n \in {c1, r1}, e \in {{b}, {x}}, f \in {{}, {x}}, m \in {v1, w1}, p \in {a, b}}
\* Other ids than before, and a supporting feature in front with a core's id.
Renamed ==
  {<<Support(w1, i, d, {}, R3), Core(n, c1, d, {}, R1), Core(c2, c2, b, {d}, R2)>> :
     i \in {a, x}, n \in {c1, r1}}
\* Two supporting features that may be merged.
Merging ==
  {<<Core(c1, c1, a, {}, R1), Core(c2, c2, b, {}, R2), Support(m, x, a, {}, Ra),
     Support(n, y, p, e, Ra)>> : m \in {v1, l1}, n \in {v2, l2}, p \in {b, x}, e \in {{}, {x}}}
\* Documents for a PRD with fewer or more core features.
Resized ==
  {<<Core(c1, c1, a, {}, R1), Support(w1, x, a, {}, R3)>>,
   <<Core(c2, c2, b, {}, R2), Support(w1, x, b, {}, R3)>>,
   <<Core(c1, c1, a, {}, R1), Core(c2, c2, b, {d}, R2), Core(c3, c3, d, {}, R3)>>}
MCDocuments == {doc \in Linked \cup Renamed \cup Merging \cup Resized : ~DependencyIssues(doc)}
=============================================================================
