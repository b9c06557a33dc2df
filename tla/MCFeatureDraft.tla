--------------------------- MODULE MCFeatureDraft ---------------------------
(* Small instances of FeatureDraft for TLC. *)
EXTENDS FeatureDraft

CONSTANTS f1, f2, f3, s1, s3, k1, k2, k3, k4, d1, d2, d3, n1

Op(key, refs, body) == [key |-> key, refs |-> refs, body |-> body]

\* Two features of one core, which share a DTO by nesting; the core s3 has none.
First ==
    [features |-> <<[id |-> f1, source |-> s1, ops |-> <<Op(k1, {d3}, 0), Op(k2, {d2}, 0)>>],
                    [id |-> f2, source |-> s1, ops |-> <<Op(k3, {d1}, 0)>>]>>,
     dtos |-> [n \in {d1, d2, d3} |-> [refs |-> IF n = d1 THEN {d3} ELSE {}, body |-> 0]]]

OneDraft == {First}
\* The first draft after a patch has renamed f1 and added the route k4
Second ==
    [First EXCEPT !.features[1].id = f3, !.features[1].ops = Append(@, Op(k4, {n1}, 1)),
                  !.dtos = @ @@ (n1 :> [refs |-> {d3}, body |-> 1])]
TwoDrafts == {First, Second}
SomeFaults(d) == IF d # First THEN {<<"feature", 1>>} ELSE
    {<<"operation", 1, 1>>, <<"operation", 2, 1>>, <<"feature", 1>>, <<"route", 1, k2>>, <<"route", 1, k4>>, <<"core", s3>>, <<"dto", d1>>}
SomeOps == {Op(k2, {d2}, 0), Op(k1, {n1}, 1), Op(k2, {d2}, 1), Op(k4, {n1}, 1)}
SomeDtos == {[refs |-> {}, body |-> 0], [refs |-> {d3}, body |-> 1]}
=============================================================================
