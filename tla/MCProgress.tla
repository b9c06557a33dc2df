----------------------------- MODULE MCProgress -----------------------------
(* A small instance of Progress for TLC: two runs share the one place in the *)
(* table of terminal events.                                                 *)
EXTENDS Progress

CONSTANTS r1, r2, s1

TwoRuns == {r1, r2}
OneStream == {s1}
=============================================================================
