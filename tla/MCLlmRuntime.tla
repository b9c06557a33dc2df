---------------------------- MODULE MCLlmRuntime ----------------------------
(* Two requests, one after the other or at once, three calls, one seat.    *)
EXTENDS LlmRuntime

CONSTANTS r1, r2

MCKeys == {[url |-> "service", secret |-> 1], [url |-> "service", secret |-> 2]}

Heading(form, tracking, key, tier) ==
  [form |-> form, tracking |-> tracking, key |-> key, tier |-> tier]

Pair(a, b) == [r \in {r1, r2} |-> IF r = r1 THEN a ELSE b]

MCScenarios ==
  LET mine(form) == Heading(form, TRUE, [url |-> "service", secret |-> 1], TRUE)
      yours(form) == Heading(form, form = "stream", [url |-> "service", secret |-> 2], FALSE)
      nobodys(form) == Heading(form, FALSE, Absent, TRUE)
  IN {Pair(mine("pipeline"), yours("pipeline")), Pair(mine("plain"), yours("stream")),
      Pair(yours("stream"), nobodys("pipeline"))}
=============================================================================
