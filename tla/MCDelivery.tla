----------------------------- MODULE MCDelivery -----------------------------
(* Small instances of Delivery for TLC. *)
EXTENDS Delivery

CONSTANTS i1, i2, p1, p2

OneInstance == {i1}
TwoInstances == {i1, i2}
OnePipeline == {p1}
TwoPipelines == {p1, p2}
=============================================================================
