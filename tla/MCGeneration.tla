---------------------------- MODULE MCGeneration ----------------------------
(* A small instance of Generation for TLC: one issue each of the plan, the PRD *)
(* and the database schema.                                                    *)
EXTENDS Generation

WithPm == {<<d, "a">> : d \in {"pm", "prd", "db"}}
=============================================================================
