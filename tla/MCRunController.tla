--------------------------- MODULE MCRunController ---------------------------
(* The run controller for TLC; its constants are in the configuration. *)
EXTENDS RunController
=============================================================================
