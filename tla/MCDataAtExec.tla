----------------------------- MODULE MCDataAtExec -----------------------------
(* Instances of DataAtExec for TLC. *)
EXTENDS DataAtExec
=============================================================================
