------------------------------ MODULE MCGuards ------------------------------
(* Instances of Guards for TLC. *)
EXTENDS Guards, TLC
=============================================================================
