------------------------------ MODULE MCEnvShare ------------------------------
(* Instances of EnvShare for TLC. *)
EXTENDS EnvShare, TLC

Symmetry == Permutations(Dbc) \cup Permutations(Isc) \cup Permutations(Tx)
=============================================================================
