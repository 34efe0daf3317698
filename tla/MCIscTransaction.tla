-------------------------- MODULE MCIscTransaction --------------------------
(* Model values and symmetry for checking IscTransaction. *)
EXTENDS IscTransaction, TLC

\* Statements are interchangeable, and so are the names of transactions.
Symmetry == Permutations(Stmt) \cup Permutations(Tx)
=============================================================================
