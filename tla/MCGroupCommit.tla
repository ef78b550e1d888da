---------------------------- MODULE MCGroupCommit ----------------------------
(* Instances of GroupCommit for TLC. *)
EXTENDS GroupCommit, TLC

\* Transactions are interchangeable (no liveness property uses this).
Symmetry == Permutations(Tx)

=============================================================================
