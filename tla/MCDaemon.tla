------------------------------- MODULE MCDaemon -------------------------------
(* Instances of Daemon for TLC. *)
EXTENDS Daemon, TLC

\* Transactions that are not harvests are interchangeable.
Symmetry == Permutations(Tx \ Harvests)

=============================================================================
