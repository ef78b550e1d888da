----------------------------- MODULE MCDaemonLock -----------------------------
(* Instances of DaemonLock for TLC. *)
EXTENDS DaemonLock, TLC

Symmetry == Permutations(Daemon) \cup Permutations(Client)

===============================================================================
