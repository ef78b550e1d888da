------------------------------ MODULE MCLiveView ------------------------------
(* Instances of LiveView, and so of TxStore, for TLC. *)
EXTENDS LiveView, TLC

Symmetry == Permutations(Process) \cup Permutations(Dir)
==============================================================================
