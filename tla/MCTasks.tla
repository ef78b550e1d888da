------------------------------- MODULE MCTasks -------------------------------
(* An instance of Tasks for TLC. *)
EXTENDS Tasks, TLC

CONSTANTS t1, t2, t3

\* All tasks open, or each in a status of its own.
ImportsValue ==
  {[t \in Task |-> Open], (t1 :> InProgress) @@ (t2 :> Closed) @@ (t3 :> Open)}

Bounds == [create |-> 1, status |-> 1, depend |-> 2]

Symmetry == Permutations(Process) \cup Permutations(Dir)
==============================================================================
