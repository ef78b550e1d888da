----------------------------- MODULE MCLiveStore -----------------------------
(* Instances of LiveStore for TLC: transactions in different shards. *)
EXTENDS LiveStore, TLC

CONSTANTS t1, t2

TwoShards == [t \in Tx |-> IF t = t1 THEN 1 ELSE 2]

=============================================================================
