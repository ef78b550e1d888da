-------------------------------- MODULE TxIds --------------------------------
(***************************************************************************)
(* The order of transaction ids (braid-kernel/src/datom.rs, TxId): by wall *)
(* time, then by agent.  The logical part in between is always 0, because  *)
(* next_tx_id never uses it.                                               *)
(***************************************************************************)
EXTENDS Naturals

Before(i, j) == i.wall < j.wall \/ (i.wall = j.wall /\ i.agent < j.agent)

Precedes(s, t) == Before(s.id, t.id)
==============================================================================
