------------------------------ MODULE CausalLog ------------------------------
(***************************************************************************)
(* What the transactions of braid promise, however they are stored: every  *)
(* participant holds some of the transactions there are, gets them in any  *)
(* order, may start again with fewer, and what it adds comes after all     *)
(* that it holds (spec/01-store.md:1247: if T1 causally precedes T2, then  *)
(* T1.tx_id < T2.tx_id).                                                   *)
(***************************************************************************)
EXTENDS TxIds

CONSTANT Participant  \* those who read and add transactions

VARIABLES log,   \* all transactions there are
          held   \* held[p]: those p holds

vars == <<log, held>>

Init ==
  /\ log = {}
  /\ held = [p \in Participant |-> {}]

\* p adds a transaction t that comes after all those it holds.
Add(p, t) ==
  /\ t \notin held[p]
  /\ \A s \in held[p] : Precedes(s, t)
  /\ log' = log \cup {t}
  /\ held' = [held EXCEPT ![p] = @ \cup {t}]

\* p gets a transaction of somebody else.
Learn(p, t) ==
  /\ held' = [held EXCEPT ![p] = @ \cup {t}]
  /\ UNCHANGED log

\* p starts again.
Reset(p, S) ==
  /\ S \subseteq log
  /\ held' = [held EXCEPT ![p] = S]
  /\ UNCHANGED log

Next ==
  \E p \in Participant :
    \/ \E t \in held'[p] : Add(p, t)
    \/ \E t \in log : Learn(p, t)
    \/ \E S \in SUBSET log : Reset(p, S)

Spec == Init /\ [][Next]_vars
==============================================================================
