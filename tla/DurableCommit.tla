---------------------------- MODULE DurableCommit ----------------------------
(***************************************************************************)
(* What CommitHandle::commit() promises its callers (INV-DS2-001 and       *)
(* INV-DS2-003), with no log, batch or thread in sight: an answer Ok means *)
(* that the transaction is on disk and visible, and stays on disk through  *)
(* every crash; an answer Err means that it was not made visible by this   *)
(* daemon, though it may be on disk and show up after a restart.           *)
(***************************************************************************)
CONSTANT Tx

VARIABLES
    status,   \* what the caller of commit() knows of each transaction
    disk,     \* transactions a restart would find
    visible,  \* transactions the daemon's queries see
    up        \* is a daemon running?

vars == <<status, disk, visible, up>>

Acked == {t \in Tx : status[t] = "ok"}

Init ==
    /\ status = [t \in Tx |-> "idle"]
    /\ disk = {}
    /\ visible = {}
    /\ up = TRUE

Submit(t) ==
    /\ up
    /\ status[t] = "idle"
    /\ status' = [status EXCEPT ![t] = "queued"]
    /\ UNCHANGED <<disk, visible, up>>

\* Only a submitted, unanswered transaction reaches the disk.
Persist(t) ==
    /\ status[t] = "queued"
    /\ disk' = disk \cup {t}
    /\ UNCHANGED <<status, visible, up>>

\* A set of transactions becomes visible at once, and only from the disk.
Publish(S) ==
    /\ \A t \in S : status[t] = "queued" /\ t \in disk
    /\ visible' = visible \cup S
    /\ UNCHANGED <<status, disk, up>>

Ack(t) ==
    /\ status[t] = "queued"
    /\ t \in disk \cap visible
    /\ status' = [status EXCEPT ![t] = "ok"]
    /\ UNCHANGED <<disk, visible, up>>

Reject(t) ==
    /\ status[t] = "queued"
    /\ t \notin visible
    /\ status' = [status EXCEPT ![t] = "failed"]
    /\ UNCHANGED <<disk, visible, up>>

\* A crash may forget what nobody was promised.
Crash ==
    /\ up
    /\ up' = FALSE
    /\ visible' = {}
    /\ \E D \in SUBSET disk : Acked \subseteq D /\ disk' = D
    /\ status' = [t \in Tx |-> IF status[t] = "queued" THEN "lost" ELSE status[t]]

Recover ==
    /\ ~up
    /\ up' = TRUE
    /\ visible' = disk
    /\ UNCHANGED <<status, disk>>

Next ==
    \/ \E t \in Tx : Submit(t) \/ Persist(t) \/ Ack(t) \/ Reject(t)
    \/ \E S \in SUBSET Tx : Publish(S)
    \/ Crash
    \/ Recover

Spec == Init /\ [][Next]_vars

\* A daemon that shows only part of what is on the disk.
RecoverPartly ==
    /\ ~up
    /\ up' = TRUE
    /\ visible' \in SUBSET disk
    /\ UNCHANGED <<status, disk>>

\* The weaker promise, of an engine that may start without its log.
SpecPartly == Init /\ [][Next \/ RecoverPartly]_vars

=============================================================================
