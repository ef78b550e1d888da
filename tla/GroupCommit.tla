----------------------------- MODULE GroupCommit -----------------------------
(***************************************************************************)
(* Group commit: connection threads hand transactions to the commit thread *)
(* over a channel and block until it answers.  The commit thread drains a  *)
(* batch, appends it to the write-ahead log, fsyncs once, applies the      *)
(* batch to the shared LiveStore and answers every requester.              *)
(*                                                                         *)
(* A crash is either the death of the process (the file keeps what was     *)
(* written) or a power loss (the file keeps what was fsynced and a prefix  *)
(* of the rest).  Restart replays the log and reopens its writer.          *)
(***************************************************************************)
EXTENDS WalFile, FiniteSets

CONSTANTS
    MaxBatch,    \* batch limit of commit_thread (256 in the code)
    MaxCrashes,  \* bound on the crashes of a behaviour
    Faults       \* "io_error": a write or an fsync may return an error;
                 \* "torn_frame": an interrupted write may leave part of a
                 \* frame behind

ASSUME GroupCommitAssumption ==
    /\ MaxBatch \in Nat \ {0}
    /\ MaxCrashes \in Nat

VARIABLES
    req,      \* per transaction, where the thread blocked in commit() stands
    channel,  \* requests sent and not yet received
    pc,       \* step of the commit thread, or "down" without a daemon
    batch,    \* requests of the current batch still to be answered
    next,     \* index in the batch of the next transaction to append
    wal,      \* the log file
    synced,   \* number of its frames known to be on stable storage
    chain,    \* WalWriter.chain_hash of the commit thread
    live,     \* transactions applied to the shared LiveStore
    crashes   \* crashes so far (bounded by MaxCrashes)

vars == <<req, channel, pc, batch, next, wal, synced, chain, live, crashes>>

writerVars == <<wal, synced, chain>>

Tears    == "torn_frame" \in Faults
IoErrors == "io_error" \in Faults

Steps == {"recv", "drain", "append", "write", "apply", "signal", "fail", "down"}

Outcomes == {"idle", "queued", "ok", "failed", "lost"}

Up == pc # "down"

BatchTxs == {batch[i] : i \in DOMAIN batch}

AllButLast(s) == SubSeq(s, 1, Len(s) - 1)

Init ==
    /\ req = [t \in Tx |-> "idle"]
    /\ channel = <<>>
    /\ pc = "recv"
    /\ batch = <<>>
    /\ next = 1
    /\ wal = <<>>
    /\ synced = 0
    /\ chain = GenesisHash
    /\ live = {}
    /\ crashes = 0

-----------------------------------------------------------------------------
(* Connection threads. *)

\* CommitHandle::commit: send the request, then block on its answer.
Submit(t) ==
    /\ Up
    /\ req[t] = "idle"
    /\ req' = [req EXCEPT ![t] = "queued"]
    /\ channel' = Append(channel, t)
    /\ UNCHANGED <<pc, batch, next, writerVars, live, crashes>>

-----------------------------------------------------------------------------
(* The commit thread. *)

\* recv_timeout returns the first request of a batch.
Recv ==
    /\ pc = "recv"
    /\ channel # <<>>
    /\ batch' = <<Head(channel)>>
    /\ channel' = Tail(channel)
    /\ pc' = "drain"
    /\ UNCHANGED <<req, next, writerVars, live, crashes>>

\* Mutant of Drain: the batch limit is not looked at.
DrainUnbounded ==
    /\ pc = "drain"
    /\ channel # <<>>
    /\ batch' = Append(batch, Head(channel))
    /\ channel' = Tail(channel)
    /\ UNCHANGED <<req, pc, next, writerVars, live, crashes>>

\* One successful try_recv.
Drain ==
    /\ pc = "drain"
    /\ Len(batch) < MaxBatch
    /\ channel # <<>>
    /\ batch' = Append(batch, Head(channel))
    /\ channel' = Tail(channel)
    /\ UNCHANGED <<req, pc, next, writerVars, live, crashes>>

\* The batch is full, or try_recv found the channel empty.
CloseBatch ==
    /\ pc = "drain"
    /\ Len(batch) = MaxBatch \/ channel = <<>>
    /\ pc' = "append"
    /\ next' = 1
    /\ UNCHANGED <<req, channel, batch, writerVars, live, crashes>>

\* WalWriter::append, first half: the frame's bytes begin to reach the file.
BeginFrame ==
    /\ pc = "append"
    /\ next <= Len(batch)
    /\ wal' = Append(wal, Torn(Frame(chain, batch[next])))
    /\ pc' = "write"
    /\ UNCHANGED <<req, channel, batch, next, synced, chain, live, crashes>>

\* Mutant of EndFrame: the writer forgets to move its chain hash on.
EndFrameOldChain ==
    /\ pc = "write"
    /\ wal' = [wal EXCEPT ![Len(wal)] = Frame(chain, batch[next])]
    /\ next' = next + 1
    /\ pc' = "append"
    /\ UNCHANGED <<req, channel, batch, synced, chain, live, crashes>>

\* WalWriter::append, second half: write_all returned, the writer moves on.
EndFrame ==
    /\ pc = "write"
    /\ LET f == Frame(chain, batch[next]) IN
         /\ wal' = [wal EXCEPT ![Len(wal)] = f]
         /\ chain' = f.hash
    /\ next' = next + 1
    /\ pc' = "append"
    /\ UNCHANGED <<req, channel, batch, synced, live, crashes>>

\* Mutant of WriteFails: the error is dropped, and the batch is applied.
WriteFailsUnnoticed ==
    /\ pc = "write"
    /\ IoErrors
    /\ wal' = AllButLast(wal)
    /\ pc' = "apply"
    /\ UNCHANGED <<req, channel, batch, next, synced, chain, live, crashes>>

\* write_all failed: append_batch returns at once, with the writer's state as
\* it was, the frames before this one in the file, and perhaps part of it too.
WriteFails ==
    /\ pc = "write"
    /\ IoErrors
    /\ \/ wal' = AllButLast(wal)
       \/ Tears /\ UNCHANGED wal
    /\ pc' = "fail"
    /\ UNCHANGED <<req, channel, batch, next, synced, chain, live, crashes>>

\* Mutant of Sync: sync_all is not called.
SyncNothing ==
    /\ pc = "append"
    /\ next > Len(batch)
    /\ pc' = "apply"
    /\ UNCHANGED <<req, channel, batch, next, writerVars, live, crashes>>

\* One fsync for the whole batch.
Sync ==
    /\ pc = "append"
    /\ next > Len(batch)
    /\ synced' = Len(wal)
    /\ pc' = "apply"
    /\ UNCHANGED <<req, channel, batch, next, wal, chain, live, crashes>>

SyncFails ==
    /\ pc = "append"
    /\ next > Len(batch)
    /\ IoErrors
    /\ pc' = "fail"
    /\ UNCHANGED <<req, channel, batch, next, writerVars, live, crashes>>

\* Mutant of Apply: only the first transaction of the batch is applied.
ApplyFirst ==
    /\ pc = "apply"
    /\ live' = live \cup {Head(batch)}
    /\ pc' = "signal"
    /\ UNCHANGED <<req, channel, batch, next, writerVars, crashes>>

\* apply_datoms_in_memory for the whole batch, under the write lock.
Apply ==
    /\ pc = "apply"
    /\ live' = live \cup BatchTxs
    /\ pc' = "signal"
    /\ UNCHANGED <<req, channel, batch, next, writerVars, crashes>>

\* Mutant of Reply: the thread goes back to its channel after one answer.
ReplyOnce(step, outcome) ==
    /\ pc = step
    /\ req' = [req EXCEPT ![Head(batch)] = outcome]
    /\ batch' = <<>>
    /\ pc' = "recv"
    /\ UNCHANGED <<channel, next, writerVars, live, crashes>>

\* Answer the next requester of the batch and go on, or wait for a new batch.
Reply(step, outcome) ==
    /\ pc = step
    /\ req' = [req EXCEPT ![Head(batch)] = outcome]
    /\ batch' = Tail(batch)
    /\ pc' = IF Tail(batch) = <<>> THEN "recv" ELSE step
    /\ UNCHANGED <<channel, next, writerVars, live, crashes>>

SignalOk    == Reply("signal", "ok")
SignalError == Reply("fail", "failed")

CommitThread ==
    \/ Recv \/ Drain \/ CloseBatch
    \/ BeginFrame \/ EndFrame \/ WriteFails
    \/ Sync \/ SyncFails \/ Apply
    \/ SignalOk \/ SignalError

-----------------------------------------------------------------------------
(* Crashes and restart. *)

\* The file when the process dies, with what it was writing at the time.
Interrupted == IF pc = "write" /\ ~Tears THEN AllButLast(wal) ELSE wal

\* Every thread is gone, and with it the channel, the batch and the memory;
\* a client still waiting sees its connection drop.
Vanish ==
    /\ Up
    /\ crashes < MaxCrashes
    /\ crashes' = crashes + 1
    /\ pc' = "down"
    /\ req' = [t \in Tx |-> IF req[t] = "queued" THEN "lost" ELSE req[t]]
    /\ channel' = <<>>
    /\ batch' = <<>>
    /\ next' = 1
    /\ live' = {}
    /\ chain' = GenesisHash

ProcessCrash ==
    /\ Vanish
    /\ wal' = Interrupted
    /\ UNCHANGED synced

PowerLoss ==
    /\ Vanish
    /\ \E n \in synced .. Len(Interrupted) :
         \/ wal' = SubSeq(wal, 1, n)
         \/ /\ Tears
            /\ n < Len(wal)
            /\ wal' = Append(SubSeq(wal, 1, n), Torn(wal[n + 1]))
    /\ synced' = Len(wal')

\* Mutant of Recover: the log is opened with truncation.
RecoverEmpty(store) ==
    /\ ~Up
    /\ wal' = <<>>
    /\ synced' = 0
    /\ chain' = GenesisHash
    /\ live' = store
    /\ pc' = "recv"
    /\ UNCHANGED <<req, channel, batch, next, crashes>>

\* serve_daemon: load the store, then open the log's writer with the chain hash
\* of the last frame that can be read.  The file itself is opened for append
\* as it is, whatever follows that frame.
Recover(store) ==
    /\ ~Up
    /\ \E n \in 0 .. Len(wal) :
         /\ RecoversAt(wal, n)
         /\ chain' = RecoveredHash(wal, n)
    /\ live' = store
    /\ pc' = "recv"
    /\ UNCHANGED <<req, channel, batch, next, wal, synced, crashes>>

\* open_with_wal over an empty store: the log is replayed up to its first bad
\* frame.
Restart == Recover(ReadTxs(wal))

-----------------------------------------------------------------------------

Next ==
    \/ \E t \in Tx : Submit(t)
    \/ CommitThread
    \/ ProcessCrash
    \/ PowerLoss
    \/ Restart

Spec == Init /\ [][Next]_vars

\* The commit thread runs whenever it can: recv_timeout returns as soon as a
\* request is there, and none of its other steps waits for another thread
\* for ever (the write lock is held for one dispatch at a time).
FairSpec == Spec /\ WF_vars(CommitThread)

-----------------------------------------------------------------------------
(* Properties. *)

\* The variables stay within their ranges: batches within MaxBatch, the fsync
\* watermark within the file, one known step and one known outcome.
TypeOK ==
    /\ req \in [Tx -> Outcomes]
    /\ channel \in Seq(Tx)
    /\ pc \in Steps
    /\ batch \in Seq(Tx) /\ Len(batch) <= MaxBatch
    /\ next \in 1 .. MaxBatch + 1
    /\ wal \in Seq(Frames)
    /\ synced \in 0 .. Len(wal)
    /\ chain \in Seq(Tx)
    /\ live \subseteq Tx
    /\ crashes \in 0 .. MaxCrashes

Acked == {t \in Tx : req[t] = "ok"}

\* INV-DS2-001: whatever the callers of commit() were told is committed can
\* still be read back from the log file.
AckedDurable == Acked \subseteq ReadTxs(wal)

\* INV-DS2-001, whatever failed or crashed: the frame of an acknowledged
\* transaction is whole and below the fsync watermark.
AckedSynced ==
    \A t \in Acked : \E i \in 1 .. synced : wal[i].whole /\ wal[i].tx = t

\* INV-DS2-003: an acknowledged transaction is in the memory of every daemon
\* that runs afterwards, the restarted ones included.
AckedVisible == Up => Acked \subseteq live

\* No query sees a transaction that the log could not give back after the
\* death of the process.
VisibleLogged == live \subseteq ReadTxs(wal)

\* Once acknowledged and readable, a transaction stays readable: no crash and
\* no later write takes it out of reach, torn frames or not.
ReadableStays == [][Acked \cap ReadTxs(wal) \subseteq ReadTxs(wal')]_vars

\* Every request is answered, or its daemon is gone: no request is left
\* behind in the channel or in a batch, on the error paths included.
EveryRequestAnswered == \A t \in Tx : req[t] = "queued" ~> req[t] # "queued"

\* The promise of commit(), as an abstract specification.
Durable == INSTANCE DurableCommit
           WITH status <- req, disk <- ReadTxs(wal), visible <- live, up <- Up

ImplementsDurableCommit == Durable!Spec

=============================================================================
