-------------------------------- MODULE Daemon --------------------------------
(***************************************************************************)
(* The durability engine of the daemon: connection threads, commit thread  *)
(* and checkpoint thread around one write-ahead log, the transaction       *)
(* files, and the crashes and restarts of the process.                     *)
(***************************************************************************)
EXTENDS WalFile, FiniteSets

CONSTANTS
    MaxBatch,    \* batch limit of commit_thread
    MaxCrashes,  \* bound on the crashes of a behaviour
    Harvests,    \* the transactions whose request is a harvest with commit
    Faults       \* what may go wrong; besides the faults of the components,
                 \* "refresh": a dispatch may read a file being written

ASSUME DaemonAssumption ==
    /\ MaxBatch \in Nat \ {0}
    /\ MaxCrashes \in Nat
    /\ Harvests \subseteq Tx

VARIABLES
    req, channel, pc, batch, next, wal, synced, chain, live, crashes,
    edn, pass, step, offset, from, mailbox, harvest

Commit == INSTANCE GroupCommit
Ckpt   == INSTANCE Checkpoint

commitOnly == <<req, channel, pc, batch, next, chain, live, crashes>>
ckptOnly   == <<edn, pass, step, offset, from, mailbox, harvest>>
vars       == <<commitOnly, wal, synced, ckptOnly>>

Up == Commit!Up

Init == Commit!Init /\ Ckpt!Init

-----------------------------------------------------------------------------

Submit(t) == Commit!Submit(t) /\ UNCHANGED ckptOnly

CommitThread == Commit!CommitThread /\ UNCHANGED ckptOnly

\* write(2) and ftruncate(2) exclude each other on one file: the log is not
\* cut in the middle of a frame.
CheckpointThread ==
    /\ Up
    /\ Ckpt!CheckpointThread
    /\ step = "truncate" => pc # "write"
    /\ UNCHANGED commitOnly

\* Mutant of AskFull: the signal is sent without waiting for the commit.
AskFullEarly(h) ==
    /\ Up
    /\ req[h] # "idle"
    /\ Ckpt!AskFull(h)
    /\ UNCHANGED commitOnly

\* handle_connection_shared: a harvest goes on to ask for a full checkpoint
\* once its own commit was answered, whatever the answer.
AskFull(h) ==
    /\ Up
    /\ req[h] \in {"ok", "failed"}
    /\ Ckpt!AskFull(h)
    /\ UNCHANGED commitOnly

GiveUp(h) == Ckpt!GiveUp(h) /\ UNCHANGED commitOnly

\* refresh_if_needed of some dispatch: a new shard directory has changed the
\* mtime of txns/, and the listing finds files whose hashes the LiveStore does
\* not know: committed through the log and being converted right now, or left
\* half-written by an error.
Refresh ==
    /\ "refresh" \in Faults
    /\ Up
    /\ \E S \in SUBSET Ckpt!PartialFiles : S # {} /\ Ckpt!Quarantine(S)
    /\ UNCHANGED commitOnly

ProcessCrash == Commit!ProcessCrash /\ Ckpt!Vanish /\ UNCHANGED edn

\* The creation of a file that was never fsynced may be forgotten.
PowerLoss ==
    /\ Commit!PowerLoss
    /\ Ckpt!Vanish
    /\ \E S \in SUBSET Ckpt!PartialFiles :
         edn' = [t \in Tx |-> IF t \in S THEN "absent" ELSE edn[t]]

\* Mutant of Restart: the log is not replayed.
RestartUnreplayed ==
    /\ Ckpt!PartialFiles = {}
    /\ Commit!Recover(Ckpt!WholeFiles)
    /\ UNCHANGED ckptOnly

\* open_with_wal, the fast path: the transaction files, then the log.
Restart ==
    /\ Ckpt!PartialFiles = {}
    /\ Commit!Recover(Ckpt!WholeFiles \cup ReadTxs(wal))
    /\ UNCHANGED ckptOnly

\* Loading the files fails at one that is not whole and moves it away.  The
\* fast path is given up for open(), which reads the files but not the log.
RestartWithoutLog ==
    /\ \E t \in Tx : Ckpt!PartialFiles = {t} /\ Ckpt!Quarantine({t})
    /\ Commit!Recover(Ckpt!WholeFiles)

\* With two such files open() fails too, and so does the daemon.
FailedRestart ==
    /\ ~Up
    /\ \E t, u \in Ckpt!PartialFiles : t # u /\ Ckpt!Quarantine({t, u})
    /\ UNCHANGED commitOnly

Next ==
    \/ \E t \in Tx : Submit(t)
    \/ CommitThread
    \/ CheckpointThread
    \/ \E h \in Harvests : AskFull(h) \/ GiveUp(h)
    \/ Refresh
    \/ ProcessCrash \/ PowerLoss
    \/ Restart \/ RestartWithoutLog \/ FailedRestart

Spec == Init /\ [][Next]_vars

\* Both threads run whenever they can; the checkpoint thread wakes up by itself
\* every checkpoint-interval-secs.  A file that cannot be created is tried again
\* on the next tick, and disk errors do not hit every one of these attempts.
Convert(action) == Up /\ action /\ UNCHANGED commitOnly

FairSpec ==
    /\ Spec
    /\ WF_vars(CommitThread)
    /\ WF_vars(CheckpointThread)
    /\ SF_vars(Convert(Ckpt!CreateFile \/ Ckpt!SkipFile))

-----------------------------------------------------------------------------
(* Properties. *)

\* The variables of both threads stay within their ranges.
TypeOK ==
    /\ Commit!TypeOK
    /\ edn \in [Tx -> Ckpt!FileStates]
    /\ pass \in Ckpt!Passes
    /\ step \in Ckpt!PassSteps
    /\ offset \in Nat
    /\ from \in Nat
    /\ mailbox \in Seq(Harvests)
    /\ harvest \in [Harvests -> Ckpt!HarvestStates]

\* What a restart that reads the transaction files and the log finds.
Stored == Ckpt!WholeFiles \cup ReadTxs(wal)

\* INV-DS2-001 for the whole engine: what was acknowledged is in a
\* transaction file or in the readable part of the log.
AckedStored == Commit!Acked \subseteq Stored

\* INV-DS2-003 over restarts: a daemon that starts where all transaction files
\* are whole shows what any daemon before it acknowledged, however much of that
\* is a file by now; and until it dies no daemon loses from view what it has, or
\* acknowledges what it does not show.
RestartShowsAcked ==
    [][Up' => IF Up THEN live \cup (Commit!Acked' \ Commit!Acked) \subseteq live'
              ELSE Ckpt!PartialFiles = {} => Commit!Acked \subseteq live']_vars

\* INV-DS2-003 as it stands: an acknowledged transaction is visible in every
\* daemon that runs afterwards.  Wrong of the code: a file left half-written
\* makes the next daemon start without the log.
AckedVisible == Commit!AckedVisible

\* The transaction files a git commit picks up at any moment hold a prefix of
\* the log: no entry is a file before all entries it may depend on are.
FilesArePrefix ==
    \A i, j \in DOMAIN wal :
        i < j /\ edn[wal[j].tx] = "whole" => edn[wal[i].tx] = "whole"

\* A half-written file that nobody is writing any more.
LeftBehind(t) == edn[t] = "partial" /\ ~(step = "write" /\ Ckpt!Entry = t)

InLog(t) == \E i \in DOMAIN wal : wal[i].tx = t

\* DS3: an acknowledged entry of the log is converted some day, behind entries
\* whose conversion failed as well, unless it leaves the log or the daemon goes
\* down.  Not converted is an entry whose own file could not be written: that
\* file stays as it is, and the next tick passes the entry.
LoggedIsConverted ==
    \A t \in Tx :
        (req[t] = "ok" /\ Up /\ InLog(t))
            ~> (edn[t] = "whole" \/ LeftBehind(t) \/ ~Up \/ ~InLog(t))

\* A full checkpoint goes on to truncate only when everything acknowledged
\* until then is a transaction file.
FullReadsAll ==
    [][step # "truncate" /\ step' = "truncate"
         => Commit!Acked \subseteq Ckpt!WholeFiles]_vars

\* DS3-002: the log is emptied only when each of its entries has a file.
FullConvertsAll ==
    [][step = "truncate" /\ wal' # wal
         => \A i \in DOMAIN wal : edn[wal[i].tx] = "whole"]_vars

\* DS6: when a harvest is told that its checkpoint is complete, the entry it
\* committed itself is a transaction file.
HarvestedHasFile ==
    \A h \in Harvests :
        harvest[h] = "done" /\ req[h] = "ok" => edn[h] = "whole"

\* Whatever fails or crashes, only the truncation of the log can take an
\* acknowledged transaction that a restart would find away.
StoredStays ==
    [][step # "truncate" => Commit!Acked \cap Stored \subseteq Stored']_vars

\* Until its first crash, a daemon shows its callers all it has acknowledged,
\* whatever becomes of the log and the files.
ReadYourCommits == crashes = 0 => Commit!Acked \subseteq live

\* A harvest does not wait for its checkpoint for ever, even with the timeout
\* left out: errors end in a reply, and a crash in a closed connection.
HarvestAnswered ==
    \A h \in Harvests : harvest[h] = "waiting" ~> harvest[h] # "waiting"

Promise == INSTANCE DurableCommit
    WITH status <- req, disk <- Stored, visible <- live, up <- Up

\* Behind log, files and two threads, what commit() promises: an answer Ok means
\* stored and visible, and stored for good; and a daemon that starts shows no
\* more than what is stored, though perhaps not all of it.
KeepsPromise == Promise!SpecPartly

=============================================================================
