----------------------------- MODULE DaemonProofs -----------------------------
(***************************************************************************)
(* Theorems about the daemon's durability engine, for every number of      *)
(* transactions, batch limit, number of crashes and set of harvests.  What *)
(* GroupCommitProofs shows of the log holds here as long as the checkpoint *)
(* thread only reads it, that is, until a harvest asks for a truncation.   *)
(***************************************************************************)
EXTENDS Daemon, SequenceTheorems, TLAPS

Log == INSTANCE GroupCommitProofs

NoHarvests == Harvests = {}
NoTornFrames == "torn_frame" \notin Faults
NoWriteErrors == "write_error" \notin Faults
NoErrors == "io_error" \notin Faults
NoRefresh == "refresh" \notin Faults

-----------------------------------------------------------------------------
(* The steps of the daemon as steps of the log. *)

LEMMA SameReads == \A file : Log!ReadTxs(file) = ReadTxs(file)
  BY DEF Log!ReadTxs, ReadTxs, Log!Readable, Readable, Log!Linked, Linked,
         Log!HashBefore, HashBefore, Log!ChainHash, ChainHash,
         Log!GenesisHash, GenesisHash

LEMMA SameSteps ==
    /\ \A t \in Tx : Commit!Submit(t) => Log!Submit(t)
    /\ Commit!CommitThread => Log!CommitThread
    /\ Commit!ProcessCrash => Log!ProcessCrash
    /\ Commit!PowerLoss => Log!PowerLoss
    /\ \A store : Commit!Recover(store) => Log!Recover(store)
<1> USE DEF Commit!Up, Log!Up, Commit!writerVars, Log!writerVars,
            Commit!Tears, Log!Tears, Commit!IoErrors, Log!IoErrors,
            Commit!AllButLast, Log!AllButLast, Commit!BatchTxs, Log!BatchTxs,
            Commit!Frame, Log!Frame, Commit!Torn, Log!Torn,
            Commit!ChainHash, Log!ChainHash, Commit!GenesisHash, Log!GenesisHash
<1>1. \A t \in Tx : Commit!Submit(t) => Log!Submit(t)
  BY DEF Commit!Submit, Log!Submit
<1>2. /\ Commit!Recv => Log!Recv
      /\ Commit!Drain => Log!Drain
      /\ Commit!CloseBatch => Log!CloseBatch
  BY DEF Commit!Recv, Log!Recv, Commit!Drain, Log!Drain,
         Commit!CloseBatch, Log!CloseBatch
<1>3. Commit!BeginFrame => Log!BeginFrame
  BY DEF Commit!BeginFrame, Log!BeginFrame
<1>4. Commit!EndFrame => Log!EndFrame
  BY DEF Commit!EndFrame, Log!EndFrame
<1>5. /\ Commit!WriteFails => Log!WriteFails
      /\ Commit!Sync => Log!Sync
      /\ Commit!SyncFails => Log!SyncFails
      /\ Commit!Apply => Log!Apply
  BY DEF Commit!WriteFails, Log!WriteFails, Commit!Sync, Log!Sync,
         Commit!SyncFails, Log!SyncFails, Commit!Apply, Log!Apply
<1>6. /\ Commit!SignalOk => Log!SignalOk
      /\ Commit!SignalError => Log!SignalError
  BY DEF Commit!SignalOk, Log!SignalOk, Commit!SignalError, Log!SignalError,
         Commit!Reply, Log!Reply
<1>7. Commit!CommitThread => Log!CommitThread
  BY <1>2, <1>3, <1>4, <1>5, <1>6 DEF Commit!CommitThread, Log!CommitThread
<1>8. Commit!Vanish => Log!Vanish
  BY DEF Commit!Vanish, Log!Vanish
<1>9. Commit!Interrupted = Log!Interrupted
  BY DEF Commit!Interrupted, Log!Interrupted
<1>10. Commit!ProcessCrash => Log!ProcessCrash
  BY <1>8, <1>9 DEF Commit!ProcessCrash, Log!ProcessCrash
<1>11. Commit!PowerLoss => Log!PowerLoss
  BY <1>8, <1>9 DEF Commit!PowerLoss, Log!PowerLoss
<1>12. \A store : Commit!Recover(store) => Log!Recover(store)
  BY DEF Commit!Recover, Log!Recover, Commit!RecoversAt, Log!RecoversAt,
         Commit!RecoveredHash, Log!RecoveredHash, Commit!HashBefore, Log!HashBefore,
         Commit!Readable, Log!Readable, Commit!Linked, Log!Linked
<1> QED
  BY <1>1, <1>7, <1>10, <1>11, <1>12

-----------------------------------------------------------------------------
(* Type correctness. *)

CkptTypes ==
    /\ edn \in [Tx -> Ckpt!FileStates]
    /\ pass \in Ckpt!Passes
    /\ step \in Ckpt!PassSteps
    /\ offset \in Nat
    /\ from \in Nat
    /\ mailbox \in Seq(Harvests)
    /\ harvest \in [Harvests -> Ckpt!HarvestStates]

\* A full checkpoint has a signal to answer, and only it truncates the log;
\* files are written in a checkpoint.
PassControl ==
    /\ step = "write" => pass # "none"
    /\ pass = "full" => mailbox # <<>>
    /\ step = "truncate" => pass = "full"

TypeInv == Log!TypeInv /\ CkptTypes /\ PassControl

\* Every step but a truncation is one of the log: what the checkpoint thread,
\* the harvests and the refreshes do to files leaves the log as it is.
LEMMA NextIsLogStep ==
    ASSUME TypeInv, [Next]_vars, step = "truncate" => ~CheckpointThread
    PROVE  [Log!LogNext]_(Log!vars)
<1>1. ASSUME NEW t \in Tx, Submit(t) PROVE Log!LogNext
  BY <1>1, SameSteps DEF Submit, Log!LogNext
<1>2. CommitThread => Log!LogNext
  BY SameSteps DEF CommitThread, Log!LogNext
<1>3. ProcessCrash \/ PowerLoss => Log!LogNext
  BY SameSteps DEF ProcessCrash, PowerLoss, Log!LogNext
<1>4. ASSUME NEW store \in SUBSET Tx, Commit!Recover(store) PROVE Log!LogNext
  BY <1>4, SameSteps DEF Log!LogNext, Log!AnyRestart
<1>5. ReadTxs(wal) \subseteq Tx /\ Ckpt!WholeFiles \subseteq Tx
  BY SameReads, Log!ReadTxsType, DaemonAssumption
     DEF TypeInv, Log!TypeInv, Log!TypeOK, Ckpt!WholeFiles, Log!Frames
<1>6. Restart \/ RestartWithoutLog => Log!LogNext
  BY <1>4, <1>5 DEF Restart, RestartWithoutLog
<1>7. CheckpointThread /\ step # "truncate" => UNCHANGED Log!vars
  BY DEF CheckpointThread, Ckpt!CheckpointThread, Ckpt!StartPassive, Ckpt!StartFull,
         Ckpt!CreateFile, Ckpt!SkipFile, Ckpt!FinishFile, Ckpt!FileFails,
         Ckpt!StopReading, Ckpt!EndPass, Ckpt!Truncate, Ckpt!TruncateFails,
         Ckpt!logVars, commitOnly, Log!vars
<1>8. ASSUME NEW h \in Harvests, AskFull(h) \/ GiveUp(h) PROVE UNCHANGED Log!vars
  BY <1>8 DEF AskFull, GiveUp, Ckpt!AskFull, Ckpt!GiveUp, Ckpt!logVars, commitOnly, Log!vars
<1>9. Refresh \/ FailedRestart => UNCHANGED Log!vars
  BY DEF Refresh, FailedRestart, Ckpt!Quarantine, Ckpt!logVars, commitOnly, Log!vars
<1>10. UNCHANGED vars => UNCHANGED Log!vars
  BY DEF vars, commitOnly, Log!vars
<1> QED
  BY <1>1, <1>2, <1>3, <1>6, <1>7, <1>8, <1>9, <1>10 DEF Next

LEMMA InitTypeInv == Init => TypeInv
<1> SUFFICES ASSUME Init PROVE TypeInv
  OBVIOUS
<1>1. Log!Init
  BY DEF Init, Commit!Init, Log!Init, Commit!GenesisHash, Log!GenesisHash
<1>2. Log!TypeInv
  BY <1>1, Log!InitTypeInv, DaemonAssumption
<1>3. CkptTypes /\ PassControl
  BY EmptySeq DEF Init, Ckpt!Init, CkptTypes, PassControl, Ckpt!FileStates, Ckpt!Passes,
         Ckpt!PassSteps, Ckpt!HarvestStates
<1> QED
  BY <1>2, <1>3 DEF TypeInv

\* Cutting the log leaves the rest of group commit as it is, for it is not cut
\* in the middle of a frame.
LEMMA CheckpointTypeInv ==
    ASSUME TypeInv, CheckpointThread
    PROVE  TypeInv'
<1> USE DEF TypeInv, CkptTypes, PassControl, Ckpt!FileStates, Ckpt!Passes,
            Ckpt!PassSteps, Ckpt!HarvestStates
<1>1. CASE step # "truncate"
  <2>1. [Log!LogNext]_(Log!vars)
    BY <1>1, NextIsLogStep DEF Next
  <2>2. Log!TypeInv'
    BY <2>1, Log!NextTypeInv, DaemonAssumption
  <2>3. \/ Ckpt!StartPassive \/ Ckpt!StartFull \/ Ckpt!CreateFile \/ Ckpt!SkipFile
        \/ Ckpt!FinishFile \/ Ckpt!FileFails \/ Ckpt!StopReading
    BY <1>1 DEF CheckpointThread, Ckpt!CheckpointThread, Ckpt!Truncate, Ckpt!TruncateFails
  <2>4. edn' \in [Tx -> Ckpt!FileStates] /\ offset' \in Nat /\ from' \in Nat
    BY <2>3 DEF Ckpt!StartPassive, Ckpt!StartFull, Ckpt!CreateFile, Ckpt!SkipFile,
                Ckpt!FinishFile, Ckpt!FileFails, Ckpt!StopReading, Ckpt!EndPass
  <2>5. /\ mailbox' = mailbox /\ harvest' = harvest
        /\ pass' \in Ckpt!Passes /\ step' \in Ckpt!PassSteps /\ PassControl'
    BY <2>3 DEF Ckpt!AtEntry, Ckpt!StartPassive, Ckpt!StartFull, Ckpt!CreateFile, Ckpt!SkipFile,
                Ckpt!FinishFile, Ckpt!FileFails, Ckpt!StopReading, Ckpt!EndPass
  <2> QED
    BY <2>2, <2>4, <2>5
<1>2. CASE step = "truncate"
  <2>1. Ckpt!Truncate \/ Ckpt!TruncateFails
    BY <1>2 DEF CheckpointThread, Ckpt!CheckpointThread, Ckpt!StartPassive, Ckpt!StartFull,
                Ckpt!CreateFile, Ckpt!SkipFile, Ckpt!FinishFile, Ckpt!FileFails,
                Ckpt!StopReading, Ckpt!AtEntry
  <2>2. mailbox # <<>> /\ pc # "write"
    BY <1>2 DEF CheckpointThread
  <2>3. Head(mailbox) \in Harvests /\ Tail(mailbox) \in Seq(Harvests)
    BY <2>2, HeadTailProperties
  <2>4. /\ edn' = edn /\ from' = from /\ offset' \in {0, offset}
        /\ pass' = "none" /\ step' = "read" /\ mailbox' = Tail(mailbox)
        /\ harvest' \in [Harvests -> Ckpt!HarvestStates]
    BY <2>1, <2>3 DEF Ckpt!Truncate, Ckpt!TruncateFails, Ckpt!ReplyFull
  <2>5. \/ UNCHANGED <<wal, synced>>
        \/ wal' = <<>> /\ synced' = 0
    BY <2>1 DEF Ckpt!Truncate, Ckpt!TruncateFails, Ckpt!logVars
  <2>6. wal' \in Seq(Log!Frames) /\ synced' \in 0 .. Len(wal')
    <3>1. CASE UNCHANGED <<wal, synced>>
      BY <3>1 DEF Log!TypeInv, Log!TypeOK
    <3>2. CASE wal' = <<>> /\ synced' = 0
      <4>1. Len(<<>>) = 0 /\ <<>> \in Seq(Log!Frames)
        BY EmptySeq
      <4> QED
        BY <3>2, <4>1
    <3> QED
      BY <2>5, <3>1, <3>2
  <2>7. Log!TypeInv'
    BY <2>2, <2>6 DEF CheckpointThread, commitOnly, Log!TypeInv, Log!TypeOK, Log!Control
  <2> QED
    BY <2>3, <2>4, <2>7
<1> QED
  BY <1>1, <1>2

LEMMA VanishTypes ==
    ASSUME CkptTypes, Ckpt!Vanish, edn' \in [Tx -> Ckpt!FileStates]
    PROVE  CkptTypes' /\ PassControl'
  BY EmptySeq DEF CkptTypes, PassControl, Ckpt!Vanish, Ckpt!FileStates, Ckpt!Passes,
                  Ckpt!PassSteps, Ckpt!HarvestStates

LEMMA QuarantineTypes ==
    ASSUME CkptTypes, PassControl, NEW S, Ckpt!Quarantine(S)
    PROVE  CkptTypes' /\ PassControl'
  BY DEF CkptTypes, PassControl, Ckpt!Quarantine, Ckpt!FileStates

LEMMA NextTypeInv == TypeInv /\ [Next]_vars => TypeInv'
<1> SUFFICES ASSUME TypeInv, [Next]_vars PROVE TypeInv'
  OBVIOUS
<1> USE DEF TypeInv
<1>1. CASE CheckpointThread
  BY <1>1, CheckpointTypeInv
<1>2. ASSUME ~CheckpointThread PROVE Log!TypeInv'
  BY <1>2, NextIsLogStep, Log!NextTypeInv, DaemonAssumption
<1>3. ASSUME NEW h \in Harvests, AskFull(h) \/ GiveUp(h)
      PROVE  CkptTypes' /\ PassControl'
  <2>1. CASE Ckpt!AskFull(h)
    <3>1. mailbox' \in Seq(Harvests) /\ mailbox' # <<>>
      BY <2>1, AppendProperties DEF CkptTypes, Ckpt!AskFull
    <3> QED
      BY <2>1, <3>1 DEF CkptTypes, PassControl, Ckpt!AskFull, Ckpt!HarvestStates
  <2>2. CASE Ckpt!GiveUp(h)
    BY <2>2 DEF CkptTypes, PassControl, Ckpt!GiveUp, Ckpt!HarvestStates
  <2> QED
    BY <1>3, <2>1, <2>2 DEF AskFull, GiveUp
<1>4. ProcessCrash \/ PowerLoss => CkptTypes' /\ PassControl'
  <2>1. ProcessCrash \/ PowerLoss => edn' \in [Tx -> Ckpt!FileStates]
    BY DEF ProcessCrash, PowerLoss, CkptTypes, Ckpt!FileStates
  <2> QED
    BY <2>1, VanishTypes DEF ProcessCrash, PowerLoss
<1>5. Refresh \/ RestartWithoutLog \/ FailedRestart => CkptTypes' /\ PassControl'
  BY QuarantineTypes DEF Refresh, RestartWithoutLog, FailedRestart
<1>6. ASSUME UNCHANGED ckptOnly PROVE CkptTypes' /\ PassControl'
  BY <1>6 DEF ckptOnly, CkptTypes, PassControl
<1>7. (\E t \in Tx : Submit(t)) \/ CommitThread \/ Restart \/ UNCHANGED vars
        => UNCHANGED ckptOnly
  BY DEF Submit, CommitThread, Restart, vars
<1> QED
  BY <1>1, <1>2, <1>3, <1>4, <1>5, <1>6, <1>7 DEF Next

\* Both threads' variables stay within their ranges, with any fault, and with
\* truncations under way in any state of the commit thread.
THEOREM TypeCorrect == Spec => []TypeOK
<1>1. TypeInv => TypeOK
  BY DEF TypeInv, CkptTypes, TypeOK, Log!TypeInv, Log!TypeOK, Commit!TypeOK,
         Log!Outcomes, Commit!Outcomes, Log!Steps, Commit!Steps, Log!Frames,
         Commit!Frames
<1> QED
  BY <1>1, InitTypeInv, NextTypeInv, PTL DEF Spec

-----------------------------------------------------------------------------
(* What a daemon shows its callers. *)

\* Only crashes take a daemon down, and only the two restarts bring one up.
LEMMA UpSteps ==
    ASSUME [Next]_vars
    PROVE  /\ ~ProcessCrash /\ ~PowerLoss => crashes' = crashes /\ (Up => Up')
           /\ ~Up /\ Up' => Restart \/ RestartWithoutLog
<1>1. CommitThread => crashes' = crashes /\ Up /\ Up'
  BY DEF CommitThread, Up, Commit!Up, Commit!CommitThread, Commit!Recv, Commit!Drain,
         Commit!CloseBatch, Commit!BeginFrame, Commit!EndFrame, Commit!WriteFails,
         Commit!Sync, Commit!SyncFails, Commit!Apply, Commit!SignalOk,
         Commit!SignalError, Commit!Reply
<1>2. Restart \/ RestartWithoutLog => crashes' = crashes /\ Up'
  BY DEF Restart, RestartWithoutLog, Commit!Recover, Up, Commit!Up
<1>3. (\E t \in Tx : Submit(t)) \/ CheckpointThread
        \/ (\E h \in Harvests : AskFull(h) \/ GiveUp(h)) \/ Refresh
        \/ FailedRestart \/ UNCHANGED vars
        => UNCHANGED <<pc, crashes>>
  BY DEF Submit, Commit!Submit, CheckpointThread, AskFull, GiveUp, Refresh,
         FailedRestart, vars, commitOnly
<1>4. ProcessCrash \/ PowerLoss => ~Up'
  BY DEF ProcessCrash, PowerLoss, Commit!ProcessCrash, Commit!PowerLoss,
         Commit!Vanish, Up, Commit!Up
<1> QED
  BY <1>1, <1>2, <1>3, <1>4 DEF Next, Up, Commit!Up

\* While the answers Ok are given, the whole batch has been applied.
Applied == pc = "signal" => \A j \in 1 .. Len(batch) : batch[j] \in live

\* What a step that begins and ends in a running daemon does to its view.
Shown == live \cup (Commit!Acked' \ Commit!Acked) \subseteq live'

LEMMA NextApplied ==
    ASSUME TypeInv, [Next]_vars, Applied
    PROVE  Applied' /\ (Up /\ Up' => Shown)
<1> USE DEF Commit!Acked
<1>0. batch \in Seq(Tx) /\ Len(batch) \in Nat /\ req \in [Tx -> Log!Outcomes]
  BY LenProperties DEF TypeInv, Log!TypeInv, Log!TypeOK
<1>1. CASE Commit!Apply
  <2>1. /\ live' = live \cup Commit!BatchTxs /\ UNCHANGED <<batch, req>>
    BY <1>1 DEF Commit!Apply
  <2>2. \A j \in 1 .. Len(batch) : batch[j] \in Commit!BatchTxs
    BY <1>0, LenProperties DEF Commit!BatchTxs
  <2> QED
    BY <2>1, <2>2 DEF Applied, Shown
<1>2. CASE Commit!SignalOk
  <2>1. /\ pc = "signal" /\ live' = live /\ batch' = Tail(batch)
        /\ req' = [req EXCEPT ![Head(batch)] = "ok"]
    BY <1>2 DEF Commit!SignalOk, Commit!Reply
  <2>2. batch # <<>> /\ 1 \in 1 .. Len(batch) /\ Head(batch) = batch[1]
    BY <1>0, <2>1, EmptySeq DEF TypeInv, Log!TypeInv, Log!Control
  <2>3. /\ Len(batch') = Len(batch) - 1
        /\ \A j \in 1 .. Len(batch') : batch'[j] = batch[j + 1]
    BY <1>0, <2>1, <2>2, HeadTailProperties
  <2>4. \A j \in 1 .. Len(batch') : batch'[j] \in live
    BY <1>0, <2>1, <2>3 DEF Applied
  <2>5. Commit!Acked' \subseteq Commit!Acked \cup {batch[1]}
    BY <1>0, <2>1, <2>2
  <2> QED
    BY <2>1, <2>2, <2>4, <2>5 DEF Applied, Shown
<1>3. CASE live' = live /\ Commit!Acked' \subseteq Commit!Acked
             /\ (pc' = "signal" => UNCHANGED <<pc, batch>>)
  BY <1>3 DEF Applied, Shown
<1>4. ASSUME CommitThread, ~Commit!Apply, ~Commit!SignalOk
      PROVE  live' = live /\ Commit!Acked' \subseteq Commit!Acked
               /\ (pc' = "signal" => UNCHANGED <<pc, batch>>)
  <2>1. CASE Commit!SignalError
    BY <1>0, <2>1 DEF Commit!SignalError, Commit!Reply
  <2>2. ASSUME ~Commit!SignalError PROVE live' = live /\ req' = req /\ pc' # "signal"
    BY <1>4, <2>2
       DEF CommitThread, Commit!CommitThread, Commit!Recv, Commit!Drain,
           Commit!CloseBatch, Commit!BeginFrame, Commit!EndFrame, Commit!WriteFails,
           Commit!Sync, Commit!SyncFails
  <2> QED
    BY <2>1, <2>2
<1>5. ASSUME NEW t \in Tx, Submit(t)
      PROVE  live' = live /\ Commit!Acked' \subseteq Commit!Acked
               /\ UNCHANGED <<pc, batch>>
  BY <1>0, <1>5 DEF Submit, Commit!Submit
<1>6. CASE UNCHANGED commitOnly
  BY <1>3, <1>6 DEF commitOnly
<1>7. CheckpointThread \/ (\E h \in Harvests : AskFull(h) \/ GiveUp(h)) \/ Refresh
        \/ FailedRestart \/ UNCHANGED vars
        => UNCHANGED commitOnly
  BY DEF CheckpointThread, AskFull, GiveUp, Refresh, FailedRestart, vars
<1>8. ProcessCrash \/ PowerLoss \/ Restart \/ RestartWithoutLog
        => pc' # "signal" /\ ~(Up /\ Up')
  BY DEF ProcessCrash, PowerLoss, Restart, RestartWithoutLog, Commit!ProcessCrash,
         Commit!PowerLoss, Commit!Vanish, Commit!Recover, Up, Commit!Up
<1>9. CASE ProcessCrash \/ PowerLoss \/ Restart \/ RestartWithoutLog
  BY <1>8, <1>9 DEF Applied
<1> QED
  BY <1>1, <1>2, <1>3, <1>4, <1>5, <1>6, <1>7, <1>9 DEF Next, CommitThread

LEMMA InitApplied == Init => Applied
  BY DEF Init, Commit!Init, Applied

\* Until its first crash a daemon shows its callers all it has acknowledged,
\* whatever fails, and whatever harvests and refreshes do to log and files.
THEOREM CommitsAreRead == Spec => []ReadYourCommits
<1> DEFINE SInv == Applied /\ (crashes = 0 => Up /\ Commit!Acked \subseteq live)
<1>1. Init => SInv
  BY InitApplied DEF Init, Commit!Init, Up, Commit!Up, Commit!Acked
<1>2. TypeInv /\ SInv /\ [Next]_vars => SInv'
  <2> SUFFICES ASSUME TypeInv, SInv, [Next]_vars
               PROVE  Applied' /\ (crashes' = 0 => Up' /\ Commit!Acked' \subseteq live')
    OBVIOUS
  <2>1. ASSUME crashes' = 0 PROVE ~ProcessCrash /\ ~PowerLoss
    BY <2>1 DEF ProcessCrash, PowerLoss, Commit!ProcessCrash, Commit!PowerLoss,
                Commit!Vanish, TypeInv, Log!TypeInv, Log!TypeOK
  <2>2. ASSUME crashes' = 0 PROVE crashes = 0 /\ Up'
    BY <2>1, <2>2, UpSteps
  <2> QED
    BY <2>2, NextApplied DEF Shown
<1>3. SInv => ReadYourCommits
  BY DEF ReadYourCommits
<1> QED
  BY <1>1, <1>2, <1>3, InitTypeInv, NextTypeInv, PTL DEF Spec

-----------------------------------------------------------------------------
(* Without harvests: what is acknowledged is stored. *)

LEMMA NeverTruncates ==
    ASSUME NoHarvests, TypeInv
    PROVE  step # "truncate" /\ pass # "full" /\ mailbox = <<>>
<1>1. mailbox = <<>>
  <2> SUFFICES ASSUME mailbox # <<>> PROVE FALSE
    OBVIOUS
  <2>1. Head(mailbox) \in Harvests
    BY HeadTailProperties DEF TypeInv, CkptTypes
  <2> QED
    BY <2>1 DEF NoHarvests
<1> QED
  BY <1>1 DEF TypeInv, PassControl

StoreInv == TypeInv /\ Log!IntactInv

LEMMA InitStoreInv == Init => StoreInv
<1> SUFFICES ASSUME Init PROVE StoreInv
  OBVIOUS
<1>1. Log!Init
  BY DEF Init, Commit!Init, Log!Init, Commit!GenesisHash, Log!GenesisHash
<1> QED
  BY <1>1, InitTypeInv, Log!InitIntactInv, DaemonAssumption DEF StoreInv

\* What follows holds of each step that does not cut the log.
LEMMA NextStoreInv ==
    ASSUME NoTornFrames, StoreInv, [Next]_vars, step = "truncate" => ~CheckpointThread
    PROVE  StoreInv'
<1>1. [Log!LogNext]_(Log!vars)
  BY NextIsLogStep DEF StoreInv
<1>2. ~Log!Tears
  BY DEF NoTornFrames, Log!Tears
<1> QED
  BY <1>1, <1>2, NextTypeInv, Log!NextIntactInv, DaemonAssumption DEF StoreInv

LEMMA AckedIsReadable ==
    ASSUME StoreInv
    PROVE  Commit!Acked \subseteq ReadTxs(wal)
<1>1. Log!AckedDurable
  BY Log!IntactIsDurable, DaemonAssumption DEF StoreInv
<1> QED
  BY <1>1, SameReads DEF Log!AckedDurable, Log!Acked, Commit!Acked

\* INV-DS2-001 for the whole engine: commits, passive checkpoints, refreshes,
\* interrupted files, crashes and all ways to restart lose nothing that was
\* acknowledged, as long as no frame is torn and no harvest truncates the log.
THEOREM AckedIsStored ==
    ASSUME NoHarvests, NoTornFrames
    PROVE  Spec => []AckedStored
<1>1. StoreInv => AckedStored
  BY AckedIsReadable DEF AckedStored, Stored
<1>2. StoreInv /\ [Next]_vars => StoreInv'
  BY NextStoreInv, NeverTruncates DEF StoreInv
<1> QED
  BY <1>1, <1>2, InitStoreInv, PTL DEF Spec

\* INV-DS2-003 over restarts: whatever crashes leave in files and log, a daemon
\* that starts where all files are whole shows what any daemon before it has
\* acknowledged, and loses none of it from view until it dies itself.
THEOREM RestartsShowAcked ==
    ASSUME NoHarvests, NoTornFrames
    PROVE  Spec => RestartShowsAcked
<1> DEFINE Shows == Up' => IF Up THEN Shown
                           ELSE Ckpt!PartialFiles = {} => Commit!Acked \subseteq live'
<1>1. StoreInv /\ Applied /\ [Next]_vars => StoreInv' /\ Applied'
  BY NextStoreInv, NextApplied, NeverTruncates DEF StoreInv
<1>2. StoreInv /\ Applied /\ [Next]_vars => Shows
  <2> SUFFICES ASSUME StoreInv, Applied, [Next]_vars, Up' PROVE Shows
    OBVIOUS
  <2>1. CASE Up
    BY <2>1, NextApplied DEF StoreInv
  <2>2. CASE ~Up
    <3>1. Ckpt!PartialFiles = {} => Restart
      BY <2>2, UpSteps DEF RestartWithoutLog
    <3>2. Restart => live' = Ckpt!WholeFiles \cup ReadTxs(wal)
      BY DEF Restart, Commit!Recover
    <3> QED
      BY <2>2, <3>1, <3>2, AckedIsReadable
  <2> QED
    BY <2>1, <2>2
<1>3. StoreInv /\ Applied /\ [Next]_vars
        => [Up' => IF Up THEN live \cup (Commit!Acked' \ Commit!Acked) \subseteq live'
                   ELSE Ckpt!PartialFiles = {} => Commit!Acked \subseteq live']_vars
  BY <1>2 DEF Shown
<1> QED
  BY <1>1, <1>3, InitStoreInv, InitApplied, PTL DEF Spec, RestartShowsAcked

-----------------------------------------------------------------------------
(* Without harvests: the transaction files are a prefix of the log. *)

\* The transactions that may still be appended to the log.
ToLog ==
    {t \in Tx :
        \/ req[t] = "idle"
        \/ \E i \in 1 .. Len(channel) : channel[i] = t
        \/ pc = "drain" /\ \E j \in 1 .. Len(batch) : batch[j] = t
        \/ pc \in {"append", "write"} /\ \E j \in next .. Len(batch) : batch[j] = t}

\* Each transaction is logged once.
LoggedOnce ==
    /\ \A i \in 1 .. Log!Complete : wal[i].tx \notin ToLog
    /\ \A i, j \in 1 .. Log!Complete : wal[i].tx = wal[j].tx => i = j
    /\ pc = "write" => wal[Len(wal)].tx = batch[next]

HasFile(i) == edn[wal[i].tx] = "whole"

\* The checkpoint thread converts the frames one after the other: all it has
\* passed have files, and the only half-written file is that of the next one. What
\* a crash leaves half-written is moved away before a daemon is up again.
Converted ==
    /\ offset <= Log!Complete
    /\ \A i \in 1 .. offset : HasFile(i)
    /\ \A i, j \in 1 .. Log!Complete : i < j /\ HasFile(j) => HasFile(i)
    /\ step = "write" => Up /\ offset < Log!Complete
    /\ Up => \A t \in Tx :
               edn[t] = "partial" <=> step = "write" /\ t = wal[offset + 1].tx
    /\ \A t \in Tx : edn[t] # "absent" => t \notin ToLog

FilesInv == StoreInv /\ Log!Waiting /\ LoggedOnce /\ Converted

LogTypes ==
    /\ batch \in Seq(Tx) /\ channel \in Seq(Tx) /\ wal \in Seq(Log!Frames)
    /\ req \in [Tx -> Log!Outcomes]
    /\ Len(batch) \in Nat /\ Len(channel) \in Nat /\ Len(wal) \in Nat
    /\ next \in Nat \ {0}
    /\ \A i \in 1 .. Len(batch) : batch[i] \in Tx
    /\ \A i \in 1 .. Len(channel) : channel[i] \in Tx
    /\ \A i \in 1 .. Len(wal) : wal[i].tx \in Tx
    /\ batch # <<>> => Len(batch) >= 1
    /\ channel # <<>> => Len(channel) >= 1

LEMMA LogTypesFollow == Log!TypeInv => LogTypes
<1> SUFFICES ASSUME Log!TypeInv PROVE LogTypes
  OBVIOUS
<1>1. /\ batch \in Seq(Tx) /\ channel \in Seq(Tx) /\ wal \in Seq(Log!Frames)
      /\ req \in [Tx -> Log!Outcomes] /\ next \in Nat \ {0}
  BY DaemonAssumption DEF Log!TypeInv, Log!TypeOK
<1>2. \A i \in 1 .. Len(wal) : wal[i] \in Log!Frames
  BY <1>1, ElementOfSeq
<1>3. /\ \A i \in 1 .. Len(batch) : batch[i] \in Tx
      /\ \A i \in 1 .. Len(channel) : channel[i] \in Tx
      /\ \A i \in 1 .. Len(wal) : wal[i].tx \in Tx
  BY <1>1, <1>2, ElementOfSeq DEF Log!Frames
<1>4. /\ Len(batch) \in Nat /\ Len(channel) \in Nat /\ Len(wal) \in Nat
      /\ batch # <<>> => Len(batch) # 0
      /\ channel # <<>> => Len(channel) # 0
  BY <1>1, LenProperties, EmptySeq
<1> QED
  BY <1>1, <1>3, <1>4 DEF LogTypes

\* No step makes a transaction loggable again, and writing its frame is what
\* makes it loggable no more.
LEMMA CompleteType ==
    Log!TypeInv => Log!Complete \in Nat /\ Log!Complete <= Len(wal)
  BY Log!CompleteFacts, DaemonAssumption

LEMMA NextToLog ==
    ASSUME Log!TypeInv, Log!Waiting, [Log!LogNext]_(Log!vars)
    PROVE  /\ ToLog' \subseteq ToLog
           /\ Log!EndFrame => batch[next] \in ToLog /\ batch[next] \notin ToLog'
<1>0. LogTypes
  BY LogTypesFollow
<1> USE DEF LogTypes
<1>1. ASSUME NEW t \in Tx, Log!Submit(t) PROVE ToLog' \subseteq ToLog
  <2>1. /\ channel' = Append(channel, t) /\ UNCHANGED <<pc, batch, next>>
        /\ req' = [req EXCEPT ![t] = "queued"] /\ req[t] = "idle"
    BY <1>1 DEF Log!Submit
  <2>2. \A i \in 1 .. Len(channel') :
          channel'[i] = t \/ (i \in 1 .. Len(channel) /\ channel'[i] = channel[i])
    BY <1>0, <2>1, AppendProperties
  <2> QED
    BY <1>0, <2>1, <2>2 DEF ToLog
<1>2. ASSUME Log!Recv PROVE ToLog' \subseteq ToLog
  <2>1. /\ channel # <<>> /\ batch' = <<channel[1]>> /\ channel' = Tail(channel)
        /\ req' = req /\ pc' = "drain"
    BY <1>0, <1>2 DEF Log!Recv
  <2>2. /\ 1 \in 1 .. Len(channel)
        /\ \A i \in 1 .. Len(channel') :
             i + 1 \in 1 .. Len(channel) /\ channel'[i] = channel[i + 1]
        /\ \A j \in 1 .. Len(batch') : batch'[j] = channel[1]
    BY <1>0, <2>1, HeadTailProperties
  <2> QED
    BY <2>1, <2>2 DEF ToLog
<1>3. ASSUME Log!Drain PROVE ToLog' \subseteq ToLog
  <2>1. /\ channel # <<>> /\ batch' = Append(batch, channel[1])
        /\ channel' = Tail(channel) /\ req' = req /\ pc = "drain" /\ pc' = "drain"
    BY <1>0, <1>3 DEF Log!Drain
  <2>2. /\ 1 \in 1 .. Len(channel)
        /\ \A i \in 1 .. Len(channel') :
             i + 1 \in 1 .. Len(channel) /\ channel'[i] = channel[i + 1]
    BY <1>0, <2>1, HeadTailProperties
  <2>3. \A j \in 1 .. Len(batch') :
          batch'[j] = channel[1] \/ (j \in 1 .. Len(batch) /\ batch'[j] = batch[j])
    BY <1>0, <2>1, <2>2, AppendProperties
  <2> QED
    BY <2>1, <2>2, <2>3 DEF ToLog
<1>4. ASSUME Log!CloseBatch PROVE ToLog' \subseteq ToLog
  BY <1>0, <1>4 DEF Log!CloseBatch, ToLog
<1>5. ASSUME Log!BeginFrame PROVE ToLog' \subseteq ToLog
  BY <1>0, <1>5 DEF Log!BeginFrame, ToLog
<1>6. ASSUME Log!EndFrame
      PROVE  ToLog' \subseteq ToLog /\ batch[next] \in ToLog /\ batch[next] \notin ToLog'
  <2>1. /\ pc = "write" /\ pc' = "append" /\ next' = next + 1
        /\ UNCHANGED <<req, channel, batch>> /\ next \in 1 .. Len(batch)
    BY <1>0, <1>6 DEF Log!EndFrame, Log!TypeInv, Log!Control
  <2>2. ToLog' \subseteq ToLog /\ batch[next] \in ToLog
    BY <1>0, <2>1 DEF ToLog
  <2>3. /\ req[batch[next]] # "idle"
        /\ \A i \in 1 .. Len(channel) : channel[i] # batch[next]
        /\ \A j \in next + 1 .. Len(batch) : batch[j] # batch[next]
    BY <1>0, <2>1 DEF Log!Waiting, Log!Distinct
  <2>4. batch[next] \notin ToLog'
    BY <1>0, <2>1, <2>3 DEF ToLog
  <2> QED
    BY <2>2, <2>4
<1>7. ASSUME NEW s \in {"signal", "fail"}, NEW o \in {"ok", "failed"}, Log!Reply(s, o)
      PROVE  ToLog' \subseteq ToLog
  BY <1>0, <1>7 DEF Log!Reply, ToLog
<1>8. ASSUME UNCHANGED <<req, channel>>,
             pc' \in {"recv", "apply", "signal", "fail"} \/ UNCHANGED <<pc, batch, next>>
      PROVE  ToLog' \subseteq ToLog
  BY <1>8 DEF ToLog
<1>9. Log!WriteFails \/ Log!Sync \/ Log!SyncFails \/ Log!Apply \/ Log!AnyRestart
        \/ UNCHANGED Log!vars
        => /\ UNCHANGED <<req, channel>>
           /\ pc' \in {"recv", "apply", "signal", "fail"} \/ UNCHANGED <<pc, batch, next>>
  BY DEF Log!WriteFails, Log!Sync, Log!SyncFails, Log!Apply, Log!AnyRestart,
         Log!Recover, Log!vars
<1>10. ASSUME Log!ProcessCrash \/ Log!PowerLoss PROVE ToLog' \subseteq ToLog
  <2>1. /\ req' = [t \in Tx |-> IF req[t] = "queued" THEN "lost" ELSE req[t]]
        /\ channel' = <<>> /\ pc' = "down"
    BY <1>10 DEF Log!ProcessCrash, Log!PowerLoss, Log!Vanish
  <2>2. Len(channel') = 0
    BY <2>1, EmptySeq
  <2> QED
    BY <2>1, <2>2 DEF ToLog
<1>11. ToLog' \subseteq ToLog
  BY <1>1, <1>2, <1>3, <1>4, <1>5, <1>6, <1>7, <1>8, <1>9, <1>10
     DEF Log!LogNext, Log!CommitThread, Log!SignalOk, Log!SignalError
<1> QED
  BY <1>6, <1>11

LEMMA NextLoggedOnce ==
    ASSUME NoTornFrames, Log!TypeInv, Log!TypeInv', Log!Waiting, LoggedOnce,
           [Log!LogNext]_(Log!vars)
    PROVE  LoggedOnce'
<1>0. /\ LogTypes /\ ~Log!Tears
      /\ Log!Complete \in Nat /\ Log!Complete' \in Nat
      /\ Log!Complete \in 0 .. Len(wal)
  <2>1. (Log!TypeInv => Log!Complete \in Nat /\ Log!Complete <= Len(wal))'
    BY CompleteType, PTL
  <2> QED
    BY <2>1, CompleteType, LogTypesFollow DEF NoTornFrames, Log!Tears, LogTypes
<1>1. Log!CompleteStep
  BY <1>0, Log!NextComplete, DaemonAssumption
<1>2. /\ ToLog' \subseteq ToLog
      /\ Log!EndFrame => batch[next] \in ToLog /\ batch[next] \notin ToLog'
  BY NextToLog
<1>3. CASE Log!EndFrame
  <2>1. /\ Log!Complete' = Log!Complete + 1
        /\ \A i \in 1 .. Log!Complete : wal'[i] = wal[i]
        /\ wal'[Log!Complete + 1].tx = batch[next]
    BY <1>0, <1>1, <1>3 DEF Log!CompleteStep, Log!FrameAdded, Log!Frame
  <2>2. \A i \in 1 .. Log!Complete' :
          i \in 1 .. Log!Complete \/ i = Log!Complete + 1
    BY <1>0, <2>1
  <2>3. pc' # "write"
    BY <1>3 DEF Log!EndFrame
  <2> QED
    BY <1>2, <1>3, <2>1, <2>2, <2>3 DEF LoggedOnce
<1>4. CASE ~Log!EndFrame
  <2>1. \A i \in 1 .. Log!Complete' : i \in 1 .. Log!Complete /\ wal'[i] = wal[i]
    BY <1>0, <1>1, <1>4 DEF Log!CompleteStep
  <2>2. ASSUME pc' = "write" PROVE wal'[Len(wal')].tx = batch'[next']
    <3>1. CASE Log!BeginFrame
      <4>1. /\ wal' = Append(wal, Log!Torn(Log!Frame(chain, batch[next])))
            /\ UNCHANGED <<batch, next>> /\ chain \in Seq(Tx) /\ batch[next] \in Tx
        BY <1>0, <3>1 DEF Log!BeginFrame, Log!TypeInv, Log!TypeOK
      <4>2. Log!Torn(Log!Frame(chain, batch[next])) \in Log!Frames
        BY <4>1, Log!FrameFacts, DaemonAssumption
      <4>3. Log!Torn(Log!Frame(chain, batch[next])).tx = batch[next]
        BY DEF Log!Torn, Log!Frame
      <4>4. wal'[Len(wal')] = Log!Torn(Log!Frame(chain, batch[next]))
        BY <1>0, <4>1, <4>2, AppendProperties DEF LogTypes
      <4> QED
        BY <4>1, <4>3, <4>4
    <3>2. CASE UNCHANGED <<pc, wal>>
      <4>1. UNCHANGED <<batch, next>>
        BY <2>2, <3>2
           DEF Log!LogNext, Log!CommitThread, Log!Submit, Log!Recv, Log!Drain,
               Log!CloseBatch, Log!BeginFrame, Log!EndFrame, Log!WriteFails, Log!Sync,
               Log!SyncFails, Log!Apply, Log!SignalOk, Log!SignalError, Log!Reply,
               Log!ProcessCrash, Log!PowerLoss, Log!Vanish, Log!AnyRestart,
               Log!Recover, Log!vars
      <4> QED
        BY <2>2, <3>2, <4>1 DEF LoggedOnce
    <3> QED
      BY <1>1, <2>2, <3>1, <3>2 DEF Log!CompleteStep
  <2> QED
    BY <1>2, <2>1, <2>2 DEF LoggedOnce
<1> QED
  BY <1>3, <1>4

LEMMA NextConverted ==
    ASSUME NoTornFrames, NoWriteErrors, NoRefresh, FilesInv, StoreInv', [Next]_vars,
           step = "truncate" => ~CheckpointThread
    PROVE  Converted'
<1>1. /\ TypeInv /\ TypeInv' /\ Log!TypeInv /\ Log!TypeInv' /\ Log!Intact /\ Log!Waiting
      /\ LogTypes /\ ~Log!Tears
      /\ [Log!LogNext]_(Log!vars)
  BY NextIsLogStep, LogTypesFollow
     DEF FilesInv, StoreInv, TypeInv, Log!IntactInv, NoTornFrames, Log!Tears
<1>2. /\ Log!Complete \in Nat /\ Log!Complete' \in Nat /\ Log!Complete <= Len(wal)
      /\ offset \in Nat
      /\ \A i \in 1 .. Log!Complete : wal[i].tx \in Tx
  <2>1. (Log!TypeInv => Log!Complete \in Nat /\ Log!Complete <= Len(wal))'
    BY CompleteType, PTL
  <2>2. Log!Complete \in Nat /\ Log!Complete <= Len(wal)
    BY <1>1, CompleteType
  <2> QED
    BY <1>1, <2>1, <2>2 DEF LogTypes, TypeInv, CkptTypes
<1>3. Log!CompleteStep
  BY <1>1, Log!NextComplete, DaemonAssumption
<1>4. /\ ToLog' \subseteq ToLog
      /\ Log!EndFrame => batch[next] \in ToLog /\ batch[next] \notin ToLog'
  BY <1>1, NextToLog
<1>5. ASSUME UNCHANGED <<edn, step, offset>>, Up' <=> Up
      PROVE  Converted'
  <2>1. ~Log!PowerLoss
    BY <1>5 DEF Log!PowerLoss, Log!Vanish, Log!Up, Up, Commit!Up
  <2>2. /\ \A i \in 1 .. Log!Complete : wal'[i] = wal[i]
        /\ \/ Log!Complete' = Log!Complete
           \/ /\ Log!Complete' = Log!Complete + 1
              /\ wal'[Log!Complete + 1].tx = batch[next]
              /\ batch[next] \in ToLog
    BY <1>2, <1>3, <1>4, <2>1 DEF Log!CompleteStep, Log!FrameAdded, Log!Frame
  <2>3. batch[next] \in ToLog => edn[batch[next]] = "absent"
    BY DEF FilesInv, Converted, ToLog
  <2>4. \A i, j \in 1 .. Log!Complete' : i < j /\ HasFile(j)' => HasFile(i)'
    BY <1>2, <1>5, <2>2, <2>3 DEF FilesInv, Converted, HasFile
  <2>5. /\ offset' <= Log!Complete'
        /\ \A i \in 1 .. offset' : HasFile(i)'
        /\ step' = "write" => Up' /\ offset' < Log!Complete'
    BY <1>2, <1>5, <2>2 DEF FilesInv, Converted, HasFile
  <2>6. step = "write" => wal'[offset' + 1] = wal[offset + 1]
    BY <1>2, <1>5, <2>2 DEF FilesInv, Converted
  <2>7. /\ Up' => \A t \in Tx :
             edn'[t] = "partial" <=> step' = "write" /\ t = wal'[offset' + 1].tx
        /\ \A t \in Tx : edn'[t] # "absent" => t \notin ToLog'
    BY <1>4, <1>5, <2>6 DEF FilesInv, Converted
  <2> QED
    BY <2>4, <2>5, <2>7 DEF Converted
<1>6. ASSUME CheckpointThread PROVE Converted'
  <2>0. step # "truncate"
    BY <1>6
  <2>1. UNCHANGED <<wal, pc, ToLog>> /\ Log!Complete' = Log!Complete /\ Up /\ Up'
    <3>1. UNCHANGED <<wal, pc, req, channel, batch, next>> /\ Up
      BY <2>0, <1>6
         DEF CheckpointThread, Ckpt!CheckpointThread, Ckpt!StartPassive,
             Ckpt!StartFull, Ckpt!CreateFile, Ckpt!SkipFile, Ckpt!FinishFile,
             Ckpt!FileFails, Ckpt!StopReading, Ckpt!EndPass, Ckpt!Truncate,
             Ckpt!TruncateFails, Ckpt!logVars, commitOnly
    <3> QED
      BY <3>1 DEF ToLog, Log!Complete, Up, Commit!Up
  <2>2. ASSUME Ckpt!AtEntry
        PROVE  offset + 1 \in 1 .. Log!Complete /\ step = "read"
    <3>1. offset + 1 \in DOMAIN wal /\ wal[offset + 1].whole /\ step = "read"
      BY <2>2 DEF Ckpt!AtEntry, Ckpt!Yields
    <3>2. pc = "write" => ~wal[Len(wal)].whole
      BY <1>1 DEF Log!Intact
    <3> QED
      BY <1>1, <1>2, <3>1, <3>2, LenProperties DEF Log!Complete, LogTypes
  <2>3. CASE Ckpt!CreateFile
    <3>1. /\ offset + 1 \in 1 .. Log!Complete /\ step = "read" /\ step' = "write"
          /\ offset' = offset /\ edn[wal[offset + 1].tx] = "absent"
          /\ edn' = [edn EXCEPT ![wal[offset + 1].tx] = "partial"]
      BY <2>2, <2>3 DEF Ckpt!CreateFile, Ckpt!Entry
    <3>2. /\ wal[offset + 1].tx \in Tx
          /\ wal[offset + 1].tx \notin ToLog
      BY <1>2, <3>1 DEF FilesInv, LoggedOnce
    <3>3. \A t \in Tx : edn'[t] = IF t = wal[offset + 1].tx THEN "partial" ELSE edn[t]
      BY <1>1, <3>1 DEF TypeInv, CkptTypes
    <3>4. \A i \in 1 .. Log!Complete : HasFile(i)' <=> HasFile(i)
      BY <1>2, <2>1, <3>1, <3>3 DEF HasFile
    <3> QED
      BY <1>2, <2>1, <3>1, <3>2, <3>3, <3>4 DEF FilesInv, Converted
  <2>4. CASE Ckpt!SkipFile
    <3>1. /\ offset + 1 \in 1 .. Log!Complete /\ step = "read" /\ step' = step
          /\ offset' = offset + 1 /\ edn[wal[offset + 1].tx] # "absent" /\ edn' = edn
      BY <2>2, <2>4 DEF Ckpt!SkipFile, Ckpt!Entry
    <3>2. HasFile(offset + 1)
      BY <1>1, <1>2, <2>1, <3>1
         DEF FilesInv, Converted, HasFile, TypeInv, CkptTypes, Ckpt!FileStates
    <3> QED
      BY <1>2, <2>1, <3>1, <3>2 DEF FilesInv, Converted, HasFile
  <2>5. CASE Ckpt!FinishFile
    <3>1. /\ offset + 1 \in 1 .. Log!Complete /\ step = "write" /\ step' = "read"
          /\ offset' = offset + 1 /\ edn[wal[offset + 1].tx] = "partial"
          /\ edn' = [edn EXCEPT ![wal[offset + 1].tx] =
                       IF @ = "partial" THEN "whole" ELSE @]
      BY <1>2, <2>1, <2>5 DEF Ckpt!FinishFile, Ckpt!Entry, FilesInv, Converted
    <3>2. \A t \in Tx : edn'[t] = IF t = wal[offset + 1].tx THEN "whole" ELSE edn[t]
      BY <1>1, <3>1 DEF TypeInv, CkptTypes
    <3>3. /\ \A i \in 1 .. Log!Complete : HasFile(i)' <=> i = offset + 1 \/ HasFile(i)
          /\ wal[offset + 1].tx \in Tx /\ wal[offset + 1].tx \notin ToLog
      BY <1>2, <2>1, <3>1, <3>2 DEF HasFile, FilesInv, LoggedOnce
    <3>4. \A i \in 1 .. offset + 1 : i \in 1 .. Log!Complete /\ HasFile(i)'
      BY <1>2, <3>1, <3>3 DEF FilesInv, Converted
    <3>5. \A i, j \in 1 .. Log!Complete : i < j /\ HasFile(j)' => HasFile(i)'
      BY <1>2, <3>1, <3>3, <3>4 DEF FilesInv, Converted
    <3> QED
      BY <1>2, <2>1, <3>1, <3>2, <3>3, <3>4, <3>5 DEF FilesInv, Converted
  <2>6. ~Ckpt!FileFails
    BY DEF Ckpt!FileFails, NoWriteErrors
  <2>7. CASE UNCHANGED <<edn, offset>> /\ step # "write" /\ step' # "write"
    BY <2>1, <2>7 DEF FilesInv, Converted, HasFile
  <2>8. Ckpt!StartPassive \/ Ckpt!StartFull \/ Ckpt!StopReading
          => UNCHANGED <<edn, offset>> /\ step' # "write"
    BY DEF Ckpt!StartPassive, Ckpt!StartFull, Ckpt!StopReading, Ckpt!EndPass
  <2>9. Ckpt!StartPassive \/ Ckpt!StartFull \/ Ckpt!StopReading => step # "write"
    BY <1>1 DEF Ckpt!StartPassive, Ckpt!StartFull, Ckpt!StopReading, TypeInv, PassControl
  <2> QED
    BY <2>0, <1>6, <2>3, <2>4, <2>5, <2>6, <2>7, <2>8, <2>9
       DEF CheckpointThread, Ckpt!CheckpointThread, Ckpt!Truncate, Ckpt!TruncateFails
<1>7. ASSUME offset' <= offset, offset' \in Nat, step' # "write", ~Log!EndFrame,
             \A t \in Tx : edn'[t] = "whole" <=> edn[t] = "whole",
             \A t \in Tx : edn'[t] # "absent" => edn[t] # "absent",
             Up' => \A t \in Tx : edn'[t] # "partial",
             Log!PowerLoss => offset' = 0
      PROVE  Converted'
  <2>1. \A i \in 1 .. Log!Complete' : i \in 1 .. Log!Complete /\ wal'[i] = wal[i]
    BY <1>2, <1>3, <1>7 DEF Log!CompleteStep
  <2>2. Log!PowerLoss \/ Log!Complete' = Log!Complete
    BY <1>2, <1>3, <1>7 DEF Log!CompleteStep
  <2>3. \A i \in 1 .. Log!Complete' : HasFile(i)' <=> HasFile(i)
    BY <1>2, <1>7, <2>1 DEF HasFile
  <2>4. \A i, j \in 1 .. Log!Complete' : i < j /\ HasFile(j)' => HasFile(i)'
    BY <2>1, <2>3 DEF FilesInv, Converted
  <2>5. offset' <= Log!Complete' /\ \A i \in 1 .. offset' : HasFile(i)'
    BY <1>2, <1>7, <2>2, <2>3 DEF FilesInv, Converted
  <2>6. \A t \in Tx : edn'[t] # "absent" => t \notin ToLog'
    BY <1>4, <1>7 DEF FilesInv, Converted
  <2> QED
    BY <1>7, <2>4, <2>5, <2>6 DEF Converted
<1>8. CASE ProcessCrash \/ PowerLoss
  <2>1. /\ offset' = 0 /\ step' = "read" /\ ~Up'
        /\ \A t \in Tx : edn'[t] \in {edn[t], "absent"}
        /\ \A t \in Tx : edn[t] = "whole" => edn'[t] = "whole"
    BY <1>8 DEF ProcessCrash, PowerLoss, Ckpt!Vanish, Ckpt!PartialFiles,
                Commit!ProcessCrash, Commit!PowerLoss, Commit!Vanish, Up, Commit!Up
  <2>2. ~Log!EndFrame
    BY <2>1 DEF Log!EndFrame, Up, Commit!Up
  <2> QED
    BY <1>2, <1>7, <2>1, <2>2
<1>9. CASE Restart \/ RestartWithoutLog \/ FailedRestart
  <2>1. /\ offset' = offset /\ step' = step /\ ~Up
        /\ \A t \in Tx : edn'[t] \in {edn[t], "absent"}
        /\ \A t \in Tx : edn[t] = "whole" => edn'[t] = "whole"
        /\ Up' => \A t \in Tx : edn'[t] # "partial"
    <3>1. CASE Restart
      BY <3>1 DEF Restart, Commit!Recover, Ckpt!PartialFiles, ckptOnly, Up
    <3>2. CASE RestartWithoutLog
      BY <3>2 DEF RestartWithoutLog, Commit!Recover, Ckpt!PartialFiles,
                  Ckpt!Quarantine, Up
    <3>3. CASE FailedRestart
      BY <3>3 DEF FailedRestart, Ckpt!PartialFiles, Ckpt!Quarantine, Up, Commit!Up,
                  commitOnly
    <3> QED
      BY <1>9, <3>1, <3>2, <3>3
  <2>2. ~Log!EndFrame /\ ~Log!PowerLoss /\ step # "write"
    BY <2>1 DEF Log!EndFrame, Log!PowerLoss, Log!Vanish, Log!Up, Up, Commit!Up,
                FilesInv, Converted
  <2> QED
    BY <1>2, <1>7, <2>1, <2>2
<1>10. ~Refresh
  BY DEF Refresh, NoRefresh
<1>11. (\E h \in Harvests : AskFull(h) \/ GiveUp(h)) => UNCHANGED <<edn, step, offset>>
  BY DEF AskFull, GiveUp, Ckpt!AskFull, Ckpt!GiveUp
<1>12. (\E t \in Tx : Submit(t)) \/ CommitThread \/ UNCHANGED vars
         => UNCHANGED <<edn, step, offset>>
  BY DEF Submit, CommitThread, vars, ckptOnly
<1>13. ProcessCrash \/ PowerLoss \/ Restart \/ RestartWithoutLog \/ (Up' <=> Up)
  BY UpSteps
<1> QED
  BY <1>5, <1>6, <1>8, <1>9, <1>10, <1>11, <1>12, <1>13 DEF Next

LEMMA InitFilesInv == Init => FilesInv
<1> SUFFICES ASSUME Init PROVE FilesInv
  OBVIOUS
<1>1. Len(batch) = 0 /\ Len(channel) = 0 /\ Len(wal) = 0
  BY EmptySeq DEF Init, Commit!Init
<1>2. Log!Complete = 0
  BY <1>1 DEF Init, Commit!Init, Log!Complete
<1>3. Log!Waiting
  BY <1>1 DEF Log!Waiting, Log!Distinct
<1>4. LoggedOnce /\ Converted
  BY <1>2 DEF Init, Commit!Init, Ckpt!Init, LoggedOnce, Converted
<1> QED
  BY <1>3, <1>4, InitStoreInv DEF FilesInv

LEMMA NextFilesInv ==
    ASSUME NoTornFrames, NoWriteErrors, NoRefresh, FilesInv, [Next]_vars,
           step = "truncate" => ~CheckpointThread
    PROVE  FilesInv'
<1>1. StoreInv'
  BY NextStoreInv DEF FilesInv
<1>2. Log!TypeInv /\ Log!TypeInv' /\ [Log!LogNext]_(Log!vars)
  BY <1>1, NextIsLogStep DEF FilesInv, StoreInv, TypeInv
<1>3. Log!Waiting'
  BY <1>2, Log!NextWaiting, DaemonAssumption DEF FilesInv
<1>4. LoggedOnce'
  BY <1>2, NextLoggedOnce DEF FilesInv
<1>5. Converted'
  BY <1>1, NextConverted
<1> QED
  BY <1>1, <1>3, <1>4, <1>5 DEF FilesInv

\* Through commits, failed reads of the log, crashes and the half-written files they
\* leave, and all ways to restart, the files a git commit finds are those of a
\* prefix of the log.  A file left half-written by an error, or moved away by a
\* refresh, would let the checkpoint thread pass an entry without a file.
THEOREM FilesStayPrefix ==
    ASSUME NoHarvests, NoTornFrames, NoWriteErrors, NoRefresh
    PROVE  Spec => []FilesArePrefix
<1>1. Init => FilesInv
  BY InitFilesInv
<1>2. FilesInv /\ [Next]_vars => FilesInv'
  BY NextFilesInv, NeverTruncates DEF FilesInv, StoreInv
<1>3. FilesInv => FilesArePrefix
  <2> SUFFICES ASSUME FilesInv, NEW i \in DOMAIN wal, NEW j \in DOMAIN wal,
                      i < j, edn[wal[j].tx] = "whole"
               PROVE  edn[wal[i].tx] = "whole"
    BY DEF FilesArePrefix
  <2>1. LogTypes /\ Log!Complete \in Nat
    BY LogTypesFollow, CompleteType DEF FilesInv, StoreInv, TypeInv
  <2>2. i \in 1 .. Len(wal) /\ j \in 1 .. Len(wal)
    BY <2>1, LenProperties DEF LogTypes
  <2>3. j \in 1 .. Log!Complete
    <3>1. CASE pc = "write" /\ j = Len(wal)
      <4>1. /\ wal[j].tx = batch[next] /\ wal[j].tx \in Tx
            /\ next \in 1 .. Len(batch)
        BY <2>1, <2>2, <3>1
           DEF FilesInv, LoggedOnce, LogTypes, StoreInv, TypeInv,
               Log!TypeInv, Log!Control
      <4>2. wal[j].tx \in ToLog
        BY <2>1, <3>1, <4>1 DEF ToLog, LogTypes
      <4> QED
        BY <4>1, <4>2 DEF FilesInv, Converted
    <3>2. CASE ~(pc = "write" /\ j = Len(wal))
      BY <2>1, <2>2, <3>2 DEF Log!Complete, LogTypes
    <3> QED
      BY <3>1, <3>2
  <2> QED
    BY <2>1, <2>2, <2>3 DEF FilesInv, Converted, HasFile
<1> QED
  BY <1>1, <1>2, <1>3, PTL DEF Spec

-----------------------------------------------------------------------------
(* With harvests, and with any fault: what a truncation alone can do. *)

\* The frame whose file is being written stays where it is, and that file was
\* not there before.
Writing ==
    step = "write" =>
        /\ offset + 1 \in 1 .. Len(wal)
        /\ wal[offset + 1].whole
        /\ edn[wal[offset + 1].tx] # "whole"

KeepInv == TypeInv /\ Log!MarkInv /\ Writing

LEMMA NextMarkInv ==
    ASSUME TypeInv, TypeInv', Log!MarkInv, [Next]_vars
    PROVE  Log!MarkInv'
<1>1. CASE step = "truncate" /\ CheckpointThread
  <2>1. /\ UNCHANGED <<req, channel, pc, batch>> /\ pc # "write"
        /\ \/ UNCHANGED <<wal, synced>>
           \/ wal' = <<>>
    BY <1>1
       DEF CheckpointThread, Ckpt!CheckpointThread, Ckpt!StartPassive,
           Ckpt!StartFull, Ckpt!CreateFile, Ckpt!SkipFile, Ckpt!FinishFile,
           Ckpt!FileFails, Ckpt!StopReading, Ckpt!AtEntry, Ckpt!Truncate,
           Ckpt!TruncateFails, Ckpt!logVars, commitOnly, TypeInv, PassControl
  <2>2. Log!Waiting'
    BY <2>1 DEF Log!MarkInv, Log!Waiting, Log!Distinct
  <2>3. Len(<<>>) = 0
    BY EmptySeq
  <2>4. Log!Marked'
    BY <2>1, <2>3 DEF Log!MarkInv, Log!Marked, Log!Acked
  <2> QED
    BY <2>2, <2>4 DEF Log!MarkInv, TypeInv
<1>2. CASE ~(step = "truncate" /\ CheckpointThread)
  BY <1>2, NextIsLogStep, Log!NextMarkInv, DaemonAssumption
<1> QED
  BY <1>1, <1>2

\* No step but a truncation touches a whole frame other than the frames a
\* power loss takes, and then no file is being written.
LEMMA NextWriting ==
    ASSUME KeepInv, TypeInv', [Next]_vars
    PROVE  Writing'
<1>1. LogTypes /\ LogTypes' /\ offset \in Nat
  <2>1. (Log!TypeInv => LogTypes)'
    BY LogTypesFollow, PTL
  <2> QED
    BY <2>1, LogTypesFollow DEF KeepInv, TypeInv, CkptTypes
<1>2. CASE CheckpointThread
  <2>1. CASE Ckpt!CreateFile
    <3>1. /\ offset + 1 \in DOMAIN wal /\ wal[offset + 1].whole
          /\ edn' = [edn EXCEPT ![wal[offset + 1].tx] = "partial"]
          /\ UNCHANGED <<wal, offset>>
      BY <2>1 DEF Ckpt!CreateFile, Ckpt!AtEntry, Ckpt!Yields, Ckpt!Entry, Ckpt!logVars
    <3> QED
      BY <1>1, <3>1, LenProperties DEF Writing, LogTypes, KeepInv, TypeInv, CkptTypes
  <2>2. ~Ckpt!CreateFile => step' # "write"
    BY <1>2 DEF CheckpointThread, Ckpt!CheckpointThread, Ckpt!StartPassive,
                Ckpt!StartFull, Ckpt!SkipFile, Ckpt!FinishFile, Ckpt!FileFails,
                Ckpt!StopReading, Ckpt!EndPass, Ckpt!AtEntry, Ckpt!Truncate,
                Ckpt!TruncateFails, Ckpt!ReplyFull
  <2> QED
    BY <2>1, <2>2 DEF Writing
<1>3. CASE ProcessCrash \/ PowerLoss
  BY <1>3 DEF ProcessCrash, PowerLoss, Ckpt!Vanish, Writing
<1>4. ASSUME UNCHANGED <<step, offset>>,
             \A t \in Tx : edn'[t] # edn[t] => edn'[t] = "absent",
             \A i \in 1 .. Len(wal) : wal[i].whole =>
                i \in 1 .. Len(wal') /\ wal'[i] = wal[i]
      PROVE  Writing'
  BY <1>1, <1>4 DEF Writing, KeepInv, LogTypes
<1>5. ASSUME CommitThread
      PROVE  \A i \in 1 .. Len(wal) : wal[i].whole =>
                i \in 1 .. Len(wal') /\ wal'[i] = wal[i]
  <2>1. pc = "write" => ~wal[Len(wal)].whole /\ Len(wal) > 0
    BY DEF KeepInv, Log!MarkInv, Log!Marked, Log!TypeInv, Log!TypeOK, Log!Control
  <2>2. CASE Commit!BeginFrame
    <3>1. /\ wal' = Append(wal, Log!Torn(Log!Frame(chain, batch[next])))
          /\ chain \in Seq(Tx) /\ batch[next] \in Tx
      BY <1>1, <2>2
         DEF Commit!BeginFrame, Commit!Torn, Log!Torn, Commit!Frame, Log!Frame,
             Commit!ChainHash, Log!ChainHash, LogTypes, KeepInv, TypeInv,
             Log!TypeInv, Log!TypeOK
    <3>2. Log!Torn(Log!Frame(chain, batch[next])) \in Log!Frames
      BY <3>1, Log!FrameFacts, DaemonAssumption
    <3> QED
      BY <1>1, <3>1, <3>2, AppendProperties DEF LogTypes
  <2>3. CASE Commit!EndFrame
    <3>1. /\ wal' = [wal EXCEPT ![Len(wal)] = Log!Frame(chain, batch[next])]
          /\ chain \in Seq(Tx) /\ batch[next] \in Tx /\ pc = "write"
      BY <1>1, <2>3
         DEF Commit!EndFrame, Commit!Frame, Log!Frame, Commit!ChainHash, Log!ChainHash,
             LogTypes, KeepInv, TypeInv, Log!TypeInv, Log!TypeOK, Log!Control
    <3>2. Log!Frame(chain, batch[next]) \in Log!Frames
      BY <3>1, Log!FrameFacts, DaemonAssumption
    <3>3. Len(wal) \in 1 .. Len(wal)
      BY <1>1, <2>1, <3>1 DEF LogTypes
    <3> QED
      BY <1>1, <2>1, <3>1, <3>2, <3>3, ExceptSeq DEF LogTypes
  <2>4. CASE Commit!WriteFails
    <3>1. (wal' = Log!AllButLast(wal) \/ wal' = wal) /\ pc = "write"
      BY <2>4 DEF Commit!WriteFails, Commit!AllButLast, Log!AllButLast
    <3>2. CASE wal' = wal
      BY <3>2
    <3>3. CASE wal' = Log!AllButLast(wal)
      <4>1. /\ Len(wal') = Len(wal) - 1
            /\ \A i \in 1 .. Len(wal) - 1 : wal'[i] = wal[i]
        BY <1>1, <2>1, <3>1, <3>3, Log!AllButLastFacts, DaemonAssumption DEF LogTypes
      <4>2. Len(wal) \in Nat /\ ~wal[Len(wal)].whole
        BY <1>1, <2>1, <3>1, LenProperties DEF LogTypes
      <4> QED
        BY <4>1, <4>2
    <3> QED
      BY <3>1, <3>2, <3>3
  <2>5. CASE wal' = wal
    BY <2>5
  <2>6. Commit!BeginFrame \/ Commit!EndFrame \/ Commit!WriteFails \/ wal' = wal
    BY <1>5
       DEF CommitThread, Commit!CommitThread, Commit!Recv, Commit!Drain,
           Commit!CloseBatch, Commit!Sync, Commit!SyncFails, Commit!Apply,
           Commit!SignalOk, Commit!SignalError, Commit!Reply, Commit!writerVars
  <2> QED
    BY <2>2, <2>3, <2>4, <2>5, <2>6
<1>6. CommitThread => UNCHANGED <<edn, step, offset>>
  BY DEF CommitThread, ckptOnly
<1>7. (\E t \in Tx : Submit(t)) \/ (\E h \in Harvests : AskFull(h) \/ GiveUp(h))
        \/ Restart \/ UNCHANGED vars
        => UNCHANGED <<edn, step, offset, wal>>
  BY DEF Submit, AskFull, GiveUp, Restart, vars, ckptOnly, commitOnly, Ckpt!AskFull,
         Ckpt!GiveUp, Ckpt!logVars, Commit!Submit, Commit!Recover, Commit!writerVars
<1>8. Refresh \/ RestartWithoutLog \/ FailedRestart
        => /\ UNCHANGED <<step, offset, wal>>
           /\ \A t \in Tx : edn'[t] # edn[t] => edn'[t] = "absent"
  BY DEF Refresh, RestartWithoutLog, FailedRestart, Ckpt!Quarantine, Ckpt!logVars
<1> QED
  BY <1>2, <1>3, <1>4, <1>5, <1>6, <1>7, <1>8 DEF Next

\* A whole file stays: only half-written ones are removed or moved away.
LEMMA WholeStays ==
    ASSUME KeepInv, [Next]_vars
    PROVE  Ckpt!WholeFiles \subseteq Ckpt!WholeFiles'
<1> SUFFICES ASSUME NEW t \in Tx, edn[t] = "whole" PROVE edn'[t] = "whole"
  BY DEF Ckpt!WholeFiles
<1>0. edn \in [Tx -> Ckpt!FileStates]
  BY DEF KeepInv, TypeInv, CkptTypes
<1>1. CASE CheckpointThread
  <2>1. CASE Ckpt!CreateFile
    BY <1>0, <2>1 DEF Ckpt!CreateFile
  <2>2. CASE Ckpt!FinishFile
    BY <1>0, <2>2 DEF Ckpt!FinishFile
  <2>3. CASE edn' = edn
    BY <2>3
  <2>4. Ckpt!StartPassive \/ Ckpt!StartFull \/ Ckpt!SkipFile \/ Ckpt!FileFails
          \/ Ckpt!StopReading \/ Ckpt!Truncate \/ Ckpt!TruncateFails => edn' = edn
    BY DEF Ckpt!StartPassive, Ckpt!StartFull, Ckpt!SkipFile, Ckpt!FileFails,
           Ckpt!StopReading, Ckpt!Truncate, Ckpt!TruncateFails, Ckpt!ReplyFull
  <2> QED
    BY <1>1, <2>1, <2>2, <2>3, <2>4 DEF CheckpointThread, Ckpt!CheckpointThread
<1>2. CASE ProcessCrash \/ PowerLoss
  BY <1>2 DEF ProcessCrash, PowerLoss, Ckpt!PartialFiles
<1>3. CASE Refresh \/ RestartWithoutLog \/ FailedRestart
  BY <1>3 DEF Refresh, RestartWithoutLog, FailedRestart, Ckpt!Quarantine,
              Ckpt!PartialFiles
<1>4. CASE edn' = edn
  BY <1>4
<1>5. (\E u \in Tx : Submit(u)) \/ (\E h \in Harvests : AskFull(h) \/ GiveUp(h))
        \/ CommitThread \/ Restart \/ UNCHANGED vars
        => edn' = edn
  BY DEF Submit, CommitThread, AskFull, GiveUp, Restart, vars, ckptOnly,
         Ckpt!AskFull, Ckpt!GiveUp
<1> QED
  BY <1>1, <1>2, <1>3, <1>4, <1>5 DEF Next

LEMMA InitKeepInv == Init => KeepInv
<1> SUFFICES ASSUME Init PROVE KeepInv
  OBVIOUS
<1>1. Log!Init
  BY DEF Init, Commit!Init, Log!Init, Commit!GenesisHash, Log!GenesisHash
<1>2. Log!MarkInv
  BY <1>1, Log!InitMarkInv, DaemonAssumption
<1> QED
  BY <1>2, InitTypeInv DEF KeepInv, Writing, Init, Ckpt!Init

LEMMA NextKeepInv == KeepInv /\ [Next]_vars => KeepInv'
  BY NextTypeInv, NextMarkInv, NextWriting DEF KeepInv

\* With harvests and whatever fails, torn frames and quarantined files included,
\* nothing but a truncation takes away what was acknowledged and stored.
THEOREM StoredAlwaysStays == Spec => StoredStays
<1>1. KeepInv /\ [Next]_vars
        => [step # "truncate" => Commit!Acked \cap Stored \subseteq Stored']_vars
  <2> SUFFICES ASSUME KeepInv, [Next]_vars, step # "truncate"
               PROVE  Commit!Acked \cap Stored \subseteq Stored'
    OBVIOUS
  <2>1. Ckpt!WholeFiles \subseteq Ckpt!WholeFiles'
    BY WholeStays
  <2>2. [Log!LogNext]_(Log!vars)
    BY NextIsLogStep DEF KeepInv
  <2>3. Commit!Acked \cap ReadTxs(wal) \subseteq ReadTxs(wal')
    <3>1. Log!Acked \cap Log!ReadTxs(wal) \subseteq Log!ReadTxs(wal')
      BY <2>2, Log!ReadableKept, DaemonAssumption DEF KeepInv
    <3> QED
      BY <3>1, SameReads DEF Log!Acked, Commit!Acked
  <2> QED
    BY <2>1, <2>3 DEF Stored
<1> QED
  BY <1>1, InitKeepInv, NextKeepInv, PTL DEF Spec, StoredStays

-----------------------------------------------------------------------------
(* With one harvest, crashes and the half-written files they leave, but no     *)
(* other fault: what a full checkpoint has read when it goes on to truncate.   *)
(* A second one could find frames that link to the log as it was before the    *)
(* first, and stop at them.                                                    *)

OneHarvest == \A g, h \in Harvests : g = h

NoFaults == NoErrors /\ NoWriteErrors /\ NoTornFrames /\ NoRefresh

\* No harvest has asked yet, or none of them has its answer: the log was never cut.
NeverCut == \A h \in Harvests : harvest[h] = "none" \/ mailbox # <<>>

\* Who asks has its commit answered, and one signal is under way at most.
Asked ==
    /\ \A h \in Harvests : harvest[h] # "none" => req[h] \in {"ok", "failed"}
    /\ mailbox # <<>> => \E h \in Harvests : mailbox = <<h>> /\ harvest[h] # "none"

\* What the harvest has committed itself is a file before the log is cut.
CutReady ==
    step = "truncate" => \A h \in Harvests : req[h] = "ok" => edn[h] = "whole"

HarvestInv ==
    /\ KeepInv
    /\ NeverCut => FilesInv
    /\ Asked
    /\ CutReady
    /\ HarvestedHasFile

\* An answer is given once, for what is answered is in no batch any more.
LEMMA AnswersStay ==
    ASSUME KeepInv, [Next]_vars, NEW t \in Tx, req[t] \in {"ok", "failed"}
    PROVE  req'[t] = req[t]
<1>0. LogTypes /\ Log!Waiting
  BY LogTypesFollow DEF KeepInv, TypeInv, Log!MarkInv
<1>1. ASSUME NEW u \in Tx, Submit(u) PROVE req'[t] = req[t]
  BY <1>0, <1>1 DEF Submit, Commit!Submit, LogTypes
<1>2. ASSUME NEW s \in {"signal", "fail"}, NEW outcome, Commit!Reply(s, outcome)
      PROVE  req'[t] = req[t]
  <2>1. batch # <<>> /\ req' = [req EXCEPT ![Head(batch)] = outcome]
    BY <1>2 DEF Commit!Reply, KeepInv, TypeInv, Log!TypeInv, Log!Control
  <2>2. Head(batch) = batch[1] /\ 1 \in 1 .. Len(batch)
    BY <1>0, <2>1 DEF LogTypes
  <2>3. req[Head(batch)] = "queued"
    BY <1>0, <2>2 DEF Log!Waiting
  <2> QED
    BY <1>0, <2>1, <2>3 DEF LogTypes
<1>3. CommitThread => req' = req \/ Commit!SignalOk \/ Commit!SignalError
  BY DEF CommitThread, Commit!CommitThread, Commit!Recv, Commit!Drain, Commit!CloseBatch,
         Commit!BeginFrame, Commit!EndFrame, Commit!WriteFails, Commit!Sync,
         Commit!SyncFails, Commit!Apply
<1>4. ProcessCrash \/ PowerLoss => req'[t] = req[t]
  BY DEF ProcessCrash, PowerLoss, Commit!ProcessCrash, Commit!PowerLoss, Commit!Vanish
<1>5. CheckpointThread \/ (\E h \in Harvests : AskFull(h) \/ GiveUp(h)) \/ Refresh
        \/ Restart \/ RestartWithoutLog \/ FailedRestart \/ UNCHANGED vars
        => req' = req
  BY DEF CheckpointThread, AskFull, GiveUp, Refresh, Restart, RestartWithoutLog,
         FailedRestart, Commit!Recover, vars, commitOnly
<1> QED
  BY <1>1, <1>2, <1>3, <1>4, <1>5 DEF Next, Commit!SignalOk, Commit!SignalError

\* The steps that change what harvests wait for.
LEMMA HarvestSteps ==
    ASSUME TypeInv, [Next]_vars
    PROVE  \/ UNCHANGED <<mailbox, harvest>>
           \/ \E h \in Harvests : AskFull(h)
           \/ \E h \in Harvests : GiveUp(h)
           \/ /\ step = "truncate" /\ CheckpointThread
              /\ \E outcome \in {"done", "error"} : Ckpt!ReplyFull(outcome)
           \/ Ckpt!Vanish
<1>1. CheckpointThread
        => \/ UNCHANGED <<mailbox, harvest>>
           \/ /\ step = "truncate"
              /\ \E outcome \in {"done", "error"} : Ckpt!ReplyFull(outcome)
  BY DEF CheckpointThread, Ckpt!CheckpointThread, Ckpt!StartPassive, Ckpt!StartFull,
         Ckpt!CreateFile, Ckpt!SkipFile, Ckpt!FinishFile, Ckpt!FileFails,
         Ckpt!StopReading, Ckpt!EndPass, Ckpt!Truncate, Ckpt!TruncateFails
<1>2. (\E t \in Tx : Submit(t)) \/ CommitThread \/ Restart \/ UNCHANGED vars
        => UNCHANGED <<mailbox, harvest>>
  BY DEF Submit, CommitThread, Restart, vars, ckptOnly
<1>3. Refresh \/ RestartWithoutLog \/ FailedRestart => UNCHANGED <<mailbox, harvest>>
  BY DEF Refresh, RestartWithoutLog, FailedRestart, Ckpt!Quarantine
<1> QED
  BY <1>1, <1>2, <1>3 DEF Next, ProcessCrash, PowerLoss

LEMMA NextAsked ==
    ASSUME OneHarvest, KeepInv, Asked, [Next]_vars
    PROVE  Asked'
<1>0. /\ harvest \in [Harvests -> Ckpt!HarvestStates] /\ Harvests \subseteq Tx
      /\ mailbox \in Seq(Harvests)
  BY DaemonAssumption DEF KeepInv, TypeInv, CkptTypes
<1>1. \A h \in Harvests : req[h] \in {"ok", "failed"} => req'[h] \in {"ok", "failed"}
  BY <1>0, AnswersStay
<1>2. CASE UNCHANGED <<mailbox, harvest>>
  BY <1>1, <1>2 DEF Asked
<1>3. ASSUME NEW h \in Harvests, AskFull(h) PROVE Asked'
  <2>1. /\ req[h] \in {"ok", "failed"} /\ harvest[h] = "none"
        /\ harvest' = [harvest EXCEPT ![h] = "waiting"] /\ mailbox' = Append(mailbox, h)
    BY <1>3 DEF AskFull, Ckpt!AskFull
  <2>2. mailbox = <<>>
    BY <2>1 DEF Asked, OneHarvest
  <2>3. mailbox' = <<h>>
    BY <2>1, <2>2
  <2>4. harvest'[h] # "none" /\ req'[h] \in {"ok", "failed"}
    BY <1>0, <1>1, <2>1
  <2> QED
    BY <2>3, <2>4 DEF Asked, OneHarvest
<1>4. ASSUME NEW h \in Harvests, GiveUp(h) PROVE Asked'
  <2>1. /\ harvest[h] = "waiting" /\ mailbox' = mailbox
        /\ harvest' = [harvest EXCEPT ![h] = "timeout"]
    BY <1>4 DEF GiveUp, Ckpt!GiveUp
  <2>2. \A g \in Harvests : harvest'[g] # "none" <=> harvest[g] # "none"
    BY <1>0, <2>1
  <2> QED
    BY <1>1, <2>1, <2>2 DEF Asked
<1>5. ASSUME NEW outcome \in {"done", "error"}, step = "truncate", Ckpt!ReplyFull(outcome)
      PROVE  Asked'
  <2>1. PICK h \in Harvests : mailbox = <<h>>
    BY <1>5 DEF Asked, KeepInv, TypeInv, PassControl
  <2>2. mailbox' = <<>> /\ Head(mailbox) = h
    BY <1>5, <2>1 DEF Ckpt!ReplyFull
  <2>3. \A g \in Harvests : harvest'[g] # "none" => harvest[g] # "none"
    BY <1>0, <1>5, <2>2 DEF Ckpt!ReplyFull
  <2> QED
    BY <1>1, <2>2, <2>3 DEF Asked
<1>6. CASE Ckpt!Vanish
  BY <1>1, <1>6 DEF Ckpt!Vanish, Asked
<1> QED
  BY <1>2, <1>3, <1>4, <1>5, <1>6, HarvestSteps DEF KeepInv

\* Before the log was cut it was not cut, and this step does not cut it.
LEMMA CutOnce ==
    ASSUME OneHarvest, KeepInv, Asked, [Next]_vars, NeverCut'
    PROVE  NeverCut /\ (step = "truncate" => ~CheckpointThread)
<1>0. harvest \in [Harvests -> Ckpt!HarvestStates] /\ TypeInv
  BY DEF KeepInv, TypeInv, CkptTypes
<1>1. ASSUME NEW outcome \in {"done", "error"}, step = "truncate", Ckpt!ReplyFull(outcome)
      PROVE  FALSE
  <2>1. PICK h \in Harvests : mailbox = <<h>> /\ harvest[h] # "none"
    BY <1>1 DEF Asked, KeepInv, TypeInv, PassControl
  <2>2. mailbox' = <<>> /\ Head(mailbox) = h
    BY <1>1, <2>1 DEF Ckpt!ReplyFull
  <2>3. harvest'[h] # "none"
    BY <1>0, <1>1, <2>1, <2>2 DEF Ckpt!ReplyFull
  <2> QED
    BY <2>2, <2>3 DEF NeverCut
<1>2. step = "truncate" => ~CheckpointThread
  <2> SUFFICES ASSUME step = "truncate", CheckpointThread PROVE FALSE
    OBVIOUS
  <2>1. Ckpt!Truncate \/ Ckpt!TruncateFails
    BY <1>0 DEF CheckpointThread, Ckpt!CheckpointThread, Ckpt!StartPassive, Ckpt!StartFull,
                Ckpt!CreateFile, Ckpt!SkipFile, Ckpt!FinishFile, Ckpt!FileFails,
                Ckpt!StopReading, Ckpt!AtEntry, TypeInv, PassControl
  <2> QED
    BY <1>1, <2>1 DEF Ckpt!Truncate, Ckpt!TruncateFails
<1>3. NeverCut
  <2> SUFFICES ASSUME NEW h \in Harvests, harvest[h] # "none", mailbox = <<>> PROVE FALSE
    BY DEF NeverCut
  <2>1. \A g \in Harvests : ~AskFull(g)
    BY DEF AskFull, Ckpt!AskFull, OneHarvest
  <2>2. harvest'[h] # "none" /\ mailbox' = <<>>
    <3>1. CASE UNCHANGED <<mailbox, harvest>>
      BY <3>1
    <3>2. ASSUME NEW g \in Harvests, GiveUp(g)
          PROVE  harvest'[h] # "none" /\ mailbox' = <<>>
      BY <1>0, <3>2 DEF GiveUp, Ckpt!GiveUp
    <3>3. CASE Ckpt!Vanish
      BY <3>3 DEF Ckpt!Vanish
    <3> QED
      BY <1>0, <1>2, <2>1, <3>1, <3>2, <3>3, HarvestSteps
  <2> QED
    BY <2>2 DEF NeverCut
<1> QED
  BY <1>2, <1>3

\* A full checkpoint ends its pass over an undamaged log at the end of it, or
\* before the frame that is being written.
LEMMA EntersTruncate ==
    ASSUME NoErrors, NoWriteErrors, KeepInv, NeverCut => FilesInv,
           [Next]_vars, step # "truncate", step' = "truncate"
    PROVE  mailbox # <<>> /\ req' = req /\ Commit!Acked \subseteq Ckpt!WholeFiles
<1>1. CheckpointThread
  BY DEF Next, Submit, CommitThread, AskFull, GiveUp, Refresh, ProcessCrash, PowerLoss,
         Restart, RestartWithoutLog, FailedRestart, Ckpt!AskFull, Ckpt!GiveUp, Ckpt!Vanish,
         Ckpt!Quarantine, vars, ckptOnly
<1>2. \/ Ckpt!StartFull /\ ~Ckpt!Pending
      \/ Ckpt!StopReading /\ pass = "full" /\ ~Ckpt!Yields(wal, from, offset + 1)
  BY <1>1 DEF CheckpointThread, Ckpt!CheckpointThread, Ckpt!StartPassive, Ckpt!StartFull,
              Ckpt!CreateFile, Ckpt!SkipFile, Ckpt!FinishFile, Ckpt!FileFails,
              Ckpt!StopReading, Ckpt!EndPass, Ckpt!Truncate, Ckpt!TruncateFails,
              Ckpt!ReplyFull, Ckpt!MayFail, NoErrors, NoWriteErrors
<1>3. mailbox # <<>> /\ FilesInv
  BY <1>2 DEF Ckpt!StartFull, KeepInv, TypeInv, PassControl, NeverCut
<1>4. /\ LogTypes /\ Log!Intact /\ Log!Complete \in Nat /\ Log!Complete <= Len(wal)
      /\ offset \in Nat /\ offset <= Log!Complete
  BY <1>3, LogTypesFollow, CompleteType
     DEF FilesInv, StoreInv, TypeInv, CkptTypes, Log!IntactInv, Converted
<1>5. offset = Log!Complete
  <2>1. CASE ~Ckpt!Pending
    BY <1>4, <2>1 DEF Ckpt!Pending, LogTypes
  <2>2. ASSUME offset # Log!Complete PROVE Ckpt!Yields(wal, from, offset + 1)
    <3>1. offset + 1 \in 1 .. Log!Complete /\ offset + 1 \in DOMAIN wal
      BY <1>4, <2>2, LenProperties DEF LogTypes
    <3> QED
      BY <1>4, <3>1
         DEF Log!Intact, Log!Linked, Ckpt!Yields, Ckpt!Linked, Log!HashBefore,
             Ckpt!HashBefore, Log!ChainHash, Ckpt!ChainHash, Log!GenesisHash,
             Ckpt!GenesisHash
  <2> QED
    BY <1>2, <2>1, <2>2
<1>6. Commit!Acked \subseteq Ckpt!WholeFiles
  <2> SUFFICES ASSUME NEW t \in Commit!Acked PROVE edn[t] = "whole"
    BY DEF Ckpt!WholeFiles, Commit!Acked
  <2>1. PICK i \in Readable(wal) : wal[i].tx = t
    BY <1>3, AckedIsReadable DEF FilesInv, ReadTxs
  <2>2. i \in 1 .. Len(wal) /\ wal[i].whole
    BY <1>4, LenProperties DEF Readable, Linked, LogTypes
  <2>3. i \in 1 .. offset
    BY <1>4, <1>5, <2>2 DEF Log!Intact, Log!Complete, LogTypes
  <2> QED
    BY <1>3, <2>1, <2>3 DEF FilesInv, Converted, HasFile
<1> QED
  BY <1>1, <1>3, <1>6 DEF CheckpointThread, commitOnly

LEMMA NextCutReady ==
    ASSUME OneHarvest, NoErrors, NoWriteErrors, HarvestInv, [Next]_vars
    PROVE  CutReady'
<1> SUFFICES ASSUME step' = "truncate", NEW h \in Harvests, req'[h] = "ok"
             PROVE  edn'[h] = "whole"
  BY DEF CutReady
<1>0. h \in Tx /\ (edn[h] = "whole" => edn'[h] = "whole")
  BY WholeStays, DaemonAssumption DEF HarvestInv, Ckpt!WholeFiles
<1>1. CASE step = "truncate"
  <2>1. req[h] \in {"ok", "failed"}
    BY <1>1 DEF HarvestInv, KeepInv, TypeInv, PassControl, Asked, OneHarvest
  <2>2. req[h] = "ok"
    BY <1>0, <2>1, AnswersStay DEF HarvestInv
  <2> QED
    BY <1>0, <1>1, <2>2 DEF HarvestInv, CutReady
<1>2. CASE step # "truncate"
  BY <1>0, <1>2, EntersTruncate DEF HarvestInv, Commit!Acked, Ckpt!WholeFiles
<1> QED
  BY <1>1, <1>2

LEMMA NextHarvested ==
    ASSUME HarvestInv, [Next]_vars
    PROVE  HarvestedHasFile'
<1> SUFFICES ASSUME NEW h \in Harvests, harvest'[h] = "done", req'[h] = "ok"
             PROVE  edn'[h] = "whole"
  BY DEF HarvestedHasFile
<1>0. /\ h \in Tx /\ (edn[h] = "whole" => edn'[h] = "whole")
      /\ harvest \in [Harvests -> Ckpt!HarvestStates]
  BY WholeStays, DaemonAssumption DEF HarvestInv, Ckpt!WholeFiles, KeepInv, TypeInv, CkptTypes
<1>1. CASE harvest[h] = "done"
  <2>1. req[h] = "ok"
    BY <1>0, <1>1, AnswersStay DEF HarvestInv, Asked
  <2> QED
    BY <1>0, <1>1, <2>1 DEF HarvestInv, HarvestedHasFile
<1>2. CASE harvest[h] # "done"
  <2>1. ~UNCHANGED <<mailbox, harvest>> /\ ~Ckpt!Vanish
    BY <1>2 DEF Ckpt!Vanish
  <2>2. \A g \in Harvests : ~AskFull(g) /\ ~GiveUp(g)
    BY <1>0, <1>2 DEF AskFull, GiveUp, Ckpt!AskFull, Ckpt!GiveUp
  <2>3. step = "truncate" /\ CheckpointThread
    BY <2>1, <2>2, HarvestSteps DEF HarvestInv, KeepInv
  <2>4. req[h] = "ok"
    BY <2>3 DEF CheckpointThread, commitOnly
  <2> QED
    BY <1>0, <2>3, <2>4 DEF HarvestInv, CutReady
<1> QED
  BY <1>1, <1>2

LEMMA SpecHarvestInv ==
    ASSUME OneHarvest, NoFaults
    PROVE  Spec => []HarvestInv
<1>1. Init => HarvestInv
  BY InitKeepInv, InitFilesInv
     DEF HarvestInv, Init, Ckpt!Init, Asked, CutReady, HarvestedHasFile
<1>2. HarvestInv /\ [Next]_vars => HarvestInv'
  <2> SUFFICES ASSUME HarvestInv, [Next]_vars PROVE HarvestInv'
    OBVIOUS
  <2>1. NeverCut' => FilesInv'
    BY CutOnce, NextFilesInv DEF HarvestInv, NoFaults
  <2>2. KeepInv' /\ Asked'
    BY NextKeepInv, NextAsked DEF HarvestInv
  <2>3. CutReady' /\ HarvestedHasFile'
    BY NextCutReady, NextHarvested DEF NoFaults
  <2> QED
    BY <2>1, <2>2, <2>3 DEF HarvestInv
<1> QED
  BY <1>1, <1>2, PTL DEF Spec

\* When the one full checkpoint of a log goes on to truncate, everything that was
\* acknowledged is a transaction file, however commits and crashes interleave with
\* its pass, and however often the daemon was restarted before.
THEOREM FullCheckpointReadsAll ==
    ASSUME OneHarvest, NoFaults
    PROVE  Spec => FullReadsAll
<1>1. HarvestInv /\ [Next]_vars
        => [step # "truncate" /\ step' = "truncate"
              => Commit!Acked \subseteq Ckpt!WholeFiles]_vars
  BY EntersTruncate DEF HarvestInv, NoFaults
<1> QED
  BY <1>1, SpecHarvestInv, PTL DEF Spec, FullReadsAll

\* DS6: a harvest that is told its checkpoint is complete has its own entry in a
\* transaction file, from then on.
THEOREM HarvestIsFile ==
    ASSUME OneHarvest, NoFaults
    PROVE  Spec => []HarvestedHasFile
<1>1. HarvestInv => HarvestedHasFile
  BY DEF HarvestInv
<1> QED
  BY <1>1, SpecHarvestInv, PTL

-----------------------------------------------------------------------------
(* With any harvests and faults: nobody is forgotten. *)

\* The signal of a harvest that waits is in the checkpoint thread's channel, or is
\* the one it is working on.
HarvestsAttended ==
    \A h \in Harvests : harvest[h] = "waiting" =>
        \E i \in 1 .. Len(mailbox) : mailbox[i] = h

LEMMA NextHarvestsAttended ==
    ASSUME TypeInv, HarvestsAttended, [Next]_vars
    PROVE  HarvestsAttended'
<1>0. /\ harvest \in [Harvests -> Ckpt!HarvestStates]
      /\ mailbox \in Seq(Harvests) /\ Len(mailbox) \in Nat
  BY LenProperties DEF TypeInv, CkptTypes
<1>1. CASE UNCHANGED <<mailbox, harvest>>
  BY <1>1 DEF HarvestsAttended
<1>2. ASSUME NEW h \in Harvests, AskFull(h) PROVE HarvestsAttended'
  <2>1. mailbox' = Append(mailbox, h) /\ harvest' = [harvest EXCEPT ![h] = "waiting"]
    BY <1>2 DEF AskFull, Ckpt!AskFull
  <2>2. /\ Len(mailbox') = Len(mailbox) + 1 /\ mailbox'[Len(mailbox) + 1] = h
        /\ \A i \in 1 .. Len(mailbox) : mailbox'[i] = mailbox[i]
    BY <1>0, <2>1, AppendProperties
  <2>3. \E i \in 1 .. Len(mailbox') : mailbox'[i] = h
    BY <1>0, <2>2
  <2>4. \A g \in Harvests : g # h => harvest'[g] = harvest[g]
    BY <1>0, <2>1
  <2> QED
    BY <1>0, <2>2, <2>3, <2>4 DEF HarvestsAttended
<1>3. ASSUME NEW h \in Harvests, GiveUp(h) PROVE HarvestsAttended'
  BY <1>0, <1>3 DEF GiveUp, Ckpt!GiveUp, HarvestsAttended
<1>4. ASSUME NEW outcome \in {"done", "error"}, step = "truncate", Ckpt!ReplyFull(outcome)
      PROVE  HarvestsAttended'
  <2>1. /\ mailbox # <<>> /\ mailbox' = Tail(mailbox)
        /\ harvest' = [harvest EXCEPT ![Head(mailbox)] =
                         IF @ = "waiting" THEN outcome ELSE @]
    BY <1>4 DEF Ckpt!ReplyFull, TypeInv, PassControl
  <2>2. /\ Len(mailbox') = Len(mailbox) - 1 /\ Head(mailbox) = mailbox[1]
        /\ \A i \in 1 .. Len(mailbox') : mailbox'[i] = mailbox[i + 1]
    BY <1>0, <2>1, HeadTailProperties
  <2> SUFFICES ASSUME NEW h \in Harvests, harvest'[h] = "waiting"
               PROVE  \E i \in 1 .. Len(mailbox') : mailbox'[i] = h
    BY DEF HarvestsAttended
  <2>3. harvest[h] = "waiting" /\ h # mailbox[1]
    BY <1>0, <2>1, <2>2
  <2>4. PICK i \in 1 .. Len(mailbox) : mailbox[i] = h
    BY <2>3 DEF HarvestsAttended
  <2>5. i - 1 \in 1 .. Len(mailbox') /\ mailbox'[i - 1] = h
    BY <1>0, <2>2, <2>3, <2>4
  <2> QED
    BY <2>5
<1>5. CASE Ckpt!Vanish
  BY <1>5 DEF Ckpt!Vanish, HarvestsAttended
<1> QED
  BY <1>1, <1>2, <1>3, <1>4, <1>5, HarvestSteps

\* Whatever fails, whatever is truncated and whenever the daemon dies: a caller of
\* commit() waits only while the commit thread has its request, and a harvest only
\* while the checkpoint thread has its signal.
THEOREM NobodyForgotten == Spec => [](Log!Attended /\ HarvestsAttended)
<1>1. Init => Log!Attended /\ HarvestsAttended
  BY DEF Init, Commit!Init, Ckpt!Init, Log!Attended, HarvestsAttended
<1>2. TypeInv /\ Log!Attended /\ [Next]_vars => Log!Attended'
  <2> SUFFICES ASSUME TypeInv, Log!Attended, [Next]_vars PROVE Log!Attended'
    OBVIOUS
  <2>1. CASE CheckpointThread
    BY <2>1 DEF CheckpointThread, commitOnly, Log!Attended
  <2>2. CASE ~CheckpointThread
    BY <2>2, NextIsLogStep, Log!NextAttended, DaemonAssumption DEF TypeInv
  <2> QED
    BY <2>1, <2>2
<1>3. TypeInv /\ HarvestsAttended /\ [Next]_vars => HarvestsAttended'
  BY NextHarvestsAttended
<1> QED
  BY <1>1, <1>2, <1>3, InitTypeInv, NextTypeInv, PTL DEF Spec

-----------------------------------------------------------------------------
(* Without harvests, the whole engine keeps the promise of DurableCommit. *)

\* A file becomes whole only for a frame that can be read.
LEMMA NewWhole ==
    ASSUME KeepInv, Log!Intact, [Next]_vars
    PROVE  Ckpt!WholeFiles' \subseteq Ckpt!WholeFiles \cup ReadTxs(wal)
<1> SUFFICES ASSUME NEW t \in Tx, edn'[t] = "whole", edn[t] # "whole"
             PROVE  t \in ReadTxs(wal)
  BY DEF Ckpt!WholeFiles
<1>0. edn \in [Tx -> Ckpt!FileStates]
  BY DEF KeepInv, TypeInv, CkptTypes
<1>1. CASE CheckpointThread
  <2>1. Ckpt!FinishFile
    BY <1>0, <1>1
       DEF CheckpointThread, Ckpt!CheckpointThread, Ckpt!StartPassive, Ckpt!StartFull,
           Ckpt!CreateFile, Ckpt!SkipFile, Ckpt!FileFails, Ckpt!StopReading,
           Ckpt!Truncate, Ckpt!TruncateFails, Ckpt!ReplyFull
  <2>2. /\ t = wal[offset + 1].tx
        /\ offset + 1 \in 1 .. Len(wal)
        /\ wal[offset + 1].whole
    BY <1>0, <2>1 DEF Ckpt!FinishFile, Ckpt!Entry, KeepInv, Writing
  <2>3. Log!TypeInv /\ Log!Complete \in Nat /\ LogTypes
    BY CompleteType, LogTypesFollow DEF KeepInv, TypeInv
  <2>4. offset + 1 \in 1 .. Log!Complete
    BY <2>2, <2>3 DEF Log!Intact, Log!Complete, LogTypes
  <2>5. t \in Log!ReadTxs(wal)
    BY <2>2, <2>3, <2>4, Log!IntactReads, DaemonAssumption DEF Log!LoggedTxs
  <2> QED
    BY <2>5, SameReads
<1>2. ProcessCrash \/ PowerLoss => edn'[t] # "whole"
  BY DEF ProcessCrash, PowerLoss
<1>3. Refresh \/ RestartWithoutLog \/ FailedRestart => edn'[t] # "whole"
  BY DEF Refresh, RestartWithoutLog, FailedRestart, Ckpt!Quarantine
<1>4. (\E u \in Tx : Submit(u)) \/ (\E h \in Harvests : AskFull(h) \/ GiveUp(h))
        \/ CommitThread \/ Restart \/ UNCHANGED vars
        => edn' = edn
  BY DEF Submit, CommitThread, AskFull, GiveUp, Restart, vars, ckptOnly,
         Ckpt!AskFull, Ckpt!GiveUp
<1> QED
  BY <1>1, <1>2, <1>3, <1>4 DEF Next

\* A frame adds to what a restart finds, a power loss takes from it, and turning
\* frames into files leaves it as it is.
LEMMA StoredSteps ==
    ASSUME NoTornFrames, KeepInv, StoreInv, StoreInv', [Next]_vars,
           step = "truncate" => ~CheckpointThread
    PROVE  /\ Log!EndFrame => Stored' = Stored \cup {batch[next]}
           /\ Log!PowerLoss => Stored' \subseteq Stored
           /\ ~Log!EndFrame /\ ~Log!PowerLoss => Stored' = Stored
<1>1. /\ [Log!LogNext]_(Log!vars) /\ ~Log!Tears
      /\ Log!TypeInv /\ Log!TypeInv' /\ Log!Intact /\ Log!Intact'
  BY NextIsLogStep
     DEF NoTornFrames, Log!Tears, StoreInv, TypeInv, Log!IntactInv
<1>2. /\ Log!EndFrame => ReadTxs(wal') = ReadTxs(wal) \cup {batch[next]}
      /\ Log!PowerLoss => ReadTxs(wal') \subseteq ReadTxs(wal)
      /\ ~Log!EndFrame /\ ~Log!PowerLoss => ReadTxs(wal') = ReadTxs(wal)
  BY <1>1, SameReads, Log!NextReadTxs, DaemonAssumption
<1>3. /\ Ckpt!WholeFiles \subseteq Ckpt!WholeFiles'
      /\ Ckpt!WholeFiles' \subseteq Ckpt!WholeFiles \cup ReadTxs(wal)
  BY <1>1, WholeStays, NewWhole
<1> QED
  BY <1>2, <1>3 DEF Stored

\* Whatever a restart would find or the daemon shows was submitted by a caller;
\* while that caller waits, it is shown only between the apply step and its answer.
OnlySubmitted ==
    /\ \A t \in Stored \cup live : req[t] # "idle"
    /\ \A t \in live : req[t] = "queued" =>
         pc = "signal" /\ \E j \in 1 .. Len(batch) : batch[j] = t
    /\ ~Up => \A t \in Tx : req[t] # "queued"

PromiseInv == StoreInv /\ Applied /\ KeepInv /\ OnlySubmitted

PromiseTypes ==
    /\ LogTypes
    /\ Log!Waiting
    /\ live \subseteq Tx /\ Stored \subseteq Tx
    /\ pc \in {"write", "signal", "fail"} => 1 \in 1 .. Len(batch)
    /\ pc = "write" => next \in 1 .. Len(batch)
    /\ Up <=> pc # "down"

LEMMA PromiseTypesFollow == PromiseInv => PromiseTypes
<1> SUFFICES ASSUME PromiseInv PROVE PromiseTypes
  OBVIOUS
<1>1. LogTypes /\ Log!Waiting /\ Log!TypeInv
  BY LogTypesFollow DEF PromiseInv, KeepInv, TypeInv, Log!MarkInv
<1>2. ReadTxs(wal) \subseteq Tx /\ Ckpt!WholeFiles \subseteq Tx
  BY <1>1, SameReads, Log!ReadTxsType, DaemonAssumption DEF LogTypes, Ckpt!WholeFiles
<1>3. /\ pc \in {"write", "signal", "fail"} => 1 \in 1 .. Len(batch)
      /\ pc = "write" => next \in 1 .. Len(batch)
      /\ live \subseteq Tx
  BY <1>1 DEF Log!TypeInv, Log!TypeOK, Log!Control, LogTypes
<1> QED
  BY <1>1, <1>2, <1>3 DEF PromiseTypes, Stored, Up, Commit!Up

LEMMA NextOnlySubmitted ==
    ASSUME NoHarvests, NoTornFrames, PromiseInv, StoreInv', [Next]_vars
    PROVE  OnlySubmitted'
<1>0. PromiseTypes /\ (step = "truncate" => ~CheckpointThread)
  BY PromiseTypesFollow, NeverTruncates DEF PromiseInv, KeepInv
<1>1. /\ Log!EndFrame => Stored' = Stored \cup {batch[next]}
      /\ Log!PowerLoss => Stored' \subseteq Stored
      /\ ~Log!EndFrame /\ ~Log!PowerLoss => Stored' = Stored
  BY <1>0, StoredSteps DEF PromiseInv
<1> USE DEF PromiseTypes, LogTypes
<1>2. ASSUME NEW t \in Tx, Log!Submit(t) PROVE OnlySubmitted'
  <2>1. /\ req' = [req EXCEPT ![t] = "queued"] /\ req[t] = "idle" /\ pc # "down"
        /\ live' = live /\ pc' = pc /\ batch' = batch
    BY <1>2 DEF Log!Submit, Log!Up
  <2>2. ~Log!EndFrame /\ ~Log!PowerLoss
    BY <1>0, <2>1 DEF Log!EndFrame, Log!PowerLoss, Log!Vanish
  <2>3. t \notin Stored \cup live
    BY <2>1 DEF PromiseInv, OnlySubmitted
  <2>4. \A u \in Tx : u # t => req'[u] = req[u]
    BY <1>0, <2>1
  <2> QED
    BY <1>0, <1>1, <2>1, <2>2, <2>3, <2>4
       DEF PromiseInv, OnlySubmitted, Up, Commit!Up
<1>3. CASE Log!EndFrame
  <2>1. req' = req /\ live' = live /\ pc = "write" /\ pc' = "append"
    BY <1>3 DEF Log!EndFrame
  <2>2. req[batch[next]] = "queued"
    BY <1>0, <2>1 DEF Log!Waiting
  <2> QED
    BY <1>1, <1>3, <2>1, <2>2 DEF PromiseInv, OnlySubmitted, Up, Commit!Up
<1>4. CASE Log!Apply
  <2>1. /\ req' = req /\ live' = live \cup Log!BatchTxs /\ batch' = batch
        /\ pc = "apply" /\ pc' = "signal"
    BY <1>4 DEF Log!Apply
  <2>2. ~Log!EndFrame /\ ~Log!PowerLoss
    BY <2>1 DEF Log!EndFrame, Log!PowerLoss, Log!Vanish
  <2>3. \A t \in Log!BatchTxs :
          req[t] = "queued" /\ \E j \in 1 .. Len(batch) : batch[j] = t
    BY <1>0, LenProperties DEF Log!BatchTxs, Log!Waiting
  <2> QED
    BY <1>1, <2>1, <2>2, <2>3 DEF PromiseInv, OnlySubmitted, Up, Commit!Up
<1>5. CASE Log!SignalOk
  <2>1. /\ pc = "signal" /\ batch # <<>> /\ Head(batch) = batch[1]
        /\ req' = [req EXCEPT ![batch[1]] = "ok"] /\ live' = live
        /\ batch' = Tail(batch)
        /\ pc' = IF Tail(batch) = <<>> THEN "recv" ELSE "signal"
    BY <1>0, <1>5, EmptySeq DEF Log!SignalOk, Log!Reply
  <2>2. ~Log!EndFrame /\ ~Log!PowerLoss
    BY <2>1 DEF Log!EndFrame, Log!PowerLoss, Log!Vanish
  <2>3. /\ Len(batch') = Len(batch) - 1
        /\ \A i \in 1 .. Len(batch') : batch'[i] = batch[i + 1]
        /\ batch' = <<>> => Len(batch') = 0
    BY <1>0, <2>1, HeadTailProperties, EmptySeq
  <2>4. ASSUME NEW t \in live, req'[t] = "queued"
        PROVE  pc' = "signal" /\ \E j \in 1 .. Len(batch') : batch'[j] = t
    <3>1. t # batch[1] /\ req[t] = "queued"
      BY <1>0, <2>1, <2>4
    <3>2. PICK j \in 1 .. Len(batch) : batch[j] = t
      BY <3>1 DEF PromiseInv, OnlySubmitted
    <3>3. j - 1 \in 1 .. Len(batch') /\ batch'[j - 1] = t
      BY <1>0, <2>3, <3>1, <3>2
    <3>4. pc' = "signal"
      BY <1>0, <2>1, <2>3, <3>3
    <3> QED
      BY <3>3, <3>4
  <2>5. \A t \in Stored \cup live : req'[t] # "idle"
    BY <1>0, <2>1 DEF PromiseInv, OnlySubmitted
  <2> QED
    BY <1>1, <2>1, <2>2, <2>4, <2>5 DEF OnlySubmitted, Up, Commit!Up
<1>6. CASE Log!SignalError
  <2>1. /\ pc = "fail" /\ pc' # "down" /\ live' = live
        /\ req' = [req EXCEPT ![Head(batch)] = "failed"]
    BY <1>6 DEF Log!SignalError, Log!Reply
  <2>2. ~Log!EndFrame /\ ~Log!PowerLoss
    BY <2>1 DEF Log!EndFrame, Log!PowerLoss, Log!Vanish
  <2>3. \A t \in live : req'[t] # "queued"
    BY <1>0, <2>1 DEF PromiseInv, OnlySubmitted
  <2>4. \A t \in Stored \cup live : req'[t] # "idle"
    BY <1>0, <2>1 DEF PromiseInv, OnlySubmitted
  <2> QED
    BY <1>1, <2>1, <2>2, <2>3, <2>4 DEF OnlySubmitted, Up, Commit!Up
<1>7. CASE Log!ProcessCrash \/ Log!PowerLoss
  <2>1. /\ req' = [t \in Tx |-> IF req[t] = "queued" THEN "lost" ELSE req[t]]
        /\ live' = {} /\ pc' = "down"
    BY <1>7 DEF Log!ProcessCrash, Log!PowerLoss, Log!Vanish
  <2>2. ~Log!EndFrame
    BY <2>1 DEF Log!EndFrame
  <2>3. Stored' \subseteq Stored
    BY <1>1, <2>2
  <2>4. \A t \in Tx : req'[t] # "queued"
    BY <1>0, <2>1
  <2>5. \A t \in Stored : req'[t] # "idle"
    BY <1>0, <2>1 DEF PromiseInv, OnlySubmitted
  <2> QED
    BY <2>1, <2>3, <2>4, <2>5 DEF OnlySubmitted
<1>8. CASE Restart
  <2>1. live' = Stored /\ req' = req /\ pc = "down" /\ pc' = "recv"
    BY <1>0, <1>8 DEF Restart, Commit!Recover, Commit!Up, Stored
  <2>2. ~Log!EndFrame /\ ~Log!PowerLoss
    BY <2>1 DEF Log!EndFrame, Log!PowerLoss, Log!Vanish
  <2> QED
    BY <1>0, <1>1, <2>1, <2>2 DEF PromiseInv, OnlySubmitted, Up, Commit!Up
<1>9. ASSUME UNCHANGED <<req, live>>, ~Log!EndFrame, ~Log!PowerLoss,
             pc = "signal" => UNCHANGED <<pc, batch>>, pc' = "down" <=> pc = "down"
      PROVE  OnlySubmitted'
  BY <1>0, <1>1, <1>9 DEF PromiseInv, OnlySubmitted, Up, Commit!Up
<1>10. Log!Recv \/ Log!Drain \/ Log!CloseBatch \/ Log!BeginFrame \/ Log!WriteFails
         \/ Log!Sync \/ Log!SyncFails \/ UNCHANGED commitOnly
         => /\ UNCHANGED <<req, live>>
            /\ pc = "signal" => UNCHANGED <<pc, batch>>
            /\ pc' = "down" <=> pc = "down"
  BY DEF Log!Recv, Log!Drain, Log!CloseBatch, Log!BeginFrame, Log!WriteFails, Log!Sync,
         Log!SyncFails, Log!Up, commitOnly
<1>11. CASE UNCHANGED commitOnly
  <2>1. ~Log!EndFrame /\ ~Log!PowerLoss
    BY <1>11 DEF commitOnly, Log!EndFrame, Log!PowerLoss, Log!Vanish, Log!Up
  <2> QED
    BY <1>9, <1>10, <1>11, <2>1
<1>12. CASE RestartWithoutLog
  <2>1. /\ live' = Ckpt!WholeFiles /\ req' = req /\ pc = "down" /\ pc' = "recv"
    BY <1>0, <1>12 DEF RestartWithoutLog, Commit!Recover, Commit!Up
  <2>2. live' \subseteq Stored /\ ~Log!EndFrame /\ ~Log!PowerLoss
    BY <2>1 DEF Log!EndFrame, Log!PowerLoss, Log!Vanish, Stored
  <2> QED
    BY <1>0, <1>1, <2>1, <2>2 DEF PromiseInv, OnlySubmitted, Up, Commit!Up
<1>13. CheckpointThread \/ (\E h \in Harvests : AskFull(h) \/ GiveUp(h)) \/ Refresh
         \/ FailedRestart \/ UNCHANGED vars
         => UNCHANGED commitOnly
  BY DEF CheckpointThread, AskFull, GiveUp, Refresh, FailedRestart, vars
<1>14. ASSUME CommitThread PROVE OnlySubmitted'
  <2>1. Log!CommitThread
    BY <1>14, SameSteps DEF CommitThread
  <2>2. ~Log!PowerLoss
    BY <2>1 DEF Log!PowerLoss, Log!Vanish, Log!CommitThread, Log!Recv, Log!Drain,
                Log!CloseBatch, Log!BeginFrame, Log!EndFrame, Log!WriteFails, Log!Sync,
                Log!SyncFails, Log!Apply, Log!SignalOk, Log!SignalError, Log!Reply
  <2> QED
    BY <1>3, <1>4, <1>5, <1>6, <1>9, <1>10, <2>1, <2>2 DEF Log!CommitThread
<1> QED
  BY <1>2, <1>7, <1>8, <1>11, <1>12, <1>13, <1>14, SameSteps
     DEF Next, Submit, ProcessCrash, PowerLoss

\* The steps of DurableCommit behind the steps of the daemon.
LEMMA NextKeepsPromise ==
    ASSUME NoHarvests, NoTornFrames, PromiseInv, PromiseInv', [Next]_vars
    PROVE  [Promise!Next \/ Promise!RecoverPartly]_(Promise!vars)
<1> USE DEF Promise!Next, Promise!vars
<1>0. PromiseTypes /\ (step = "truncate" => ~CheckpointThread)
  BY PromiseTypesFollow, NeverTruncates DEF PromiseInv, KeepInv
<1>1. /\ Log!EndFrame => Stored' = Stored \cup {batch[next]}
      /\ Log!PowerLoss => Stored' \subseteq Stored
      /\ ~Log!EndFrame /\ ~Log!PowerLoss => Stored' = Stored
  BY <1>0, StoredSteps DEF PromiseInv
<1>a. Commit!Acked' \subseteq Stored'
  <2>1. (StoreInv => Commit!Acked \subseteq ReadTxs(wal))'
    BY AckedIsReadable, PTL
  <2> QED
    BY <2>1 DEF PromiseInv, Stored
<1> USE DEF PromiseTypes, LogTypes
<1>2. ASSUME NEW t \in Tx, Log!Submit(t) PROVE Promise!Next
  <2>1. /\ req' = [req EXCEPT ![t] = "queued"] /\ req[t] = "idle" /\ pc # "down"
        /\ live' = live /\ pc' = pc
    BY <1>2 DEF Log!Submit, Log!Up
  <2>2. ~Log!EndFrame /\ ~Log!PowerLoss
    BY <2>1 DEF Log!EndFrame, Log!PowerLoss, Log!Vanish
  <2>3. Promise!Submit(t)
    BY <1>1, <2>1, <2>2 DEF Promise!Submit, Up, Commit!Up
  <2> QED
    BY <2>3
<1>3. CASE Log!EndFrame
  <2>1. /\ req' = req /\ live' = live /\ pc = "write" /\ pc' = "append"
        /\ batch[next] \in Tx /\ req[batch[next]] = "queued"
    BY <1>0, <1>3 DEF Log!EndFrame, Log!Waiting
  <2>2. Promise!Persist(batch[next])
    BY <1>1, <1>3, <2>1 DEF Promise!Persist, Up, Commit!Up
  <2> QED
    BY <2>1, <2>2
<1>4. CASE Log!Apply
  <2>1. /\ req' = req /\ live' = live \cup Log!BatchTxs
        /\ pc = "apply" /\ pc' = "signal"
    BY <1>4 DEF Log!Apply
  <2>2. ~Log!EndFrame /\ ~Log!PowerLoss
    BY <2>1 DEF Log!EndFrame, Log!PowerLoss, Log!Vanish
  <2>3. Log!BatchTxs \in SUBSET Tx /\ \A t \in Log!BatchTxs : req[t] = "queued"
    BY <1>0, LenProperties DEF Log!BatchTxs, Log!Waiting
  <2>4. Log!BatchTxs \subseteq Stored
    BY <2>1, SameReads, Log!BatchReadable, DaemonAssumption
       DEF PromiseInv, StoreInv, Stored
  <2>5. Promise!Publish(Log!BatchTxs)
    BY <1>1, <2>1, <2>2, <2>3, <2>4 DEF Promise!Publish, Up, Commit!Up
  <2> QED
    BY <2>3, <2>5
<1>5. CASE Log!SignalOk
  <2>1. /\ pc = "signal" /\ 1 \in 1 .. Len(batch) /\ pc' # "down"
        /\ req' = [req EXCEPT ![batch[1]] = "ok"] /\ live' = live
    BY <1>0, <1>5 DEF Log!SignalOk, Log!Reply
  <2>2. ~Log!EndFrame /\ ~Log!PowerLoss
    BY <2>1 DEF Log!EndFrame, Log!PowerLoss, Log!Vanish
  <2>3. batch[1] \in Tx /\ req[batch[1]] = "queued"
    BY <1>0, <2>1 DEF Log!Waiting
  <2>4. batch[1] \in live
    BY <1>0, <2>1 DEF PromiseInv, Applied
  <2>5. batch[1] \in Stored
    BY <1>0, <1>1, <1>a, <2>1, <2>2, <2>3 DEF Commit!Acked
  <2>6. Promise!Ack(batch[1])
    BY <1>1, <2>1, <2>2, <2>3, <2>4, <2>5 DEF Promise!Ack, Up, Commit!Up
  <2> QED
    BY <2>3, <2>6
<1>6. CASE Log!SignalError
  <2>1. /\ pc = "fail" /\ 1 \in 1 .. Len(batch) /\ pc' # "down"
        /\ req' = [req EXCEPT ![batch[1]] = "failed"] /\ live' = live
    BY <1>0, <1>6 DEF Log!SignalError, Log!Reply
  <2>2. ~Log!EndFrame /\ ~Log!PowerLoss
    BY <2>1 DEF Log!EndFrame, Log!PowerLoss, Log!Vanish
  <2>3. batch[1] \in Tx /\ req[batch[1]] = "queued"
    BY <1>0, <2>1 DEF Log!Waiting
  <2>4. batch[1] \notin live
    BY <2>1, <2>3 DEF PromiseInv, OnlySubmitted
  <2>5. Promise!Reject(batch[1])
    BY <1>1, <2>1, <2>2, <2>3, <2>4 DEF Promise!Reject, Up, Commit!Up
  <2> QED
    BY <2>3, <2>5
<1>7. CASE Log!ProcessCrash \/ Log!PowerLoss
  <2>1. /\ req' = [t \in Tx |-> IF req[t] = "queued" THEN "lost" ELSE req[t]]
        /\ live' = {} /\ pc # "down" /\ pc' = "down"
    BY <1>7 DEF Log!ProcessCrash, Log!PowerLoss, Log!Vanish, Log!Up
  <2>2. ~Log!EndFrame
    BY <2>1 DEF Log!EndFrame
  <2>3. Stored' \subseteq Stored
    BY <1>1, <2>2
  <2>4. Promise!Acked \subseteq Stored'
    BY <1>a, <2>1 DEF Promise!Acked, Commit!Acked
  <2>5. Promise!Crash
    BY <2>1, <2>3, <2>4 DEF Promise!Crash, Up, Commit!Up
  <2> QED
    BY <2>5
<1>8. CASE Restart
  <2>1. live' = Stored /\ req' = req /\ pc = "down" /\ pc' = "recv"
    BY <1>0, <1>8 DEF Restart, Commit!Recover, Commit!Up, Stored
  <2>2. ~Log!EndFrame /\ ~Log!PowerLoss
    BY <2>1 DEF Log!EndFrame, Log!PowerLoss, Log!Vanish
  <2>3. Promise!Recover
    BY <1>1, <2>1, <2>2 DEF Promise!Recover, Up, Commit!Up
  <2> QED
    BY <2>3
<1>9. ASSUME UNCHANGED <<req, live>>, ~Log!EndFrame, ~Log!PowerLoss,
             pc' = "down" <=> pc = "down"
      PROVE  UNCHANGED Promise!vars
  BY <1>1, <1>9 DEF Up, Commit!Up
<1>10. Log!Recv \/ Log!Drain \/ Log!CloseBatch \/ Log!BeginFrame \/ Log!WriteFails
         \/ Log!Sync \/ Log!SyncFails \/ UNCHANGED commitOnly
         => /\ UNCHANGED <<req, live>>
            /\ pc' = "down" <=> pc = "down"
  BY DEF Log!Recv, Log!Drain, Log!CloseBatch, Log!BeginFrame, Log!WriteFails, Log!Sync,
         Log!SyncFails, Log!Up, commitOnly
<1>11. CASE UNCHANGED commitOnly
  <2>1. ~Log!EndFrame /\ ~Log!PowerLoss
    BY <1>11 DEF commitOnly, Log!EndFrame, Log!PowerLoss, Log!Vanish, Log!Up
  <2> QED
    BY <1>9, <1>10, <1>11, <2>1
<1>12. CASE RestartWithoutLog
  <2>1. /\ live' = Ckpt!WholeFiles /\ req' = req /\ pc = "down" /\ pc' = "recv"
    BY <1>0, <1>12 DEF RestartWithoutLog, Commit!Recover, Commit!Up
  <2>2. live' \subseteq Stored /\ ~Log!EndFrame /\ ~Log!PowerLoss
    BY <2>1 DEF Log!EndFrame, Log!PowerLoss, Log!Vanish, Stored
  <2>3. Promise!RecoverPartly
    BY <1>1, <2>1, <2>2 DEF Promise!RecoverPartly, Up, Commit!Up
  <2> QED
    BY <2>3
<1>13. CheckpointThread \/ (\E h \in Harvests : AskFull(h) \/ GiveUp(h)) \/ Refresh
         \/ FailedRestart \/ UNCHANGED vars
         => UNCHANGED commitOnly
  BY DEF CheckpointThread, AskFull, GiveUp, Refresh, FailedRestart, vars
<1>14. ASSUME CommitThread
       PROVE  [Promise!Next \/ Promise!RecoverPartly]_(Promise!vars)
  <2>1. Log!CommitThread
    BY <1>14, SameSteps DEF CommitThread
  <2>2. ~Log!PowerLoss
    BY <2>1 DEF Log!PowerLoss, Log!Vanish, Log!CommitThread, Log!Recv, Log!Drain,
                Log!CloseBatch, Log!BeginFrame, Log!EndFrame, Log!WriteFails, Log!Sync,
                Log!SyncFails, Log!Apply, Log!SignalOk, Log!SignalError, Log!Reply
  <2> QED
    BY <1>3, <1>4, <1>5, <1>6, <1>9, <1>10, <2>1, <2>2 DEF Log!CommitThread
<1> QED
  BY <1>2, <1>7, <1>8, <1>11, <1>12, <1>13, <1>14, SameSteps
     DEF Next, Submit, ProcessCrash, PowerLoss

LEMMA InitPromise == Init => PromiseInv /\ Promise!Init
<1> SUFFICES ASSUME Init PROVE PromiseInv /\ Promise!Init
  OBVIOUS
<1>1. ReadTxs(<<>>) = {}
  BY DEF ReadTxs, Readable
<1>2. Stored = {} /\ live = {} /\ pc = "recv" /\ req = [t \in Tx |-> "idle"]
  BY <1>1 DEF Init, Commit!Init, Ckpt!Init, Stored, Ckpt!WholeFiles
<1>3. OnlySubmitted /\ Promise!Init
  BY <1>2 DEF OnlySubmitted, Promise!Init, Up, Commit!Up
<1> QED
  BY <1>3, InitStoreInv, InitApplied, InitKeepInv DEF PromiseInv

\* The daemon as a whole keeps the promise of CommitHandle::commit(): to its
\* callers, the commit thread, the checkpoint thread, the refreshes of other
\* dispatches, the log, the files, half-written ones too, and their crashes and
\* restarts are one disk, as long as no harvest truncates the log; a daemon shows
\* all it has acknowledged, and one that starts shows nothing that is not stored.
THEOREM DaemonKeepsPromise ==
    ASSUME NoHarvests, NoTornFrames
    PROVE  Spec => KeepsPromise
<1>1. PromiseInv /\ [Next]_vars => PromiseInv'
  <2> SUFFICES ASSUME PromiseInv, [Next]_vars PROVE PromiseInv'
    OBVIOUS
  <2>1. step = "truncate" => ~CheckpointThread
    BY NeverTruncates DEF PromiseInv, KeepInv
  <2>2. StoreInv' /\ Applied' /\ KeepInv'
    BY <2>1, NextStoreInv, NextApplied, NextKeepInv DEF PromiseInv, StoreInv
  <2> QED
    BY <2>2, NextOnlySubmitted DEF PromiseInv
<1>2. PromiseInv /\ PromiseInv' /\ [Next]_vars
        => [Promise!Next \/ Promise!RecoverPartly]_(Promise!vars)
  BY NextKeepsPromise
<1> QED
  BY <1>1, <1>2, InitPromise, PTL DEF Spec, KeepsPromise, Promise!SpecPartly

===============================================================================
