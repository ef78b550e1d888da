--------------------------- MODULE GroupCommitProofs ---------------------------
(***************************************************************************)
(* Theorems about group commit, for every number of transactions, batch    *)
(* limit and number of crashes.                                            *)
(***************************************************************************)
EXTENDS GroupCommit, SequenceTheorems, TLAPS

-----------------------------------------------------------------------------
(* Facts about sequences, and about the pieces of the specification. *)

LEMMA FrontFacts ==
    ASSUME NEW S, NEW s \in Seq(S), NEW n \in 0 .. Len(s)
    PROVE  /\ SubSeq(s, 1, n) \in Seq(S)
           /\ Len(SubSeq(s, 1, n)) = n
           /\ \A i \in 1 .. n : SubSeq(s, 1, n)[i] = s[i]
  <1>1. \A i \in 1 .. n : s[i] \in S
    BY ElementOfSeq
  <1> QED
    BY <1>1, SubSeqProperties

LEMMA AllButLastFacts ==
    ASSUME NEW S, NEW s \in Seq(S), Len(s) > 0
    PROVE  /\ AllButLast(s) \in Seq(S)
           /\ Len(AllButLast(s)) = Len(s) - 1
           /\ \A i \in 1 .. Len(s) - 1 : AllButLast(s)[i] = s[i]
  <1>1. Len(s) - 1 \in 0 .. Len(s)
    BY LenProperties
  <1> QED
    BY <1>1, FrontFacts DEF AllButLast

LEMMA FrameFacts ==
    ASSUME NEW prev \in Seq(Tx), NEW t \in Tx
    PROVE  /\ Frame(prev, t) \in Frames
           /\ Frame(prev, t).tx = t
           /\ Frame(prev, t).hash = ChainHash(prev, t)
           /\ Frame(prev, t).whole
           /\ Torn(Frame(prev, t)) \in Frames
           /\ ~Torn(Frame(prev, t)).whole
           /\ ChainHash(prev, t) \in Seq(Tx)
  <1>1. ChainHash(prev, t) \in Seq(Tx)
    BY DEF ChainHash
  <1> QED
    BY <1>1 DEF Frame, Frames, Torn

LEMMA TornFacts ==
    ASSUME NEW f \in Frames
    PROVE  Torn(f) \in Frames /\ ~Torn(f).whole
  BY DEF Frames, Torn

LEMMA HashBeforeType ==
    ASSUME NEW file \in Seq(Frames), NEW i \in 1 .. Len(file) + 1
    PROVE  HashBefore(file, i) \in Seq(Tx)
  <1>1. CASE i = 1
    BY <1>1 DEF HashBefore, GenesisHash
  <1>2. CASE i # 1
    <2>1. i - 1 \in 1 .. Len(file)
      BY <1>2, LenProperties
    <2>2. file[i - 1] \in Frames
      BY <2>1, ElementOfSeq
    <2> QED
      BY <1>2, <2>2 DEF HashBefore, Frames
  <1> QED
    BY <1>1, <1>2

LEMMA ReadTxsType ==
    ASSUME NEW file \in Seq(Frames)
    PROVE  ReadTxs(file) \subseteq Tx
  <1>1. \A i \in DOMAIN file : file[i] \in Frames
    BY LenProperties, ElementOfSeq
  <1> QED
    BY <1>1 DEF ReadTxs, Readable, Frames

-----------------------------------------------------------------------------
(* Type correctness. *)

\* What the type invariant needs to be inductive: a batch is there exactly
\* while the thread works on it, the next transaction is one of the batch when
\* its frame is being written, and that frame is above the fsync watermark.
Control ==
    /\ batch = <<>> <=> pc \in {"recv", "down"}
    /\ pc \in {"append", "write"} => next <= Len(batch) + 1
    /\ pc = "write" => next <= Len(batch) /\ synced < Len(wal)

TypeInv == TypeOK /\ Control

LEMMA InitTypeInv == Init => TypeInv
  <1> SUFFICES ASSUME Init PROVE TypeInv
    OBVIOUS
  <1> USE GroupCommitAssumption DEF Init
  <1>1. channel \in Seq(Tx) /\ batch \in Seq(Tx) /\ wal \in Seq(Frames)
          /\ chain \in Seq(Tx)
    BY EmptySeq DEF GenesisHash
  <1>2. Len(batch) = 0 /\ Len(wal) = 0
    BY EmptySeq
  <1>3. TypeOK
    BY <1>1, <1>2 DEF TypeOK, Outcomes, Steps
  <1>4. Control
    BY DEF Control
  <1> QED
    BY <1>3, <1>4 DEF TypeInv

\* What Vanish does to everything but the log.
LEMMA VanishTypeInv ==
    ASSUME TypeInv, Vanish, wal' \in Seq(Frames), synced' \in 0 .. Len(wal')
    PROVE  TypeInv'
  <1> USE GroupCommitAssumption
  <1>1. channel' \in Seq(Tx) /\ batch' \in Seq(Tx) /\ chain' \in Seq(Tx)
    BY EmptySeq DEF Vanish, GenesisHash
  <1>2. Len(batch') = 0
    BY EmptySeq DEF Vanish
  <1>3. req' \in [Tx -> Outcomes]
    BY DEF TypeInv, TypeOK, Vanish, Outcomes
  <1>4. crashes' \in 0 .. MaxCrashes
    BY DEF TypeInv, TypeOK, Vanish
  <1>5. TypeOK'
    BY <1>1, <1>2, <1>3, <1>4 DEF TypeOK, Vanish, Steps
  <1>6. Control'
    BY DEF Control, Vanish
  <1> QED
    BY <1>5, <1>6 DEF TypeInv

\* The part of the log a process crash leaves behind.
LEMMA InterruptedFacts ==
    ASSUME TypeInv
    PROVE  /\ Interrupted \in Seq(Frames)
           /\ Len(Interrupted) \in synced .. Len(wal)
           /\ \A i \in 1 .. Len(Interrupted) : Interrupted[i] = wal[i]
  <1> USE DEF TypeInv, TypeOK, Control
  <1>1. CASE pc = "write" /\ ~Tears
    <2>1. Len(wal) > 0
      BY <1>1, LenProperties
    <2> QED
      BY <1>1, <2>1, AllButLastFacts, LenProperties DEF Interrupted
  <1>2. CASE ~(pc = "write" /\ ~Tears)
    BY <1>2, LenProperties DEF Interrupted
  <1> QED
    BY <1>1, <1>2

\* What a power loss leaves of the log: n of its frames, and perhaps a torn one.
LEMMA PowerLossFacts ==
    ASSUME TypeInv, PowerLoss
    PROVE  \E n \in synced .. Len(Interrupted) :
             /\ wal' \in Seq(Frames)
             /\ Len(wal') \in {n, n + 1}
             /\ \A i \in 1 .. n : wal'[i] = wal[i]
             /\ Len(wal') = n + 1 => Tears /\ ~wal'[n + 1].whole
  <1> USE DEF TypeInv, TypeOK
  <1>1. PICK n \in synced .. Len(Interrupted) :
          \/ wal' = SubSeq(wal, 1, n)
          \/ /\ Tears
             /\ n < Len(wal)
             /\ wal' = Append(SubSeq(wal, 1, n), Torn(wal[n + 1]))
    BY DEF PowerLoss
  <1>2. n \in 0 .. Len(wal) /\ Len(wal) \in Nat
    BY InterruptedFacts, LenProperties
  <1>3. /\ SubSeq(wal, 1, n) \in Seq(Frames)
        /\ Len(SubSeq(wal, 1, n)) = n
        /\ \A i \in 1 .. n : SubSeq(wal, 1, n)[i] = wal[i]
    BY <1>2, FrontFacts
  <1> SUFFICES /\ wal' \in Seq(Frames)
               /\ Len(wal') \in {n, n + 1}
               /\ \A i \in 1 .. n : wal'[i] = wal[i]
               /\ Len(wal') = n + 1 => Tears /\ ~wal'[n + 1].whole
    OBVIOUS
  <1>4. CASE wal' = SubSeq(wal, 1, n)
    <2>1. n # n + 1
      BY <1>2
    <2> QED
      BY <1>3, <1>4, <2>1
  <1>5. CASE /\ Tears
             /\ n < Len(wal)
             /\ wal' = Append(SubSeq(wal, 1, n), Torn(wal[n + 1]))
    <2>1. wal[n + 1] \in Frames
      BY <1>2, <1>5, ElementOfSeq
    <2>2. Torn(wal[n + 1]) \in Frames /\ ~Torn(wal[n + 1]).whole
      BY <2>1, TornFacts
    <2>3. /\ wal' \in Seq(Frames)
          /\ Len(wal') = n + 1
          /\ \A i \in 1 .. n : wal'[i] = SubSeq(wal, 1, n)[i]
          /\ wal'[n + 1] = Torn(wal[n + 1])
      BY <1>3, <1>5, <2>2, AppendProperties, <1>2
    <2> QED
      BY <1>2, <1>3, <1>5, <2>2, <2>3
  <1> QED
    BY <1>1, <1>4, <1>5

\* A restart into a store that has whatever else it has, such as transaction
\* files: what is proved of the log does not depend on it.
AnyRestart == \E store \in SUBSET Tx : Recover(store)

LogNext ==
    \/ \E t \in Tx : Submit(t)
    \/ CommitThread
    \/ ProcessCrash
    \/ PowerLoss
    \/ AnyRestart

LEMMA NextIsLogNext ==
    ASSUME TypeInv, [Next]_vars
    PROVE  [LogNext]_vars
  <1>1. ReadTxs(wal) \in SUBSET Tx
    BY ReadTxsType DEF TypeInv, TypeOK
  <1>2. Restart => AnyRestart
    BY <1>1 DEF Restart, AnyRestart
  <1> QED
    BY <1>2 DEF Next, LogNext

LEMMA NextTypeInv == TypeInv /\ [LogNext]_vars => TypeInv'
  <1> SUFFICES ASSUME TypeInv, [LogNext]_vars PROVE TypeInv'
    OBVIOUS
  <1> USE GroupCommitAssumption DEF TypeInv, TypeOK, Control
  <1>1. ASSUME NEW t \in Tx, Submit(t) PROVE TypeInv'
    <2>1. channel' \in Seq(Tx)
      BY <1>1, AppendProperties DEF Submit
    <2> QED
      BY <1>1, <2>1 DEF Submit, writerVars, Outcomes, Up
  <1>2. CASE Recv
    <2>1. Head(channel) \in Tx /\ Tail(channel) \in Seq(Tx)
      BY <1>2, HeadTailProperties DEF Recv
    <2>2. <<Head(channel)>> \in Seq(Tx) /\ Len(<<Head(channel)>>) = 1
          /\ <<Head(channel)>> # <<>>
      BY <2>1
    <2> QED
      BY <1>2, <2>1, <2>2 DEF Recv, writerVars, Steps
  <1>3. CASE Drain
    <2>1. Head(channel) \in Tx /\ Tail(channel) \in Seq(Tx)
      BY <1>3, HeadTailProperties DEF Drain
    <2>2. batch' \in Seq(Tx) /\ Len(batch') = Len(batch) + 1 /\ batch' # <<>>
      <3>1. batch \in Seq(Tx) /\ batch' = Append(batch, Head(channel))
        BY <1>3 DEF Drain
      <3> HIDE DEF TypeInv, TypeOK, Control
      <3> QED
        BY <2>1, <3>1, AppendProperties
    <2> QED
      BY <1>3, <2>1, <2>2, LenProperties DEF Drain, writerVars, Steps
  <1>4. CASE CloseBatch
    BY <1>4, LenProperties DEF CloseBatch, writerVars, Steps
  <1>5. CASE BeginFrame
    <2>1. batch[next] \in Tx
      BY <1>5, ElementOfSeq, LenProperties DEF BeginFrame
    <2>2. Torn(Frame(chain, batch[next])) \in Frames
      BY <2>1, FrameFacts
    <2>3. wal' \in Seq(Frames) /\ Len(wal') = Len(wal) + 1
      BY <1>5, <2>2, AppendProperties DEF BeginFrame
    <2> QED
      BY <1>5, <2>3, LenProperties DEF BeginFrame, Steps
  <1>6. CASE EndFrame
    <2>1. batch[next] \in Tx
      BY <1>6, ElementOfSeq, LenProperties DEF EndFrame
    <2>2. Frame(chain, batch[next]) \in Frames
          /\ Frame(chain, batch[next]).hash \in Seq(Tx)
      BY <2>1, FrameFacts
    <2>3. Len(wal) \in 1 .. Len(wal)
      <3>1. pc = "write" /\ wal \in Seq(Frames)
        BY <1>6 DEF EndFrame
      <3>2. Len(wal) > 0
        BY <3>1
      <3> HIDE DEF TypeInv, TypeOK, Control
      <3> QED
        BY <3>1, <3>2, LenProperties
    <2>4. wal' \in Seq(Frames) /\ Len(wal') = Len(wal)
      BY <1>6, <2>2, <2>3, ExceptSeq DEF EndFrame
    <2> QED
      BY <1>6, <2>2, <2>4, LenProperties DEF EndFrame, Steps
  <1>7. CASE WriteFails
    <2>1. Len(wal) > 0
      BY <1>7, LenProperties DEF WriteFails
    <2>2. wal' \in Seq(Frames) /\ Len(wal') \in {Len(wal), Len(wal) - 1}
      BY <1>7, <2>1, AllButLastFacts DEF WriteFails
    <2> QED
      BY <1>7, <2>1, <2>2, LenProperties DEF WriteFails, Steps
  <1>8. CASE Sync
    BY <1>8, LenProperties DEF Sync, Steps
  <1>9. CASE SyncFails
    BY <1>9 DEF SyncFails, writerVars, Steps
  <1>10. CASE Apply
    <2>1. BatchTxs \subseteq Tx
      BY LenProperties, ElementOfSeq DEF BatchTxs
    <2> QED
      BY <1>10, <2>1 DEF Apply, writerVars, Steps
  <1>11. ASSUME NEW s \in {"signal", "fail"}, NEW o \in {"ok", "failed"}, Reply(s, o)
         PROVE  TypeInv'
    <2>1. Tail(batch) \in Seq(Tx) /\ Len(Tail(batch)) = Len(batch) - 1
      BY <1>11, HeadTailProperties DEF Reply
    <2>2. req' \in [Tx -> Outcomes]
      BY <1>11 DEF Reply, Outcomes
    <2>3. batch' = <<>> <=> pc' \in {"recv", "down"}
      BY <1>11 DEF Reply
    <2>4. TypeOK'
      BY <1>11, <2>1, <2>2, LenProperties DEF Reply, writerVars, Steps
    <2>5. pc' \notin {"append", "write"}
      BY <1>11 DEF Reply
    <2> QED
      BY <2>3, <2>4, <2>5
  <1>12. CASE ProcessCrash
    <2>1. wal' \in Seq(Frames) /\ synced' \in 0 .. Len(wal')
      BY <1>12, InterruptedFacts, LenProperties DEF ProcessCrash
    <2> QED
      BY <1>12, <2>1, VanishTypeInv DEF ProcessCrash
  <1>13. CASE PowerLoss
    <2>1. wal' \in Seq(Frames)
      BY <1>13, PowerLossFacts
    <2>2. synced' \in 0 .. Len(wal')
      BY <1>13, <2>1, LenProperties DEF PowerLoss
    <2> QED
      BY <1>13, <2>1, <2>2, VanishTypeInv DEF PowerLoss
  <1>14. CASE AnyRestart
    <2>1. chain' \in Seq(Tx)
      BY <1>14, HashBeforeType, LenProperties DEF AnyRestart, Recover, RecoveredHash
    <2>2. live' \subseteq Tx
      BY <1>14, ReadTxsType DEF AnyRestart, Recover
    <2> QED
      BY <1>14, <2>1, <2>2 DEF AnyRestart, Recover, Up, Steps
  <1>15. CASE UNCHANGED vars
    BY <1>15 DEF vars, writerVars
  <1> QED
    BY <1>1, <1>2, <1>3, <1>4, <1>5, <1>6, <1>7, <1>8, <1>9, <1>10, <1>11,
       <1>12, <1>13, <1>14, <1>15
       DEF LogNext, CommitThread, SignalOk, SignalError

\* The variables stay within their ranges in every behaviour, with any fault.
THEOREM TypeCorrect == Spec => []TypeOK
  <1>1. Init => TypeInv
    BY InitTypeInv
  <1>2. TypeInv /\ [Next]_vars => TypeInv'
    BY NextTypeInv, NextIsLogNext
  <1>3. TypeInv => TypeOK
    BY DEF TypeInv
  <1> QED
    BY <1>1, <1>2, <1>3, PTL DEF Spec

-----------------------------------------------------------------------------
(* The fsync watermark, with any fault. *)

\* No step lowers the watermark or rewrites a frame below it: an interrupted
\* or failed write only ever touches the frame being written.
FsyncedStays ==
    synced' >= synced /\ \A i \in 1 .. synced : wal'[i] = wal[i]

LEMMA NextFsyncedStays == TypeInv /\ [LogNext]_vars => FsyncedStays
  <1> SUFFICES ASSUME TypeInv, [LogNext]_vars PROVE FsyncedStays
    OBVIOUS
  <1> USE DEF TypeInv, TypeOK, Control
  <1>1. CASE BeginFrame
    <2>1. batch[next] \in Tx
      BY <1>1, ElementOfSeq, LenProperties DEF BeginFrame
    <2>2. Torn(Frame(chain, batch[next])) \in Frames
      BY <2>1, FrameFacts
    <2>3. \A i \in 1 .. Len(wal) : wal'[i] = wal[i]
      BY <1>1, <2>2, AppendProperties DEF BeginFrame
    <2> QED
      BY <1>1, <2>3, LenProperties DEF BeginFrame, FsyncedStays
  <1>2. CASE EndFrame
    <2>1. batch[next] \in Tx
      BY <1>2, ElementOfSeq, LenProperties DEF EndFrame
    <2>2. Frame(chain, batch[next]) \in Frames
      BY <2>1, FrameFacts
    <2>3. Len(wal) \in 1 .. Len(wal)
      BY <1>2, LenProperties DEF EndFrame
    <2>4. \A i \in 1 .. Len(wal) - 1 : wal'[i] = wal[i]
      BY <1>2, <2>2, <2>3, ExceptSeq, LenProperties DEF EndFrame
    <2> QED
      BY <1>2, <2>4, LenProperties DEF EndFrame, FsyncedStays
  <1>3. CASE WriteFails
    <2>1. Len(wal) > 0
      BY <1>3, LenProperties DEF WriteFails
    <2>2. \A i \in 1 .. Len(wal) - 1 : wal'[i] = wal[i]
      BY <1>3, <2>1, AllButLastFacts DEF WriteFails
    <2> QED
      BY <1>3, <2>2, LenProperties DEF WriteFails, FsyncedStays
  <1>4. CASE Sync
    BY <1>4 DEF Sync, FsyncedStays
  <1>5. CASE ProcessCrash
    <2>1. synced' = synced /\ wal' = Interrupted
      BY <1>5 DEF ProcessCrash
    <2>2. \A i \in 1 .. synced : Interrupted[i] = wal[i]
      BY InterruptedFacts, LenProperties
    <2> QED
      BY <2>1, <2>2, LenProperties DEF FsyncedStays
  <1>6. CASE PowerLoss
    <2>1. PICK n \in synced .. Len(Interrupted) :
            Len(wal') \in {n, n + 1} /\ \A i \in 1 .. n : wal'[i] = wal[i]
      BY <1>6, PowerLossFacts
    <2>2. Len(Interrupted) \in Nat /\ synced \in Nat /\ n \in Nat /\ n >= synced
      BY InterruptedFacts, LenProperties
    <2>3. synced' = Len(wal')
      BY <1>6 DEF PowerLoss
    <2>4. synced' >= synced
      BY <2>1, <2>2, <2>3
    <2>5. \A i \in 1 .. synced : wal'[i] = wal[i]
      BY <2>1, <2>2
    <2> QED
      BY <2>4, <2>5 DEF FsyncedStays
  <1>7. CASE UNCHANGED <<wal, synced>>
    BY <1>7 DEF FsyncedStays
  <1>8. (\E t \in Tx : Submit(t)) \/ Recv \/ Drain \/ CloseBatch \/ SyncFails
          \/ Apply \/ SignalOk \/ SignalError \/ AnyRestart \/ UNCHANGED vars
        => UNCHANGED <<wal, synced>>
    BY DEF Submit, Recv, Drain, CloseBatch, SyncFails, Apply, SignalOk,
           SignalError, Reply, AnyRestart, Recover, vars, writerVars
  <1> QED
    BY <1>1, <1>2, <1>3, <1>4, <1>5, <1>6, <1>7, <1>8 DEF LogNext, CommitThread

IsSynced(t) == \E i \in 1 .. synced : wal[i].whole /\ wal[i].tx = t

IsLogged(t) ==
    \E i \in 1 .. Len(wal) :
        /\ pc = "write" => i < Len(wal)
        /\ wal[i].whole
        /\ wal[i].tx = t

\* AckedSynced is not inductive: where an answer Ok comes from must be carried
\* along.  The transactions of the batch before the next one have whole frames
\* in the log, and once the fsync is done all frames of the batch are below
\* the watermark.
BatchLogged ==
    /\ pc \in {"append", "write"} => \A j \in 1 .. next - 1 : IsLogged(batch[j])
    /\ pc \in {"apply", "signal"} => \A j \in 1 .. Len(batch) : IsSynced(batch[j])

SyncedInv == TypeInv /\ BatchLogged /\ AckedSynced

LEMMA IsSyncedStays ==
    ASSUME TypeInv, FsyncedStays, TypeInv', NEW t, IsSynced(t)
    PROVE  IsSynced(t)'
  <1>1. PICK i \in 1 .. synced : wal[i].whole /\ wal[i].tx = t
    BY DEF IsSynced
  <1>2. i \in 1 .. synced' /\ wal'[i] = wal[i]
    BY LenProperties DEF FsyncedStays, TypeInv, TypeOK
  <1> QED
    BY <1>1, <1>2 DEF IsSynced

LEMMA NextBatchLogged ==
    ASSUME TypeInv, TypeInv', FsyncedStays, BatchLogged, [LogNext]_vars
    PROVE  BatchLogged'
  <1> USE DEF TypeInv, TypeOK, Control
  <1>1. CASE CloseBatch
    BY <1>1 DEF CloseBatch, BatchLogged
  <1>2. CASE BeginFrame
    <2>1. Torn(Frame(chain, batch[next])) \in Frames
      BY <1>2, ElementOfSeq, LenProperties, FrameFacts DEF BeginFrame
    <2>2. /\ Len(wal') = Len(wal) + 1
          /\ \A i \in 1 .. Len(wal) : wal'[i] = wal[i]
      BY <1>2, <2>1, AppendProperties DEF BeginFrame
    <2>3. ASSUME NEW j \in 1 .. next - 1 PROVE IsLogged(batch[j])'
      <3>1. PICK i \in 1 .. Len(wal) : wal[i].whole /\ wal[i].tx = batch[j]
        BY <1>2 DEF BeginFrame, BatchLogged, IsLogged
      <3>2. i \in 1 .. Len(wal') /\ i < Len(wal') /\ wal'[i] = wal[i]
        BY <2>2, LenProperties
      <3>3. batch' = batch
        BY <1>2 DEF BeginFrame
      <3> QED
        BY <3>1, <3>2, <3>3 DEF IsLogged
    <2> QED
      BY <1>2, <2>3 DEF BeginFrame, BatchLogged
  <1>3. CASE EndFrame
    <2> DEFINE f == Frame(chain, batch[next])
    <2>1. next \in 1 .. Len(batch) /\ batch[next] \in Tx
      BY <1>3, ElementOfSeq, LenProperties DEF EndFrame
    <2>2. f \in Frames /\ f.whole /\ f.tx = batch[next]
      BY <2>1, FrameFacts
    <2>3. Len(wal) \in 1 .. Len(wal)
      BY <1>3, LenProperties DEF EndFrame
    <2>4. /\ Len(wal') = Len(wal)
          /\ \A i \in 1 .. Len(wal) : wal'[i] = IF i = Len(wal) THEN f ELSE wal[i]
      BY <1>3, <2>2, <2>3, ExceptSeq DEF EndFrame
    <2>5. pc' = "append" /\ next' = next + 1 /\ batch' = batch
      BY <1>3 DEF EndFrame
    <2>6. ASSUME NEW j \in 1 .. next' - 1 PROVE IsLogged(batch[j])'
      <3>1. CASE j = next
        <4>1. wal'[Len(wal)].whole /\ wal'[Len(wal)].tx = batch[j]
          BY <2>2, <2>3, <2>4, <3>1
        <4> QED
          BY <2>3, <2>4, <2>5, <4>1 DEF IsLogged
      <3>2. CASE j # next
        <4>1. j \in 1 .. next - 1
          BY <2>5, <3>2
        <4>2. PICK i \in 1 .. Len(wal) :
                i < Len(wal) /\ wal[i].whole /\ wal[i].tx = batch[j]
          BY <1>3, <4>1 DEF EndFrame, BatchLogged, IsLogged
        <4>3. i \in 1 .. Len(wal') /\ wal'[i] = wal[i]
          BY <2>4, <4>2
        <4> QED
          BY <2>5, <4>2, <4>3 DEF IsLogged
      <3> QED
        BY <3>1, <3>2
    <2> QED
      BY <2>5, <2>6 DEF BatchLogged
  <1>4. CASE Sync
    <2>1. next = Len(batch) + 1 /\ pc = "append" /\ pc' = "apply"
          /\ UNCHANGED <<batch, wal>> /\ synced' = Len(wal)
      BY <1>4, LenProperties DEF Sync
    <2>2. ASSUME NEW j \in 1 .. Len(batch) PROVE IsSynced(batch[j])'
      <3>1. j \in 1 .. next - 1
        BY <2>1, LenProperties
      <3>2. IsLogged(batch[j])
        BY <2>1, <3>1 DEF BatchLogged
      <3> QED
        BY <2>1, <3>2 DEF IsLogged, IsSynced
    <2> QED
      BY <2>1, <2>2 DEF BatchLogged
  <1>5. CASE Apply
    <2>1. pc = "apply" /\ pc' = "signal" /\ UNCHANGED <<batch, wal, synced>>
      BY <1>5 DEF Apply, writerVars
    <2> QED
      BY <2>1 DEF BatchLogged, IsSynced
  <1>6. CASE SignalOk
    <2>1. /\ pc = "signal" /\ pc' \in {"recv", "signal"} /\ UNCHANGED <<wal, synced>>
          /\ batch' = Tail(batch)
      BY <1>6 DEF SignalOk, Reply, writerVars
    <2>2. /\ Len(Tail(batch)) = Len(batch) - 1
          /\ \A j \in 1 .. Len(Tail(batch)) : Tail(batch)[j] = batch[j + 1]
      BY <2>1, HeadTailProperties
    <2>3. \A j \in 1 .. Len(batch') : IsSynced(batch[j + 1])
      BY <2>1, <2>2, LenProperties DEF BatchLogged
    <2>4. ASSUME NEW j \in 1 .. Len(batch') PROVE IsSynced(batch[j])'
      BY <2>1, <2>2, <2>3 DEF IsSynced
    <2> QED
      BY <2>1, <2>4 DEF BatchLogged
  <1>7. CASE UNCHANGED <<pc, batch, next, wal, synced>>
    BY <1>7 DEF BatchLogged, IsLogged, IsSynced
  <1>8. (\E t \in Tx : Submit(t)) \/ UNCHANGED vars
        => UNCHANGED <<pc, batch, next, wal, synced>>
    BY DEF Submit, vars, writerVars
  <1>9. CASE pc' \notin {"append", "write", "apply", "signal"}
    BY <1>9 DEF BatchLogged
  <1>10. Recv \/ Drain \/ WriteFails \/ SyncFails \/ SignalError \/ ProcessCrash
           \/ PowerLoss \/ AnyRestart
         => pc' \notin {"append", "write", "apply", "signal"}
    BY DEF Recv, Drain, WriteFails, SyncFails, SignalError, Reply, ProcessCrash,
           PowerLoss, Vanish, AnyRestart, Recover
  <1> QED
    BY <1>1, <1>2, <1>3, <1>4, <1>5, <1>6, <1>7, <1>8, <1>9, <1>10
       DEF LogNext, CommitThread

\* Only SignalOk acknowledges, and only the head of a batch that is synced.
LEMMA NextAcked ==
    ASSUME TypeInv, [LogNext]_vars, NEW t \in Acked', t \notin Acked
    PROVE  SignalOk /\ t = batch[1]
  <1> USE DEF TypeInv, TypeOK, Control, Acked
  <1>1. CASE SignalOk
    <2>1. Head(batch) = batch[1]
      BY <1>1, LenProperties DEF SignalOk, Reply
    <2> QED
      BY <1>1, <2>1 DEF SignalOk, Reply
  <1>2. CASE SignalError
    BY <1>2 DEF SignalError, Reply
  <1>3. CASE \E u \in Tx : Submit(u)
    BY <1>3 DEF Submit
  <1>4. CASE ProcessCrash \/ PowerLoss
    BY <1>4 DEF ProcessCrash, PowerLoss, Vanish
  <1>5. CASE req' = req
    BY <1>5
  <1>6. Recv \/ Drain \/ CloseBatch \/ BeginFrame \/ EndFrame \/ WriteFails \/ Sync
          \/ SyncFails \/ Apply \/ AnyRestart \/ UNCHANGED vars => req' = req
    BY DEF Recv, Drain, CloseBatch, BeginFrame, EndFrame, WriteFails, Sync,
           SyncFails, Apply, AnyRestart, Recover, vars
  <1> QED
    BY <1>1, <1>2, <1>3, <1>4, <1>5, <1>6 DEF LogNext, CommitThread

LEMMA InitSyncedInv == Init => SyncedInv
  <1> SUFFICES ASSUME Init PROVE SyncedInv
    OBVIOUS
  <1>1. AckedSynced
    BY DEF Init, AckedSynced, Acked
  <1>2. BatchLogged
    BY DEF Init, BatchLogged
  <1> QED
    BY <1>1, <1>2, InitTypeInv DEF SyncedInv

LEMMA NextSyncedInv == SyncedInv /\ [LogNext]_vars => SyncedInv'
  <1> SUFFICES ASSUME SyncedInv, [LogNext]_vars PROVE SyncedInv'
    OBVIOUS
  <1>1. TypeInv /\ TypeInv' /\ FsyncedStays
    BY NextTypeInv, NextFsyncedStays DEF SyncedInv
  <1>2. BatchLogged'
    BY <1>1, NextBatchLogged DEF SyncedInv
  <1>3. ASSUME NEW t \in Acked' PROVE IsSynced(t)
    <2>1. CASE t \in Acked
      BY <2>1 DEF SyncedInv, AckedSynced, IsSynced
    <2>2. CASE t \notin Acked
      <3>1. pc = "signal" /\ t = batch[1] /\ batch # <<>>
        BY <1>1, <2>2, NextAcked DEF SignalOk, Reply, TypeInv, Control
      <3>2. 1 \in 1 .. Len(batch)
        BY <1>1, <3>1, EmptySeq DEF TypeInv, TypeOK
      <3> QED
        BY <3>1, <3>2 DEF SyncedInv, BatchLogged
    <2> QED
      BY <2>1, <2>2
  <1>4. AckedSynced'
    BY <1>1, <1>3, IsSyncedStays DEF AckedSynced, IsSynced
  <1> QED
    BY <1>1, <1>2, <1>4 DEF SyncedInv

\* INV-DS2-001 as far as the disk goes, with any fault: what was acknowledged
\* is whole and below the fsync watermark, where no crash reaches it.
THEOREM AckedIsSynced == Spec => []AckedSynced
  <1>1. SyncedInv => AckedSynced
    BY DEF SyncedInv
  <1>2. SyncedInv /\ [Next]_vars => SyncedInv'
    BY NextSyncedInv, NextIsLogNext DEF SyncedInv
  <1> QED
    BY <1>1, <1>2, InitSyncedInv, PTL DEF Spec

-----------------------------------------------------------------------------
(* The chain, when no interrupted write leaves part of a frame behind. *)

\* The frames of the log that are not being written.
Complete == IF pc = "write" THEN Len(wal) - 1 ELSE Len(wal)

\* All of them can be read, the one being written cannot, and the next frame of
\* the commit thread links to the last of them.
Intact ==
    /\ \A i \in 1 .. Complete : Linked(wal, i)
    /\ pc = "write" => ~wal[Len(wal)].whole
    /\ Up => chain = HashBefore(wal, Complete + 1)

LoggedTxs == {wal[i].tx : i \in 1 .. Complete}

LEMMA CompleteFacts ==
    ASSUME TypeInv
    PROVE  /\ Complete \in synced .. Len(wal)
           /\ Complete \in Nat /\ Len(wal) \in Nat
           /\ DOMAIN wal = 1 .. Len(wal)
           /\ pc = "write" => Len(wal) = Complete + 1
           /\ pc # "write" => Len(wal) = Complete
  BY LenProperties DEF TypeInv, TypeOK, Control, Complete

\* Equal prefixes of two files pass the same checks.
LEMMA SamePrefix ==
    ASSUME NEW a, NEW b, NEW n \in Nat, \A i \in 1 .. n : a[i] = b[i]
    PROVE  /\ \A i \in 1 .. n + 1 : HashBefore(a, i) = HashBefore(b, i)
           /\ \A i \in 1 .. n : Linked(a, i) <=> Linked(b, i)
  <1>1. ASSUME NEW i \in 1 .. n + 1 PROVE HashBefore(a, i) = HashBefore(b, i)
    <2>1. CASE i = 1
      BY <2>1 DEF HashBefore
    <2>2. CASE i # 1
      <3>1. i - 1 \in 1 .. n
        BY <2>2
      <3> QED
        BY <2>2, <3>1 DEF HashBefore
    <2> QED
      BY <2>1, <2>2
  <1>2. ASSUME NEW i \in 1 .. n PROVE Linked(a, i) <=> Linked(b, i)
    <2>1. a[i] = b[i] /\ HashBefore(a, i) = HashBefore(b, i)
      BY <1>1
    <2> QED
      BY <2>1 DEF Linked
  <1> QED
    BY <1>1, <1>2

\* A reader gets exactly the complete frames.
LEMMA IntactReads ==
    ASSUME TypeInv, Intact
    PROVE  Readable(wal) = 1 .. Complete /\ ReadTxs(wal) = LoggedTxs
  <1>1. ASSUME NEW i \in Readable(wal) PROVE i \in 1 .. Complete
    <2>1. i \in 1 .. Len(wal) /\ Linked(wal, i)
      BY CompleteFacts DEF Readable
    <2>2. wal[i].whole
      BY <2>1 DEF Linked
    <2>3. ~(pc = "write" /\ i = Len(wal))
      BY <2>2 DEF Intact
    <2>4. CASE pc = "write"
      <3>1. Len(wal) = Complete + 1 /\ Complete \in Nat
        BY <2>4, CompleteFacts
      <3>2. i \in 1 .. Complete + 1 /\ i # Complete + 1
        BY <2>1, <2>3, <2>4, <3>1
      <3> QED
        BY <3>1, <3>2
    <2>5. CASE pc # "write"
      BY <2>1, <2>5, CompleteFacts
    <2> QED
      BY <2>4, <2>5
  <1>2. ASSUME NEW i \in 1 .. Complete PROVE i \in Readable(wal)
    BY CompleteFacts DEF Readable, Intact
  <1>3. Readable(wal) = 1 .. Complete
    BY <1>1, <1>2
  <1> QED
    BY <1>3 DEF ReadTxs, LoggedTxs

\* What a step does to the complete frames: it adds one, drops some at a power
\* loss, or leaves them as they are.
FrameAdded ==
    /\ Complete' = Complete + 1
    /\ wal'[Complete + 1] = Frame(chain, batch[next])

CompleteStep ==
    /\ EndFrame => FrameAdded
    /\ PowerLoss => Complete' <= Complete
    /\ ~EndFrame /\ ~PowerLoss => Complete' = Complete
    /\ \A i \in 1 .. Complete : i <= Complete' => wal'[i] = wal[i]
    /\ pc' = "write" => BeginFrame \/ UNCHANGED <<pc, wal>>

LEMMA NextComplete ==
    ASSUME ~Tears, TypeInv, TypeInv', [LogNext]_vars
    PROVE  CompleteStep
  <1> USE DEF TypeInv, TypeOK, Control
  <1>0. Complete \in Nat /\ Complete' \in Nat /\ Len(wal) \in Nat
    <2>1. Len(wal) \in Nat /\ Len(wal') \in Nat
      BY LenProperties
    <2> QED
      BY <2>1 DEF Complete
  <1>1. CASE BeginFrame
    <2>1. Torn(Frame(chain, batch[next])) \in Frames
      BY <1>1, ElementOfSeq, LenProperties, FrameFacts DEF BeginFrame
    <2>2. /\ Len(wal') = Len(wal) + 1
          /\ \A i \in 1 .. Len(wal) : wal'[i] = wal[i]
      BY <1>1, <2>1, AppendProperties DEF BeginFrame
    <2> QED
      BY <1>0, <1>1, <2>2
         DEF BeginFrame, EndFrame, PowerLoss, Vanish, Complete, CompleteStep
  <1>2. CASE EndFrame
    <2> DEFINE f == Frame(chain, batch[next])
    <2>1. next \in 1 .. Len(batch) /\ batch[next] \in Tx
      BY <1>2, ElementOfSeq, LenProperties DEF EndFrame
    <2>2. f \in Frames
      BY <2>1, FrameFacts
    <2>3. Len(wal) \in 1 .. Len(wal)
      BY <1>2, LenProperties DEF EndFrame
    <2>4. /\ Len(wal') = Len(wal)
          /\ \A i \in 1 .. Len(wal) : wal'[i] = IF i = Len(wal) THEN f ELSE wal[i]
      BY <1>2, <2>2, <2>3, ExceptSeq DEF EndFrame
    <2>5. Complete = Len(wal) - 1 /\ Complete' = Len(wal) /\ pc' = "append"
      BY <1>2, <2>4 DEF EndFrame, Complete
    <2>6. Complete + 1 = Len(wal) /\ wal'[Len(wal)] = f
      <3> HIDE DEF TypeInv, TypeOK, Control, f
      <3>1. Complete + 1 = Len(wal)
        BY <1>0, <2>5
      <3> QED
        BY <2>3, <2>4, <3>1
    <2>7. FrameAdded
      BY <2>5, <2>6 DEF FrameAdded
    <2> QED
      BY <1>0, <1>2, <2>4, <2>5, <2>7 DEF PowerLoss, Vanish, CompleteStep
  <1>3. CASE WriteFails
    <2>1. Len(wal) > 0
      BY <1>3, LenProperties DEF WriteFails
    <2>2. /\ Len(wal') = Len(wal) - 1
          /\ \A i \in 1 .. Len(wal) - 1 : wal'[i] = wal[i]
      BY <1>3, <2>1, AllButLastFacts DEF WriteFails
    <2> QED
      BY <1>0, <1>3, <2>2
         DEF WriteFails, EndFrame, PowerLoss, Vanish, Complete, CompleteStep
  <1>4. Len(Interrupted) = Complete
    <2>1. CASE pc = "write"
      <3>1. Len(wal) > 0
        BY <2>1, LenProperties
      <3>2. Interrupted = AllButLast(wal)
        BY <2>1 DEF Interrupted
      <3> QED
        BY <2>1, <3>1, <3>2, AllButLastFacts DEF Complete
    <2>2. CASE pc # "write"
      BY <2>2 DEF Interrupted, Complete
    <2> QED
      BY <2>1, <2>2
  <1>5. CASE ProcessCrash
    <2>1. wal' = Interrupted /\ pc' = "down"
      BY <1>5 DEF ProcessCrash, Vanish
    <2>2. Complete' = Complete
      BY <1>4, <2>1 DEF Complete
    <2>3. \A i \in 1 .. Len(Interrupted) : Interrupted[i] = wal[i]
      BY InterruptedFacts
    <2> QED
      BY <1>0, <1>4, <2>1, <2>2, <2>3 DEF EndFrame, CompleteStep
  <1>6. CASE PowerLoss
    <2>1. PICK n \in synced .. Len(Interrupted) :
            /\ Len(wal') \in {n, n + 1}
            /\ \A i \in 1 .. n : wal'[i] = wal[i]
            /\ Len(wal') = n + 1 => Tears
      BY <1>6, PowerLossFacts
    <2>2. pc' = "down" /\ Complete' = Len(wal')
      BY <1>6 DEF PowerLoss, Vanish, Complete
    <2>3. Complete' = n
      BY <2>1, <2>2
    <2> QED
      BY <1>0, <1>4, <1>6, <2>1, <2>2, <2>3 DEF EndFrame, CompleteStep
  <1>7. CASE wal' = wal /\ (pc' = pc \/ (pc # "write" /\ pc' # "write"))
    BY <1>0, <1>7 DEF EndFrame, Complete, CompleteStep
  <1>8. (\E t \in Tx : Submit(t)) \/ UNCHANGED vars => wal' = wal /\ pc' = pc
    BY DEF Submit, vars, writerVars
  <1>9. Recv \/ Drain \/ CloseBatch \/ Sync \/ SyncFails \/ Apply \/ SignalOk
          \/ SignalError \/ AnyRestart
        => wal' = wal /\ pc # "write" /\ pc' # "write"
    BY DEF Recv, Drain, CloseBatch, Sync, SyncFails, Apply, SignalOk, SignalError,
           Reply, AnyRestart, Recover, Up, writerVars
  <1>10. \/ BeginFrame \/ EndFrame \/ WriteFails \/ ProcessCrash \/ PowerLoss
         \/ wal' = wal /\ (pc' = pc \/ (pc # "write" /\ pc' # "write"))
    BY <1>8, <1>9 DEF LogNext, CommitThread
  <1> HIDE DEF TypeInv, TypeOK, Control
  <1> QED
    BY <1>1, <1>2, <1>3, <1>5, <1>6, <1>7, <1>10

LEMMA NextIntact ==
    ASSUME ~Tears, TypeInv, TypeInv', Intact, [LogNext]_vars
    PROVE  Intact'
  <1>0. /\ Complete \in Nat /\ Complete' \in Nat
        /\ Len(wal) \in Nat /\ Len(wal') \in Nat
    BY LenProperties DEF Complete, TypeInv, TypeOK, Control
  <1>1. CompleteStep
    BY NextComplete
  <1>2. \A n \in Nat : n <= Complete /\ n <= Complete' =>
          /\ \A i \in 1 .. n + 1 : HashBefore(wal', i) = HashBefore(wal, i)
          /\ \A i \in 1 .. n : Linked(wal', i) <=> Linked(wal, i)
    <2> SUFFICES ASSUME NEW n \in Nat, n <= Complete, n <= Complete'
                 PROVE  /\ \A i \in 1 .. n + 1 : HashBefore(wal', i) = HashBefore(wal, i)
                        /\ \A i \in 1 .. n : Linked(wal', i) <=> Linked(wal, i)
      OBVIOUS
    <2>1. \A i \in 1 .. n : wal'[i] = wal[i]
      BY <1>0, <1>1 DEF CompleteStep
    <2> QED
      BY <2>1, SamePrefix
  <1>3. \A i \in 1 .. Complete' : Linked(wal', i)
    <2>1. CASE EndFrame
      <3> DEFINE f == Frame(chain, batch[next])
      <3>1. Complete' = Complete + 1 /\ wal'[Complete + 1] = f
        BY <1>1, <2>1 DEF CompleteStep, FrameAdded
      <3>2. f.whole /\ f.hash = ChainHash(chain, f.tx)
        <4>1. batch[next] \in Tx /\ chain \in Seq(Tx)
          BY <2>1, ElementOfSeq, LenProperties DEF EndFrame, TypeInv, TypeOK, Control
        <4> QED
          BY <4>1, FrameFacts
      <3>3. chain = HashBefore(wal', Complete + 1)
        <4>1. chain = HashBefore(wal, Complete + 1)
          BY <2>1 DEF Intact, EndFrame, Up
        <4> QED
          BY <1>0, <1>2, <3>1, <4>1
      <3>4. Linked(wal', Complete + 1)
        BY <3>1, <3>2, <3>3 DEF Linked
      <3>5. \A i \in 1 .. Complete : Linked(wal', i)
        BY <1>0, <1>2, <3>1 DEF Intact
      <3> QED
        BY <1>0, <3>1, <3>4, <3>5
    <2>2. CASE Complete' <= Complete
      BY <1>0, <1>2, <2>2 DEF Intact
    <2> QED
      BY <1>0, <1>1, <2>1, <2>2 DEF CompleteStep
  <1>4. ASSUME pc' = "write" PROVE ~wal'[Len(wal')].whole
    <2>1. CASE BeginFrame
      <3> DEFINE g == Torn(Frame(chain, batch[next]))
      <3>1. batch[next] \in Tx /\ chain \in Seq(Tx) /\ wal \in Seq(Frames)
        BY <2>1, ElementOfSeq, LenProperties DEF BeginFrame, TypeInv, TypeOK, Control
      <3>2. g \in Frames /\ ~g.whole
        BY <3>1, FrameFacts
      <3>3. wal'[Len(wal) + 1] = g /\ Len(wal') = Len(wal) + 1
        BY <2>1, <3>1, <3>2, AppendProperties DEF BeginFrame
      <3> QED
        BY <3>2, <3>3
    <2>2. CASE UNCHANGED <<pc, wal>>
      BY <1>4, <2>2 DEF Intact
    <2> QED
      BY <1>1, <1>4, <2>1, <2>2 DEF CompleteStep
  <1>5. ASSUME Up' PROVE chain' = HashBefore(wal', Complete' + 1)
    <2>1. CASE EndFrame
      <3>1. Complete' = Complete + 1 /\ wal'[Complete + 1] = Frame(chain, batch[next])
        BY <1>1, <2>1 DEF CompleteStep, FrameAdded
      <3>2. HashBefore(wal', Complete' + 1) = Frame(chain, batch[next]).hash
        BY <1>0, <3>1 DEF HashBefore
      <3> QED
        BY <2>1, <3>2 DEF EndFrame
    <2>2. CASE AnyRestart
      <3>1. PICK n \in 0 .. Len(wal) :
              Readable(wal) = 1 .. n /\ chain' = HashBefore(wal, n + 1)
        BY <2>2 DEF AnyRestart, Recover, RecoversAt, RecoveredHash
      <3>2. Readable(wal) = 1 .. Complete
        BY IntactReads
      <3>3. n = Complete
        <4> HIDE DEF Complete
        <4>1. ASSUME n < Complete PROVE FALSE
          <5>1. Complete \in 1 .. Complete /\ Complete \notin 1 .. n
            BY <1>0, <4>1
          <5> QED
            BY <3>1, <3>2, <5>1
        <4>2. ASSUME Complete < n PROVE FALSE
          <5>1. n \in 1 .. n /\ n \notin 1 .. Complete
            BY <1>0, <4>2
          <5> QED
            BY <3>1, <3>2, <5>1
        <4> QED
          BY <1>0, <4>1, <4>2
      <3>4. wal' = wal /\ Complete' = Complete
        BY <2>2 DEF AnyRestart, Recover, Up, Complete
      <3> QED
        BY <3>1, <3>3, <3>4
    <2>3. CASE chain' = chain /\ Up /\ Complete' = Complete
      <3>1. chain = HashBefore(wal, Complete + 1)
        BY <2>3 DEF Intact
      <3>2. HashBefore(wal', Complete + 1) = HashBefore(wal, Complete + 1)
        <4>1. \A i \in 1 .. Complete + 1 : HashBefore(wal', i) = HashBefore(wal, i)
          BY <1>0, <1>2, <2>3
        <4>2. Complete + 1 \in 1 .. Complete + 1
          BY <1>0
        <4> QED
          BY <4>1, <4>2
      <3> QED
        BY <2>3, <3>1, <3>2
    <2>4. ~(ProcessCrash \/ PowerLoss)
      BY <1>5 DEF ProcessCrash, PowerLoss, Vanish, Up
    <2>5. ASSUME ~EndFrame, ~AnyRestart PROVE chain' = chain /\ Up
      <3>1. CASE UNCHANGED vars
        BY <1>5, <3>1 DEF vars, writerVars, Up
      <3>2. CASE LogNext
        BY <2>4, <2>5, <3>2
           DEF LogNext, CommitThread, Submit, Recv, Drain, CloseBatch, BeginFrame,
               WriteFails, Sync, SyncFails, Apply, SignalOk, SignalError, Reply,
               writerVars, Up
      <3> QED
        BY <3>1, <3>2
    <2>6. ~EndFrame => Complete' = Complete
      BY <1>1, <2>4 DEF CompleteStep
    <2> QED
      BY <2>1, <2>2, <2>3, <2>5, <2>6
  <1> QED
    BY <1>3, <1>4, <1>5 DEF Intact

\* The log of a disk that writes frames whole or not at all stays readable to
\* its end, over errors, crashes and restarts.
IntactInv == SyncedInv /\ Intact

LEMMA InitIntactInv == Init => IntactInv
  <1> SUFFICES ASSUME Init PROVE Intact
    BY InitSyncedInv DEF IntactInv
  <1>1. Complete = 0
    BY EmptySeq DEF Init, Complete
  <1> QED
    BY <1>1 DEF Init, Intact, HashBefore

LEMMA NextIntactInv ==
    ASSUME ~Tears, IntactInv, [LogNext]_vars
    PROVE  IntactInv'
  <1>1. SyncedInv'
    BY NextSyncedInv DEF IntactInv
  <1>2. TypeInv /\ TypeInv' /\ Intact
    BY <1>1 DEF SyncedInv, IntactInv
  <1> QED
    BY <1>1, <1>2, NextIntact DEF IntactInv

THEOREM LogStaysIntact ==
    ASSUME ~Tears
    PROVE  Spec => []IntactInv
  <1>1. IntactInv /\ [Next]_vars => IntactInv'
    BY NextIntactInv, NextIsLogNext DEF IntactInv, SyncedInv
  <1> QED
    BY <1>1, InitIntactInv, PTL DEF Spec

LEMMA IntactIsDurable ==
    ASSUME IntactInv
    PROVE  AckedDurable
  <1> SUFFICES ASSUME NEW t \in Acked PROVE t \in ReadTxs(wal)
    BY DEF AckedDurable
  <1>1. PICK i \in 1 .. synced : wal[i].tx = t
    BY DEF IntactInv, SyncedInv, AckedSynced
  <1>2. i \in 1 .. Complete
    BY CompleteFacts DEF IntactInv, SyncedInv, TypeInv, TypeOK
  <1> QED
    BY <1>1, <1>2, IntactReads DEF IntactInv, SyncedInv, LoggedTxs

\* INV-DS2-001: whatever commit() said is committed can be read back from the
\* log, provided that no interrupted write leaves part of a frame behind.
THEOREM AckedIsDurable ==
    ASSUME ~Tears
    PROVE  Spec => []AckedDurable
  <1>1. IntactInv => AckedDurable
    BY IntactIsDurable
  <1> QED
    BY <1>1, LogStaysIntact, PTL

-----------------------------------------------------------------------------
(* What a reader finds in the log, and what the daemon shows. *)

LEMMA NextReadTxs ==
    ASSUME ~Tears, TypeInv, TypeInv', Intact, Intact', [LogNext]_vars
    PROVE  /\ EndFrame => ReadTxs(wal') = ReadTxs(wal) \cup {batch[next]}
           /\ PowerLoss => ReadTxs(wal') \subseteq ReadTxs(wal)
           /\ ~EndFrame /\ ~PowerLoss => ReadTxs(wal') = ReadTxs(wal)
  <1>0. Complete \in Nat /\ Complete' \in Nat
    BY LenProperties DEF Complete, TypeInv, TypeOK, Control
  <1>1. CompleteStep
    BY NextComplete
  <1>2. ReadTxs(wal) = {wal[i].tx : i \in 1 .. Complete}
    BY IntactReads DEF LoggedTxs
  <1>3. ReadTxs(wal') = {wal'[i].tx : i \in 1 .. Complete'}
    <2>1. (TypeInv /\ Intact => ReadTxs(wal) = LoggedTxs)'
      BY IntactReads, PTL
    <2> QED
      BY <2>1 DEF LoggedTxs
  <1>4. ASSUME EndFrame PROVE ReadTxs(wal') = ReadTxs(wal) \cup {batch[next]}
    <2>1. Complete' = Complete + 1 /\ wal'[Complete + 1] = Frame(chain, batch[next])
      BY <1>1, <1>4 DEF CompleteStep, FrameAdded
    <2>2. wal'[Complete + 1].tx = batch[next]
      <3>1. batch[next] \in Tx /\ chain \in Seq(Tx)
        BY <1>4, ElementOfSeq, LenProperties DEF EndFrame, TypeInv, TypeOK, Control
      <3> QED
        BY <2>1, <3>1, FrameFacts
    <2>3. \A i \in 1 .. Complete : wal'[i] = wal[i]
      BY <1>0, <1>1, <2>1 DEF CompleteStep
    <2>4. 1 .. Complete' = (1 .. Complete) \cup {Complete + 1}
      BY <1>0, <2>1
    <2> QED
      BY <1>2, <1>3, <2>2, <2>3, <2>4
  <1>5. ASSUME ~EndFrame PROVE ReadTxs(wal') \subseteq ReadTxs(wal)
    <2>1. Complete' <= Complete
      BY <1>0, <1>1, <1>5 DEF CompleteStep
    <2>2. \A i \in 1 .. Complete' : i \in 1 .. Complete /\ wal'[i] = wal[i]
      BY <1>0, <1>1, <2>1 DEF CompleteStep
    <2> QED
      BY <1>2, <1>3, <2>2
  <1>6. ASSUME ~EndFrame, ~PowerLoss PROVE ReadTxs(wal') = ReadTxs(wal)
    <2>1. Complete' = Complete
      BY <1>1, <1>6 DEF CompleteStep
    <2>2. \A i \in 1 .. Complete : wal'[i] = wal[i]
      BY <1>0, <1>1, <2>1 DEF CompleteStep
    <2> QED
      BY <1>2, <1>3, <2>1, <2>2
  <1>7. PowerLoss => ~EndFrame
    BY DEF PowerLoss, EndFrame, Vanish
  <1> QED
    BY <1>4, <1>5, <1>6, <1>7

\* The memory of the daemon holds what was logged; while the answers Ok are
\* given, the whole batch is part of it.
LiveInv ==
    /\ IntactInv
    /\ VisibleLogged
    /\ AckedVisible
    /\ pc = "signal" => \A j \in 1 .. Len(batch) : batch[j] \in live

\* A batch is applied after its fsync, so it is in the log.
LEMMA BatchReadable ==
    ASSUME IntactInv, pc = "apply"
    PROVE  BatchTxs \subseteq ReadTxs(wal)
  <1> USE DEF IntactInv, SyncedInv, TypeInv, TypeOK
  <1>1. ASSUME NEW j \in 1 .. Len(batch) PROVE batch[j] \in ReadTxs(wal)
    <2>1. PICK i \in 1 .. synced : wal[i].tx = batch[j]
      BY DEF BatchLogged, IsSynced
    <2>2. i \in 1 .. Complete
      BY CompleteFacts
    <2> QED
      BY <2>1, <2>2, IntactReads DEF LoggedTxs
  <1> QED
    BY <1>1, LenProperties DEF BatchTxs

LEMMA NextLiveInv ==
    ASSUME ~Tears, LiveInv, IntactInv', [Next]_vars
    PROVE  LiveInv'
  <1>0. /\ TypeInv /\ TypeInv' /\ Intact /\ Intact'
        /\ batch \in Seq(Tx) /\ Len(batch) \in Nat
    BY LenProperties DEF LiveInv, IntactInv, SyncedInv, TypeInv, TypeOK
  <1>l. [LogNext]_vars
    BY <1>0, NextIsLogNext
  <1>1. CASE Apply
    <2>1. /\ live' = live \cup BatchTxs /\ UNCHANGED <<batch, wal, req>>
          /\ pc = "apply" /\ Up'
      BY <1>1 DEF Apply, writerVars, Up
    <2>2. VisibleLogged'
      BY <2>1, BatchReadable DEF LiveInv, VisibleLogged
    <2>3. AckedVisible'
      BY <2>1 DEF LiveInv, AckedVisible, Acked, Up
    <2>4. \A j \in 1 .. Len(batch) : batch[j] \in BatchTxs
      BY <1>0, LenProperties DEF BatchTxs
    <2> QED
      BY <2>1, <2>2, <2>3, <2>4 DEF LiveInv
  <1>2. CASE ProcessCrash \/ PowerLoss
    BY <1>2 DEF ProcessCrash, PowerLoss, Vanish, LiveInv, VisibleLogged,
                AckedVisible, Up
  <1>3. CASE Restart
    <2>1. live' = ReadTxs(wal) /\ wal' = wal /\ req' = req /\ pc' = "recv"
      BY <1>3 DEF Restart, Recover
    <2>2. Acked \subseteq ReadTxs(wal)
      BY IntactIsDurable DEF LiveInv, AckedDurable
    <2> QED
      BY <2>1, <2>2 DEF LiveInv, VisibleLogged, AckedVisible, Acked
  <1>4. CASE SignalOk
    <2>1. /\ live' = live /\ wal' = wal /\ batch' = Tail(batch) /\ batch # <<>>
          /\ pc = "signal" /\ Up /\ pc' \in {"recv", "signal"}
      BY <1>0, <1>4 DEF SignalOk, Reply, writerVars, Up, TypeInv, Control
    <2>2. /\ Len(Tail(batch)) = Len(batch) - 1
          /\ \A j \in 1 .. Len(Tail(batch)) : Tail(batch)[j] = batch[j + 1]
      BY <1>0, <2>1, HeadTailProperties
    <2>3. \A j \in 1 .. Len(batch') : batch'[j] \in live'
      BY <1>0, <2>1, <2>2 DEF LiveInv
    <2>4. Acked' \subseteq live
      <3>1. ASSUME NEW t \in Acked', t \notin Acked PROVE t \in live
        <4>1. t = batch[1]
          BY <1>0, <1>l, <3>1, NextAcked
        <4>2. 1 \in 1 .. Len(batch)
          BY <1>0, <2>1, EmptySeq
        <4> QED
          BY <2>1, <4>1, <4>2 DEF LiveInv
      <3> QED
        BY <2>1, <3>1 DEF LiveInv, AckedVisible
    <2> QED
      BY <2>1, <2>3, <2>4 DEF LiveInv, VisibleLogged, AckedVisible
  <1>5. ASSUME ~Apply, ~ProcessCrash, ~PowerLoss, ~Restart, ~SignalOk
        PROVE  LiveInv'
    <2>1. live' = live /\ (Up' => Up)
          /\ (pc' = "signal" => UNCHANGED <<pc, batch>>)
      <3>1. CASE UNCHANGED vars
        BY <3>1 DEF vars, Up
      <3>2. CASE Next
        BY <1>5, <3>2
           DEF Next, CommitThread, Submit, Recv, Drain, CloseBatch, BeginFrame,
               EndFrame, WriteFails, Sync, SyncFails, SignalError, Reply, Up
      <3> QED
        BY <3>1, <3>2
    <2>2. Acked' \subseteq Acked
      BY <1>0, <1>5, <1>l, NextAcked
    <2>3. ReadTxs(wal) \subseteq ReadTxs(wal')
      BY <1>0, <1>5, <1>l, NextReadTxs
    <2> QED
      BY <2>1, <2>2, <2>3 DEF LiveInv, VisibleLogged, AckedVisible
  <1> QED
    BY <1>1, <1>2, <1>3, <1>4, <1>5

THEOREM LiveStaysLogged ==
    ASSUME ~Tears
    PROVE  Spec => []LiveInv
  <1>1. Init => (IntactInv => LiveInv)
    BY DEF Init, LiveInv, VisibleLogged, AckedVisible, Acked
  <1>2. LiveInv /\ IntactInv' /\ [Next]_vars => LiveInv'
    BY NextLiveInv
  <1> QED
    BY <1>1, <1>2, LogStaysIntact, PTL DEF Spec

\* INV-DS2-003: what was acknowledged is visible in the daemon that did it and
\* in all that follow it.
THEOREM AckedIsVisible ==
    ASSUME ~Tears
    PROVE  Spec => []AckedVisible
  <1>1. LiveInv => AckedVisible
    BY DEF LiveInv
  <1> QED
    BY <1>1, LiveStaysLogged, PTL

\* No query sees what the log could not give back.
THEOREM VisibleIsLogged ==
    ASSUME ~Tears
    PROVE  Spec => []VisibleLogged
  <1>1. LiveInv => VisibleLogged
    BY DEF LiveInv
  <1> QED
    BY <1>1, LiveStaysLogged, PTL

-----------------------------------------------------------------------------
(* The requests. *)

Distinct(s) == \A i, j \in 1 .. Len(s) : s[i] = s[j] => i = j

\* Each caller waits for one transaction, which is in one place.
Waiting ==
    /\ \A i \in 1 .. Len(batch) : req[batch[i]] = "queued"
    /\ \A i \in 1 .. Len(channel) : req[channel[i]] = "queued"
    /\ Distinct(batch) /\ Distinct(channel)
    /\ \A i \in 1 .. Len(batch), j \in 1 .. Len(channel) : batch[i] # channel[j]

LEMMA NextWaiting ==
    ASSUME TypeInv, TypeInv', Waiting, [LogNext]_vars
    PROVE  Waiting'
  <1>0. /\ batch \in Seq(Tx) /\ channel \in Seq(Tx) /\ req \in [Tx -> Outcomes]
        /\ Len(batch) \in Nat /\ Len(channel) \in Nat
        /\ \A i \in 1 .. Len(batch) : batch[i] \in Tx
        /\ \A i \in 1 .. Len(channel) : channel[i] \in Tx
        /\ channel # <<>> => Len(channel) >= 1
        /\ batch # <<>> => Len(batch) >= 1
    <2>1. batch \in Seq(Tx) /\ channel \in Seq(Tx) /\ req \in [Tx -> Outcomes]
      BY DEF TypeInv, TypeOK
    <2>2. /\ Len(batch) \in Nat /\ (batch # <<>> => Len(batch) # 0)
          /\ Len(channel) \in Nat /\ (channel # <<>> => Len(channel) # 0)
      BY <2>1, LenProperties, EmptySeq
    <2>3. /\ \A i \in 1 .. Len(batch) : batch[i] \in Tx
          /\ \A i \in 1 .. Len(channel) : channel[i] \in Tx
      BY <2>1, ElementOfSeq
    <2> QED
      BY <2>1, <2>2, <2>3
  <1>1. ASSUME NEW t \in Tx, Submit(t) PROVE Waiting'
    <2>1. /\ channel' = Append(channel, t) /\ batch' = batch
          /\ req' = [req EXCEPT ![t] = "queued"] /\ req[t] = "idle"
      BY <1>1 DEF Submit
    <2>2. /\ Len(channel') = Len(channel) + 1
          /\ \A i \in 1 .. Len(channel) : channel'[i] = channel[i]
          /\ channel'[Len(channel) + 1] = t
      BY <1>0, <2>1, AppendProperties
    <2>3. /\ \A i \in 1 .. Len(batch) : batch[i] # t
          /\ \A i \in 1 .. Len(channel) : channel[i] # t
      BY <2>1 DEF Waiting
    <2>4. \A i \in 1 .. Len(channel') :
            i \in 1 .. Len(channel) \/ (i = Len(channel) + 1 /\ channel'[i] = t)
      BY <1>0, <2>2
    <2>5. Distinct(channel')
      BY <1>0, <2>2, <2>3, <2>4 DEF Waiting, Distinct
    <2>6. \A i \in 1 .. Len(channel') : req'[channel'[i]] = "queued"
      BY <1>0, <2>1, <2>2, <2>3, <2>4 DEF Waiting
    <2>7. \A i \in 1 .. Len(batch) : req'[batch[i]] = "queued"
      BY <1>0, <2>1, <2>3 DEF Waiting
    <2>8. \A i \in 1 .. Len(batch), j \in 1 .. Len(channel') : batch[i] # channel'[j]
      BY <1>0, <2>2, <2>3, <2>4 DEF Waiting
    <2> QED
      BY <2>1, <2>5, <2>6, <2>7, <2>8 DEF Waiting
  <1>2. CASE Recv
    <2>1. /\ batch' = <<channel[1]>> /\ channel' = Tail(channel) /\ req' = req
          /\ channel # <<>>
      BY <1>0, <1>2 DEF Recv
    <2>2. /\ Len(channel') = Len(channel) - 1
          /\ \A i \in 1 .. Len(channel') : channel'[i] = channel[i + 1]
      BY <1>0, <2>1, HeadTailProperties
    <2>3. Len(batch') = 1 /\ batch'[1] = channel[1]
      BY <2>1
    <2> QED
      BY <1>0, <2>1, <2>2, <2>3 DEF Waiting, Distinct
  <1>3. CASE Drain
    <2>1. /\ batch' = Append(batch, channel[1]) /\ channel' = Tail(channel)
          /\ req' = req /\ channel # <<>> /\ channel[1] \in Tx
      BY <1>0, <1>3 DEF Drain
    <2>2. /\ Len(channel') = Len(channel) - 1
          /\ \A i \in 1 .. Len(channel') : channel'[i] = channel[i + 1]
      BY <1>0, <2>1, HeadTailProperties
    <2>3. /\ Len(batch') = Len(batch) + 1
          /\ \A i \in 1 .. Len(batch) : batch'[i] = batch[i]
          /\ batch'[Len(batch) + 1] = channel[1]
      BY <1>0, <2>1, AppendProperties
    <2>4. \A i \in 1 .. Len(batch') :
            i \in 1 .. Len(batch) \/ (i = Len(batch) + 1 /\ batch'[i] = channel[1])
      BY <1>0, <2>3
    <2>5. 1 \in 1 .. Len(channel)
      BY <1>0, <2>1
    <2>6. \A j \in 1 .. Len(channel') : j + 1 \in 1 .. Len(channel) /\ j + 1 # 1
      BY <1>0, <2>2
    <2>7. Distinct(batch')
      BY <1>0, <2>3, <2>4, <2>5 DEF Waiting, Distinct
    <2>8. Distinct(channel')
      BY <1>0, <2>2, <2>6 DEF Waiting, Distinct
    <2>9. \A i \in 1 .. Len(batch') : req[batch'[i]] = "queued"
      BY <2>3, <2>4, <2>5 DEF Waiting
    <2>10. \A i \in 1 .. Len(channel') : req[channel'[i]] = "queued"
      BY <2>2, <2>6 DEF Waiting
    <2>11. \A i \in 1 .. Len(batch'), j \in 1 .. Len(channel') :
             batch'[i] # channel'[j]
      BY <2>2, <2>3, <2>4, <2>5, <2>6 DEF Waiting, Distinct
    <2> QED
      BY <2>1, <2>7, <2>8, <2>9, <2>10, <2>11 DEF Waiting
  <1>4. ASSUME NEW s \in {"signal", "fail"}, NEW o \in {"ok", "failed"}, Reply(s, o)
        PROVE  Waiting'
    <2>1. /\ batch' = Tail(batch) /\ channel' = channel /\ batch # <<>>
          /\ req' = [req EXCEPT ![batch[1]] = o]
      BY <1>0, <1>4 DEF Reply, TypeInv, Control
    <2>2. /\ Len(batch') = Len(batch) - 1
          /\ \A i \in 1 .. Len(batch') : batch'[i] = batch[i + 1]
      BY <1>0, <2>1, HeadTailProperties
    <2>3. /\ 1 \in 1 .. Len(batch)
          /\ \A i \in 1 .. Len(batch') : i + 1 \in 1 .. Len(batch) /\ i + 1 # 1
      BY <1>0, <2>1, <2>2
    <2>4. \A i \in 1 .. Len(batch') : batch'[i] # batch[1]
      BY <2>2, <2>3 DEF Waiting, Distinct
    <2>5. \A i \in 1 .. Len(batch') : req'[batch'[i]] = "queued"
      BY <1>0, <2>1, <2>2, <2>3, <2>4 DEF Waiting
    <2>6. \A i \in 1 .. Len(channel) : req'[channel[i]] = "queued"
      BY <1>0, <2>1, <2>3 DEF Waiting
    <2>7. Distinct(batch')
      BY <1>0, <2>2, <2>3 DEF Waiting, Distinct
    <2>8. \A i \in 1 .. Len(batch'), j \in 1 .. Len(channel) : batch'[i] # channel[j]
      BY <2>2, <2>3 DEF Waiting
    <2> QED
      BY <2>1, <2>5, <2>6, <2>7, <2>8 DEF Waiting
  <1>5. CASE ProcessCrash \/ PowerLoss
    <2>1. batch' = <<>> /\ channel' = <<>>
      BY <1>5 DEF ProcessCrash, PowerLoss, Vanish
    <2>2. Len(batch') = 0 /\ Len(channel') = 0
      BY <2>1, EmptySeq
    <2> QED
      BY <2>2 DEF Waiting, Distinct
  <1>6. CASE UNCHANGED <<req, channel, batch>>
    BY <1>6 DEF Waiting, Distinct
  <1>7. CloseBatch \/ BeginFrame \/ EndFrame \/ WriteFails \/ Sync \/ SyncFails
          \/ Apply \/ AnyRestart \/ UNCHANGED vars
        => UNCHANGED <<req, channel, batch>>
    BY DEF CloseBatch, BeginFrame, EndFrame, WriteFails, Sync, SyncFails, Apply,
           AnyRestart, Recover, vars
  <1> QED
    BY <1>1, <1>2, <1>3, <1>4, <1>5, <1>6, <1>7
       DEF LogNext, CommitThread, SignalOk, SignalError

-----------------------------------------------------------------------------
(* What was once acknowledged and readable, with any fault. *)

\* Every frame of an acknowledged transaction, or of one about to be, is below
\* the fsync watermark; the frame being written is not whole.
Marked ==
    /\ \A i \in 1 .. Len(wal) : wal[i].tx \in Acked => i <= synced
    /\ pc \in {"apply", "signal"} =>
         \A i \in 1 .. Len(wal), j \in 1 .. Len(batch) :
             wal[i].tx = batch[j] => i <= synced
    /\ pc = "write" => ~wal[Len(wal)].whole

LEMMA NextMarked ==
    ASSUME TypeInv, TypeInv', Waiting, Marked, [LogNext]_vars
    PROVE  Marked'
  <1>0. /\ wal \in Seq(Frames) /\ batch \in Seq(Tx) /\ chain \in Seq(Tx)
        /\ Len(wal) \in Nat /\ Len(wal') \in Nat /\ Len(batch) \in Nat
        /\ synced \in 0 .. Len(wal) /\ synced' \in Nat /\ synced <= synced'
        /\ req \in [Tx -> Outcomes]
        /\ \A j \in 1 .. Len(batch) : batch[j] \in Tx
    BY NextFsyncedStays, LenProperties, ElementOfSeq
       DEF TypeInv, TypeOK, FsyncedStays
  <1>1. CASE BeginFrame
    <2> DEFINE g == Torn(Frame(chain, batch[next]))
    <2>1. /\ next \in 1 .. Len(batch) /\ wal' = Append(wal, g)
          /\ UNCHANGED <<req, synced>> /\ pc' = "write"
      BY <1>0, <1>1 DEF BeginFrame, TypeInv, TypeOK
    <2>2. g \in Frames /\ ~g.whole /\ g.tx = batch[next]
      BY <1>0, <2>1, FrameFacts DEF Torn, Frame
    <2>3. /\ Len(wal') = Len(wal) + 1
          /\ \A i \in 1 .. Len(wal) : wal'[i] = wal[i]
          /\ wal'[Len(wal) + 1] = g
      BY <1>0, <2>1, <2>2, AppendProperties
    <2>4. batch[next] \notin Acked
      BY <2>1 DEF Waiting, Acked
    <2>5. \A i \in 1 .. Len(wal') : i \in 1 .. Len(wal) \/ i = Len(wal) + 1
      BY <1>0, <2>3
    <2> QED
      BY <2>1, <2>2, <2>3, <2>4, <2>5 DEF Marked, Acked
  <1>2. CASE EndFrame
    <2> DEFINE f == Frame(chain, batch[next])
    <2>1. /\ next \in 1 .. Len(batch) /\ wal' = [wal EXCEPT ![Len(wal)] = f]
          /\ UNCHANGED <<req, synced>> /\ pc' = "append"
          /\ Len(wal) \in 1 .. Len(wal)
      BY <1>0, <1>2 DEF EndFrame, TypeInv, TypeOK, Control
    <2>2. f \in Frames /\ f.tx = batch[next]
      BY <1>0, <2>1, FrameFacts
    <2>3. /\ Len(wal') = Len(wal)
          /\ \A i \in 1 .. Len(wal) : wal'[i] = IF i = Len(wal) THEN f ELSE wal[i]
      BY <1>0, <2>1, <2>2, ExceptSeq
    <2>4. batch[next] \notin Acked
      BY <2>1 DEF Waiting, Acked
    <2> QED
      BY <2>1, <2>2, <2>3, <2>4 DEF Marked, Acked
  <1>3. CASE WriteFails
    <2>1. /\ UNCHANGED <<req, synced>> /\ pc' = "fail"
          /\ wal' = AllButLast(wal) \/ wal' = wal
          /\ Len(wal) > 0
      BY <1>0, <1>3 DEF WriteFails, TypeInv, Control
    <2>2. \A i \in 1 .. Len(wal') : i \in 1 .. Len(wal) /\ wal'[i] = wal[i]
      BY <1>0, <2>1, AllButLastFacts
    <2> QED
      BY <2>1, <2>2 DEF Marked, Acked
  <1>4. CASE Sync
    BY <1>0, <1>4 DEF Sync, Marked
  <1>5. CASE Apply
    BY <1>5 DEF Apply, writerVars, Marked, Acked
  <1>6. CASE SignalOk
    <2>1. /\ batch # <<>> /\ 1 \in 1 .. Len(batch) /\ batch' = Tail(batch)
          /\ req' = [req EXCEPT ![batch[1]] = "ok"] /\ UNCHANGED <<wal, synced>>
          /\ pc = "signal" /\ pc' \in {"recv", "signal"}
      BY <1>0, <1>6, EmptySeq DEF SignalOk, Reply, writerVars, TypeInv, Control
    <2>2. \A j \in 1 .. Len(batch') : j + 1 \in 1 .. Len(batch) /\ batch'[j] = batch[j + 1]
      BY <1>0, <2>1, HeadTailProperties
    <2>3. Acked' \subseteq Acked \cup {batch[1]}
      BY <1>0, <2>1 DEF Acked
    <2> QED
      BY <2>1, <2>2, <2>3 DEF Marked
  <1>7. CASE ProcessCrash \/ PowerLoss
    <2>1. /\ Acked' \subseteq Acked /\ pc' = "down"
      BY <1>0, <1>7 DEF ProcessCrash, PowerLoss, Vanish, Acked
    <2>2. CASE PowerLoss
      BY <2>1, <2>2 DEF PowerLoss, Marked
    <2>3. CASE ProcessCrash
      <3>1. wal' = Interrupted /\ synced' = synced
        BY <2>3 DEF ProcessCrash
      <3>2. \A i \in 1 .. Len(wal') : i \in 1 .. Len(wal) /\ wal'[i] = wal[i]
        BY <1>0, <3>1, InterruptedFacts
      <3> QED
        BY <2>1, <3>1, <3>2 DEF Marked
    <2> QED
      BY <1>7, <2>2, <2>3
  <1>8. ASSUME UNCHANGED <<wal, synced>>, Acked' \subseteq Acked,
               pc' \notin {"apply", "signal", "write"} \/ UNCHANGED <<pc, batch>>
        PROVE  Marked'
    BY <1>8 DEF Marked
  <1>9. (\E t \in Tx : Submit(t)) \/ Recv \/ Drain \/ CloseBatch \/ SyncFails
          \/ AnyRestart \/ UNCHANGED vars
        => /\ UNCHANGED <<wal, synced>> /\ Acked' \subseteq Acked
           /\ pc' \notin {"apply", "signal", "write"} \/ UNCHANGED <<pc, batch>>
    BY <1>0 DEF Submit, Recv, Drain, CloseBatch, SyncFails, AnyRestart, Recover,
                writerVars, vars, Acked
  <1>10. CASE SignalError
    BY <1>0, <1>8, <1>10 DEF SignalError, Reply, writerVars, Acked
  <1> QED
    BY <1>1, <1>2, <1>3, <1>4, <1>5, <1>6, <1>7, <1>8, <1>9, <1>10
       DEF LogNext, CommitThread

MarkInv == TypeInv /\ Waiting /\ Marked

LEMMA InitMarkInv == Init => MarkInv
  <1> SUFFICES ASSUME Init PROVE Waiting /\ Marked
    BY InitTypeInv DEF MarkInv
  <1>1. Len(batch) = 0 /\ Len(channel) = 0 /\ Len(wal) = 0
    BY EmptySeq DEF Init
  <1> QED
    BY <1>1 DEF Init, Waiting, Distinct, Marked

LEMMA NextMarkInv ==
    ASSUME MarkInv, [LogNext]_vars
    PROVE  MarkInv'
  <1>1. TypeInv'
    BY NextTypeInv DEF MarkInv
  <1> QED
    BY <1>1, NextWaiting, NextMarked DEF MarkInv

\* Frames below the watermark are out of reach of errors and crashes.
LEMMA ReadableKept ==
    ASSUME MarkInv, [LogNext]_vars
    PROVE  Acked \cap ReadTxs(wal) \subseteq ReadTxs(wal')
  <1> SUFFICES ASSUME NEW t \in Acked, t \in ReadTxs(wal) PROVE t \in ReadTxs(wal')
    OBVIOUS
  <1>0. Len(wal) \in Nat /\ Len(wal') \in Nat /\ synced \in Nat
        /\ DOMAIN wal = 1 .. Len(wal) /\ DOMAIN wal' = 1 .. Len(wal')
        /\ synced <= synced' /\ synced' <= Len(wal') /\ synced' \in Nat
        /\ \A i \in 1 .. synced : wal'[i] = wal[i]
    BY NextFsyncedStays, NextTypeInv, LenProperties
       DEF MarkInv, TypeInv, TypeOK, FsyncedStays
  <1>1. PICK i \in 1 .. Len(wal) : wal[i].tx = t /\ \A j \in 1 .. i : Linked(wal, j)
    BY <1>0 DEF ReadTxs, Readable
  <1>2. i <= synced
    BY <1>1 DEF MarkInv, Marked
  <1>3. \A j \in 1 .. i : Linked(wal', j)
    <2>1. \A j \in 1 .. i : wal'[j] = wal[j]
      BY <1>0, <1>2
    <2> QED
      BY <1>1, <2>1, SamePrefix
  <1>4. i \in DOMAIN wal' /\ wal'[i].tx = t
    BY <1>0, <1>1, <1>2
  <1> QED
    BY <1>3, <1>4 DEF ReadTxs, Readable

\* Once acknowledged and readable, a transaction stays readable, whatever
\* fails, torn frames included.
THEOREM ReadableAlwaysStays == Spec => ReadableStays
  <1>1. MarkInv /\ [Next]_vars => MarkInv'
    BY NextMarkInv, NextIsLogNext DEF MarkInv
  <1>2. MarkInv /\ [Next]_vars => [Acked \cap ReadTxs(wal) \subseteq ReadTxs(wal')]_vars
    BY ReadableKept, NextIsLogNext DEF MarkInv
  <1> QED
    BY <1>1, <1>2, InitMarkInv, PTL DEF Spec, ReadableStays

-----------------------------------------------------------------------------
(* No request is forgotten: what an answer to every caller rests on. *)

\* Whoever waits in commit() is in the channel or in the batch.
Attended ==
    \A t \in Tx : req[t] = "queued" =>
        \/ \E i \in 1 .. Len(channel) : channel[i] = t
        \/ \E j \in 1 .. Len(batch) : batch[j] = t

LEMMA NextAttended ==
    ASSUME TypeInv, Attended, [LogNext]_vars
    PROVE  Attended'
  <1>0. /\ channel \in Seq(Tx) /\ batch \in Seq(Tx) /\ req \in [Tx -> Outcomes]
        /\ Len(channel) \in Nat /\ Len(batch) \in Nat
        /\ batch # <<>> => 1 \in 1 .. Len(batch)
        /\ channel # <<>> => 1 \in 1 .. Len(channel)
    BY LenProperties, EmptySeq DEF TypeInv, TypeOK
  <1>1. ASSUME NEW t \in Tx, Submit(t) PROVE Attended'
    <2>1. /\ channel' = Append(channel, t) /\ batch' = batch
          /\ req' = [req EXCEPT ![t] = "queued"]
      BY <1>1 DEF Submit
    <2>2. /\ Len(channel') = Len(channel) + 1
          /\ channel'[Len(channel) + 1] = t
          /\ \A i \in 1 .. Len(channel) : channel'[i] = channel[i]
      BY <1>0, <2>1, AppendProperties
    <2>3. \E i \in 1 .. Len(channel') : channel'[i] = t
      BY <1>0, <2>2
    <2>4. \A u \in Tx : u # t => req'[u] = req[u]
      BY <1>0, <2>1
    <2> QED
      BY <1>0, <2>1, <2>2, <2>3, <2>4 DEF Attended
  <1>2. CASE Recv \/ Drain
    <2>1. /\ channel # <<>> /\ channel' = Tail(channel) /\ req' = req
          /\ \/ batch' = <<channel[1]>> /\ batch = <<>>
             \/ batch' = Append(batch, channel[1])
      BY <1>0, <1>2 DEF Recv, Drain, TypeInv, Control
    <2>2. /\ Len(channel') = Len(channel) - 1
          /\ \A i \in 1 .. Len(channel') : channel'[i] = channel[i + 1]
      BY <1>0, <2>1, HeadTailProperties
    <2>3. /\ \E j \in 1 .. Len(batch') : batch'[j] = channel[1]
          /\ \A j \in 1 .. Len(batch) : j \in 1 .. Len(batch') /\ batch'[j] = batch[j]
      <3>1. CASE batch' = <<channel[1]>> /\ batch = <<>>
        BY <3>1, EmptySeq
      <3>2. CASE batch' = Append(batch, channel[1])
        <4>1. channel[1] \in Tx
          BY <1>0, <2>1, ElementOfSeq
        <4>2. /\ Len(batch') = Len(batch) + 1 /\ batch'[Len(batch) + 1] = channel[1]
              /\ \A j \in 1 .. Len(batch) : batch'[j] = batch[j]
          BY <1>0, <3>2, <4>1, AppendProperties
        <4> QED
          BY <1>0, <4>2
      <3> QED
        BY <2>1, <3>1, <3>2
    <2> SUFFICES ASSUME NEW t \in Tx, req[t] = "queued"
                 PROVE  \/ \E i \in 1 .. Len(channel') : channel'[i] = t
                        \/ \E j \in 1 .. Len(batch') : batch'[j] = t
      BY <2>1 DEF Attended
    <2>4. CASE \E j \in 1 .. Len(batch) : batch[j] = t
      BY <2>3, <2>4
    <2>5. ASSUME NEW i \in 1 .. Len(channel), channel[i] = t, i # 1
          PROVE  \E k \in 1 .. Len(channel') : channel'[k] = t
      <3>1. i - 1 \in 1 .. Len(channel') /\ channel'[i - 1] = t
        BY <1>0, <2>2, <2>5
      <3> QED
        BY <3>1
    <2> QED
      BY <2>3, <2>4, <2>5 DEF Attended
  <1>3. ASSUME NEW s \in {"signal", "fail"}, NEW o \in {"ok", "failed"}, Reply(s, o)
        PROVE  Attended'
    <2>1. /\ batch # <<>> /\ channel' = channel
          /\ req' = [req EXCEPT ![batch[1]] = o] /\ batch' = Tail(batch)
      BY <1>0, <1>3 DEF Reply, TypeInv, Control
    <2>2. /\ Len(batch') = Len(batch) - 1
          /\ \A i \in 1 .. Len(batch') : batch'[i] = batch[i + 1]
      BY <1>0, <2>1, HeadTailProperties
    <2>3. ASSUME NEW t \in Tx, req'[t] = "queued", NEW j \in 1 .. Len(batch), batch[j] = t
          PROVE  \E k \in 1 .. Len(batch') : batch'[k] = t
      <3>1. j - 1 \in 1 .. Len(batch') /\ batch'[j - 1] = t
        BY <1>0, <2>1, <2>2, <2>3
      <3> QED
        BY <3>1
    <2>4. \A t \in Tx : req'[t] = "queued" => req[t] = "queued"
      BY <1>0, <2>1
    <2> QED
      BY <2>1, <2>3, <2>4 DEF Attended
  <1>4. CASE ProcessCrash \/ PowerLoss
    BY <1>0, <1>4 DEF ProcessCrash, PowerLoss, Vanish, Attended
  <1>5. CASE UNCHANGED <<req, channel, batch>>
    BY <1>5 DEF Attended
  <1>6. CloseBatch \/ BeginFrame \/ EndFrame \/ WriteFails \/ Sync \/ SyncFails
          \/ Apply \/ AnyRestart \/ UNCHANGED vars
          => UNCHANGED <<req, channel, batch>>
    BY DEF CloseBatch, BeginFrame, EndFrame, WriteFails, Sync, SyncFails, Apply,
           AnyRestart, Recover, vars
  <1> QED
    BY <1>1, <1>2, <1>3, <1>4, <1>5, <1>6
       DEF LogNext, CommitThread, SignalOk, SignalError

\* No caller of commit() waits for an answer that nobody has to give, on the error
\* paths of the commit thread no more than elsewhere, and whatever fails.
THEOREM NoRequestForgotten == Spec => []Attended
  <1>1. Init => Attended
    BY DEF Init, Attended
  <1>2. TypeInv /\ Attended /\ [Next]_vars => Attended'
    BY NextAttended, NextIsLogNext
  <1> QED
    BY <1>1, <1>2, InitTypeInv, NextTypeInv, NextIsLogNext, PTL DEF Spec

-----------------------------------------------------------------------------
(* Group commit implements DurableCommit. *)

\* A transaction is logged and shown only on behalf of a caller, and while the
\* caller waits it is shown only between the apply step and its answer.
Hidden ==
    /\ \A t \in ReadTxs(wal) : req[t] # "idle"
    /\ \A t \in live : req[t] = "queued" =>
         pc = "signal" /\ \E j \in 1 .. Len(batch) : batch[j] = t
    /\ ~Up => \A t \in Tx : req[t] # "queued"

RefInv == LiveInv /\ Waiting /\ Hidden

LEMMA NextHidden ==
    ASSUME ~Tears, RefInv, LiveInv', [Next]_vars
    PROVE  Hidden'
  <1>0. /\ TypeInv /\ TypeInv' /\ Intact /\ Intact' /\ Waiting
        /\ batch \in Seq(Tx) /\ req \in [Tx -> Outcomes] /\ live \subseteq Tx
        /\ Len(batch) \in Nat
        /\ \A i \in 1 .. Len(batch) : batch[i] \in Tx
        /\ live \subseteq ReadTxs(wal) /\ ReadTxs(wal) \subseteq Tx
        /\ batch # <<>> => 1 \in 1 .. Len(batch)
    BY LenProperties, ElementOfSeq, EmptySeq, ReadTxsType
       DEF RefInv, LiveInv, IntactInv, SyncedInv, VisibleLogged, TypeInv, TypeOK
  <1>1. /\ EndFrame => ReadTxs(wal') = ReadTxs(wal) \cup {batch[next]}
        /\ PowerLoss => ReadTxs(wal') \subseteq ReadTxs(wal)
        /\ ~EndFrame /\ ~PowerLoss => ReadTxs(wal') = ReadTxs(wal)
    BY <1>0, NextReadTxs, NextIsLogNext
  <1>2. ASSUME NEW t \in Tx, Submit(t) PROVE Hidden'
    <2>1. /\ req' = [req EXCEPT ![t] = "queued"] /\ req[t] = "idle" /\ Up /\ Up'
          /\ live' = live /\ pc' = pc /\ batch' = batch
      BY <1>2 DEF Submit, Up
    <2>2. ~EndFrame /\ ~PowerLoss
      BY <2>1, <1>0 DEF EndFrame, PowerLoss, Vanish, Up
    <2>3. t \notin ReadTxs(wal)
      BY <2>1 DEF RefInv, Hidden
    <2>4. \A u \in Tx : u # t => req'[u] = req[u]
      BY <1>0, <2>1
    <2> QED
      BY <1>0, <1>1, <2>1, <2>2, <2>3, <2>4 DEF RefInv, Hidden
  <1>3. CASE EndFrame
    <2>1. req' = req /\ live' = live /\ pc = "write" /\ pc' = "append"
      BY <1>3 DEF EndFrame
    <2>2. req[batch[next]] = "queued"
      <3>1. next \in 1 .. Len(batch)
        BY <1>0, <1>3 DEF EndFrame, TypeInv, TypeOK, Control
      <3> QED
        BY <1>0, <3>1 DEF Waiting
    <2> QED
      BY <1>1, <1>3, <2>1, <2>2 DEF RefInv, Hidden, Up
  <1>4. CASE Apply
    <2>1. /\ req' = req /\ live' = live \cup BatchTxs /\ batch' = batch
          /\ pc = "apply" /\ pc' = "signal"
      BY <1>4 DEF Apply
    <2>2. ~EndFrame /\ ~PowerLoss
      BY <2>1 DEF EndFrame, PowerLoss, Vanish
    <2>3. \A t \in BatchTxs : \E j \in 1 .. Len(batch) : batch[j] = t
      BY <1>0, LenProperties DEF BatchTxs
    <2> QED
      BY <1>1, <2>1, <2>2, <2>3 DEF RefInv, Hidden, Up
  <1>5. CASE SignalOk
    <2>1. /\ req' = [req EXCEPT ![batch[1]] = "ok"] /\ live' = live
          /\ batch' = Tail(batch) /\ batch # <<>> /\ pc = "signal" /\ Up'
          /\ pc' = IF Tail(batch) = <<>> THEN "recv" ELSE "signal"
      BY <1>0, <1>5 DEF SignalOk, Reply, Up, TypeInv, Control
    <2>2. ~EndFrame /\ ~PowerLoss
      BY <2>1 DEF EndFrame, PowerLoss, Vanish, Up
    <2>3. /\ Len(batch') = Len(batch) - 1
          /\ \A i \in 1 .. Len(batch') : batch'[i] = batch[i + 1]
          /\ batch' = <<>> => Len(batch') = 0
      BY <1>0, <2>1, HeadTailProperties, EmptySeq
    <2>4. ASSUME NEW t \in live, req'[t] = "queued"
          PROVE  pc' = "signal" /\ \E j \in 1 .. Len(batch') : batch'[j] = t
      <3>1. t # batch[1] /\ req[t] = "queued"
        BY <1>0, <2>1, <2>4
      <3>2. PICK j \in 1 .. Len(batch) : batch[j] = t
        BY <3>1 DEF RefInv, Hidden
      <3>3. j - 1 \in 1 .. Len(batch')
        BY <1>0, <2>3, <3>1, <3>2
      <3>4. batch'[j - 1] = t
        BY <1>0, <2>3, <3>2, <3>3
      <3>5. pc' = "signal"
        BY <1>0, <2>1, <2>3, <3>3
      <3> QED
        BY <3>3, <3>4, <3>5
    <2>5. \A t \in ReadTxs(wal) : req'[t] # "idle"
      BY <1>0, <2>1 DEF RefInv, Hidden
    <2> QED
      BY <1>1, <2>1, <2>2, <2>4, <2>5 DEF Hidden
  <1>6. CASE SignalError
    <2>1. /\ req' = [req EXCEPT ![batch[1]] = "failed"] /\ live' = live
          /\ pc = "fail" /\ Up' /\ batch # <<>>
      BY <1>0, <1>6 DEF SignalError, Reply, Up, TypeInv, Control
    <2>2. ~EndFrame /\ ~PowerLoss
      BY <2>1 DEF EndFrame, PowerLoss, Vanish, Up
    <2>3. \A t \in live : req'[t] # "queued"
      BY <1>0, <2>1 DEF RefInv, Hidden
    <2>4. \A t \in ReadTxs(wal) : req'[t] # "idle"
      BY <1>0, <2>1 DEF RefInv, Hidden
    <2> QED
      BY <1>1, <2>1, <2>2, <2>3, <2>4 DEF Hidden
  <1>7. CASE ProcessCrash \/ PowerLoss
    <2>1. /\ req' = [t \in Tx |-> IF req[t] = "queued" THEN "lost" ELSE req[t]]
          /\ live' = {}
      BY <1>7 DEF ProcessCrash, PowerLoss, Vanish
    <2>2. ~EndFrame
      BY <1>7 DEF EndFrame, ProcessCrash, PowerLoss, Vanish
    <2>3. ReadTxs(wal') \subseteq ReadTxs(wal)
      BY <1>1, <2>2
    <2>4. \A t \in Tx : req'[t] # "queued"
      BY <1>0, <2>1
    <2>5. \A t \in ReadTxs(wal) : req'[t] # "idle"
      BY <1>0, <2>1 DEF RefInv, Hidden
    <2> QED
      BY <2>1, <2>3, <2>4, <2>5 DEF Hidden
  <1>8. CASE Restart
    <2>1. live' = ReadTxs(wal) /\ req' = req /\ wal' = wal /\ ~Up /\ Up'
      BY <1>8 DEF Restart, Recover, Up
    <2> QED
      BY <1>0, <2>1 DEF RefInv, Hidden
  <1>9. ASSUME UNCHANGED <<req, live>>, ~EndFrame, ~PowerLoss,
               pc = "signal" => UNCHANGED <<pc, batch>>, Up' <=> Up
        PROVE  Hidden'
    BY <1>1, <1>9 DEF RefInv, Hidden
  <1>10. Recv \/ Drain \/ CloseBatch \/ BeginFrame \/ WriteFails \/ Sync \/ SyncFails
           \/ UNCHANGED vars
         => /\ UNCHANGED <<req, live>>
            /\ pc = "signal" => UNCHANGED <<pc, batch>>
            /\ Up' <=> Up
    BY DEF Recv, Drain, CloseBatch, BeginFrame, WriteFails, Sync, SyncFails, vars, Up
  <1> QED
    BY <1>2, <1>3, <1>4, <1>5, <1>6, <1>7, <1>8, <1>9, <1>10
       DEF Next, CommitThread

\* The steps of DurableCommit behind the steps of GroupCommit.
LEMMA NextRefines ==
    ASSUME ~Tears, RefInv, RefInv', [Next]_vars
    PROVE  [Durable!Next]_(Durable!vars)
  <1> USE DEF Durable!Next, Durable!vars
  <1>0. /\ TypeInv /\ TypeInv' /\ Intact /\ Intact' /\ Waiting /\ Hidden
        /\ batch \in Seq(Tx) /\ req \in [Tx -> Outcomes]
        /\ Len(batch) \in Nat
        /\ \A i \in 1 .. Len(batch) : batch[i] \in Tx
        /\ batch # <<>> => 1 \in 1 .. Len(batch)
    BY LenProperties, ElementOfSeq, EmptySeq
       DEF RefInv, LiveInv, IntactInv, SyncedInv, TypeInv, TypeOK
  <1>1. /\ EndFrame => ReadTxs(wal') = ReadTxs(wal) \cup {batch[next]}
        /\ PowerLoss => ReadTxs(wal') \subseteq ReadTxs(wal)
        /\ ~EndFrame /\ ~PowerLoss => ReadTxs(wal') = ReadTxs(wal)
    BY <1>0, NextReadTxs, NextIsLogNext
  <1>2. ASSUME NEW t \in Tx, Submit(t) PROVE Durable!Next
    <2>1. ~EndFrame /\ ~PowerLoss
      BY <1>2 DEF Submit, EndFrame, PowerLoss, Vanish, Up
    <2>2. Durable!Submit(t)
      BY <1>1, <1>2, <2>1 DEF Submit, Up, Durable!Submit
    <2> QED
      BY <2>2
  <1>3. CASE EndFrame
    <2>1. next \in 1 .. Len(batch) /\ batch[next] \in Tx
      BY <1>0, <1>3 DEF EndFrame, TypeInv, TypeOK, Control
    <2>2. Durable!Persist(batch[next])
      BY <1>0, <1>1, <1>3, <2>1 DEF EndFrame, Waiting, Up, Durable!Persist
    <2> QED
      BY <2>1, <2>2
  <1>4. CASE Apply
    <2>1. pc = "apply" /\ live' = live \cup BatchTxs /\ UNCHANGED <<req, wal>>
          /\ pc' = "signal"
      BY <1>4 DEF Apply, writerVars
    <2>2. BatchTxs \in SUBSET Tx /\ \A t \in BatchTxs : req[t] = "queued"
      BY <1>0, LenProperties DEF BatchTxs, Waiting
    <2>3. BatchTxs \subseteq ReadTxs(wal)
      BY <2>1, BatchReadable DEF RefInv, LiveInv
    <2>4. Durable!Publish(BatchTxs)
      BY <2>1, <2>2, <2>3 DEF Durable!Publish, Up
    <2> QED
      BY <2>2, <2>4
  <1>5. CASE SignalOk
    <2>1. /\ req' = [req EXCEPT ![batch[1]] = "ok"] /\ UNCHANGED <<live, wal>>
          /\ 1 \in 1 .. Len(batch) /\ pc = "signal" /\ Up /\ Up'
      BY <1>0, <1>5 DEF SignalOk, Reply, writerVars, Up, TypeInv, Control
    <2>2. batch[1] \in Tx /\ req[batch[1]] = "queued"
      BY <1>0, <2>1 DEF Waiting
    <2>3. batch[1] \in ReadTxs(wal) \cap live
      BY <2>1 DEF RefInv, LiveInv, VisibleLogged
    <2>4. Durable!Ack(batch[1])
      BY <2>1, <2>2, <2>3 DEF Durable!Ack
    <2> QED
      BY <2>2, <2>4
  <1>6. CASE SignalError
    <2>1. /\ req' = [req EXCEPT ![batch[1]] = "failed"] /\ UNCHANGED <<live, wal>>
          /\ 1 \in 1 .. Len(batch) /\ pc = "fail" /\ Up /\ Up'
      BY <1>0, <1>6 DEF SignalError, Reply, writerVars, Up, TypeInv, Control
    <2>2. batch[1] \in Tx /\ req[batch[1]] = "queued"
      BY <1>0, <2>1 DEF Waiting
    <2>3. batch[1] \notin live
      BY <1>0, <2>1, <2>2 DEF Hidden
    <2>4. Durable!Reject(batch[1])
      BY <2>1, <2>2, <2>3 DEF Durable!Reject
    <2> QED
      BY <2>2, <2>4
  <1>7. CASE ProcessCrash \/ PowerLoss
    <2>1. /\ req' = [t \in Tx |-> IF req[t] = "queued" THEN "lost" ELSE req[t]]
          /\ live' = {} /\ Up /\ ~Up'
      BY <1>7 DEF ProcessCrash, PowerLoss, Vanish, Up
    <2>2. ~EndFrame
      BY <1>7 DEF EndFrame, ProcessCrash, PowerLoss, Vanish
    <2>3. ReadTxs(wal') \subseteq ReadTxs(wal)
      BY <1>1, <2>2
    <2>4. \A t \in Tx : req[t] = "ok" => req'[t] = "ok"
      BY <1>0, <2>1
    <2>5. AckedDurable'
      BY IntactIsDurable, PTL DEF RefInv, LiveInv
    <2>6. Durable!Acked \subseteq ReadTxs(wal')
      BY <2>4, <2>5 DEF AckedDurable, Acked, Durable!Acked
    <2>7. Durable!Crash
      BY <2>1, <2>3, <2>6 DEF Durable!Crash, Durable!Acked
    <2> QED
      BY <2>7
  <1>8. CASE Restart
    <2>1. Durable!Recover
      BY <1>8 DEF Restart, Recover, Up, Durable!Recover
    <2> QED
      BY <2>1
  <1>9. CASE UNCHANGED <<req, live>> /\ ~EndFrame /\ ~PowerLoss /\ (Up' <=> Up)
    BY <1>1, <1>9 DEF Up
  <1>10. Recv \/ Drain \/ CloseBatch \/ BeginFrame \/ WriteFails \/ Sync \/ SyncFails
           \/ UNCHANGED vars
         => UNCHANGED <<req, live>> /\ (Up' <=> Up)
    BY DEF Recv, Drain, CloseBatch, BeginFrame, WriteFails, Sync, SyncFails, vars, Up
  <1> QED
    BY <1>2, <1>3, <1>4, <1>5, <1>6, <1>7, <1>8, <1>9, <1>10
       DEF Next, CommitThread

\* CommitHandle::commit keeps its promise: every behaviour of the commit
\* thread, its log and its crashes is one of DurableCommit.
THEOREM Refinement ==
    ASSUME ~Tears
    PROVE  Spec => ImplementsDurableCommit
  <1>1. Init => Durable!Init
    <2> SUFFICES ASSUME Init PROVE Durable!Init
      OBVIOUS
    <2>1. ReadTxs(<<>>) = {}
      BY DEF ReadTxs, Readable
    <2> QED
      BY <2>1 DEF Init, Durable!Init, Up
  <1>2. Init => (LiveInv => RefInv)
    <2> SUFFICES ASSUME Init, LiveInv PROVE RefInv
      OBVIOUS
    <2>1. ReadTxs(wal) = {}
      BY DEF Init, ReadTxs, Readable
    <2>2. Len(batch) = 0 /\ Len(channel) = 0
      BY EmptySeq DEF Init
    <2>3. Waiting
      BY <2>2 DEF Waiting, Distinct
    <2>4. Hidden
      BY <2>1 DEF Init, Hidden, Up
    <2> QED
      BY <2>3, <2>4 DEF RefInv
  <1>3. RefInv /\ LiveInv' /\ [Next]_vars => RefInv'
    <2> SUFFICES ASSUME RefInv, LiveInv', [Next]_vars PROVE RefInv'
      OBVIOUS
    <2>1. TypeInv /\ TypeInv' /\ Waiting
      BY DEF RefInv, LiveInv, IntactInv, SyncedInv
    <2>2. Waiting'
      BY <2>1, NextWaiting, NextIsLogNext
    <2> QED
      BY <2>2, NextHidden DEF RefInv
  <1>4. RefInv /\ RefInv' /\ [Next]_vars => [Durable!Next]_(Durable!vars)
    BY NextRefines
  <1> QED
    BY <1>1, <1>2, <1>3, <1>4, LiveStaysLogged, PTL
       DEF Spec, ImplementsDurableCommit, Durable!Spec

================================================================================
