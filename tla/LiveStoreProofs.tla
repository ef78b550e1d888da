--------------------------- MODULE LiveStoreProofs ----------------------------
(***************************************************************************)
(* Theorems about LiveStore, for any number of transactions, processes,    *)
(* shard directories and opened stores.                                    *)
(***************************************************************************)
EXTENDS LiveStore, FiniteSetTheorems, TLAPS

\* The hypothesis that others see the cache before or after its replacement.
NoCacheRace == "cache_race" \notin Faults

-----------------------------------------------------------------------------
(* Types, and the flock. *)

Types ==
    /\ disk \in [Tx -> {"absent", "partial", "whole"}]
    /\ status \in [Tx -> {"new", "begun", "ok"}]
    /\ corrupt \subseteq Tx
    /\ dirs \subseteq 1 .. Shards
    /\ wal \subseteq Logged
    /\ converting \subseteq wal
    /\ passed \subseteq wal
    /\ bin \subseteq Tx
    /\ meta \in [tx_hashes : SUBSET Tx, datom_count : 0 .. Cardinality(Tx) + Old]
    /\ opens \in 0 .. MaxOpens
    /\ pc \in [Proc -> Steps]
    /\ fellback \in [Proc -> BOOLEAN]
    /\ writing \in [Proc -> SUBSET Tx]
    /\ shard \in [Proc -> 0 .. Shards]
    /\ seen \in [Proc -> SUBSET Tx]
    /\ mem \in [Proc -> SUBSET Tx]
    /\ known \in [Proc -> SUBSET Tx]
    /\ mtime \in [Proc -> SUBSET (1 .. Shards)]
    /\ dirty \in [Proc -> BOOLEAN]

Flushing == {"list_flush", "flush", "flush_meta"}

\* The flock is held by the process in flush, if there is one.
Locked ==
    /\ lock = {p \in Proc : pc[p] \in Flushing}
    /\ \A p, q \in lock : p = q

TypeInv == Types /\ Locked

LEMMA Counts ==
    /\ Old \in Nat /\ Cardinality(Tx) \in Nat
    /\ \A S \in SUBSET Tx : Cardinality(S) \in 0 .. Cardinality(Tx)
<1>1. Old \in Nat /\ IsFiniteSet(Tx)
  BY LiveStoreAssumption
<1>2. Cardinality(Tx) \in Nat
  BY <1>1, FS_CardinalityType
<1>3. ASSUME NEW S \in SUBSET Tx PROVE Cardinality(S) \in 0 .. Cardinality(Tx)
  <2>1. IsFiniteSet(S) /\ Cardinality(S) <= Cardinality(Tx)
    BY <1>1, FS_Subset
  <2>2. Cardinality(S) \in Nat
    BY <2>1, FS_CardinalityType
  <2> QED
    BY <1>2, <2>1, <2>2
<1> QED
  BY <1>1, <1>2, <1>3

LEMMA DirsType ==
    ASSUME dirs \subseteq 1 .. Shards, NEW t \in Tx
    PROVE  dirs \cup {ShardOf[t]} \subseteq 1 .. Shards
  BY LiveStoreAssumption

LEMMA CountsOfCache ==
    ASSUME Types, NEW p \in Proc
    PROVE  CacheMeta(p) \in [tx_hashes : SUBSET Tx,
                             datom_count : 0 .. Cardinality(Tx) + Old]
<1>1. mem[p] \subseteq Tx /\ known[p] \subseteq Tx
  BY DEF Types
<1>2. Cardinality(mem[p]) + Old \in 0 .. Cardinality(Tx) + Old
  BY <1>1, Counts
<1> QED
  BY <1>1, <1>2 DEF CacheMeta

LEMMA ListedType == Listed \subseteq Tx /\ Whole \subseteq Tx /\ Partial \subseteq Listed
  BY DEF Listed, Whole, Partial

LEMMA LoadedType ==
    ASSUME NEW list \in SUBSET Tx, bin \subseteq Tx
    PROVE  Loaded(list) \subseteq Tx
  BY DEF Loaded, Delta

LEMMA EnterTypes ==
    ASSUME Types, NEW p \in Proc, NEW at \in Steps, Enter(p, at)
    PROVE  /\ pc' \in [Proc -> Steps]
           /\ shard' \in [Proc -> 0 .. Shards]
           /\ seen' \in [Proc -> SUBSET Tx]
  BY LiveStoreAssumption DEF Types, Enter

LEMMA InitTypeInv == Init => TypeInv
<1> SUFFICES ASSUME Init PROVE TypeInv
  OBVIOUS
<1>1. meta \in [tx_hashes : SUBSET Tx, datom_count : 0 .. Cardinality(Tx) + Old]
  <2>1. 0 \in 0 .. Cardinality(Tx) + Old /\ Old \in 0 .. Cardinality(Tx) + Old
    BY Counts
  <2> QED
    BY <2>1 DEF Init
<1>2. Types
  BY <1>1, LiveStoreAssumption DEF Init, Types, Steps
<1> QED
  BY <1>2 DEF Init, TypeInv, Locked, Flushing

LEMMA NextTypes == Types /\ [Next]_vars => Types'
<1> SUFFICES ASSUME Types, [Next]_vars PROVE Types'
  OBVIOUS
<1> USE LiveStoreAssumption DEF Types, Steps
<1>1. ASSUME NEW p \in Proc, Open(p) PROVE Types'
  BY <1>1 DEF Open, Enter, diskVars, cacheVars
<1>2. ASSUME NEW p \in Proc, ListShard(p) PROVE Types'
  <2>1. seen' \in [Proc -> SUBSET Tx]
    BY <1>2, ListedType DEF ListShard
  <2> QED
    BY <1>2, <2>1 DEF ListShard, diskVars, cacheVars
<1>3. ASSUME NEW p \in Proc, Load(p) PROVE Types'
  <2>1. mem' \in [Proc -> SUBSET Tx]
    BY <1>3, LoadedType DEF Load
  <2> QED
    BY <1>3, <2>1 DEF Load, Enter, diskVars, cacheVars
<1>4. ASSUME NEW p \in Proc, LoadFails(p) PROVE Types'
  <2>1. disk' \in [Tx -> {"absent", "partial", "whole"}] /\ corrupt' \subseteq Tx
    BY <1>4, ListedType DEF LoadFails, Quarantine
  <2> QED
    BY <1>4, <2>1, EnterTypes DEF LoadFails, cacheVars
<1>5. ASSUME NEW p \in Proc, NEW at, NEW then \in Steps, SaveBin(p, at, then)
      PROVE  Types'
  BY <1>5 DEF SaveBin, diskVars
<1>6. ASSUME NEW p \in Proc, NEW at, NEW then \in Steps, SaveMeta(p, at, then),
             UNCHANGED dirty \/ dirty' = [dirty EXCEPT ![p] = FALSE]
      PROVE  Types'
  <2>1. CacheMeta(p) \in [tx_hashes : SUBSET Tx,
                          datom_count : 0 .. Cardinality(Tx) + Old]
    BY CountsOfCache
  <2> QED
    BY <1>6, <2>1 DEF SaveMeta, diskVars
<1>7. ASSUME NEW p \in Proc, Opened(p) PROVE Types'
  <2>1. CASE p \in Daemon /\ ~fellback[p]
    <3>1. (~(wal \subseteq known[p])) \in BOOLEAN
      OBVIOUS
    <3>2. dirty' \in [Proc -> BOOLEAN]
      BY <1>7, <2>1, <3>1 DEF Opened
    <3>3. wal \subseteq Tx
      OBVIOUS
    <3> QED
      BY <1>7, <2>1, <3>2, <3>3 DEF Opened, diskVars, cacheVars
  <2>2. CASE ~(p \in Daemon /\ ~fellback[p])
    BY <1>7, <2>2 DEF Opened, diskVars, cacheVars
  <2> QED
    BY <2>1, <2>2
<1>8. ASSUME NEW p \in Proc, NEW t \in Tx, BeginWrite(p, t) PROVE Types'
  <2>1. dirs' \subseteq 1 .. Shards
    BY <1>8, DirsType DEF BeginWrite
  <2> QED
    BY <1>8, <2>1 DEF BeginWrite, cacheVars
<1>9. ASSUME NEW p \in Proc, FinishWrite(p) PROVE Types'
  <2>1. PICK t \in writing[p] :
          /\ disk' = [disk EXCEPT ![t] = IF @ = "partial" THEN "whole" ELSE @]
          /\ status' = [status EXCEPT ![t] = "ok"]
          /\ known' = [known EXCEPT ![p] = @ \cup {t}]
          /\ mem' = [mem EXCEPT ![p] = @ \cup {t}]
    BY <1>9 DEF FinishWrite, Fill
  <2>2. t \in Tx
    OBVIOUS
  <2>3. /\ known' \in [Proc -> SUBSET Tx] /\ mem' \in [Proc -> SUBSET Tx]
        /\ disk' \in [Tx -> {"absent", "partial", "whole"}]
        /\ status' \in [Tx -> {"new", "begun", "ok"}]
    BY <2>1, <2>2
  <2> QED
    BY <1>9, <2>3 DEF FinishWrite, cacheVars
<1>10. ASSUME NEW d \in Proc, NEW t \in Tx, CommitLogged(d, t) PROVE Types'
  BY <1>10 DEF CommitLogged, cacheVars
<1>11. ASSUME NEW d \in Proc, NEW t \in Tx, BeginConvert(d, t) PROVE Types'
  <2>1. dirs' \subseteq 1 .. Shards
    BY <1>11, DirsType DEF BeginConvert
  <2> QED
    BY <1>11, <2>1 DEF BeginConvert, AtEntry, cacheVars, procVars
<1>12. ASSUME NEW d \in Proc, NEW t \in Tx, SkipConvert(d, t) PROVE Types'
  BY <1>12 DEF SkipConvert, AtEntry, cacheVars, procVars
<1>20. ASSUME FinishConvert PROVE Types'
  <2>1. PICK t \in converting : Fill(t) /\ passed' = passed \cup {t}
    BY <1>20 DEF FinishConvert
  <2>2. t \in Tx /\ passed' \subseteq wal
    BY <2>1
  <2>3. disk' \in [Tx -> {"absent", "partial", "whole"}]
    BY <2>1, <2>2 DEF Fill
  <2> QED
    BY <1>20, <2>2, <2>3 DEF FinishConvert, cacheVars, procVars
<1>21. ASSUME NEW d \in Proc, TruncateLog(d) PROVE Types'
  BY <1>21 DEF TruncateLog, cacheVars, procVars
<1>13. ASSUME NEW p \in Proc, RefreshBegins(p) PROVE Types'
  BY <1>13 DEF RefreshBegins, Enter, diskVars, cacheVars
<1>14. ASSUME NEW p \in Proc, RefreshEnds(p) PROVE Types'
  <2> DEFINE new == seen[p] \ known[p]
  <2>1. /\ UNCHANGED <<status, dirs, wal, converting, passed, cacheVars, opens, fellback,
                       writing, mtime>>
        /\ Enter(p, "ready")
        /\ \/ UNCHANGED <<disk, corrupt, mem, known, dirty>>
           \/ /\ mem' = [mem EXCEPT ![p] = @ \cup (new \cap Whole)]
              /\ known' = [known EXCEPT ![p] = seen[p]]
              /\ dirty' = [dirty EXCEPT ![p] = TRUE]
              /\ Quarantine(new)
    BY <1>14 DEF RefreshEnds
  <2>2. new \cap Whole \subseteq Tx
    BY ListedType
  <2>3. Quarantine(new) => /\ disk' \in [Tx -> {"absent", "partial", "whole"}]
                           /\ corrupt' \subseteq Tx
    BY ListedType DEF Quarantine
  <2>4. /\ mem' \in [Proc -> SUBSET Tx] /\ known' \in [Proc -> SUBSET Tx]
        /\ dirty' \in [Proc -> BOOLEAN]
        /\ disk' \in [Tx -> {"absent", "partial", "whole"}] /\ corrupt' \subseteq Tx
    <3>1. CASE UNCHANGED <<disk, corrupt, mem, known, dirty>>
      BY <3>1
    <3>2. CASE /\ mem' = [mem EXCEPT ![p] = @ \cup (new \cap Whole)]
               /\ known' = [known EXCEPT ![p] = seen[p]]
               /\ dirty' = [dirty EXCEPT ![p] = TRUE]
               /\ Quarantine(new)
      <4>1. mem' \in [Proc -> SUBSET Tx]
        BY <2>2, <3>2
      <4> QED
        BY <2>3, <3>2, <4>1
    <3> QED
      BY <2>1, <3>1, <3>2
  <2> QED
    BY <2>1, <2>4, EnterTypes DEF cacheVars
<1>15. ASSUME NEW p \in Proc, FlushSkipped(p) PROVE Types'
  BY <1>15 DEF FlushSkipped, diskVars, cacheVars
<1>16. ASSUME NEW p \in Proc, FlushBegins(p) PROVE Types'
  BY <1>16 DEF FlushBegins, Enter, diskVars
<1>17. ASSUME NEW p \in Proc, FlushRefused(p) \/ FlushAgreed(p) PROVE Types'
  BY <1>17, EnterTypes DEF FlushRefused, FlushAgreed, diskVars, cacheVars
<1>18. ASSUME NEW p \in Proc, Exit(p) PROVE Types'
  BY <1>18 DEF Exit, Enter
<1>19. CASE UNCHANGED vars
  BY <1>19 DEF vars, diskVars, cacheVars, procVars
<1> QED
  BY <1>1, <1>2, <1>3, <1>4, <1>5, <1>6, <1>7, <1>8, <1>9, <1>10, <1>11, <1>12,
     <1>13, <1>14, <1>15, <1>16, <1>17, <1>18, <1>19, <1>20, <1>21
     DEF Next, SaveLoaded, SaveFlushed


\* FlushBegins takes the flock, the end of the flush and the kernel release it.
LEMMA NextLocked ==
    ASSUME Types, Locked, [Next]_vars
    PROVE  Locked'
<1> USE DEF Locked, Flushing
<1>1. ASSUME NEW p \in Proc, pc[p] \notin Flushing, UNCHANGED lock,
             NEW at \in Steps \ Flushing, pc' = [pc EXCEPT ![p] = at]
      PROVE  Locked'
  BY <1>1 DEF Types
<1>2. ASSUME NEW p \in Proc, pc[p] \in Flushing, lock' = {},
             NEW at \in Steps \ Flushing, pc' = [pc EXCEPT ![p] = at]
      PROVE  Locked'
  BY <1>2 DEF Types
<1>3. ASSUME NEW p \in Proc, pc[p] \in Flushing, UNCHANGED lock,
             NEW at \in Flushing, pc' = [pc EXCEPT ![p] = at]
      PROVE  Locked'
  BY <1>3 DEF Types
<1>4. ASSUME NEW p \in Proc, FlushBegins(p) PROVE Locked'
  BY <1>4 DEF Types, FlushBegins, Idle, Enter
<1>5. ASSUME NEW p \in Proc, Exit(p) PROVE Locked'
  BY <1>5 DEF Types, Exit, Enter
<1>6. CASE UNCHANGED <<pc, lock>>
  BY <1>6
<1>7. ASSUME NEW p \in Proc, FlushRefused(p) PROVE Locked'
  BY <1>2, <1>7 DEF FlushRefused, ListDone, Enter, Steps
<1>8. ASSUME NEW p \in Proc, FlushAgreed(p) PROVE Locked'
  BY <1>3, <1>8 DEF FlushAgreed, ListDone, Enter, cacheVars
<1>9. ASSUME NEW p \in Proc, SaveFlushed(p) PROVE Locked'
  BY <1>2, <1>3, <1>9 DEF SaveFlushed, SaveBin, SaveMeta, Steps
<1>10. ASSUME NEW p \in Proc, SaveLoaded(p) PROVE Locked'
  BY <1>1, <1>10 DEF SaveLoaded, SaveBin, SaveMeta, Steps
<1>11. ASSUME NEW p \in Proc, Load(p) PROVE Locked'
  BY <1>1, <1>11 DEF Load, ListDone, Enter, Steps, cacheVars
<1>12. ASSUME NEW p \in Proc,
              Open(p) \/ LoadFails(p) \/ Opened(p) \/ FinishWrite(p)
                \/ RefreshBegins(p) \/ RefreshEnds(p)
       PROVE  Locked'
  BY <1>1, <1>12 DEF Open, LoadFails, Opened, FinishWrite, RefreshBegins, RefreshEnds,
                     Enter, ListDone, Idle, Steps, cacheVars
<1>13. ASSUME NEW p \in Proc, NEW t \in Tx, BeginWrite(p, t) PROVE Locked'
  BY <1>1, <1>13 DEF BeginWrite, Idle, Steps, cacheVars
<1>14. ASSUME NEW p \in Proc, ListShard(p) \/ FlushSkipped(p) PROVE Locked'
  BY <1>6, <1>14 DEF ListShard, FlushSkipped, cacheVars
<1>15. ASSUME NEW d \in Daemon,
              \/ \E t \in Tx : CommitLogged(d, t) \/ BeginConvert(d, t) \/ SkipConvert(d, t)
              \/ TruncateLog(d)
       PROVE  Locked'
  BY <1>6, <1>15 DEF CommitLogged, BeginConvert, SkipConvert, TruncateLog, cacheVars, procVars
<1>16. ASSUME FinishConvert PROVE Locked'
  BY <1>6, <1>16 DEF FinishConvert, cacheVars, procVars
<1>17. CASE UNCHANGED vars
  BY <1>6, <1>17 DEF vars, cacheVars, procVars
<1> QED
  BY <1>4, <1>5, <1>7, <1>8, <1>9, <1>10, <1>11, <1>12, <1>13, <1>14, <1>15, <1>16, <1>17
     DEF Next

LEMMA NextTypeInv == TypeInv /\ [Next]_vars => TypeInv'
  BY NextTypes, NextLocked DEF TypeInv

LEMMA LockedCardinality == Locked => Cardinality(lock) <= 1
<1> SUFFICES ASSUME Locked PROVE Cardinality(lock) <= 1
  OBVIOUS
<1>1. lock = {} \/ \E p \in lock : lock = {p}
  BY DEF Locked
<1> QED
  BY <1>1, FS_EmptySet, FS_Singleton

\* The variables keep their types, and the flock is held exactly by the one
\* process that is in flush, whatever fails.
THEOREM TypeCorrect == Spec => []TypeOK
<1>1. TypeInv => TypeOK
  BY LockedCardinality DEF TypeInv, Types, Locked, Flushing, TypeOK
<1> QED
  BY <1>1, InitTypeInv, NextTypeInv, PTL DEF Spec

-----------------------------------------------------------------------------
(* What stores and caches hold is finished, and files only come or are moved   *)
(* away.                                                                       *)

Finished == {t \in Tx : status[t] = "ok"}

Held ==
    /\ Whole \cup wal \cup bin \subseteq Finished
    /\ \A p \in Proc : mem[p] \subseteq Finished

\* What no step undoes.
FilesStep ==
    /\ Finished \subseteq Finished'
    /\ corrupt \subseteq corrupt'
    /\ Listed \subseteq Listed' \cup corrupt'

LEMMA QuarantineFiles ==
    ASSUME Types, NEW S, Quarantine(S), UNCHANGED status
    PROVE  FilesStep /\ Whole' = Whole
<1>1. \A t \in Tx : disk'[t] = disk[t] \/ (disk[t] = "partial" /\ t \in corrupt')
  BY DEF Quarantine, Partial, Listed, Whole, Types
<1>2. \A t \in Tx : disk'[t] # "whole" => disk[t] # "whole"
  BY DEF Quarantine, Partial, Listed, Whole, Types
<1>3. \A t \in Tx : disk'[t] = "whole" => disk[t] = "whole"
  BY DEF Quarantine, Types
<1>4. corrupt \subseteq corrupt' /\ Finished' = Finished
  BY DEF Quarantine, Finished
<1> QED
  BY <1>1, <1>2, <1>3, <1>4 DEF FilesStep, Listed, Whole

LEMMA FillFiles ==
    ASSUME Types, NEW t \in Tx, Fill(t)
    PROVE  Listed' = Listed /\ Whole' \subseteq Whole \cup {t}
<1>1. \A u \in Tx : (disk'[u] = "absent") <=> (disk[u] = "absent")
  BY DEF Fill, Types
<1>2. \A u \in Tx \ {t} : disk'[u] = disk[u]
  BY DEF Fill, Types
<1> QED
  BY <1>1, <1>2 DEF Listed, Whole

LEMMA SameFiles ==
    ASSUME UNCHANGED <<disk, status, corrupt>>
    PROVE  FilesStep /\ Whole' = Whole /\ Finished' = Finished
  BY DEF FilesStep, Finished, Listed, Whole

\* What a step does to files, to the log and to finished transactions.
LEMMA NextFiles ==
    ASSUME Types, Held, [Next]_vars
    PROVE  FilesStep /\ Whole' \cup wal' \subseteq Finished'
<1>0. /\ disk \in [Tx -> {"absent", "partial", "whole"}]
      /\ status \in [Tx -> {"new", "begun", "ok"}]
      /\ writing \in [Proc -> SUBSET Tx] /\ converting \subseteq wal
      /\ wal \subseteq Logged /\ Logged \subseteq Tx /\ Daemon \subseteq Proc
  BY LiveStoreAssumption DEF Types
<1>1. ASSUME NEW p \in Proc, LoadFails(p) \/ RefreshEnds(p)
      PROVE  FilesStep /\ Whole' = Whole /\ wal' = wal
  BY <1>1, QuarantineFiles, SameFiles DEF LoadFails, RefreshEnds
<1>2. ASSUME NEW p \in Proc, NEW t \in Tx, BeginWrite(p, t)
      PROVE  FilesStep /\ Whole' \cup wal' \subseteq Finished'
  <2>1. /\ status[t] = "new" /\ status' = [status EXCEPT ![t] = "begun"]
        /\ disk' = [disk EXCEPT ![t] = "partial"] /\ UNCHANGED <<corrupt, wal>>
    BY <1>2 DEF BeginWrite
  <2>2. Finished' = Finished /\ Listed \subseteq Listed' /\ Whole' \subseteq Whole
    BY <1>0, <2>1 DEF Finished, Listed, Whole
  <2> QED
    BY <2>1, <2>2 DEF FilesStep, Held
<1>3. ASSUME NEW p \in Proc, FinishWrite(p)
      PROVE  FilesStep /\ Whole' \cup wal' \subseteq Finished'
  <2>1. PICK t \in writing[p] : Fill(t) /\ status' = [status EXCEPT ![t] = "ok"]
    BY <1>3 DEF FinishWrite
  <2>2. t \in Tx /\ UNCHANGED <<corrupt, wal>>
    BY <1>0, <1>3 DEF FinishWrite
  <2>3. Finished' = Finished \cup {t}
    BY <1>0, <2>1, <2>2 DEF Finished
  <2> QED
    BY <2>1, <2>2, <2>3, FillFiles DEF FilesStep, Held
<1>4. ASSUME NEW d \in Daemon, NEW t \in Tx, CommitLogged(d, t)
      PROVE  FilesStep /\ Whole' \cup wal' \subseteq Finished'
  <2>1. /\ status' = [status EXCEPT ![t] = "ok"] /\ UNCHANGED <<disk, corrupt>>
        /\ wal' \subseteq wal \cup {t}
    BY <1>4 DEF CommitLogged
  <2>2. Finished' = Finished \cup {t} /\ Listed' = Listed /\ Whole' = Whole
    BY <1>0, <2>1 DEF Finished, Listed, Whole
  <2> QED
    BY <2>1, <2>2 DEF FilesStep, Held
<1>5. ASSUME NEW d \in Daemon, NEW t \in Tx, BeginConvert(d, t)
      PROVE  FilesStep /\ Whole' \cup wal' \subseteq Finished'
  <2>1. disk' = [disk EXCEPT ![t] = "partial"] /\ UNCHANGED <<status, corrupt, wal>>
    BY <1>5 DEF BeginConvert
  <2>2. Finished' = Finished /\ Listed \subseteq Listed' /\ Whole' \subseteq Whole
    BY <1>0, <2>1 DEF Finished, Listed, Whole
  <2> QED
    BY <2>1, <2>2 DEF FilesStep, Held
<1>6. ASSUME FinishConvert
      PROVE  FilesStep /\ Whole' \cup wal' \subseteq Finished'
  <2>1. PICK t \in converting : Fill(t)
    BY <1>6 DEF FinishConvert
  <2>2. t \in Tx /\ t \in Finished /\ UNCHANGED <<status, corrupt, wal>>
    BY <1>0, <1>6, <2>1 DEF FinishConvert, Held
  <2>3. Finished' = Finished
    BY <2>2 DEF Finished
  <2> QED
    BY <2>1, <2>2, <2>3, FillFiles DEF FilesStep, Held
<1>7. ASSUME NEW d \in Daemon, (\E t \in Tx : SkipConvert(d, t)) \/ TruncateLog(d)
      PROVE  UNCHANGED <<disk, status, corrupt>> /\ wal' \subseteq wal
  BY <1>7 DEF SkipConvert, TruncateLog
<1>8. ASSUME NEW p \in Proc,
             \/ Open(p) \/ ListShard(p) \/ Load(p) \/ SaveLoaded(p) \/ Opened(p)
             \/ RefreshBegins(p) \/ FlushSkipped(p) \/ FlushBegins(p) \/ FlushRefused(p)
             \/ FlushAgreed(p) \/ SaveFlushed(p) \/ Exit(p)
      PROVE  UNCHANGED <<disk, status, corrupt, wal>>
  BY <1>8 DEF Open, ListShard, Load, SaveLoaded, Opened, RefreshBegins, FlushSkipped,
              FlushBegins, FlushRefused, FlushAgreed, SaveFlushed, SaveBin, SaveMeta, Exit,
              diskVars
<1>9. CASE UNCHANGED vars
  BY <1>9, SameFiles DEF vars, diskVars, Held
<1>10. ASSUME UNCHANGED <<disk, status, corrupt>>, wal' \subseteq wal
       PROVE  FilesStep /\ Whole' \cup wal' \subseteq Finished'
  BY <1>10, SameFiles DEF Held
<1>11. ASSUME FilesStep, Whole' = Whole, wal' = wal
       PROVE  FilesStep /\ Whole' \cup wal' \subseteq Finished'
  BY <1>11 DEF FilesStep, Held
<1>12. ASSUME NEW p \in Proc,
              \/ Open(p) \/ ListShard(p) \/ Load(p) \/ SaveLoaded(p) \/ Opened(p)
              \/ RefreshBegins(p) \/ FlushSkipped(p) \/ FlushBegins(p) \/ FlushRefused(p)
              \/ FlushAgreed(p) \/ SaveFlushed(p) \/ Exit(p)
       PROVE  FilesStep /\ Whole' \cup wal' \subseteq Finished'
  BY <1>8, <1>10, <1>12
<1> QED
  BY <1>1, <1>2, <1>3, <1>4, <1>5, <1>6, <1>7, <1>9, <1>10, <1>11, <1>12 DEF Next

\* The files that Load takes a store from are whole.
LEMMA LoadedIsRead ==
    ASSUME NEW list, FilesRead(list) \subseteq Whole
    PROVE  Loaded(list) \subseteq bin \cup Whole
  BY DEF Loaded, FilesRead

LEMMA NextHeld ==
    ASSUME Types, Held, [Next]_vars
    PROVE  Held'
<1>0. /\ mem \in [Proc -> SUBSET Tx] /\ Daemon \subseteq Proc
      /\ status \in [Tx -> {"new", "begun", "ok"}]
      /\ Finished \subseteq Finished' /\ Whole' \cup wal' \subseteq Finished'
  BY LiveStoreAssumption, NextFiles DEF Types, FilesStep
<1>1. ASSUME NEW p \in Proc, NEW S, S \subseteq Finished', bin' = bin,
             mem' = [mem EXCEPT ![p] = S]
      PROVE  Held'
  BY <1>0, <1>1 DEF Held
<1>2. ASSUME NEW p \in Proc, NEW S, S \subseteq Finished', bin' = bin,
             mem' = [mem EXCEPT ![p] = @ \cup S]
      PROVE  Held'
  BY <1>0, <1>2 DEF Held
<1>3. CASE UNCHANGED <<bin, mem>>
  BY <1>0, <1>3 DEF Held
<1>4. ASSUME NEW p \in Proc, Load(p) PROVE Held'
  <2>1. Loaded(seen[p]) \subseteq bin \cup Whole
    BY <1>4, LoadedIsRead DEF Load
  <2>2. Loaded(seen[p]) \subseteq Finished'
    BY <1>0, <2>1 DEF Held
  <2> QED
    BY <1>1, <1>4, <2>2 DEF Load, cacheVars
<1>5. ASSUME NEW p \in Proc, NEW at, NEW then, SaveBin(p, at, then) PROVE Held'
  BY <1>0, <1>5 DEF SaveBin, Held
<1>6. ASSUME NEW p \in Proc, NEW at, NEW then, SaveMeta(p, at, then) PROVE Held'
  BY <1>3, <1>6 DEF SaveMeta
<1>7. ASSUME NEW p \in Proc, Opened(p) PROVE Held'
  <2>1. wal \ known[p] \subseteq Finished' /\ bin' = bin
    BY <1>0, <1>7 DEF Held, Opened, cacheVars
  <2>2. mem' = [mem EXCEPT ![p] = @ \cup (wal \ known[p])] \/ mem' = mem
    BY <1>7 DEF Opened
  <2> QED
    BY <1>2, <1>3, <2>1, <2>2
<1>8. ASSUME NEW p \in Proc, FinishWrite(p) PROVE Held'
  <2>1. PICK t \in writing[p] : /\ status' = [status EXCEPT ![t] = "ok"]
                                /\ mem' = [mem EXCEPT ![p] = @ \cup {t}]
    BY <1>8 DEF FinishWrite
  <2>2. {t} \subseteq Finished' /\ bin' = bin
    BY <1>0, <1>8, <2>1 DEF Types, Finished, FinishWrite, cacheVars
  <2> QED
    BY <1>2, <2>1, <2>2
<1>9. ASSUME NEW d \in Daemon, NEW t \in Tx, CommitLogged(d, t) PROVE Held'
  <2>1. {t} \subseteq Finished' /\ bin' = bin /\ d \in Proc
    BY <1>0, <1>9 DEF CommitLogged, Finished, cacheVars
  <2>2. mem' = [mem EXCEPT ![d] = @ \cup {t}]
    BY <1>9 DEF CommitLogged
  <2> QED
    BY <1>2, <2>1, <2>2
<1>10. ASSUME NEW p \in Proc, RefreshEnds(p) PROVE Held'
  <2>1. (seen[p] \ known[p]) \cap Whole \subseteq Finished'
    BY <1>0 DEF Held
  <2> QED
    BY <1>2, <1>3, <1>10, <2>1 DEF RefreshEnds, cacheVars
<1>11. ASSUME NEW p \in Proc, Exit(p) PROVE Held'
  BY <1>1, <1>11 DEF Exit
<1>12. ASSUME NEW p \in Proc,
              \/ Open(p) \/ ListShard(p) \/ LoadFails(p) \/ RefreshBegins(p)
              \/ FlushSkipped(p) \/ FlushBegins(p) \/ FlushRefused(p) \/ FlushAgreed(p)
              \/ \E t \in Tx : BeginWrite(p, t)
       PROVE  UNCHANGED <<bin, mem>>
  BY <1>12 DEF Open, ListShard, LoadFails, RefreshBegins, FlushSkipped, FlushBegins,
               FlushRefused, FlushAgreed, BeginWrite, cacheVars
<1>13. ASSUME \/ FinishConvert
              \/ \E d \in Daemon : \/ \E t \in Tx : BeginConvert(d, t) \/ SkipConvert(d, t)
                                   \/ TruncateLog(d)
       PROVE  UNCHANGED <<bin, mem>>
  BY <1>13 DEF BeginConvert, SkipConvert, FinishConvert, TruncateLog, cacheVars, procVars
<1>14. CASE UNCHANGED vars
  BY <1>3, <1>14 DEF vars, cacheVars, procVars
<1> QED
  BY <1>3, <1>4, <1>5, <1>6, <1>7, <1>8, <1>9, <1>10, <1>11, <1>12, <1>13, <1>14
     DEF Next, SaveLoaded, SaveFlushed

HeldInv == TypeInv /\ Held

LEMMA InitHeldInv == Init => HeldInv
<1>1. Init => Held
  BY DEF Init, Held, Whole
<1> QED
  BY <1>1, InitTypeInv DEF HeldInv

LEMMA NextHeldInv == HeldInv /\ [Next]_vars => HeldInv' /\ FilesStep
  BY NextTypeInv, NextFiles, NextHeld DEF HeldInv, TypeInv

LEMMA SpecHeldInv == Spec => []HeldInv
  BY InitHeldInv, NextHeldInv, PTL DEF Spec

\* No store and no cache ever holds a transaction whose write or commit has not
\* returned, also with files that are read half-written and caches seen between
\* the two renames.
THEOREM OnlyFinished == Spec => []FinishedOnly
<1>1. HeldInv => FinishedOnly
  BY DEF HeldInv, Held, Finished, FinishedOnly
<1> QED
  BY <1>1, SpecHeldInv, PTL

-----------------------------------------------------------------------------
(* What a store counts as known it has loaded, and meta.json tells no more than *)
(* store.bin holds, but for transactions somebody moved away as corrupt.        *)

Known ==
    \A p \in Proc :
        /\ seen[p] \subseteq Listed \cup corrupt
        /\ known[p] \subseteq mem[p] \cup corrupt

\* Between the renames store.bin is new and meta.json is not: then only the one
\* writer is left, and its hashes go with the store it has renamed into place.
Cached ==
    /\ BetweenRenames = {} => meta.tx_hashes \subseteq bin \cup corrupt
    /\ \A p \in BetweenRenames : bin = mem[p]
    /\ \A p, q \in BetweenRenames : p = q

LEMMA NextKnown ==
    ASSUME NoCacheRace, TypeInv, FilesStep, Known, Cached, [Next]_vars
    PROVE  Known'
<1>0. /\ seen \in [Proc -> SUBSET Tx] /\ known \in [Proc -> SUBSET Tx]
      /\ mem \in [Proc -> SUBSET Tx] /\ Daemon \subseteq Proc
      /\ corrupt \subseteq corrupt' /\ Listed \subseteq Listed' \cup corrupt'
  BY LiveStoreAssumption DEF TypeInv, Types, FilesStep
<1>1. ASSUME NEW p \in Proc, NEW S, NEW M, seen' = seen \/ seen' = [seen EXCEPT ![p] = {}],
             known' = [known EXCEPT ![p] = S], mem' = [mem EXCEPT ![p] = M],
             S \subseteq M \cup corrupt'
      PROVE  Known'
  BY <1>0, <1>1 DEF Known
<1>2. ASSUME NEW p \in Proc, UNCHANGED <<known, mem>>,
             NEW S, seen' = [seen EXCEPT ![p] = S], S \subseteq seen[p] \cup Listed
      PROVE  Known'
  BY <1>0, <1>2 DEF Known
<1>3. CASE UNCHANGED <<seen, known, mem>>
  BY <1>0, <1>3 DEF Known
<1>4. ASSUME NEW p \in Proc, ListShard(p) PROVE Known'
  <2> DEFINE S == seen[p] \cup {t \in Listed : ShardOf[t] = shard'[p]}
  <2>1. seen' = [seen EXCEPT ![p] = S] /\ UNCHANGED <<known, mem>>
    BY <1>4 DEF ListShard
  <2>2. S \subseteq seen[p] \cup Listed
    OBVIOUS
  <2> QED
    BY <1>2, <2>1, <2>2
<1>5. ASSUME NEW p \in Proc, NEW at, Enter(p, at), UNCHANGED <<known, mem>>
      PROVE  Known'
  <2>1. {} \subseteq seen[p] \cup Listed
    OBVIOUS
  <2> QED
    BY <1>2, <1>5, <2>1 DEF Enter
<1>6. ASSUME NEW p \in Proc, Load(p) PROVE Known'
  <2>1. /\ known' = [known EXCEPT ![p] = seen[p]]
        /\ mem' = [mem EXCEPT ![p] = Loaded(seen[p])] /\ seen' = [seen EXCEPT ![p] = {}]
    BY <1>6 DEF Load, Enter
  <2>2. meta.tx_hashes \subseteq bin \cup corrupt
    BY <1>6 DEF Load, CacheInReach, NoCacheRace, Cached
  <2>3. seen[p] \subseteq Loaded(seen[p]) \cup corrupt'
    BY <1>0, <2>2 DEF Loaded, ExactHit, Delta
  <2> QED
    BY <1>1, <2>1, <2>3
<1>7. ASSUME NEW p \in Proc, Opened(p) PROVE Known'
  <2>1. CASE p \in Daemon /\ ~fellback[p]
    <3>1. known[p] \cup wal \subseteq mem[p] \cup (wal \ known[p]) \cup corrupt'
      BY <1>0 DEF Known
    <3> QED
      BY <1>0, <1>1, <1>7, <2>1, <3>1 DEF Opened
  <2>2. CASE ~(p \in Daemon /\ ~fellback[p])
    BY <1>3, <1>7, <2>2 DEF Opened
  <2> QED
    BY <2>1, <2>2
<1>8. ASSUME NEW p \in Proc, FinishWrite(p) PROVE Known'
  <2>1. PICK t \in writing[p] :
          /\ known' = [known EXCEPT ![p] = @ \cup {t}]
          /\ mem' = [mem EXCEPT ![p] = @ \cup {t}]
    BY <1>8 DEF FinishWrite
  <2>2. known[p] \cup {t} \subseteq mem[p] \cup {t} \cup corrupt' /\ seen' = seen
    BY <1>0, <1>8 DEF Known, FinishWrite
  <2> QED
    BY <1>0, <1>1, <2>1, <2>2
<1>9. ASSUME NEW d \in Daemon, NEW t \in Tx, CommitLogged(d, t) PROVE Known'
  BY <1>0, <1>9 DEF CommitLogged, Known
<1>10. ASSUME NEW p \in Proc, RefreshEnds(p) PROVE Known'
  <2> DEFINE new == seen[p] \ known[p]
  <2>1. CASE new = {}
    BY <1>5, <1>10, <2>1 DEF RefreshEnds
  <2>2. CASE new # {}
    <3>1. /\ mem' = [mem EXCEPT ![p] = mem[p] \cup (new \cap Whole)]
          /\ known' = [known EXCEPT ![p] = seen[p]]
          /\ Quarantine(new) /\ seen' = [seen EXCEPT ![p] = {}]
      BY <1>10, <2>2 DEF RefreshEnds, Enter
    <3>2. new \subseteq (new \cap Whole) \cup corrupt'
      BY <1>0, <3>1 DEF Known, Partial, Quarantine
    <3>3. seen[p] \subseteq mem[p] \cup (new \cap Whole) \cup corrupt'
      BY <1>0, <3>2 DEF Known
    <3> QED
      BY <1>1, <3>1, <3>3
  <2> QED
    BY <2>1, <2>2
<1>11. ASSUME NEW p \in Proc, Exit(p) PROVE Known'
  BY <1>0, <1>11 DEF Exit, Enter, Known
<1>12. ASSUME NEW p \in Proc,
              \/ Open(p) \/ RefreshBegins(p) \/ FlushBegins(p) \/ FlushRefused(p)
              \/ FlushAgreed(p) \/ LoadFails(p)
       PROVE  Known'
  BY <1>5, <1>12 DEF Open, RefreshBegins, FlushBegins, FlushRefused, FlushAgreed, LoadFails
<1>13. ASSUME NEW p \in Proc,
              \/ SaveLoaded(p) \/ FlushSkipped(p) \/ SaveFlushed(p)
              \/ \E t \in Tx : BeginWrite(p, t)
       PROVE  UNCHANGED <<seen, known, mem>>
  BY <1>13 DEF SaveLoaded, FlushSkipped, SaveFlushed, SaveBin, SaveMeta, BeginWrite
<1>14. ASSUME \/ FinishConvert
              \/ \E d \in Daemon : \/ \E t \in Tx : BeginConvert(d, t) \/ SkipConvert(d, t)
                                   \/ TruncateLog(d)
       PROVE  UNCHANGED <<seen, known, mem>>
  BY <1>14 DEF BeginConvert, SkipConvert, FinishConvert, TruncateLog, procVars
<1>15. CASE UNCHANGED vars
  BY <1>3, <1>15 DEF vars, procVars
<1> QED
  BY <1>3, <1>4, <1>6, <1>7, <1>8, <1>9, <1>10, <1>11, <1>12, <1>13, <1>14, <1>15 DEF Next

LEMMA NextCached ==
    ASSUME NoCacheRace, TypeInv, FilesStep, Known, Cached, [Next]_vars
    PROVE  Cached'
<1> DEFINE Renaming == {"save_meta", "flush_meta"}
<1>0. /\ pc \in [Proc -> Steps] /\ mem \in [Proc -> SUBSET Tx] /\ Daemon \subseteq Proc
      /\ corrupt \subseteq corrupt'
  BY LiveStoreAssumption DEF TypeInv, Types, FilesStep
<1>1. ASSUME NEW p \in Proc, NEW at, at \notin Renaming, pc[p] \notin Renaming,
             pc' = [pc EXCEPT ![p] = at], UNCHANGED <<bin, meta>>,
             \A q \in Proc \ {p} : mem'[q] = mem[q]
      PROVE  Cached'
  BY <1>0, <1>1 DEF Cached, BetweenRenames
<1>2. CASE UNCHANGED <<bin, meta, pc, mem>>
  BY <1>0, <1>2 DEF Cached, BetweenRenames
<1>3. ASSUME NEW p \in Proc, NEW at \in {"save", "flush"}, NEW then \in Renaming,
             SaveBin(p, at, then)
      PROVE  Cached'
  <2>1. BetweenRenames = {} /\ bin' = mem[p] /\ mem' = mem
    BY <1>3 DEF SaveBin, CacheInReach, NoCacheRace
  <2>2. BetweenRenames' = {p}
    BY <1>0, <1>3, <2>1 DEF SaveBin, BetweenRenames
  <2> QED
    BY <2>1, <2>2 DEF Cached
<1>4. ASSUME NEW p \in Proc, NEW at \in Renaming, NEW then \in {"opened", "ready"},
             SaveMeta(p, at, then)
      PROVE  Cached'
  <2>1. p \in BetweenRenames
    BY <1>4 DEF SaveMeta, BetweenRenames
  <2>2. BetweenRenames' = {}
    BY <1>0, <1>4, <2>1 DEF SaveMeta, BetweenRenames, Cached
  <2>3. meta'.tx_hashes = known[p] /\ bin' = mem[p]
    BY <1>4, <2>1 DEF SaveMeta, CacheMeta, Cached
  <2> QED
    BY <1>0, <2>2, <2>3 DEF Cached, Known
<1>5. ASSUME NEW p \in Proc, Load(p) PROVE Cached'
  <2>1. \A q \in Proc \ {p} : mem'[q] = mem[q]
    BY <1>0, <1>5 DEF Load
  <2> DEFINE at == IF ExactHit(seen[p]) THEN "opened" ELSE "save"
  <2>2. pc' = [pc EXCEPT ![p] = at] /\ at \notin Renaming
    BY <1>5 DEF Load, Enter
  <2>3. pc[p] \notin Renaming /\ UNCHANGED <<bin, meta>>
    BY <1>5 DEF Load, ListDone, cacheVars
  <2> HIDE DEF at
  <2> QED
    BY <1>1, <2>1, <2>2, <2>3
<1>6. ASSUME NEW p \in Proc, Opened(p) PROVE Cached'
  <2>1. \A q \in Proc \ {p} : mem'[q] = mem[q]
    BY <1>0, <1>6 DEF Opened
  <2> QED
    BY <1>1, <1>6, <2>1 DEF Opened, cacheVars
<1>7. ASSUME NEW p \in Proc, FinishWrite(p) PROVE Cached'
  BY <1>0, <1>1, <1>7 DEF FinishWrite, cacheVars
<1>8. ASSUME NEW d \in Daemon, NEW t \in Tx, CommitLogged(d, t) PROVE Cached'
  <2>1. d \notin BetweenRenames /\ BetweenRenames' = BetweenRenames
    BY <1>8 DEF CommitLogged, Idle, BetweenRenames
  <2> QED
    BY <1>0, <1>8, <2>1 DEF CommitLogged, cacheVars, Cached, BetweenRenames
<1>9. ASSUME NEW p \in Proc, RefreshEnds(p) PROVE Cached'
  <2>1. \A q \in Proc \ {p} : mem'[q] = mem[q]
    BY <1>0, <1>9 DEF RefreshEnds
  <2> QED
    BY <1>1, <1>9, <2>1 DEF RefreshEnds, ListDone, Enter, cacheVars
<1>10. ASSUME NEW p \in Proc, Exit(p) PROVE Cached'
  <2>1. pc[p] \notin Renaming
    BY <1>10 DEF Exit, CacheInReach, NoCacheRace, BetweenRenames
  <2> QED
    BY <1>0, <1>1, <1>10, <2>1 DEF Exit, Enter
<1>11. ASSUME NEW p \in Proc, LoadFails(p) PROVE Cached'
  BY <1>1, <1>11 DEF LoadFails, ListDone, Enter, cacheVars
<1>12. ASSUME NEW p \in Proc,
              \/ FlushRefused(p) \/ FlushAgreed(p)
              \/ Open(p) \/ RefreshBegins(p) \/ FlushBegins(p)
       PROVE  Cached'
  BY <1>0, <1>1, <1>12 DEF FlushRefused, FlushAgreed, ListDone, Open, RefreshBegins,
                           FlushBegins, Enter, Idle, cacheVars
<1>13. ASSUME NEW p \in Proc, NEW t \in Tx, BeginWrite(p, t) PROVE Cached'
  BY <1>0, <1>1, <1>13 DEF BeginWrite, Idle, cacheVars
<1>14. ASSUME NEW p \in Proc, ListShard(p) \/ FlushSkipped(p) PROVE Cached'
  BY <1>2, <1>14 DEF ListShard, FlushSkipped, cacheVars
<1>15. ASSUME \/ FinishConvert
              \/ \E d \in Daemon : \/ \E t \in Tx : BeginConvert(d, t) \/ SkipConvert(d, t)
                                   \/ TruncateLog(d)
       PROVE  Cached'
  BY <1>2, <1>15 DEF BeginConvert, SkipConvert, FinishConvert, TruncateLog, cacheVars, procVars
<1>16. CASE UNCHANGED vars
  BY <1>2, <1>16 DEF vars, cacheVars, procVars
<1> QED
  BY <1>3, <1>4, <1>5, <1>6, <1>7, <1>8, <1>9, <1>10, <1>11, <1>12, <1>13, <1>14, <1>15,
     <1>16 DEF Next, SaveLoaded, SaveFlushed

CacheInv == HeldInv /\ Known /\ Cached

LEMMA InitCacheInv == Init => CacheInv
<1>1. Init => Known /\ Cached
  BY DEF Init, Known, Cached, BetweenRenames
<1> QED
  BY <1>1, InitHeldInv DEF CacheInv

LEMMA NextCacheInv == NoCacheRace /\ CacheInv /\ [Next]_vars => CacheInv'
  BY NextHeldInv, NextKnown, NextCached DEF CacheInv, HeldInv

LEMMA SpecCacheInv == NoCacheRace => (Spec => []CacheInv)
<1> SUFFICES ASSUME NoCacheRace PROVE Spec => []CacheInv
  OBVIOUS
<1> QED
  BY NextCacheInv, InitCacheInv, PTL DEF Spec

\* Whoever opens the store gets every transaction file that was never moved away
\* as corrupt, by whichever of the three paths, whatever was flushed, written or
\* converted meanwhile, also with files that are read half-written: if nobody sees
\* the cache between its two renames.
THEOREM OpenIsComplete == NoCacheRace => (Spec => []OpenSeesAll)
<1>1. CacheInv => OpenSeesAll
  BY DEF CacheInv, Cached, OpenSeesAll, Loaded, ExactHit, Delta
<1> QED
  BY <1>1, SpecCacheInv, PTL

\* A transaction whose hash a process counts as known is in the store it serves,
\* unless it was moved away as corrupt, although refresh_if_needed counts files as
\* known that it could not read.
THEOREM KnownMeansLoaded == NoCacheRace => (Spec => []KnownIsLoaded)
<1>1. CacheInv => KnownIsLoaded
  BY DEF CacheInv, Known, KnownIsLoaded
<1> QED
  BY <1>1, SpecCacheInv, PTL

-----------------------------------------------------------------------------
(* The log of a daemon that started on its fast path. *)

LEMMA NextReplayed ==
    ASSUME TypeInv, FilesStep, Known, LogIsReplayed, [Next]_vars
    PROVE  LogIsReplayed'
<1>0. /\ pc \in [Proc -> Steps] /\ mem \in [Proc -> SUBSET Tx]
      /\ fellback \in [Proc -> BOOLEAN] /\ known \in [Proc -> SUBSET Tx]
      /\ Daemon \subseteq Proc /\ \A d, e \in Daemon : d = e
      /\ corrupt \subseteq corrupt'
  BY LiveStoreAssumption DEF TypeInv, Types, FilesStep
<1>1. ASSUME NEW p \in Proc, NEW at, pc' = [pc EXCEPT ![p] = at],
             Serving(p)' => Serving(p), fellback' = fellback, wal' \subseteq wal,
             \A q \in Proc : mem[q] \subseteq mem'[q]
      PROVE  LogIsReplayed'
  BY <1>0, <1>1 DEF LogIsReplayed, Serving
<1>2. ASSUME NEW p \in Proc, ~Serving(p)', wal' = wal,
             \A q \in Proc \ {p} : pc'[q] = pc[q] /\ mem'[q] = mem[q]
                                    /\ fellback'[q] = fellback[q]
      PROVE  LogIsReplayed'
  BY <1>0, <1>2 DEF LogIsReplayed, Serving
<1>3. ASSUME UNCHANGED <<pc, fellback, mem>>, wal' \subseteq wal PROVE LogIsReplayed'
  BY <1>0, <1>3 DEF LogIsReplayed, Serving
<1>4. ASSUME NEW p \in Proc, Open(p) \/ Load(p) \/ LoadFails(p) \/ Exit(p)
      PROVE  LogIsReplayed'
  <2>1. ~Serving(p)' /\ wal' = wal
    BY <1>0, <1>4 DEF Open, Load, LoadFails, Exit, Enter, Serving, diskVars
  <2>2. \A q \in Proc \ {p} : pc'[q] = pc[q] /\ mem'[q] = mem[q]
                               /\ fellback'[q] = fellback[q]
    BY <1>0, <1>4 DEF Open, Load, LoadFails, Exit, Enter
  <2> QED
    BY <1>2, <2>1, <2>2
<1>5. ASSUME NEW p \in Proc, SaveLoaded(p) PROVE LogIsReplayed'
  <2>1. ~Serving(p)' /\ wal' = wal
    BY <1>0, <1>5 DEF SaveLoaded, SaveBin, SaveMeta, Serving, diskVars
  <2>2. \A q \in Proc \ {p} : pc'[q] = pc[q] /\ mem'[q] = mem[q]
                               /\ fellback'[q] = fellback[q]
    BY <1>0, <1>5 DEF SaveLoaded, SaveBin, SaveMeta
  <2> QED
    BY <1>2, <2>1, <2>2
<1>6. ASSUME NEW p \in Proc, Opened(p) PROVE LogIsReplayed'
  <2>1. \A q \in Proc \ {p} : pc'[q] = pc[q] /\ mem'[q] = mem[q]
    BY <1>0, <1>6 DEF Opened
  <2>2. UNCHANGED <<wal, corrupt, fellback>>
    BY <1>6 DEF Opened, diskVars
  <2>3. ASSUME p \in Daemon, ~fellback[p] PROVE wal \subseteq mem'[p] \cup corrupt
    <3>1. mem'[p] = mem[p] \cup (wal \ known[p])
      BY <1>0, <1>6, <2>3 DEF Opened
    <3> QED
      BY <3>1 DEF Known
  <2> QED
    BY <1>0, <2>1, <2>2, <2>3 DEF LogIsReplayed, Serving
<1>7. ASSUME NEW d \in Daemon, NEW t \in Tx, CommitLogged(d, t) PROVE LogIsReplayed'
  <2>1. /\ wal' \subseteq wal \cup {t} /\ mem'[d] = mem[d] \cup {t}
        /\ UNCHANGED <<pc, fellback, corrupt>>
    BY <1>0, <1>7 DEF CommitLogged
  <2>2. \A e \in Daemon : e = d
    BY <1>0
  <2> QED
    BY <2>1, <2>2 DEF LogIsReplayed, Serving
<1>8. ASSUME NEW p \in Proc, FinishWrite(p) \/ RefreshEnds(p) PROVE LogIsReplayed'
  <2>1. \A q \in Proc : mem[q] \subseteq mem'[q]
    BY <1>0, <1>8 DEF FinishWrite, RefreshEnds
  <2>2. pc' = [pc EXCEPT ![p] = "ready"] /\ Serving(p) /\ UNCHANGED <<fellback, wal>>
    BY <1>8 DEF FinishWrite, RefreshEnds, ListDone, Enter, Serving
  <2> QED
    BY <1>1, <2>1, <2>2
<1>9. ASSUME NEW p \in Proc,
             \/ RefreshBegins(p) \/ FlushBegins(p) \/ FlushRefused(p) \/ FlushAgreed(p)
             \/ SaveFlushed(p) \/ \E t \in Tx : BeginWrite(p, t)
      PROVE  LogIsReplayed'
  <2>1. Serving(p) /\ UNCHANGED <<fellback, wal, mem>>
    BY <1>9 DEF RefreshBegins, FlushBegins, FlushRefused, FlushAgreed, SaveFlushed, SaveBin,
                SaveMeta, BeginWrite, Idle, ListDone, Serving, diskVars
  <2>2. PICK at : pc' = [pc EXCEPT ![p] = at]
    BY <1>9 DEF RefreshBegins, FlushBegins, FlushRefused, FlushAgreed, SaveFlushed, SaveBin,
                SaveMeta, BeginWrite, Enter
  <2> QED
    BY <1>1, <2>1, <2>2
<1>10. ASSUME NEW p \in Proc, ListShard(p) \/ FlushSkipped(p) PROVE LogIsReplayed'
  BY <1>3, <1>10 DEF ListShard, FlushSkipped, diskVars
<1>11. ASSUME \/ FinishConvert
              \/ \E d \in Daemon : \/ \E t \in Tx : BeginConvert(d, t) \/ SkipConvert(d, t)
                                   \/ TruncateLog(d)
       PROVE  LogIsReplayed'
  BY <1>3, <1>11 DEF BeginConvert, SkipConvert, FinishConvert, TruncateLog, procVars
<1>12. CASE UNCHANGED vars
  BY <1>3, <1>12 DEF vars, diskVars, procVars
<1> QED
  BY <1>4, <1>5, <1>6, <1>7, <1>8, <1>9, <1>10, <1>11, <1>12 DEF Next

\* Until it goes down, a daemon that started on its fast path has in its store
\* whatever can be read from its log, but for transactions that were moved away as
\* corrupt: the entries it did not replay because the cache or the listing named
\* them are loaded, and what it converts and refreshes takes nothing away.
THEOREM LogStaysReplayed == NoCacheRace => (Spec => []LogIsReplayed)
<1> SUFFICES ASSUME NoCacheRace PROVE Spec => []LogIsReplayed
  OBVIOUS
<1>1. Init => LogIsReplayed
  BY LiveStoreAssumption DEF Init, LogIsReplayed, Serving
<1>2. CacheInv /\ LogIsReplayed /\ [Next]_vars => LogIsReplayed'
  BY NextHeldInv, NextReplayed DEF CacheInv, HeldInv
<1> QED
  BY <1>1, <1>2, SpecCacheInv, PTL DEF Spec

=============================================================================
