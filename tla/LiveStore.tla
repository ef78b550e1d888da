------------------------------ MODULE LiveStore ------------------------------
(***************************************************************************)
(* Several braid processes on one .braid directory: each holds a LiveStore *)
(* (the transactions it has loaded), writes transaction files, looks for   *)
(* the files of others, and keeps the cache of the loaded store, which is  *)
(* two files: store.bin (the content) and meta.json (the hashes of the     *)
(* transactions in it and the number of its datoms).  One of them may be   *)
(* the daemon, whose commits go to the write-ahead log first.              *)
(*                                                                         *)
(* A transaction stands for its file, its hash and its datoms, one datom   *)
(* each, so that a store's datoms are counted by its transactions.         *)
(***************************************************************************)
EXTENDS Naturals, FiniteSets

CONSTANTS
    Tx,        \* transactions written while the model runs
    Logged,    \* those of them that are committed through the daemon's log
    Proc,      \* processes
    Daemon,    \* the processes that run serve_daemon (none or one)
    Shards,    \* number of shard directories the hashes fall into
    ShardOf,   \* the shard of each transaction
    Old,       \* number of transactions everybody has known for long
    MaxOpens,  \* bound on the LiveStores opened in a behaviour
    Faults     \* "cache_race": other processes see the cache between the two
               \* renames that replace it, and its writer may die there

ASSUME LiveStoreAssumption ==
    /\ IsFiniteSet(Tx)
    /\ Logged \subseteq Tx
    /\ Daemon \subseteq Proc /\ \A d, e \in Daemon : d = e
    /\ Shards \in Nat
    /\ ShardOf \in [Tx -> 1 .. Shards]
    /\ Old \in Nat \ {0}
    /\ MaxOpens \in Nat
    /\ Faults \subseteq {"cache_race"}

VARIABLES
    disk,      \* state of each transaction file
    status,    \* "new", "begun", or "ok" once its write or commit has returned
    corrupt,   \* transactions with a file moved away as .edn.corrupt
    dirs,      \* shard directories created so far: the mtime of txns/
    wal,       \* transactions that can be read from the daemon's log
    converting, \* the one of them whose file the checkpoint thread is writing
    passed,    \* those it has passed: the entries before checkpoint_offset
    bin,       \* store.bin
    meta,      \* meta.json
    lock,      \* holder of the flock on store.bin.lock
    opens,     \* LiveStores opened so far (bounded by MaxOpens)
    pc,        \* what each process is doing
    fellback,  \* has its open_with_wal fallen back to open?
    writing,   \* the transaction it writes
    shard,     \* the last shard it has listed
    seen,      \* the hashes of its listing
    mem,       \* LiveStore.store
    known,     \* LiveStore.known_hashes
    mtime,     \* LiveStore.txns_dir_mtime
    dirty      \* LiveStore.dirty

diskVars  == <<disk, status, corrupt, dirs, wal, converting, passed>>
cacheVars == <<bin, meta, lock>>
procVars  == <<pc, fellback, writing, shard, seen, mem, known, mtime, dirty>>
vars      == <<diskVars, cacheVars, opens, procVars>>

Steps == {"out", "list", "save", "save_meta", "opened", "ready", "write",
          "list_refresh", "list_flush", "flush", "flush_meta"}

\* Nobody is between the two renames, or it does not keep the others away.
BetweenRenames == {p \in Proc : pc[p] \in {"save_meta", "flush_meta"}}
CacheInReach   == BetweenRenames = {} \/ "cache_race" \in Faults

\* The files a listing finds, and those that can be read as what they are: a file
\* is there from its creation on, and stays if its writer dies.
Whole   == {t \in Tx : disk[t] = "whole"}
Listed  == {t \in Tx : disk[t] # "absent"}
Partial == Listed \ Whole

\* A directory with Old transactions, with or without a cache of them, in which
\* all shard directories exist already or those of Tx do not yet.
Init ==
    /\ disk = [t \in Tx |-> "absent"]
    /\ status = [t \in Tx |-> "new"]
    /\ corrupt = {}
    /\ dirs \in {{}, 1 .. Shards}
    /\ wal = {}
    /\ converting = {}
    /\ passed = {}
    /\ bin = {}
    /\ meta \in {[tx_hashes |-> {}, datom_count |-> n] : n \in {0, Old}}
    /\ lock = {}
    /\ opens = 0
    /\ pc = [p \in Proc |-> "out"]
    /\ fellback = [p \in Proc |-> FALSE]
    /\ writing = [p \in Proc |-> {}]
    /\ shard = [p \in Proc |-> 0]
    /\ seen = [p \in Proc |-> {}]
    /\ mem = [p \in Proc |-> {}]
    /\ known = [p \in Proc |-> {}]
    /\ mtime = [p \in Proc |-> {}]
    /\ dirty = [p \in Proc |-> FALSE]

-----------------------------------------------------------------------------
(* Listing txns/: one shard directory after the other. *)

\* A listing starts from nothing, and is forgotten when it has been used.
Enter(p, at) ==
    /\ pc' = [pc EXCEPT ![p] = at]
    /\ shard' = [shard EXCEPT ![p] = 0]
    /\ seen' = [seen EXCEPT ![p] = {}]

\* list_tx_hashes reads the next shard directory.
ListShard(p) ==
    /\ pc[p] \in {"list", "list_refresh", "list_flush"}
    /\ shard[p] < Shards
    /\ shard' = [shard EXCEPT ![p] = @ + 1]
    /\ seen' = [seen EXCEPT ![p] = @ \cup {t \in Listed : ShardOf[t] = shard'[p]}]
    /\ UNCHANGED <<diskVars, cacheVars, opens, pc, fellback, writing, mem, known,
                   mtime, dirty>>

ListDone(p, at) == pc[p] = at /\ shard[p] = Shards

\* read_tx moves the files it could not read as what they are out of the way.
Quarantine(S) ==
    /\ disk' = [t \in Tx |-> IF t \in S \cap Partial THEN "absent" ELSE disk[t]]
    /\ corrupt' = corrupt \cup (S \cap Partial)

-----------------------------------------------------------------------------
(* Opening a LiveStore. *)

Open(p) ==
    /\ pc[p] = "out"
    /\ opens < MaxOpens
    /\ opens' = opens + 1
    /\ Enter(p, "list")
    /\ UNCHANGED <<diskVars, cacheVars, fellback, writing, mem, known, mtime, dirty>>

\* read_slim_cache and read_slim_cache_with_hashes: the number of datoms in
\* store.bin is what meta.json says.
Usable == Cardinality(bin) + Old = meta.datom_count

ExactHit(list) == Usable /\ meta.tx_hashes = list

Delta(list) == list \ meta.tx_hashes

\* The cache is brought up to date if little is missing from it.
Incremental(list) ==
    /\ Usable
    /\ ~ExactHit(list)
    /\ meta.tx_hashes \subseteq list
    /\ Cardinality(Delta(list)) < (Cardinality(list) + Old) \div 2
    /\ Cardinality(bin \cup Delta(list)) >= Cardinality(meta.tx_hashes)

\* What load_store_with_hashes returns for a listing, and the files it reads.
Loaded(list) ==
    IF ExactHit(list) THEN bin
    ELSE IF Incremental(list) THEN bin \cup Delta(list)
    ELSE list

FilesRead(list) ==
    IF ExactHit(list) THEN {}
    ELSE IF Incremental(list) THEN Delta(list)
    ELSE list

\* Mutant of Load: the content hashes are not verified.
LoadUnverified(p) ==
    /\ ListDone(p, "list")
    /\ CacheInReach
    /\ mem' = [mem EXCEPT ![p] = Loaded(seen[p])]
    /\ known' = [known EXCEPT ![p] = seen[p]]
    /\ dirty' = [dirty EXCEPT ![p] = FALSE]
    /\ Enter(p, IF ExactHit(seen[p]) THEN "opened" ELSE "save")
    /\ UNCHANGED <<diskVars, cacheVars, opens, fellback, writing, mtime>>

\* load_store_with_hashes has listed the files, and reads those it needs.
Load(p) ==
    /\ ListDone(p, "list")
    /\ CacheInReach
    /\ FilesRead(seen[p]) \subseteq Whole
    /\ mem' = [mem EXCEPT ![p] = Loaded(seen[p])]
    /\ known' = [known EXCEPT ![p] = seen[p]]
    /\ dirty' = [dirty EXCEPT ![p] = FALSE]
    /\ Enter(p, IF ExactHit(seen[p]) THEN "opened" ELSE "save")
    /\ UNCHANGED <<diskVars, cacheVars, opens, fellback, writing, mtime>>

\* A listed file is not whole, or has been moved away: the load fails.  Where
\* there is a log file, open_with_wal then goes on with open.
LoadFails(p) ==
    /\ ListDone(p, "list")
    /\ CacheInReach
    /\ \E t \in FilesRead(seen[p]) \ Whole : Quarantine({t})
    /\ \/ /\ p \in Daemon /\ ~fellback[p]
          /\ fellback' = [fellback EXCEPT ![p] = TRUE]
          /\ Enter(p, "list")
       \/ /\ p \in Daemon /\ ~fellback[p] => wal = {}
          /\ fellback' = [fellback EXCEPT ![p] = FALSE]
          /\ Enter(p, "out")
    /\ UNCHANGED <<status, dirs, wal, converting, passed, cacheVars, opens, writing,
                   mem, known, mtime, dirty>>

\* write_slim_cache, first rename.
SaveBin(p, at, then) ==
    /\ pc[p] = at
    /\ CacheInReach
    /\ bin' = mem[p]
    /\ pc' = [pc EXCEPT ![p] = then]
    /\ UNCHANGED <<diskVars, meta, lock, opens, fellback, writing, shard, seen, mem,
                   known, mtime, dirty>>

\* Mutant of CacheMeta: the hashes of a new listing.
CacheMetaRelisted(p) ==
    [tx_hashes |-> Listed, datom_count |-> Cardinality(mem[p]) + Old]

CacheMeta(p) == [tx_hashes |-> known[p], datom_count |-> Cardinality(mem[p]) + Old]

\* write_slim_cache, second rename, with the hashes the caller has loaded.
SaveMeta(p, at, then) ==
    /\ pc[p] = at
    /\ meta' = CacheMeta(p)
    /\ pc' = [pc EXCEPT ![p] = then]
    /\ UNCHANGED <<diskVars, bin, opens, fellback, writing, shard, seen, mem, known, mtime>>

\* The load path writes the cache without the lock.
SaveLoaded(p) ==
    \/ SaveBin(p, "save", "save_meta")
    \/ SaveMeta(p, "save_meta", "opened") /\ UNCHANGED <<lock, dirty>>

\* Mutant of Opened: a hash is counted as known before it is looked up.
OpenedKnowing(p) ==
    /\ pc[p] = "opened"
    /\ mtime' = [mtime EXCEPT ![p] = dirs]
    /\ IF p \in Daemon /\ ~fellback[p]
       THEN /\ UNCHANGED mem
            /\ known' = [known EXCEPT ![p] = @ \cup wal]
            /\ dirty' = [dirty EXCEPT ![p] = ~(wal \subseteq known[p])]
       ELSE UNCHANGED <<mem, known, dirty>>
    /\ pc' = [pc EXCEPT ![p] = "ready"]
    /\ UNCHANGED <<diskVars, cacheVars, opens, fellback, writing, shard, seen>>

\* open stats txns/ at last; the fast path of open_with_wal has replayed by then
\* what of the log the listing does not name.
Opened(p) ==
    /\ pc[p] = "opened"
    /\ mtime' = [mtime EXCEPT ![p] = dirs]
    /\ IF p \in Daemon /\ ~fellback[p]
       THEN /\ mem' = [mem EXCEPT ![p] = @ \cup (wal \ known[p])]
            /\ known' = [known EXCEPT ![p] = @ \cup wal]
            /\ dirty' = [dirty EXCEPT ![p] = ~(wal \subseteq known[p])]
       ELSE UNCHANGED <<mem, known, dirty>>
    /\ pc' = [pc EXCEPT ![p] = "ready"]
    /\ UNCHANGED <<diskVars, cacheVars, opens, fellback, writing, shard, seen>>

-----------------------------------------------------------------------------
(* Writing. *)

Idle(p) == pc[p] = "ready"

\* write_tx creates the file (and its shard directory).
BeginWrite(p, t) ==
    /\ Idle(p)
    /\ t \notin Logged
    /\ status[t] = "new"
    /\ status' = [status EXCEPT ![t] = "begun"]
    /\ disk' = [disk EXCEPT ![t] = "partial"]
    /\ dirs' = dirs \cup {ShardOf[t]}
    /\ writing' = [writing EXCEPT ![p] = {t}]
    /\ pc' = [pc EXCEPT ![p] = "write"]
    /\ UNCHANGED <<corrupt, wal, converting, passed, cacheVars, opens, fellback, shard,
                   seen, mem, known, mtime, dirty>>

\* The content is written and fsynced, under whatever name the file has by now.
Fill(t) == disk' = [disk EXCEPT ![t] = IF @ = "partial" THEN "whole" ELSE @]

\* Written; the hash is known and the datoms are applied.
FinishWrite(p) ==
    /\ pc[p] = "write"
    /\ \E t \in writing[p] :
         /\ Fill(t)
         /\ status' = [status EXCEPT ![t] = "ok"]
         /\ known' = [known EXCEPT ![p] = @ \cup {t}]
         /\ mem' = [mem EXCEPT ![p] = @ \cup {t}]
    /\ dirty' = [dirty EXCEPT ![p] = TRUE]
    /\ writing' = [writing EXCEPT ![p] = {}]
    /\ pc' = [pc EXCEPT ![p] = "ready"]
    /\ UNCHANGED <<corrupt, dirs, wal, converting, passed, cacheVars, opens, fellback,
                   shard, seen, mtime>>

\* Group commit in one step: the transaction is in the log, then applied by
\* apply_datoms_in_memory, which does not tell its hash.  Behind a truncation or
\* a torn frame the log cannot be read (Daemon).
CommitLogged(d, t) ==
    /\ Idle(d)
    /\ t \in Logged
    /\ status[t] = "new"
    /\ status' = [status EXCEPT ![t] = "ok"]
    /\ wal' \in {wal, wal \cup {t}}
    /\ mem' = [mem EXCEPT ![d] = @ \cup {t}]
    /\ dirty' = [dirty EXCEPT ![d] = TRUE]
    /\ UNCHANGED <<disk, corrupt, dirs, converting, passed, cacheVars, opens, pc,
                   fellback, writing, shard, seen, known, mtime>>

-----------------------------------------------------------------------------
(* The checkpoint thread of the daemon. *)

Serving(d) == pc[d] \notin {"out", "list", "save", "save_meta", "opened"}

\* The next entry of a pass, over the log from checkpoint_offset on.
AtEntry(d, t) ==
    /\ Serving(d)
    /\ converting = {}
    /\ t \in wal \ passed

\* write_tx_no_invalidate creates the file of an entry,
BeginConvert(d, t) ==
    /\ AtEntry(d, t)
    /\ disk[t] = "absent"
    /\ disk' = [disk EXCEPT ![t] = "partial"]
    /\ dirs' = dirs \cup {ShardOf[t]}
    /\ converting' = {t}
    /\ UNCHANGED <<status, corrupt, wal, passed, cacheVars, opens, procVars>>

\* and writes it, under whatever name it has by now;
FinishConvert ==
    /\ \E t \in converting : Fill(t) /\ passed' = passed \cup {t}
    /\ converting' = {}
    /\ UNCHANGED <<status, corrupt, dirs, wal, cacheVars, opens, procVars>>

\* a file that is there already is taken for the same content.
SkipConvert(d, t) ==
    /\ AtEntry(d, t)
    /\ disk[t] # "absent"
    /\ passed' = passed \cup {t}
    /\ UNCHANGED <<disk, status, corrupt, dirs, wal, converting, cacheVars, opens, procVars>>

\* full_checkpoint, behind its pass, wherever that has ended.
TruncateLog(d) ==
    /\ Serving(d)
    /\ converting = {}
    /\ wal # {}
    /\ wal' = {}
    /\ passed' = {}
    /\ UNCHANGED <<disk, status, corrupt, dirs, converting, cacheVars, opens, procVars>>

-----------------------------------------------------------------------------
(* refresh_if_needed, before a dispatch. *)

\* Only if the mtime of txns/ is not the one seen last is anything looked at.
RefreshBegins(p) ==
    /\ Idle(p)
    /\ mtime[p] # dirs
    /\ mtime' = [mtime EXCEPT ![p] = dirs]
    /\ Enter(p, "list_refresh")
    /\ UNCHANGED <<diskVars, cacheVars, opens, fellback, writing, mem, known, dirty>>

\* Mutant of RefreshEnds: a file that is not yet whole stays where it is.
RefreshEndsUnmoved(p) ==
    /\ ListDone(p, "list_refresh")
    /\ LET new == seen[p] \ known[p] IN
         IF new = {}
         THEN UNCHANGED <<mem, known, dirty>>
         ELSE /\ mem' = [mem EXCEPT ![p] = @ \cup (new \cap Whole)]
              /\ known' = [known EXCEPT ![p] = seen[p]]
              /\ dirty' = [dirty EXCEPT ![p] = TRUE]
    /\ Enter(p, "ready")
    /\ UNCHANGED <<diskVars, cacheVars, opens, fellback, writing, mtime>>

\* The new files are read and applied, and all that was listed counts as known,
\* read or not.
RefreshEnds(p) ==
    /\ ListDone(p, "list_refresh")
    /\ LET new == seen[p] \ known[p] IN
         IF new = {}
         THEN UNCHANGED <<disk, corrupt, mem, known, dirty>>
         ELSE /\ mem' = [mem EXCEPT ![p] = @ \cup (new \cap Whole)]
              /\ known' = [known EXCEPT ![p] = seen[p]]
              /\ dirty' = [dirty EXCEPT ![p] = TRUE]
              /\ Quarantine(new)
    /\ Enter(p, "ready")
    /\ UNCHANGED <<status, dirs, wal, converting, passed, cacheVars, opens, fellback,
                   writing, mtime>>

-----------------------------------------------------------------------------
(* flush, explicit or by Drop. *)

\* Somebody else holds the lock: the flush is left out for good.
FlushSkipped(p) ==
    /\ Idle(p)
    /\ dirty[p]
    /\ lock # {}
    /\ dirty' = [dirty EXCEPT ![p] = FALSE]
    /\ UNCHANGED <<diskVars, cacheVars, opens, pc, fellback, writing, shard, seen, mem,
                   known, mtime>>

FlushBegins(p) ==
    /\ Idle(p)
    /\ dirty[p]
    /\ lock = {}
    /\ lock' = {p}
    /\ Enter(p, "list_flush")
    /\ UNCHANGED <<diskVars, bin, meta, opens, fellback, writing, mem, known, mtime, dirty>>

\* Mutant of FlushRefused: the files are listed again until all are known.
FlushRefusedAgain(p) ==
    /\ ListDone(p, "list_flush")
    /\ ~(seen[p] \subseteq known[p])
    /\ Enter(p, "list_flush")
    /\ UNCHANGED <<diskVars, cacheVars, opens, fellback, writing, mem, known, mtime, dirty>>

\* The disk has files this process never loaded: the cache is left as it is.
FlushRefused(p) ==
    /\ ListDone(p, "list_flush")
    /\ ~(seen[p] \subseteq known[p])
    /\ lock' = {}
    /\ dirty' = [dirty EXCEPT ![p] = FALSE]
    /\ Enter(p, "ready")
    /\ UNCHANGED <<diskVars, bin, meta, opens, fellback, writing, mem, known, mtime>>

FlushAgreed(p) ==
    /\ ListDone(p, "list_flush")
    /\ seen[p] \subseteq known[p]
    /\ Enter(p, "flush")
    /\ UNCHANGED <<diskVars, cacheVars, opens, fellback, writing, mem, known, mtime, dirty>>

SaveFlushed(p) ==
    \/ SaveBin(p, "flush", "flush_meta")
    \/ /\ SaveMeta(p, "flush_meta", "ready")
       /\ lock' = {}
       /\ dirty' = [dirty EXCEPT ![p] = FALSE]

-----------------------------------------------------------------------------

\* Mutant of Exit: the lock stays taken.
ExitLocked(p) ==
    /\ pc[p] # "out"
    /\ p \in BetweenRenames => CacheInReach
    /\ Enter(p, "out")
    /\ mem' = [mem EXCEPT ![p] = {}]
    /\ known' = [known EXCEPT ![p] = {}]
    /\ mtime' = [mtime EXCEPT ![p] = {}]
    /\ fellback' = [fellback EXCEPT ![p] = FALSE]
    /\ writing' = [writing EXCEPT ![p] = {}]
    /\ dirty' = [dirty EXCEPT ![p] = FALSE]
    /\ IF p \in Daemon THEN converting' = {} /\ passed' = {}
       ELSE UNCHANGED <<converting, passed>>
    /\ UNCHANGED <<disk, status, corrupt, dirs, wal, cacheVars, opens>>

\* The process ends, between two operations or in the middle of one; flock is
\* released by the kernel, and the file it was writing stays as it is.
Exit(p) ==
    /\ pc[p] # "out"
    /\ p \in BetweenRenames => CacheInReach
    /\ Enter(p, "out")
    /\ lock' = lock \ {p}
    /\ mem' = [mem EXCEPT ![p] = {}]
    /\ known' = [known EXCEPT ![p] = {}]
    /\ mtime' = [mtime EXCEPT ![p] = {}]
    /\ fellback' = [fellback EXCEPT ![p] = FALSE]
    /\ writing' = [writing EXCEPT ![p] = {}]
    /\ dirty' = [dirty EXCEPT ![p] = FALSE]
    /\ IF p \in Daemon THEN converting' = {} /\ passed' = {}
       ELSE UNCHANGED <<converting, passed>>
    /\ UNCHANGED <<disk, status, corrupt, dirs, wal, bin, meta, opens>>

Next ==
    \/ \E p \in Proc :
         \/ Open(p) \/ ListShard(p) \/ Load(p) \/ LoadFails(p) \/ SaveLoaded(p) \/ Opened(p)
         \/ \E t \in Tx : BeginWrite(p, t)
         \/ FinishWrite(p)
         \/ RefreshBegins(p) \/ RefreshEnds(p)
         \/ FlushSkipped(p) \/ FlushBegins(p) \/ FlushRefused(p) \/ FlushAgreed(p)
         \/ SaveFlushed(p)
         \/ Exit(p)
    \/ \E d \in Daemon :
         \/ \E t \in Tx : CommitLogged(d, t) \/ BeginConvert(d, t) \/ SkipConvert(d, t)
         \/ TruncateLog(d)
    \/ FinishConvert

Spec == Init /\ [][Next]_vars

\* What a process has begun, its thread goes on with.
Work(p) ==
    \/ ListShard(p) \/ Load(p) \/ LoadFails(p) \/ SaveLoaded(p) \/ Opened(p)
    \/ FinishWrite(p) \/ RefreshEnds(p)
    \/ FlushRefused(p) \/ FlushAgreed(p) \/ SaveFlushed(p)

FairSpec == Spec /\ \A p \in Proc : WF_vars(Work(p))

-----------------------------------------------------------------------------

\* The variables have their types, and the flock on the cache is held exactly by
\* the one process that is between taking it in flush and the end of that flush.
TypeOK ==
    /\ disk \in [Tx -> {"absent", "partial", "whole"}]
    /\ status \in [Tx -> {"new", "begun", "ok"}]
    /\ corrupt \subseteq Tx
    /\ dirs \subseteq 1 .. Shards
    /\ wal \subseteq Logged
    /\ converting \subseteq wal
    /\ passed \subseteq wal
    /\ bin \subseteq Tx
    /\ meta \in [tx_hashes : SUBSET Tx, datom_count : 0 .. Cardinality(Tx) + Old]
    /\ opens \in 0 .. MaxOpens
    /\ pc \in [Proc -> Steps]
    /\ fellback \in [Proc -> BOOLEAN]
    /\ writing \in [Proc -> SUBSET Tx]
    /\ shard \in [Proc -> 0 .. Shards]
    /\ seen \in [Proc -> SUBSET Tx]
    /\ mem \in [Proc -> SUBSET Tx]
    /\ known \in [Proc -> SUBSET Tx]
    /\ mtime \in [Proc -> SUBSET (1 .. Shards)]
    /\ dirty \in [Proc -> BOOLEAN]
    /\ lock = {p \in Proc : pc[p] \in {"list_flush", "flush", "flush_meta"}}
    /\ Cardinality(lock) <= 1

\* Whoever opens the store now gets every transaction file, whatever the cache
\* holds and by whichever of the three paths of load_store_with_hashes: the
\* hashes in meta.json never name a transaction that store.bin lacks, although
\* processes flush caches of different stores and write files meanwhile.  Left
\* out is a transaction once moved away as corrupt: its hash counts as known to
\* the process that moved it, and the checkpoint thread of a restarted daemon
\* makes a new file of it.
OpenSeesAll == BetweenRenames = {} => Whole \ corrupt \subseteq Loaded(Whole)

\* A serving process has loaded each transaction whose hash it counts as known,
\* so that flush's comparison of hashes says something about its store, although
\* refresh_if_needed counts hashes as known that it could not read; left out are
\* those again that somebody moved away.
KnownIsLoaded == \A p \in Proc : Serving(p) => known[p] \subseteq mem[p] \cup corrupt

\* A daemon that started on its fast path shows all of its log, though it replays
\* only what neither the cache nor the listing names, commits without telling the
\* hashes, and meanwhile converts entries and refreshes from their files.
LogIsReplayed ==
    \A d \in Daemon : Serving(d) /\ ~fellback[d] => wal \subseteq mem[d] \cup corrupt

\* No store and no cache has a transaction whose write or commit has not
\* returned, although files are listed and read while they are written: read_tx
\* verifies the hash of each file.
FinishedOnly ==
    \A t \in bin \cup UNION {mem[p] : p \in Proc} : status[t] = "ok"

\* Opening, writing, refreshing and flushing end, whatever the other processes
\* do and wherever they die: nobody waits for the flock or for a quiet listing.
EveryOperationEnds ==
    \A p \in Proc : pc[p] \notin {"out", "ready"} ~> pc[p] \in {"out", "ready"}

\* A transaction whose write_tx returned is a file that the next open reads.
WrittenIsFile == \A t \in Tx \ Logged : status[t] = "ok" => disk[t] = "whole"

=============================================================================
