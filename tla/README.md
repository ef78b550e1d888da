# A TLA+ model of braid

This directory models and verifies the part of `ddis` on which everything else
rests: how **braid** (the Rust program under `ddis-braid/`) makes transactions
durable, visible and git-ready when several threads, several processes and
crashes are involved, how processes on different machines number and merge
them, and what commands that decide on what they have loaded can rely on. File
names below are relative to `ddis-braid/crates/braid/src/` unless they say
otherwise.

## 1. Inventory

| Component | State | Operations | Talks to |
|---|---|---|---|
| Write-ahead log, `wal.rs` | the file `.braid/.cache/wal.bin`; per writer: chain hash, entry count, byte offset | `open`/`recover_state`, `append`, `append_batch`, `sync`, `truncate`; `iter`, `iter_from` | commit thread (writer), checkpoint thread (reader, truncating writer), start-up (reader) |
| Group commit, `daemon.rs` 2038-2236 | channel of requests, current batch, the commit thread's `WalWriter` | `CommitHandle::commit`, `commit_thread` | connection threads (channel and reply channel), shared `LiveStore` (RwLock) |
| Checkpoint thread, `daemon.rs` 2238-2469 | checkpoint offset, its own `DiskLayout`, signal channel | `passive_checkpoint`, `full_checkpoint`, `Stop` | log file, `txns/*.edn`, harvest requests (reply channel, 30 s) |
| Daemon process, `daemon.rs` 1195-1440 | lock file, socket, threads, shutdown flag, idle timer | `serve_daemon`: recovery, spawn, accept loop, shutdown | all of the above |
| Connection threads, `daemon.rs` 1455-2005, `mcp.rs` | the request in hand | refresh, dispatch under the read or write lock, commit of the runtime datom, harvest | `LiveStore`, commit thread, checkpoint thread |
| LiveStore, `live_store.rs` | in-memory store, known hashes, mtime of `txns/`, dirty flag | `open`, `open_with_wal`, `write_tx`, `apply_datoms_in_memory`, `refresh_if_needed`, `flush` | transaction files, cache, other processes |
| Disk layout and cache, `layout.rs` | `txns/<shard>/<hash>.edn`, `.cache/store.bin`, `.cache/meta.json` | `write_tx`, `write_tx_no_invalidate`, `read_tx` (with quarantine), `load_store_with_hashes`, `write_slim_cache` | every process on the directory |
| Daemon life cycle, `daemon.rs` 691-800, 1074-1190 | lock file with a pid, socket file | `acquire_lock`, `check_lock`, `release_lock`, `marshal_command`, `try_route_through_daemon` | CLI processes, other daemons |
| Kernel store, `braid-kernel/src/store.rs`, `merge.rs`, `datom.rs` | grow-only set of datoms, clock, frontier, live view, schema, other views | `from_datoms`, `from_primary`, `apply_datoms`; `transact`, `merge`, `as_of` | called by LiveStore |
| Commands that write, `commands/write.rs`, `config.rs`, `spec.rs` | none | `next_tx_id`, assert, retract, set and reset a configuration value, accept and reject a proposal | LiveStore, kernel store |
| `braid merge`, `commands/mod.rs` 4624 | none | copies the transaction files of another directory | two directories |
| Tasks, `braid-kernel/src/task.rs`, `commands/task.rs` | datoms | create, import, update, close, dependencies, ready set | LiveStore, kernel store |
| Proposals, `braid-kernel/src/proposal.rs` | datoms | propose, accept, reject, pending | LiveStore, kernel store |
| Resolution modes, `braid-kernel/src/resolution.rs` | none | last writer, lattice, multi-value | pure |
| Working sets, branches, `agent_store.rs`, `branch.rs` | per agent: trunk, private datoms | assert, commit to trunk, visibility | kernel store |
| Deliberations, witnesses, policies (`braid-kernel/src/*.rs`) | datoms | life cycles, derivations | kernel store |
| Query engine, guidance, coherence, harvest and seed texts | none | pure functions of one store | kernel store |
| CLI commands, `commands/*.rs`, `git.rs`, `inject.rs` | none between runs | parse, dispatch, print | LiveStore, daemon socket |
| `ddis-cli` (Go) | JSONL event stream, SQLite index | append, causal sort, fold, validation | one process |
| `ralph`, `scripts`, documents | none | | |

What is hard to test here:

* **Interleavings.** The commit thread and the checkpoint thread share the log
  *file*, without a lock and through two different `WalWriter`s; readers of
  `txns/` list it while others create files in it; two processes may start a
  daemon at once.
* **Crashes.** A process may die, or the power fail, between any two system
  calls: in a frame, between write and fsync, between fsync and answer, in a
  transaction file, between the two renames of the cache.
* **Partial failure.** `append_batch` may fail after some of its frames,
  a checkpoint in the middle of a pass, `truncate` after it has cut the file.
* **Stale stores.** A command decides on what it has loaded: two processes, or
  two directories that are merged later, decide on different halves of the same
  thing, under clocks that differ.
* **Ordering and timeouts.** An answer must come after the fsync and after the
  apply; the harvest's checkpoint may outlive the harvest's patience.

What makes each component correct:

* group commit: an answer `Ok` means durable and visible, for ever
  (INV-DS2-001, INV-DS2-003); every request is answered;
* log: the accepted frames are a prefix of what was appended; recovery goes on
  where that prefix ends;
* checkpoint: an entry it has passed is a file; files appear in log order; every
  entry becomes a file; the log is emptied only of entries that have files
  (DS3-001 to DS3-004); a harvest's answer means that its own entry is a file;
* recovery: files and log together give back everything acknowledged;
* LiveStore: the cache never hides a transaction file; a refresh finds what
  others wrote (INV-STORE-020, INV-DAEMON-002);
* life cycle: at most one daemon serves (INV-DAEMON-001); every command is
  executed, though its daemon may die;
* kernel store: an id is greater than those of all its author had read
  (INV-STORE-011), the frontier is that of the transactions (INV-STORE-016), the
  live view is what the assertions and retractions say (INV-STORE-012);
* proposals: a decision is not undone by the order in which stores exchange it;
* tasks: a status never goes back (INV-TASK-001), dependencies have no cycle
  (INV-TASK-002), agents with unfinished work find something to do.

## 2. Modules

```
WalFile        the log file: frames, chain hash, what readers accept
DurableCommit  abstract specification: what commit() promises
GroupCommit    connection threads, commit thread, crash and recovery   (EXTENDS WalFile)
               implements DurableCommit
Checkpoint     the checkpoint thread and the transaction files         (EXTENDS WalFile)
Daemon         GroupCommit and Checkpoint around one log, harvests,
               refresh, crashes and the ways to restart                (INSTANCEs both)
LiveStore      several processes on one directory: transaction files,
               the cache and its flock, refresh, flush, crashes
DaemonLock     life cycle of the daemons of one directory, and the
               commands that look for one
TxIds          the order of transaction ids
CausalLog      abstract specification: a log that grows causally       (EXTENDS TxIds)
TxStore        transactions of several agents, processes and
               directories: ids, frontiers, caches, merges, commands   (EXTENDS TxIds)
               implements CausalLog
LiveView       the live view of each store of TxStore                  (EXTENDS TxStore)
Tasks          tasks: status, dependencies, ready set, merges
MCGroupCommit, MCDaemon, MCLiveStore, MCDaemonLock,
MCLiveView, MCTasks                                    instances for TLC
GroupCommitProofs, DaemonProofs, LiveStoreProofs,
DaemonLockProofs, TxStoreProofs, LiveViewProofs,
TasksProofs                                            theorems
```

**WalFile.** A frame is a record `[tx, hash, whole]`. BLAKE3 is taken to be free
of collisions, so a chain hash *is* the sequence of transactions it hashes.
`whole = FALSE` stands for a frame of which some bytes are missing: its length
or CRC check fails and what follows cannot be parsed. `Readable` is what
`WalReader::iter` and `recover_state` accept, `Yields` what `iter_from` accepts,
which checks no chain for the first frame after a seek. Offsets count frames,
that is, all frames are taken to be of one length.

**GroupCommit.** `pc` is the step of `commit_thread`:
`recv` (blocked in `recv_timeout`), `drain` (the `try_recv` loop), `append`
(between two frames of `append_batch`), `write` (inside `write_all`), `apply`,
`signal`, `fail` (the error branch), and `down` when no daemon runs. Each
`write_all` is two steps, because a crash or a reader may come between them.
`req[t]` is what the thread blocked in `commit()` knows; `lost` means that its
daemon died first. `synced` counts the frames known to be on stable storage: a
process crash keeps the whole file, a power loss keeps some length between
`synced` and the end. `Recover` is `WalWriter::open`: it recovers the chain
hash of the last frame that can be read and leaves the file as it is.

**Checkpoint.** `pass` and `step` say which checkpoint runs and where it stands
(`read` at an entry, `write` in an `.edn` file, `truncate`). Creating a
transaction file is two steps as well (`partial`, then `whole`), and a file that
was created stays: after a failed write (`FileFails`) and after a crash
(`Vanish`) it is there half-written, and the next pass takes `AlreadyExists` for
the entry's file (`SkipFile`). `mailbox` holds the `Full` signals, `harvest` what
the waiting connection thread has seen. `Stop` at shutdown is not joined
(`daemon.rs` 1407-1413): it is a passive pass that the end of the process may cut
short, that is `StartPassive` and `ProcessCrash`.

**Daemon.** The two modules are instantiated over the same `wal` and `synced`.
Each step is a step of one of them and leaves the variables of the other alone.
The only exclusion is the kernel's: `write(2)` and `ftruncate(2)` on one file.
A harvest asks for a full checkpoint after its own commit was answered.
A crash of the process leaves files as they are; a loss of power may also forget
a created file that was never fsynced (`PowerLoss`).
`Restart` is the fast path of `open_with_wal`; `RestartWithoutLog` its fallback
when a half-written file made the load fail: that load has moved the file away,
and `open`, which does not replay the log, succeeds. With two such files `open`
fails as well (`FailedRestart`).

**LiveStore.** `disk`, `dirs`, `wal`, `bin`, `meta` and `lock` are what the
processes share, the variables indexed by a process are its `LiveStore` and where
it stands (`pc`). Each operation is cut where another process can come between:
listing `txns/` is one step per shard directory, writing a file is its creation
and its completion, replacing the cache is two renames, a flush is lock, listing,
decision and renames. So any process may list and read a file between its creation
and its last write; what it could not read it moves away, and `corrupt` remembers
the transactions to which that has happened. `Loaded` is `load_store_with_hashes`
with its three paths (exact fingerprint, cache and delta, rebuild);
`meta.datom_count` is the only tie between the two cache files, and every
transaction counts for one datom. `Old` transactions that everybody knows are only
counted: they decide whether a delta is small enough for the second path.
`dirs` stands for the mtime of `txns/`, which changes with new shard directories
only. `status` is what the callers of the writes were told.

The daemon's half of `LiveStore`: group commit is one step (`CommitLogged`), since
`Daemon` has it in detail, but a conversion is two (`BeginConvert`,
`FinishConvert`), or none if the file exists (`SkipConvert`). `wal` is the part of
the log that can be read, so a commit behind a truncation or a torn frame need not
join it. `passed` are the entries before the checkpoint's offset: empty after a
restart, when the thread goes through the log from its start. `TruncateLog` empties
the log wherever the pass has ended, as `full_checkpoint` does. `Opened` is the end
of `open`, and replays the log on the fast path of `open_with_wal` only: a load
that failed there (`LoadFails`) goes on with `open`, with `fellback` set.

`LiveStore` has one fault of its own, `cache_race`: others see the cache between
its two renames, and its writer may die there; without it the two renames are one
step for everybody else.

**DaemonLock.** `lock` and `sock` are the two files; a lock has the daemon whose
pid is in it, or is still empty (`written`). `pc` follows a daemon process through
`acquire_lock` (`create`, `pid`, `check`, `remove`), `serve_daemon` (`open`,
`unlink`, `bind`, `serve`, `flush`) and `CleanupGuard` (`unsock`, `unlock`, after
the listener is closed), `stop` a `braid daemon stop` that found a stale lock.
`cpc` follows a command through `try_route_through_daemon` (`poll`, `connect`,
`wait`) to its end or to direct execution; `job` is what the daemon has done with
its request, which goes on when the command has given up; `runs` counts its
executions. Its faults are `crash`, `start_error` (the store or the socket cannot
be opened) and `lock_race`: others use the lock between its being found stale and
its removal, a window of a few instructions.

**TxStore.** A cell is an attribute, of cardinality one, of an entity; a
transaction has an id, assertions and retractions. `files` and `cache` are what a
directory holds, the variables indexed by a process are its store: the
transactions it has applied, the frontier that `next_tx_id` reads, and the files
a load or a refresh has found and not applied yet. `NextWalls` is `next_tx_id`
with a clock that may read any of `Time` at any moment, so machines disagree and
clocks go back. One action stands for each command; its guard is what the command
looks up in the loaded store, `Write` the `write_tx` at its end. `CopyFile` is one
file of a merge. Writing and reading a file is one step here, since `LiveStore` has
the ways in which that fails. `saw` is a history variable: who had what when it
wrote. A proposal is made by `Propose`, for which the binary has no command of its
own yet; decisions are taken by `accept` and `reject`, not by `write assert`, which
may mark a proposal as reviewed (`Review`); what was reviewed can be accepted.

**LiveView.** Adds to each store of `TxStore` the datoms its live view shows.
`IndexDatom` is `index_datom`, `Applied` goes through a transaction's datoms as
`apply_datoms` does, `Rebuilt` through all of them in the order of the set (value,
id, assertion before retraction) as `from_datoms` and `from_primary` do. `IndexAll`
is that loop, a fold that takes the last datom off (`LastOf`) and indexes it after
the others.

**Tasks.** A transaction creates tasks and asserts statuses and dependencies.
`ResolveStatus` is the join of what is asserted, `ReadySet` is
`compute_ready_set` with types and stages as constants, `DependencyAllowed` the
search of `check_dependency_acyclicity`. Commands read the store of their process,
which a refresh brings up to date one file at a time. `blind` is a history
variable: the dependencies added by a process that lacked another one. Ids of
transactions play no part, so two transactions with the same content count once.

In the durability modules the faults are switched by `Faults` too: `io_error` (a
write or fsync of the log fails; the log cannot be read or cut; a transaction file
cannot be created), `write_error` (a transaction file that was created cannot be
written), `torn_frame` (an interrupted append leaves part of the frame), `refresh`
(a dispatch reads files being written, or left half-written, and quarantines them).
That a crash between the creation and the last write of a transaction file leaves
it half-written is not a fault that can be switched off: every run with crashes has
it.

## 3. Runs

| Run | Bounds | What it shows |
|---|---|---|
| `group_commit` | 3 transactions, batches of at most 2, 2 crashes, I/O errors | types, `AckedDurable`, `AckedVisible`, `VisibleLogged`, `AckedSynced`, refinement of `DurableCommit`, `EveryRequestAnswered` |
| `torn_tail` | 1 crash, torn frames | *violated*: `AckedDurable` |
| `daemon` | 3 transactions, batches of 2, 1 crash, `io_error`, `write_error`; no harvest, torn frame or refresh | nothing acknowledged is lost; a restart that finds all files whole shows it, and no start shows more than is stored (refinement of `DurableCommit` with a weaker recovery); every entry becomes a file, but for one whose own write failed |
| `daemon_full` | 3 transactions, one of them a harvest, 1 crash; no other fault | files are a prefix of the log; what was acknowledged when the pass ends has a file; so has the harvest's entry when it is told so |
| `daemon_faults` | 2 transactions, one a harvest, 2 crashes, all faults | only a truncation takes stored data away; callers read their own commits; a harvest is answered |
| `live_store` | a daemon and a command, 2 transactions in different shards, one of them logged, 3 opens; no cache race | an open gets every file, a known hash is a loaded transaction, a daemon shows what is in its log, all three but for transactions a file of which was moved away as corrupt; nothing unfinished is loaded; every operation ends |
| `daemon_lock` | 3 daemon processes, 1 command, crashes, start errors | at most one daemon serves; lock and socket lead to it, whoever else starts, fails, stops or cleans up; the command is executed once or twice and ends; a start ends unless an empty lock file was left behind |
| `two_daemons` | 3 daemon processes, lock race | *violated*: `OneDaemon` |
| `tx_store` | 2 agents, 2 directories, 3 transactions, a plain cell and a proposal, 1 process | ids follow causality, frontiers are those of the transactions, decisions stay, the live view is right for what is only replaced; refinement of `CausalLog` |
| `live_order` | 1 cell, 2 values, 3 transactions | *violated*: `LiveHasValue` |
| `tasks` | 3 tasks (one an epic), 2 processes, 2 directories, 1 creation, 1 status, 2 dependencies | a status never goes back; cycles need a blind dependency; there is something to do |
| `stale_chain` | 2 transactions, one a harvest, fair threads | *violated*: `LoggedIsConverted` |

For `LiveStore`, two processes and three opens let each process open and one of
them open again on what the other left; two transactions in two shards are the
least for which a listing is not a moment in time; with `Old = 3` one missing
transaction takes the incremental path and two the rebuild. The third open is what
a restarted daemon needs to make a file again that the command has moved away.

For `DaemonLock`, three processes are one that leaves a stale lock and two that
find it; a daemon process starts once, so more of them only repeat this. Commands
do not see each other except through the daemons they start, which may start at
any moment anyway.

For `tx_store`, two directories and one process that opens them in turn stand for
more: a directory that is merged into is one that others write, so a store can be
behind its directory, be brought up to date by refresh or cache, and decide on
what it lacks; two ids can be equal because both directories number on their own.
Three transactions are a proposal, its decision and one that depends on the order
of the two. With two processes, one directory and three transactions, and with two
processes, two directories and two transactions, the same properties hold.

For `tasks`, two dependencies close a cycle; a third task gives a ready set that
is neither all nor nothing, and an epic.

Three transactions with batches of two give full and partial batches, a batch
while another waits in the channel, and a request after a restart; two crashes
give a crash during recovery from a crash (the second one hits the log the first
one left). Symmetry is used only in runs without liveness properties. Deadlock is
not checked because the system may stop: when all transactions are answered
nobody has anything to do.

**Fairness.** `CommitThread` is weakly fair: `recv_timeout` returns when a request
is there and no other step waits, except for the write lock, which dispatches hold
for one request at a time. `CheckpointThread` is weakly fair: its `recv_timeout`
wakes it every `checkpoint-interval-secs`. Where the disk may fail at any moment,
conversion needs more: that reading the log and creating the file of an entry do
not fail at *every* tick (strong fairness of `CreateFile` and `SkipFile`,
`FairSpec` of Daemon). Nothing is assumed of the write that follows: a file is
created once, so there is no second attempt at it. In `LiveStore` each process is
weakly fair in what it has begun (its thread runs on); starting an operation or
exiting is not. In `DaemonLock` a daemon process, a command and a `daemon stop`
are weakly fair in their own steps; that somebody starts a daemon, that it shuts
down, and that it answers a request are not. Clients, crashes and restarts are not
fair.

**What the violated runs show.**

1. `torn_tail`: `WalWriter::open` appends behind a torn tail instead of cutting
   it. What the next daemon acknowledges is fsynced and unreadable.
2. `stale_chain`: the truncation goes through a second `WalWriter`; the commit
   thread's keeps its chain hash, and nothing it writes afterwards passes the
   chain check at the start of the file.
3. `two_daemons`: a stale lock is removed by its name after it was checked, by a
   start and by a stop; by then it may be the lock of a new daemon. The lock is
   free again and a second daemon serves.
4. `live_order`: a value is asserted, then another, and the second is retracted.
   By the definition of INV-STORE-012 the first one is the live value; the live
   view has none, because the retraction removes its entry and nothing looks for
   what was there before.

More disagreements can be seen by checking a definition that no run has, or a run's
property under other constants:

* `AckedVisible` of `Daemon`, without any fault and with one crash, is refuted: the
  crash comes between the creation and the last write of a transaction file, the
  next daemon's load fails at the half-written file, and `open_with_wal` falls back
  to `open`, which does not read the log (`live_store.rs` 108-114). What was
  acknowledged is stored and not shown, until the daemon is restarted once more.
* `FilesArePrefix`, with `write_error` or `refresh` among the faults and no crash at
  all: the next tick does not retry the entry whose write failed, as the comment at
  `daemon.rs` 2336-2338 says it will, but takes the file it finds for finished and
  goes on to the entries behind it (`layout.rs` 245-247).
* `FullConvertsAll` of `Daemon`, in an instance with a harvest, is refuted:
  `full_checkpoint` truncates whatever is in the log by then, not what it has
  converted, and a commit acknowledged in between is lost (`daemon.rs` 2369). For
  the same reason `AckedStored` does not hold with a harvest.
* `FullReadsAll`, with a harvest and `io_error` or `write_error`: a pass that has
  ended at an error is followed by the truncation all the same.
* `OpenSeesAll`, `KnownIsLoaded` and `LogIsReplayed` of `LiveStore` are refuted
  without their exception for `corrupt`: a command's refresh finds the file that the
  daemon is converting, moves it away half-written and counts its hash as known
  (`live_store.rs` 389-395); a restarted daemon makes the file again from its log,
  the command's flush finds all files known, and `meta.json` then names a
  transaction that `store.bin` lacks. A daemon that opens on that cache does not
  replay the entry either. `LogIsReplayed` does not hold of a daemon that fell
  back, which is the first item again.
* `OpenSeesAll` of `LiveStore` is refuted once `cache_race` is among the faults:
  the load path replaces the cache without the flock, and another process's flush
  or a crash between its two renames leaves one store with the hash list of
  another; if both have as many datoms nobody notices (`layout.rs` 570).
* `WrittenIsFile` of `LiveStore` is refuted: a file is created under its final name
  and written afterwards; whoever reads it in between takes it for tampered with
  and moves it away, and the write still returns `Ok` (`layout.rs` 403).

The passing runs therefore state what holds around these: `group_commit` and
`daemon` without torn frames, `daemon` without harvests as well and with the
visibility of a restart only where it finds no half-written file; `daemon_full` and
`daemon_faults` the weaker guarantees that survive harvests; `live_store` what holds
without the cache race and of transactions that nobody moved away; `daemon_lock`
what holds without the lock race. That a refresh misses files in shard directories
it has seen (`live_store.rs` 256 says so) is in the model and breaks none of these:
flush then refuses to write the cache.

## 4. Proofs

**GroupCommitProofs** proves, for every set of transactions, batch limit, number of
crashes and set of faults:

* `TypeCorrect`: `Spec => []TypeOK`;
* `AckedIsSynced`: whatever fails, the frame of an acknowledged transaction is
  whole and below the fsync watermark;
* `NoRequestForgotten`: whatever fails, a caller that waits in `commit()` is in the
  channel or in the batch;
* `ReadableAlwaysStays`: whatever fails, an acknowledged transaction that can be
  read back stays readable;

and, under the hypothesis that interrupted writes leave no torn frames (`~Tears`,
without which `torn_tail` refutes them):

* `LogStaysIntact`, `AckedIsDurable`, `LiveStaysLogged`, `AckedIsVisible`,
  `VisibleIsLogged`;
* `Refinement`: `Spec => ImplementsDurableCommit`.

The argument. `AckedDurable` is not inductive: a transaction is acknowledged two
steps after its frame was synced, and readable only if every frame before it is.
`TypeInv` adds to the types what each `pc` says of `batch` and `next`
(`Control`). `SyncedInv` adds that from `apply` on every transaction of the
batch has a whole frame below the watermark (`BatchLogged`). `IntactInv` adds
that every complete frame is linked to its predecessor and that the writer's
chain hash is that of the last complete frame (`Intact`), from which whatever
is complete is readable. `LiveInv` adds that what is visible is complete, and
`RefInv` that the requests in the channel and in the batch are exactly the
queued ones, and none of them is visible before `apply`, which is what the
abstract `Reject` needs. `MarkInv` is for `ReadableStays`, which says something of its
own only under torn frames, where `Intact` does not hold (no run has it: in
`group_commit` it follows from `AckedDurable`): frames below the watermark are never
cut, and the chain that makes a frame readable lies before it. Each invariant is
proved action by action; `NextRefines` maps each step to a step of `DurableCommit` or a stutter. The lemmas on steps are
stated for `LogNext`, in which a restart may load any set of transactions, so that
`DaemonProofs` can use them.

**DaemonProofs** proves, for every set of transactions, batch limit and number of
crashes,

* with any harvests and any faults: `TypeCorrect`; `CommitsAreRead`;
  `StoredAlwaysStays`, that only a truncation takes stored data away;
  `NobodyForgotten`, that callers and harvests wait only while a thread has their
  request;
* without harvests and torn frames, half-written files of any origin, refreshes and
  I/O errors included: `AckedIsStored`; `RestartsShowAcked`, that a daemon which
  starts where all files are whole shows what any daemon before it acknowledged;
  `DaemonKeepsPromise`, the refinement of `DurableCommit` by the whole engine, with
  `RecoverPartly` in the place of `Recover`: a start may show less than what is
  stored, never more;
* without harvests, torn frames, refreshes, and failing writes of transaction files
  (`NoWriteErrors`; the half-written files that crashes leave are harmless here, and
  the log may fail to be read): `FilesStayPrefix`;
* with one harvest, any number of crashes and restarts, the half-written files they
  leave, and none of the faults: `FullCheckpointReadsAll` and `HarvestIsFile`.

Each hypothesis is needed. A harvest truncates what was never converted, and leaves
the commit thread with an old chain hash (`stale_chain`); a torn frame hides what
follows it (`torn_tail`); with a file whose write failed, or that a refresh moved
away, the checkpoint thread passes an entry without a whole file, and those behind
it become files. What is acknowledged after a truncation does not pass the chain
check, so that a second full checkpoint would not read it: hence `OneHarvest` (with
two harvests TLC refutes `FullReadsAll`). An I/O error ends a full checkpoint's pass
early, and it truncates all the same.

The argument. Every step of the daemon except a truncation is a step of the log, so
`IntactInv` of `GroupCommitProofs` carries over, and whatever is complete can be
read at a restart (`StoreInv`); with `Applied`, that what is about to be answered is
shown, it gives `RestartsShowAcked`, since a daemon that finds no half-written file
starts by `Restart` (`UpSteps`). `FilesInv` adds that no
transaction is logged twice (`LoggedOnce`, of what is still to be logged: `ToLog`),
and that the checkpoint's offset and its files agree and a running daemon has no
half-written file but the one it is writing (`Converted`). `KeepInv` needs
none of the hypotheses: the watermark, and that the file being written belongs to
the entry at the offset (`Writing`), so that a file which fails was not whole.

`DaemonKeepsPromise` maps the disk of `DurableCommit` to `Stored`, files and readable
log together. `StoredSteps` is the heart of it: only the end of a frame adds to
`Stored`, only a power loss takes from it, and turning frames into files leaves it as
it is, since a file becomes whole only for a frame that can be read (`NewWhole`).
`OnlySubmitted` says that whatever is stored or shown was submitted, and that a
transaction whose caller still waits is shown only between the apply step and the
answer, which the abstract `Reject` needs. `Restart` is the abstract `Recover`, and
`RestartWithoutLog`, which shows the files and not the log, is `RecoverPartly`. The
run `daemon` checks the same refinement.

For the harvest, `HarvestInv` says that `FilesInv` holds until the log has been cut
(`NeverCut`), that who waits for a checkpoint has had the answer of its own commit
(`Asked`), and that at the truncation that entry is a file (`CutReady`).
`FullReadsAll` is about the step into `truncate`: the pass has then reached the end of
the frames that are complete (`EntersTruncate`), since each of them passes the
iterator's checks, and what is acknowledged is among them.

**LiveStoreProofs** proves, for any processes, any finite set of transactions, any
number of shard directories and openings:

* with every fault: `TypeCorrect`; `OnlyFinished`, that no store holds what was not
  written to its end;
* when others see the cache before or after its replacement (`NoCacheRace`, without
  which TLC refutes the first of them): `OpenIsComplete`, that whoever opens the store
  gets every transaction file by whichever path, `KnownMeansLoaded`, that a refresh
  skips no file its store lacks, and `LogStaysReplayed`, that a daemon which started
  on its fast path shows what is in its log; each but for transactions a file of
  which was moved away as corrupt.

`OpenSeesAll` is about a cache that somebody wrote long ago from a store that listed,
loaded and wrote files in between others. The argument follows the files first:
`FilesStep` says that a file stays or is remembered as moved away. `Held` says that
stores, caches, files and log hold only what was finished. `Known` says of each process
that what it has listed was there, and that a hash it counts as known is that of a
loaded transaction or of one that was moved away, and `Cached` the same of
`meta.json` and `store.bin`; they need each other, because a flush takes its
hashes from a process and an opening takes them from the cache. With `Known`,
`LogIsReplayed` is inductive: what `Opened` does not replay it counts as known. The set of
transactions has to be finite because `datom_count` counts them.

**DaemonLockProofs** proves, for every number of daemons and commands:

* `TypeCorrect`, with the bound of two executions, and `CommandAlwaysRuns`:
  `Counted` relates the number of executions to the state of the command and of
  its request;
* `AtMostOneDaemon` and `ServingStaysReachable`, under the hypothesis `Calm` that
  a lock found stale is removed undisturbed (without which `two_daemons` refutes
  them).

`OneDaemon` is not inductive: it says nothing of those that are about to serve.
`OwnerHasLock` says that from the creation of the lock to its removal the lock is
the daemon's own, `StaleIsFree` that while somebody is about to remove a stale
lock there is no such daemon, `ServerHasSocket` that the socket of a serving
daemon is its own; together they are inductive.

**TxStoreProofs** proves, for any agents, clocks, cells, processes and
directories and any number of transactions:

* `TypeCorrect`, `FrontierCorrect`, `CausallyOrdered`, `DecisionsStay`;
* `StoreRefinesLog`: `Spec => ImplementsCausalLog`.

The invariant adds to the properties that a cache has the frontier of its
transactions (`CacheFrontierIsMax`), and that what a process holds or has found is
in some directory (`HeldIsWritten`), which the abstract `Learn` and `Reset`
need. `FrontierAdvanced` is about `apply_datoms`, `NextIsLater` about
`next_tx_id`. `DecisionsStay` follows from causal order: a decision taken by
somebody who knew a proposal has a greater id, so that the proposal is not the
latest assertion.

**LiveViewProofs** proves, for any agents, clocks, cells, values, processes and
directories and any number of transactions, without further hypotheses:

* `LiveViewCorrect`: the live view of a cell that is retracted only to be replaced
  shows its latest value, in whatever order its datoms were indexed.

`LiveIsLatest` is not inductive, since it says nothing of a cell whose latest value
has not arrived or is asserted twice. `Fits` says what a view owes to the assertions
indexed so far: it shows one of them at most, and the last of all once that was
indexed. Indexing any datom keeps it if that datom takes nothing away from the last
assertion (`Harmless`), which a retraction does not whose transaction asserts a
later value (`TxHarmless`). The fold is reasoned about by induction on the finite
set of datoms (`SubsetInduction`, `IndexAllInduction`), where the property is the set
of pairs of subset and view that have it, so that no operator is a parameter. For
this the invariant `LiveIInv` says that finitely many transactions were written, each
with finitely many facts and none both asserted and retracted (`StoreIsPlain`), and
that every process's view fits what it has loaded (`ViewsFit`).

**TasksProofs** proves, for any number of tasks, processes, directories and
writes:

* `TypeCorrect`;
* `CyclesAreAlwaysBlind`: `AcyclicExtended` is the correctness of the search, an
  edge that it allows closes no cycle; each dependency that is not blind was
  checked against all others there were;
* `SomethingToDoAlways`: in an acyclic set of unfinished tasks one depends on no
  other, and what else holds a task back is excluded;
* `StatusOnlyGrows`: directories only get transactions, and the join of more
  assertions is not less.

Every safety invariant, action property and refinement of the passing runs is stated
by one of these theorems. Only model-checked are the liveness properties
(`EveryRequestAnswered`, `LoggedIsConverted`, `HarvestAnswered`, `EveryOperationEnds`,
`EveryStartEnds`, `EveryCommandEnds`): fairness and `ENABLED` are beyond the prover.
`NobodyForgotten` is the part of the first and third that is not liveness.

## 5. What is left out

* Frames have one length; a seek into the middle of a frame, possible after a
  failed truncation, is a seek to a frame boundary here.
* A failed fsync does not drop pages: what was written stays in the file until
  the power fails.
* Hash functions have no collisions; bincode and EDN round-trip.
* The content of transactions, the adaptive batch interval, logging, and lock
  poisoning, which the code recovers from by going on.
* `store.bin` and `meta.json` in `Daemon`: recovery there is loading the
  transaction files they cache, which is what `OpenSeesAll` of `LiveStore` says.
* The state of a file between its last write and its fsync: such a file counts as
  half-written, so that a crash there leaves one that the next load moves away,
  where the code's may pass the hash check.
* In `LiveStore`: I/O errors, which `Checkpoint` has for the conversion of entries;
  that a truncation leaves the commit thread with its old chain hash, which `Daemon`
  has; the `.tmp` files, whose names all processes share;
  the legacy cache formats; `create`; `DiskLayout::write_tx`, which deletes the
  cache and is not used by `LiveStore`; the loss of unsynced cache files with the
  power, which a load notices as undecodable.
* In `DaemonLock`: reuse of pids, the translation of a command into a request,
  permissions, and the mutex of the signal handler. Two commands are executed by
  one daemon independently of each other.
* In `TxStore` and `Tasks`: the failures of reading and writing a file; attributes
  of cardinality many; schema changes; `Store::transact`, `Store::merge` with its
  cascade and `as_of`, which the commands use for output or not at all; other
  commands that write (observe, harvest, session), which write one transaction of
  the same form; verification of acceptance criteria before a task is closed
  (a close takes any of its tasks).
* Agent working sets, branches, deliberations and `resolve_with_trail`: libraries
  that nothing but tests calls.
* Guidance, coherence, budgets, harvest and seed texts, the query engine: pure
  functions of one store, with floating point numbers and text, which make up
  most of the lines of the kernel. They have no protocol to check and their
  results are judged by tuning, not by invariants.
* `ddis-cli`, the Go predecessor: one process folding one file.
* A daemon whose commit or checkpoint thread could not be spawned.

## 6. Plan

1. What holds of the daemon after a truncation: which of the hypotheses of section 4
   on harvests can be replaced by one on the chain hash of the commit thread.
2. The I/O errors of `LiveStore` (a write that fails leaves its file, as a crash
   does) and the `.tmp` files its processes share.
3. `Store::merge` and `as_of`, when commands use their results for more than output.
