# Specifications of the weftdb segment store

TLA+ models of the parts of weftdb whose correctness depends on the order in
which things happen: who may still open a frame when it is unlinked, what a
power cut or an interrupted operation leaves, how one directory fsync serves
several writers, how a retried batch lands once and a retried transaction
overwrites nobody, what recovery may take for damage, which build may open a
store, what passes for a backup, and how stored rows become batches once. TLC
checks them on small instances; TLAPS proves their safety properties for every
value of the constants.

## The system

weftdb stores time series (an *aspect*, with optional tagged *series*) as
write-once segment files, *frames*, in `segments/`, listed by an index database
(`segment_index.db`, turso with MVCC). A server, an orchestration library and
clients sit on top.

| Component | State it keeps | Operations | What makes it correct |
|---|---|---|---|
| Reclaim epochs and reaper (`reaper.rs`) | current epoch, pins per epoch, retired name → epoch, holds; the index's `frame_journal` | `pin`, `retire`, `hold`, `reclaimable`, `sweep`, `forget`, `abandon`, replay at open | a frame is not unlinked while a read or a backup may open it; nothing is forgotten |
| Seal (`segment_store/seal.rs`) | allocators of ids, epochs, generations; index rows; rollup | write frame, fsync `segments/`, commit row under the commit lock | a row's frame is durable; ids order batches by commit; ids and names never recur |
| Maintenance (`segment_store/maint.rs`, `seal.rs` M1–M6) | maintenance lock, plan, pending outputs | reconcile, split, overlap merge, squash, then journal, write, fsync, swap, reap | reads see the same answers; seals beside a swap still win; leftovers are journaled |
| Reads (`segment_store/read.rs`) | a pin | pin, prune, open frames, merge | last writer wins; no missing file |
| Directory syncer (`durable/dirsync.rs`) | requested, completed, poisoned, flight | `sync`, a detached flight | `Ok` means the caller's change is durable; one fsync serves many; nobody is stranded |
| Durable file layer (`durable/fs.rs`, `poison.rs`, `lock.rs`) | store poison, root lock | create-write-fsync, unlink, rename, fsync a directory | ordering of file and directory fsyncs |
| Index transactions (`index_txn.rs`, `segment_index.rs`) | the tables | guarded operations in one transaction, retried on MVCC conflict | all or nothing; a retry overwrites nobody; an ambiguous COMMIT is never retried |
| Change log (`seal.rs`, `load_unprocessed_batch_queue.rs`) | `segment_changes` | record in the seal's commit, fetch, acknowledge a prefix | no sealed span is skipped |
| Ingest (`ingest.rs`, `segment_store/seal.rs`) | batch ledger, commit lock | check the key, cut into chunks, write frames, commit rows, key and series | a retried batch lands once; a refused one leaves no trace in the index |
| Series catalog and span bounds (`segment_index.rs`, `segment_store/read.rs`) | `series`, its cached copy per aspect, widest span per series | resolve tags, register, forget, prune within the bound | a read by tags finds every row acknowledged before it |
| Recovery and quarantine (`segment_store.rs`, `quarantine.rs`) | quarantine records, held journal rows, the restore's marker | classify, adopt, hold, quarantine, expire, release, purge | no healthy frame is lost, no suspect one is purged by itself |
| Store open (`open.rs`, `store_format.rs`, `migrations.rs`) | marker with its floors, its copy in `store_meta`, `store_migrations` | gate, precheck, raise floors, migrate, derive again, settle | an old build never opens what it cannot read; what is refused is unchanged |
| Backup and restore (`backup.rs`, `maint.rs`, `backup_daemon.rs`) | staging and published directories | build, publish, retire, sweep litter, restore | only whole backups have a backup's name; retention keeps what it promised |
| Breaker (`maint.rs`) | failures and deadline per aspect | permit, record | a failing aspect does not stop the sweep, nor is a good one passed over |
| Merge and split (`segment_store/maint.rs`, `split.rs`) | none shared | sweep of spans, fold, cut | no answer changes, no two outputs overlap |
| Timestamp search (`timestamp.rs`) | checkpoints | encode, decode, search | the same row a full scan would find |
| Orchestration (`weft-orchestration`, `database/inputs.rs`) | queue or change log, queued, processed and extracted batches | window, batch, process, extract | each window is batched, and extracted once |
| Server (`weft-server`) | admission permits, daemons, audit trail | request handling, maintenance, shutdown | bounded admission, ordered shutdown |
| Codecs, reductions, line protocol, clients, tools | none shared | encode, aggregate, parse | left to tests |

They interact through the index (one transaction per commit), the directory
`segments/`, the per-aspect locks (`aspect_locks.rs`: a commit lock around each
index commit, a maintenance lock around each maintenance operation and reaper
pass), and the reclaim epochs. A seal takes only the commit lock, and only for
its commit; a read and a backup take none; fsck takes neither.

The hard behaviours, each listed with its line in `PROJECT.json` under
`hazards`: a swap beside reads and a backup; a seal between a swap's plan and
its commit, or in the middle of a recovery pass; a future dropped at any await;
an ambiguous COMMIT; a failed directory fsync; a power cut between a change of a
directory and its fsync; a replay, a restore or a migration that itself stops;
builds of different versions that take turns; a lost wake-up among callers of
one fsync; two batches under one key, or racing for the last place of the
catalog; a cached catalog, span bound or earliest measurement that is older than
a commit; a consumer cut off between its batches and its acknowledgement.

## The modules

| Module | Models | Uses |
|---|---|---|
| `ReclaimEpochs` | the state and operations of `ReclaimEpochs` in `reaper.rs` | |
| `Reclaim` | who may open a frame and when it is unlinked: seals, the swap, the reaper's pass, reads, a backup, a restart | extends `ReclaimEpochs` |
| `VersionedStore` | the promise of one series: a map from timestamps to values, each batch landing once and as a whole, acknowledged batches staying | |
| `SegmentStore` | one series down to the disk: seals, plans and swaps, the reaper's pass, the change log, faults, power cuts, the replay | instantiates `VersionedStore` |
| `Merge` | the overlap merge row by row: components, fold, cut | |
| `DirSyncer` | `DirSyncer` of `dirsync.rs`: callers, the flight, the waiters | |
| `AtomicTxns` | the promise of an index transaction: one step or none, decided from what still holds | |
| `IndexTxn` | the transaction on snapshots, its retries, its errors, the poison | instantiates `AtomicTxns` |
| `Ingest` | idempotent, tagged batches into one aspect: ledger, series cap, commit, catalog cache, pruned reads, restarts | |
| `IngestChunks` | how a batch is cut into the chunks of its frames | |
| `Recovery` | startup recovery, fsck, the restore's pass, quarantine, TTL, release and purge, beside seals and swaps | |
| `StoreOpen` | the marker, the gate and the migrations, over builds that take turns and die anywhere | |
| `Backups` | backups from staging name to retirement, and the whole-store restore, over failures and power cuts | |
| `Breaker` | the sweeps of maintenance and the circuit breaker | |
| `Pipeline` | the batch consumer in both its forms, the moves of batches, extraction | |
| `Checkpoints` | the encoder of timestamps and the search by checkpoints | |
| `ReclaimProofs`, `SegmentStoreProofs`, `IndexTxnProofs`, `IngestProofs`, `RecoveryProofs`, `PipelineProofs` | theorems about the module of that name | extend it, TLAPS |
| `RootProofs` | theorems about `StoreOpen` and `Backups` | extends them, TLAPS |
| `PartsProofs` | theorems about `DirSyncer`, `Breaker`, `IngestChunks`, `Checkpoints`, `Merge` | extends them, TLAPS |
| `MCReclaim`, `MCSegmentStore`, `MCRecovery`, `MCPipeline` | small instances for TLC | extend their module |
| `MCCommits` | `IndexTxn`, `Ingest` | extends the first, instantiates the other |
| `MCReads` | `Ingest` with reads, `Merge`, `Checkpoints` | extends them |
| `MCRoot` | `Recovery`, `StoreOpen`, `Backups` | extends them |
| `MCParts` | `DirSyncer`, `Breaker`, `IngestChunks`, `Pipeline` | extends them |

The last four check several small machines in one run each. The machines share
no state: a behaviour is one of a single machine, chosen by `part`, and the
variables of the others stay at one initial value. Machines that are extended
together have names apart: `BreakerInit` and `BreakerNext`, `chunkVars`, and so
on.

An operator `Bug...` is a mutation of the definition that follows it (a guard
left out, a row not cleared, a wrong order). No specification uses one; each
shows that a property fails when the code is changed that way.

### Reclaim

A frame is a name; `live` are the names the index's rows reference, `linked`
those in the directory, `journal` the `frame_journal` table. `maint` says where
the holder of the maintenance lock stands. The steps are those of the code:
`SwapPlan` is M1–M4, `SwapCommit` the transaction M5, `SwapRetire` the call of
`ReclaimEpochs::retire` after it; the pass is `ReapBegin`, then for each
journaled name G1 and G2 (`SweepTake`, `SweepWait`) and, apart from them, the
unlink (`SweepUnlink`, `SweepRefused`), then `ReapClear` and `ReapForget`. A
read pins, prunes and opens in separate steps and may stop at any of them. The
code counts pins per epoch; the model says which read holds which epoch, and
the count follows. `SwapPlan` links its outputs in one step; operations that
stop in the middle of writing are in `SegmentStore`. Journal state `held` is in
`Recovery`; partial sidecars are left out.

`Spec` is the code when no swap's future is dropped while its COMMIT is in
flight; `SpecDrops` adds that step, `SwapDroppedAtCommit`.

### SegmentStore

A frame is its generation; `data` is what its rows say, `whole` whether its
file was fsynced to the end, `visible` the directory as the running system sees
it, `durable` as a power cut leaves it, and `dropped` the entries the kernel
gave up on when an fsync failed. `rows`, `journal`, `seq`, `rollup` and
`changes` are tables of the index; `alloc` and `genNext` the in-memory
allocators. An index transaction is one step, since the aspect's commit lock
excludes the others and `IndexTxn` implements `AtomicTxns`; it may be
rejected, ambiguous (landed or not, and the store is poisoned) or land for a
caller that is gone; a poisoned store refuses it before it is tried. A maintenance operation is its plan (`PlanReconcile`,
`PlanSplit`, `PlanOverlap`, `PlanSquash`), then `MaintJournal` (M2, M3),
`MaintWrite` per output, `MaintSync` (M4), `SwapCommit` (M5), and the pass.
Which operation runs when, and the thresholds that trigger one, are free.

What is abstracted, and why that loses nothing the properties see:

- One series of one aspect. Series of an aspect share its locks and allocators
  and are swapped apart; the series catalog is in `Ingest`.
- A frame has at most one row per timestamp, and the cut of a split is at any
  timestamp rather than at a row count or a policy's boundary. Rows one by one,
  with runs of equal timestamps, are in `Merge`.
- One plan per swap; the code groups plans of several series into one commit.
- `create_new_write` creates, fills and fsyncs in one step: the generation is
  fresh and no row names it, so only fsck looks at the file in between
  (`Recovery`); a file that stays torn is in `visible` and not in `whole`.
- The allocators are seeded when the open ends; the code seeds them at their
  first use, before anything they depend on can change.
- A replay that fails makes the open fail: it is a restart here. Whether the
  replay left a reason to derive the rollup again is nondeterministic.
- The pass at the start of a swap is one taken while nobody holds the lock.
- A call of `DirSyncer::sync` is one atomic `SyncDir`; `DirSyncer` shows that
  an `Ok` is worth that much.
- Which journaled names a pin holds back is nondeterministic in `Sweep`; that
  is `Reclaim`'s matter.
- A range read returns superseded rows until a merge removes them; the abstract
  store says what the newest row at a timestamp is, not how often it is listed.

### Merge

One call of `reconcile_overlaps_held`, a step for every row: `SweepSpan` is a
turn of `overlap_components`, `TakeComponent` and `TakeMember` begin a component
and the fold of its next member (`StableOrders`: sorted stably, as frames may be
out of order), `MergeLess`, `MergeGreater`, `MergeEqual` and `MergeRest` are the
branches of `merge_newer_wins`, and `SwapOutputs` decides on the split of the
cold prefix, cuts at a time (`SplitIndex`, the code's `partition_point`) and
hands out ids. A row's value is where it came from: its frame and its place
there. Sizes are counted in rows; the
columns of a row are rewritten alike and left out, and failures of the commit
are in `SegmentStore`.

### DirSyncer

The directory is a sequence of changes. A call's steps are the stretches
between two takings of the mutex: `Call` registers, `Enable` re-arms the
`Notified`, `Check` looks at the state and claims the flight if there is none,
`Wake` loops. The flight runs, succeeds, fails or is dropped with its runtime,
publishes under the mutex and notifies after it. `Notified` is a flag per call,
set by `notify_waiters` for those that have enabled it. A caller may be
cancelled at its await.

### AtomicTxns and IndexTxn

A transaction is a list of operations `[kind, key]`; its caller first reads the
rows it decides from (`Look`), and the guarded kinds (`insert`, `replace`,
`delete`, and `raise`, which keeps the larger value of an allocator) re-check
what they need on the snapshot they run on, while `upsert` re-checks nothing
(`IndexOp::is_guarded`). `IndexTxn` is `run_while`: `Begin`, `Apply` per
operation, then `Commit`, `CommitConflicts` or `CommitUnknown`, with `Backoff`
between attempts. A row's value is the number of the transaction that wrote it.
The engine is what the code takes turso's MVCC to be: snapshot isolation with
validation of the rows written, conflicts told before the log record is
written, and any other error of a COMMIT ambiguous (`commit_error_kind`).

`AtomicTxns` says what a caller is entitled to: each transaction takes effect
in one step in which what its guards expect holds, or, when it re-checks
nothing, in which its rows are those of its single snapshot; `ok` means that it
happened, `conflict`, `retryable` and `definite` that it did not, `ambiguous`
either. Steps `Look` and `Base` record what it was decided from.

### Ingest

The tables are `rows` (each says which chunk of which batch it is), `ledger`,
`catalog`, `seq` (`aspect_seq`) and `epochs` (those of `segment_changes`). A
call goes through `SegmentStore::ingest` await by await: `CheckLedger`,
`LookUpSeries` and `CheckRoom` (the early checks), `WriteFrame` per chunk,
`TakeLock`, `Plan` (`publish_ingest` up to its transaction), `Submit`
(`commit_index`, which widens the span bounds), `Commit`, `Finish`, and for a
batch the cap refused at its commit `RemoveFrames`. A read is `resolve_series`
(`Resolve`, `LoadCatalog`, `KeepCatalog`, the three steps of
`cached_series_of`), `span_bound` (`GetBound`, `MeasureBound`, `KeepBound`) and
the loop of `prune_rows` (`Query`, `Recheck`). A caller may be dropped at any
await; a dropped COMMIT has landed or not.

- A batch stands for its fingerprint: equal batches have equal fingerprints and
  different ones do not. Validation, encoding and what a frame says are left
  out, and the chunks of a batch are given (`IngestChunks` cuts them).
- `Plan` is one step: it runs under the commit lock, and nobody else writes the
  tables it reads.
- A retried conflict landed nothing, so the last attempt of a transaction stands
  for all of them (`IndexTxn`). A conflict is an insert whose primary key exists.
- Frames are durable once written and nothing deletes rows: `SegmentStore` is
  about what becomes of frames and rows later. The change log is not
  acknowledged here.
- A selector names exactly one tag set. The bound is the one of a series; the
  one of a whole aspect obeys the same rules.
- Sealing without a key (`seal` and its variants) shares allocator and lock with
  ingest; it is in `SegmentStore`.

### IngestChunks

The two nested loops of `chunk_ingest_rows`: `Take` is a turn of the inner loop,
`Close` the end of one of the outer. A row's cost is the estimate the loop
charges for it and stands for what it adds to the encoded frame. The shortcut
for a batch that fits one frame, and the refusal of a chunk that does not, are
in the caller and left out.

### Recovery

One aspect; a frame is its name, with where its file is (`loc`) and what its
bytes are: still being written, good, damaged, or of a newer build. A pass is
the code's, in its order: the journal's names, the rows, the held frames, the
unclaimed files, then the TTL (`ReadJournal`, `ListRows` and `CheckRow`,
`ListHeld` and `CheckHeld`, `ListOrphans` and `CheckOrphan`, `ListExpired`,
`PurgeUnlink` and `PurgeForget`). What it finds wrong goes through the
transaction (`Quarantine`) and then the rename (`MoveAside`). Beside it seals
and swaps create, fill and commit frames, the reaper sweeps, and an operator
releases and purges; `op` excludes one maintenance request while another runs
(`admission.rs` admits one at a time) and excludes nothing else. A request is
dropped with its client, and the process may die, at any step `CutOff` admits.

- A pass reads its lists once and looks at the frames one by one afterwards, so
  everything may change in between.
- `Torn` says whether a pass may see a frame a seal is still writing. The open
  is followed by a whole pass; a restore's pass also adopts what it finds and
  holds what has no schema yet.
- Relinked rows (a repaired size or span) and sidecars are left out. `declared`
  says whether the aspect has a schema.

### StoreOpen

The numbered steps of `open_preflight` and the open behind it, one action each:
`Preflight` (LOCK and the marker's gate), `OpenDatabases` (the gate of
`store_meta`, and the format to go on with), `Precheck`, `RaiseExpected`,
`CreateDatabases`, `RaisePending`, `ApplyDdl` and `RecordApplied` per migration,
`Rederive`, `Mirror`, `Settle`. Builds are model values with a layout and a
prefix of the registry; they take turns under `LOCK`, and `Exit` ends the holder
anywhere. The marker of a settled store may be lost (`LoseMarker`: a restore
leaves it out). A store from before markers may name frames outside `segments/`
(`unsafe`), which the precheck refuses until an operator repairs it. A marker is
replaced by write, fsync and rename, so that a write of it is one step; a
migration's DDL runs outside any transaction and is idempotent, so it and its
record are two. What a migration makes is reduced to whether it has run, and
whether what it derived is stale since a build that does not know it wrote.

### Backups

A directory has its name in its base (`partial`, final, `deleting`), the names a
power cut may leave it (`disk`), its parts and those that are certain (`kept`).
`DaemonBegins` and `OperatorBegins` create a staging directory, `WritePart` adds
one part, `SyncBuild`, `Publish` and `SyncBase` make it a backup, `BuildFails`
removes what it can. Retention is `List`, `RetireRename`, `RetireSync`,
`RetireRemove`; `Sweep` removes staging litter that has not changed for
`SweepAge`;
a restore builds a root beside, with the intent marker first and the format
last. Stamps are the clock's, and the clock may be set back. What the parts say
is left out, as is the control-plane restore into an existing root, whose four
renames the code documents as not atomic.

### Breaker

A sweep (`BeginSweep`) visits the aspects in order: `Look` asks
`breaker_permits`, `TakeLock` or `Busy` is the attempt at the maintenance lock, `Pass` records an outcome before
the guard is dropped, `Drop` loses the sweep. Sweeps run together, and other
maintenance takes the lock without asking. What a pass does is its outcome.

### Pipeline

`run` is one call of `Pipeline::run`, from `BeginRun` on: the consumer of the change log
(`build_incremental_from_change_log`) or of the queue of unbatched timestamps
(`build_unprocessed_queue`), up to `Store` and `Acknowledge`; then
`MoveInsert`, `MoveDelete`, `Extract`, `Remove`. Every database call is a step,
and ingests go on between them: in rows mode `Enqueue`, `Insert`, `Forget` and
`Requeue`, on a seal-backed aspect one commit and the forgetting of the cached
earliest measurement. A run may fail or end at the points of `CutOff`, with its
cache. Times are points of the aspect's grid and ingests leave no gap, so that a
window is a batch; one pipeline of one aspect runs, with one dictionary or
none. A batch is its window and the writes its rows came with, as the hash of
its data distinguishes. An ingest may write again what was there.

### Checkpoints

`encode_delta_of_delta`, `decode_delta_of_delta` and the checkpoints as
functions over wrapping integers, and `search_sorted_with` step by step:
`SearchAnchor` picks the checkpoint, `ScanRow` is `scan_from`. Which rows the
caller's `accept` refuses is any set.

## The runs

| Run | What it checks | Bounds |
|---|---|---|
| `reclaim` | pinned reads and a backup lose no frame, nothing on disk is forgotten | 2 reads, 3 names |
| `reclaim_drops_read` | counterexample: a dropped swap lets a pass unlink under a read | 1 read, 2 names |
| `store` | refinement of `VersionedStore`, exact rollup, types | 3 batches, 4 generations |
| `store_restart` | durability, complete change log, no resurrection, allocators, refinement, with rejected and ambiguous commits, dropped futures, failed writes and fsyncs, kills and power cuts | 2 batches, 3 generations, 1 restart |
| `commits` | transactions are atomic and the poison ends their retries; the ledger, answers and catalog of `Ingest` are sound (`TablesSound`) and unlinking a refused batch's frames takes none that a row names (`FramesKept`), with failed writes, rejected and ambiguous commits, drops, restarts | 3 transactions on 3 rows, 1 retry; 2 callers, 3 calls, 3 batches, cap 1, 1 restart |
| `reads` | reads find what was acknowledged before them, the cached catalog is the catalog, a prune is exact; a key lands once, answers agree with the ledger; a merge keeps the answers; a search is exact | 2 callers, 2 calls, 1 reader, 2 reads, cap 2, 1 restart; frames of up to 3, 2 and 1 rows over 3 times; columns of up to 4 rows of 2-bit integers, strides 1 to 3 |
| `root` | the gate holds, a refused store is unchanged, nothing underived is served; recovery loses no healthy and purges no suspect frame, keeps its records, binds what a restore brought; backups are whole and stay | 4 builds of 3 layouts, 5 migrations, 5 opens; 2 frames, 4 ids, each outside event once; 3 directories, 1 cut, retention 1 |
| `parts` | `Ok` is durable, failure is final, every call of the syncer returns; the breaker trips when earned; chunks are right; what is acknowledged is batched, and batches are extracted once | 2 callers, 3 calls; 2 sweeps of 1 aspect, threshold 2, cooldown 2, 4 passes; 4 rows, 2 timestamps, 2 costs, 4 targets; 3 times, 3 runs, 1 cut at one of seven points, 2 ingests of the change log or 6 writes of the queue |
| `recovery_seal_race`, `recovery_release`, `pipeline_again`, `pipeline_backfill` | counterexamples, below | 2 frames; 3 times, 3 or 5 runs |

`Names` bounds `Reclaim` by itself: a name is used once. Three suffice for a
swap whose output is swapped again while a read or the backup still has to open
the first member; two reads pin different epochs around it. In `SegmentStore`
four generations are two sealed segments and one operation with two outputs, or
three seals and one merge; three batches are needed for a third segment whose
span overlaps a split's suffix, which is what rule P2 refuses. Two timestamps
suffice for a span that contains another and for a cold prefix. With restarts,
three generations leave two sealed frames and one output, one sealed frame and
the two outputs of its split, or one output whose name a lost allocator would
use again. `DirSyncer` counts calls and changes; with three, one caller can call
before, during and after a flight the other waits for. In `Ingest`, two batches
share a key and differ in their series, a third is new in the series of one of
them, and the cap leaves room for one series: three calls let two race for the
key and the place and the third come after. Of two that race for the place, the
second is refused at its commit and its frames are unlinked, beside COMMITs that
are ambiguous: `FramesKept` is checked there, and not in `reads`, where the cap
has room for both series and nothing is unlinked. For the reads, two batches of one
series have spans such that a bound read before the wider one landed would miss
it, a third, of the other series, has the key of the narrow one, and a second
read finds the cache the first one filled.

In `IndexTxn` two transactions meet on a row and on the allocator while a third,
which re-checks nothing, writes the row the first inserts; one retry lets each
attempt fall before, between and after the commits of the others. In
`StoreOpen` two builds of today's layout differ in their migrations, and two
newer ones add a migration that raises the floor and one that keeps older
writers; five opens let an old build write between two opens of the newest. In
`Recovery`, one frame is tagged and one is not, either may begin as a row or
not, readable or not; `MaxId` leaves two ids to hand out, and each outside event
happens once: one crash and one dropped request cut a pass twice. In `Backups` a
half-built directory of an older release is there, and two more are one backup
and its restore, or two backups and a retirement. In `Merge` three frames make a
component folded in two steps, one of two beside a frame apart, or a span that
contains another, with runs within and at the border of two. Two-bit integers
wrap between any far-apart timestamps. In `Pipeline` three times make two
overlapping windows, and two ingests and three runs put an ingest before, within
and after a run that is cut off. In `IngestChunks` four rows make two chunks
around a run and its neighbour, and the targets are under, at and over the cost
of a row.

Callers of ingest, reads and names are interchangeable in the models, so the
symmetry sets are sound; the run with a liveness property uses none.
`CHECK_DEADLOCK FALSE` is set where the bounds let the system come to rest: all
calls made, all generations used. `Reclaim` never comes to rest (a backup may
always begin), and its runs check deadlock.

### Fairness

Only `DirSyncer` has a liveness property, and `parts` states its fairness: a
woken or newly called caller is polled again (`CallStep`), since the runtime
polls what is ready, and the flight goes on (`FlightStep`), since it is a
spawned task and an fsync returns or fails, or the runtime drops it, which
counts as a step too. No fairness is assumed of new calls, changes or
cancellations.

That retired frames are reaped in the end is not claimed: the reaper runs only
around a swap of the same aspect and at `shutdown`, so a quiet aspect keeps its
retired frames. Nor is it claimed that a conflicted transaction lands in the
end, or that a queued timestamp is batched: retries are bounded, and a window
whose last row never comes stays open.

### What the counterexamples show

- `reclaim_drops_read`: `commit_plans` retires the names after the COMMIT
  returned; a future dropped in between leaves frames journaled as retired that
  the epochs know nothing of. The next pass takes such a frame for one of an
  earlier process and unlinks it under a read. The server drops such futures
  when it aborts its daemons and when a client of a maintenance route goes away.
- `recovery_seal_race`: a seal creates its frame under the final name and fills
  it afterwards. fsck takes a file that neither row nor journal names for an
  orphan; one it reads half-written it moves to `quarantine/`, and the seal then
  commits a row for a frame that is gone.
- `recovery_release`: a release deletes the record before it moves the frame
  back. Cut off in between, the next pass finds a row without a file, records it
  as corrupt, and the TTL purges the frame: a suspect frame, which only an
  operator may purge.
- `pipeline_again`: a consumer takes empty batch tables for a first run; they
  are as empty after every extraction. It builds every window again, and the
  extracted record keeps the old ones out only until its retention ends.
- `pipeline_backfill`: the windows of such a run begin at the cached earliest
  measurement. Rows that came before it since have no window, and their change
  is acknowledged.

### Other deviations met while modelling

No run states these. Each is a behaviour of the code that the models, the bounds
or the wording of the properties leave out, or one they show when a constant is
changed.

Store and reads:

- A newer row that is null is skipped by `read_point` (`read.rs:401`) but wins a
  merge, so a merge changes a point read's answer; the comment of
  `reconcile_overlaps` (`maint.rs:908-909`) says it does not.
- `publish_seal` advances the epoch after the COMMIT returned (`seal.rs:104`); a
  seal dropped in between leaves the next one an epoch already logged, which is
  refused until a maintenance swap or a reopen moves the counter. The server
  detaches the task that seals, so library callers are exposed.
- A frame write runs in a blocking task that a dropped future does not stop
  (`durable/fs.rs:214`): `LateWrite` may create an output after a pass cleared
  its pending row, and neither index nor journal names the frame then.
- After a failed fsync, a restart of the process without one of the machine lets
  the replay clear rows of unlinks that never became durable. `NoResurrection`
  excepts what the kernel dropped.
- In `IndexTxn`, the id guard of a registration and `PutRollup` re-check less
  than the rows they stand for; the commit lock makes up for it. One attempt may
  still begin after the poison, in a transaction that passed `may_retry` before.

Ingest:

- The early check of the cap looks the key up and then counts
  (`seal.rs:688-689`, `seal.rs:874`); when another batch registers the key in the
  last place between the two, a batch of a registered series is refused, which
  `error.rs:240-241` excludes.
- A registering ingest that is dropped while its COMMIT lands never forgets the
  cached catalog (`apply_while`, `segment_index.rs:350-351`), so reads by the
  new tags find nothing until another series is registered or the store is
  reopened: with `"drop"` in `Faults`, `MCReads.cfg` violates `CatalogFresh`.
  The server detaches the task that ingests.
- Between the COMMIT of a registration and the forgetting of the cached catalog,
  a retry of the batch is already told it is stored, and a load that began
  before keeps a catalog without the series. `ReadsSeeAcknowledged` is about
  receipts, not replays of them.
- `chunk_ingest_rows` never cuts in front of a run that turns out too long, so a
  chunk over the target may hold several timestamps; the comment in `ingest`
  (`seal.rs:706-707`) says it holds one. `ChunksSound` says what holds.

Store open:

- A build cut off between `migrations::apply` and the settled marker leaves its
  migrations recorded while the marker's `layout_version` is still the older one.
  If the migration lets older writers in, one may then write, and the next newer
  open finds the migration recorded and a marker whose last writer is not older
  than its layout, and derives nothing again. No registered migration declares
  `older_writers_safe` yet, so no data is wrong today;
  `Rederived` excepts such a migration through `cut`.
- Were there migrations that keep older writers in two different layouts, a
  build between the two would open the store of the newest one as `newer` and
  skip the settling steps (`open.rs:223`, `open.rs:240`, `open.rs:259` of `segment_store`), serve
  what it knows of them underived, and then leave the marker at a writer the
  newest build takes as new enough (`migrations.rs:255`). `migrations.rs:29-31`
  and `store_format.rs:27-29` promise otherwise. The registry has no such
  migration; the instance checked has one, for which `Rederived` holds.

Backups and quarantine:

- A victim renamed to `.deleting-*` whose rename was not synced keeps its old
  mtime, is stale at once, and the sweep removes its files without a sync of the
  base (`backup.rs:676-685`, `backup.rs:741-773`); a power cut may then bring the
  name back over some of them, contrary to `backup.rs:50-52`. With
  `Unsynced = TRUE`, `BackupsSound` is violated.
- `newest_mtime` looks at the direct entries of a staging directory only.
  `.restoring-*` litter is never swept, and is named otherwise than the doc says.
- After the clock was set back, a fresh snapshot sorts oldest and may be the one
  that is pruned. An error after the rename returns `Err` though the backup is
  there, as documented.
- A backup links only frames that rows name. A move into `quarantine/` syncs
  `segments/` only.

Pipeline:

- `move_batches_to_processed` is two transactions, without a key that would
  refuse a second copy, though its trait calls it one atomic operation; cut off
  in between, or between storing patterns and `remove_extracted_batches`, a
  batch is extracted twice. `CutOff` of `parts` leaves these two points out.
- With several dictionaries, the first removes the processed batches and the
  others get none (`pipeline.rs:859-887`). A pattern that could not be stored is
  warned of, and its batches are removed.
- `calculate_affected_windows` takes a window's end as exclusive though its
  batch includes the row there, and its division truncates, which misses window
  0 for timestamps off the grid before it.
- `prepare_data_full_rebuild` clears the queued batches and then the processed:
  cut off there, the queued windows are lost until the next rebuild.

Outside these behaviours the stated properties hold, and where a property could
be stated so that it holds in spite of one (`NoResurrection` apart from
`dropped`, the disk half of `Reclaim` with drops) it is.

## The proofs

The theorems hold for every value of the constants, under assumptions that TLC
evaluates on the instances it checks. `Reclaim` needs none.

| Module | Assumption | What it says |
|---|---|---|
| `SegmentStore` | `StoreAssumption` | there is a first timestamp: they are 64-bit integers |
| `Ingest` | `ConstantsAssumption` | a store has finitely many tag sets, a batch has a chunk, a chunk begins no later than it ends |
| `DirSyncer` | `MaxCallsAssumption` | the bound on calls is a natural number |
| `IndexTxn` | `OpsAssumption` | transactions are numbered and touch a row once |
| `Recovery` | `FramesAssumption` | there are finitely many frames, and at least as many ids |
| `StoreOpen` | `RegistryAssumption` | layouts are bounded and count from 1; a build's migrations need no more than its own layout; it checks stores from before markers |
| `StoreOpen` | `RederiveAssumption` | a migration that lets older builds write is of a layout above theirs, and a build that knows one is kept out by every migration of a layout above its own |
| `Backups` | `BackupsAssumption` | numbers, and an age at which litter is swept of at least 1 |
| `Breaker` | `BreakerAssumption` | threshold and cooldown are natural numbers |
| `IngestChunks` | `ChunksAssumption` | costs and targets are natural numbers |
| `Checkpoints` | `SearchAssumption` | integers have a width, strides are at least 1 |
| `Merge` | `MergeAssumption` | there are finitely many frames, numbered, and none is empty |
| `Pipeline` | `PipelineAssumption` | times count from 0 and a window has a length |
| `Pipeline` | `RetentionAssumption` | the record of extracted batches outlives the runs considered |

Only `Rederived` needs the second assumption of `StoreOpen`: where it fails, the deviation listed above under
"Store open" is what happens. `RetentionAssumption` says what `ExtractedOnce` is
about: a batch whose record has expired may be made again, as `pipeline_again`
shows. Some theorems have a hypothesis besides on what may fail (`~Torn`, no
release cut off, `~Unsynced`, no run cut off at two points) and some on what
callers do (no drop at a COMMIT, `~Backfills`); in each case a counterexample
above, or a deviation listed there, shows that it is needed.

**Reclaim.** That reads find their frames is not inductive: one must know where
a frame on a read's list may be. `ReadInv` says it is linked, not the one being
unlinked, and live, or a member of the swap that committed and has not retired
its names yet, or retired in the read's epoch or a later one. G1 then never
picks it. The third case needs `Retire` to run before the lock is free, which a
swap dropped at its COMMIT breaks; so `ReadInv` is proved for `Spec`. The other
half, `DiskInv`, relates index, journal, directory and the operation in
progress, and does not mention pins: it is inductive under `SpecDrops`. It
carries that live names are never journaled (so what a pass unlinks stays
unreferenced: names are used once), that what a pass may clear is gone from the
directory, and that a frame the backup has still to link is live or retired, so
that the hold protects it. The lemmas go actor by actor; `SwapTxnDisk` is shared
by the swap and the dropped swap. Theorems: `DiskSafety`,
`BackupsFindTheirFrames`, `RowsKeepTheirFrames`, `GuardIsIdle`,
`MaintenanceDoesNotLeak`, `ReadsFindTheirFrames`.

**SegmentStore.** No property of the store is inductive: what an index row may
count on was made so by a seal or a swap that had not committed yet, and what a
power cut may bring back by a pass that had not cleared its journal rows yet.
`IInv` follows a frame through these three ways. `NamesInv`: no generation and
no id is in use twice, be it by a row, a journal row, an open seal or an output.
`AheadInv`: what the index names is below the allocators it records, and these,
with every file, below those of the process; a file on a disk that the running
system no longer sees was recorded before. `PlanInv` and `OpenInv` say what an
operation has in hand at each of its steps, and that an open runs nothing but
the replay. `DiskInv`: a written frame whose fsync can still be trusted becomes
durable with the directory, so that a commit finds it durable; what a pass may
clear from the journal is gone from the disk. `LogInv` sets the change log
beside its consumer, and `RollupExact` is its own invariant given the commit
lock. Theorems: `StoreInvariant`, `RollupIsExact`, `RowsAreDurable`,
`NothingResurrects`, `AllocatorsStayAhead`, `ChangesAreComplete`.

`StoreRefines` is the refinement of `VersionedStore`. Its map takes each
timestamp to the value of the newest row that has it, so every step but the two
commits and the acknowledgement must leave that map alone, and a swap must leave
it alone although it replaces rows by others under other ids. `PlanFolds` is what a swap
relies on: its outputs, or the member it keeps, hold at each timestamp what the
newest member does, and no row that is not a member comes between two members
and holds one of their timestamps (`Apart`). A seal that commits between plan
and swap has an id above all the members', and outputs take ids of members, or a
fresh one for a suffix that nothing newer overlaps (rules P1 and P2 of the
code): `NewestOfMoved` and `SwapValues` draw the conclusion. That reconciles,
splits, overlap merges and squashes are plans of this kind is `PlanStepFolds`;
the boundary of an overlap's cold prefix is where a first timestamp is needed.

**Ingest.** `Safe` holds whatever fails, is dropped or restarts. Its core is
that what a transaction was planned from is still so when it lands (`TxnInv`),
since nobody else holds the lock; that a caller's frames are its own and no
row's until it lands (`FramesInv`); and that an ambiguous COMMIT which landed
leaves the tables as a certain one does, so that the ledger answers the retry
(`LedgerInv`). For the prune, `BoundsInv`: a kept bound covers the stored rows
of its series, and the rows of a transaction about to land, since `apply` widens
before it commits; a width that was measured covers the rows that were not
announced since (`PruneInv`). A read whose bound did not change at its second
look has missed no row (`SettledIsExact`). Theorems: `IngestInvariant`,
`KeysLandOnce`, `AnswersHold`, `RowsKeepFrames`, `CatalogIsSound`,
`PrunesAreExact`.

`Fresh` is about the cached catalog. A tag set is `Known` when it is in the
catalog and no caller whose registration may have landed has still to forget the
copy; every copy that is kept, or is about to be under an unchanged generation,
has all that is known (`CacheInv`). A receipt is returned after the forgetting,
so its tag set is known (`AckInv`), and stays so until the read has resolved it
(`OwedInv`). A caller that is dropped at its COMMIT never forgets, which breaks
`CacheInv` for good; `CatalogStaysFresh` and `ReadsFindAcknowledged` therefore
have the hypothesis that `"drop"` is not among the faults. The server detaches
the task that ingests, so that no request of its drops one.

**DirSyncer.** `FlightInv` says that a flight covers a call no earlier one
covered, that it found at least what is safe, and that nothing the kernel
dropped is below what is safe; `CallInv` that a call whose generation is covered
has its change safe, and that a flight covering it in the act of syncing has
seen its change; `CostInv` charges each fsync to a call. Theorems:
`Invariance`, `OkIsDurable`, `FsyncsAreShared`, `FailureIsFinal` (an action
property).

**IndexTxn.** `Refines` shows that it implements `AtomicTxns`, whose variables
are four of its own, so that the mapping is the identity and every other step a
stutter. What must be known when `Commit` lands is what the attempt has made so
far. `OpenInv`: of an open attempt, each row an operation has touched is what
that operation makes of the row of the snapshot, which met its expectation, and
every other row is the snapshot's. With all operations applied and the rows of
the snapshot unchanged in the database, the merged rows are the abstract
effect. `OnceInv`: a transaction with an operation that re-checks nothing has no
base before its one attempt, which is where a retry too many would show.
`PoisonIsFinal` needs `LateInv`, that an attempt about to begin has begun none
under the poison. `TypeCorrect` is the base of both.

**Recovery.** A pass reads its lists once and acts on them while seals, swaps
and the reaper go on, so what it does is right only by what its lists still say.
`BaseInv` relates them to the store. `WritersOK`: a frame being written has no
row, hold or record. `RowsOK` and `RecordsOK`: each frame has one row or one
record of a row, with an id of its own, so that a release brings back what is
nobody else's. `JournalOK`: the reaper takes nothing held or of another build.
`PassOK`: a pass has seen the frames it must not take for orphans, since it
reads the rows before the files: in a restore all of them, as it adopts, and
otherwise those another build wrote. `CurOK` is about the one frame in
hand between a transaction and its rename, `FoundOK` about what a restore found
and has still to come to. `BesideIsSteady` says once what all that runs beside a
pass leaves alone, so that each part is proved against the pass's own steps.
Theorems: `RecoveryInvariant`, `FramesHaveOneRow`, `RestoresAreBound`,
`RowsLeaveOnRecord` (an action property).

The other three need a hypothesis, which the two counterexamples of `Recovery`
show to be needed. `HealthyStays` is proved where no pass reads a frame that is
still being written (`~Torn`): `SoundOK` says that nothing good is on record or
in hand. `QuarantineIsListed` and `SuspectsAreKept` are proved where no release
is cut off (`"release" \notin CutOff`): `SparedByPass` follows a frame of another
build through the pass, which records it as corrupt, and lets it expire, only
when it is gone; a release cut off leaves one with a row in `quarantine/`. All
other cuts and faults are in the three as in the first four.

**StoreOpen.** That no build works on what it cannot write is not inductive over
deaths: what a dead build leaves must stop the next. `DiskInv`: once a migration
has run, the marker's floor is above what it needs; and when there is no marker,
or it says that nothing is migrating, so that it may be lost, the floor of its
copy in `store_meta` is too. `OwnInv` says of the build at work that its format
is above all that has run, and above what it is still to run, and that the
marker is that format while it applies. `LargerOf` finds the largest floor of
any set of migrations. Theorem: `GateIsKept`. `RefusalsChangeNothing` rests on
`RefusedInv`: while the store is unsafe nothing is written, and no open is past
its precheck, since each build has a migration that checks.

`NothingIsUnderived` is about what a store tells the next build. Three things are
kept true of its marker, of the copy in `store_meta` and of the format in hand
(`Tells`): that it bars a build which derives something from a layout above its
own, that its layout reaches every settled migration of the kind that lets older
builds write, and that its last writer lies below whatever is stale. So a build
whose own migration is stale finds a writer older than that migration and
derives again; one that is older than the store and would have to know of it was
turned away. `StandsInv` follows the build at work: past `Rederive`, nothing it
knows is stale but what was cut off in the middle. A lost marker is why the copy
must tell the same, and why `RaisedLast` is needed: raising floors leaves the
last writer alone.

**Backups.** That a final name holds a whole backup is not inductive under power
cuts: a name that was taken back, or was never synced, may return.
`DirSound` says that a directory which may bear the final name on the disk
is certain to hold what it needs, whatever name it has now; only the directory
that a prune has renamed and not yet synced may have both names, which is why
`~Unsynced` is a hypothesis. `JobSound` says what is left to write
at each step of a build, and that its staging directory is too young to be swept.
For retention, `PruneSound`: a prune lists only after its tick has synced the base, so
all that it counts is durable, and its victims stay in place until it comes to them;
`ToldSound`: of the directories that are durable and no victims there are as many
as were told of, or as many as retention keeps. The last is a count over any
number of directories, carried through each step by the lemmas on cardinality.
Theorem: `BackupsAreSound`.

**Pipeline.** `OnceInv`: the batches that wait, those that are processed and
those on record have nothing in common, except while a run moves them, and what
was extracted is what is on record or about to be. A cut between the two
transactions of a move, or between an extraction and its record, breaks just
this, and `ExtractsOnce` leaves those two points out of `CutOff`; all others are
in. For `AcknowledgesBatched`, `Covered(seen, batches)` says of every window
that is due that its batch is there, unless rows in it wait for work outside
`seen`. It holds of the batches with nothing seen, and from the building of the
batches to the acknowledgement also of what is about to be acknowledged. What an
ingest lands in between is fresh, and stays so: `LateAreFresh` for the rows past
the latest that the run knows of. Without backfills the stored rows are a prefix
of the grid, so a cached earliest measurement is the earliest (`RowsInv`).

**Breaker.** `CountInv`: the failures counted of an aspect are the failures at
the end of what was recorded, and the deadline is the cooldown after the last of
them, from the threshold on. Theorem: `TripsWhenEarned`.

**IngestChunks.** The estimate is the difference of two running sums
(`Estimated`), and `OpenFits` says of the open chunk that the part of it before
its last run is within the target, or it is that run. With both, what a closed
chunk cost, and what one more row would have cost, is known from the sums alone.
Theorem: `ChunksAreSound`.

**Checkpoints.** `WrapDifference` is why the round trip is exact: adding a
difference modulo the width of the integers gives back the stamp, however far
apart two stamps are, so that decoding a column is decoding sums of sums modulo
that width. `StateIs` shows that the state of the walk at a row is determined by
the row; a checkpoint is such a state, so a walk that starts at one goes on as
one that had started at the anchor. `SearchInv`: no row before the walk's is an
answer. Theorem: `SearchIsExact`.

**Merge.** The answers are compared as sets: `Newest` are the rows that no newer
frame supersedes (`AnswerIs` says that an answer is its part at one time), and
`RunsInOrder` says that a frame has a run's rows in the order they were written.
`SweepInv`: the components are in time order, what is unswept begins no
earlier than what is in them, and the last of them does not go past `reach`, so that
a span which begins after it lies after all of them. `PlaceInv`: what is
done lies before what is in hand, and that before what is queued. `FoldInv`: the
output, the rows left of the newer side and those left of the older one that
have no newer row at their time are the newest rows of the members folded so
far, and output and what is left follow one another. A swap then puts `Newest`
of the members in place of the members, whose times nobody else has; wherever it
cuts, no time is on both sides. `SplitIs` and `SortIs` say what the cut and a
stable sort do to rows. Theorem: `MergesKeepAnswers`.

Sums, walks, and the ends of finite sets of any size are proved by induction over
the natural numbers, from the fact that a set of them has a least member
(`Least`, `NatInd`); the library's theorems that take an operator as a parameter
are not used.

Only model-checked: that every call of the syncer returns (`EveryCallReturns`),
since liveness under fairness and `ENABLED` are not within the prover's reach; and
`TypesOK`, `WellTyped` and `TablesSound`, which put invariants of several
machines together. All of the last one's parts that are about `Ingest`, and the
types of `IndexTxn`, are theorems by themselves (`IngestInvariant` and those
after it, `TypeCorrect`), as is `FramesKept`, which `MCCommits` checks of its
instance of `Ingest` (`RowsKeepFrames`), and the inductive invariants of the other machines
have their types among their conjuncts.

## What is not modelled, and the plan

In this order:

1. `Admission`: the permits of the server's queues, the detached commit task,
   and the daemons' shutdown against operations in flight.
2. Column rewrites (add, drop, widen) and the other maintenance of
   `segment_store.rs` that swaps frames without merging them; partial sidecars
   and their unlink order, in `Reclaim` and `Recovery`.
3. The one-way import of the earlier layout (`legacy_seal.rs`,
   `import_rows_mode.rs`), which is resumable.
4. Several dictionaries, several pipelines and gaps in `Pipeline`; timestamps
   off the grid.
5. Schemas and catalogs of aspects and datasets, written once.
6. Value-range pruning and page skipping of reads, against a full scan.

Runs stay at two or three actors and one or two crashes each; the theorems have
no such bounds. Of each new machine, its inductive invariant is checked on a run
first and then proved.

Left out for good: codecs and byte layouts, numerical kernels, parsers, the
TUI and the clients, benchmarks, packaging. They share no state with the store
beyond calls, or compute what a model would only repeat.
