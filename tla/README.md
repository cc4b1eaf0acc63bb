# graph_extraction: TLA+ specifications, model checks and proofs

graph_extraction exports transformer models to ONNX, cuts sub-graphs out of
them, runs them over large grids of inputs on SLURM nodes and stores the rows
it computes, layer by layer, for manifold and dimension estimates. Its numerics
are ordinary sequential code. What is hard in it is the machinery around the
numerics: a layer takes days, runs are killed and resumed, its files are spread
over node-local scratch, NFS staging and an SFTP store, several threads and
several jobs touch them, and "the file exists" or "the progress file says so"
decides what is recomputed and what is trusted. This directory specifies that
machinery.

## 1. Inventory

| Component | State | Operations | Interacts with |
|---|---|---|---|
| **Sharded layer writer** (`execute/sharded_writer.py`, `execute/node_relay.py`) | `progress.json` and `manifest.json` on NFS; shard files on each node's scratch and in NFS staging; cursor, open HDF5 file, pending uploads in memory | construct (load, truncate, discard), `write_rows`, roll over, submit / wait for uploads, `close`, `load_shard_rows`, `push`, `ensure_local` | called by the sweep loops; its files are read by training, the readers and the maintenance scripts |
| **Sweep loops** (thirteen scripts: `generate_perturbed_sweep.py` and its kv-cache twin, `generate_base_*.py`, the tangent, ambient, bases and distances sweeps, the autoencoder sweep's variants, and the Jacobian statistics, determinants and overlaps) | one writer per layer, a prefetch queue and thread, the batch size | resume, lockstep over layers, prefetch, out-of-memory retry | the writer, the GPU session |
| **File locks and artifact construction** (`construct/*.py`) | lock files and ONNX artifacts on NFS | `exclusive_lock`, `remove_stale`, `ensure_*`, the test for an outdated batch | every job calls `ensure_*` when it starts, several at once |
| **Batch size search and the config** (`find_max_batch_size.py`, `config.py`) | `batch_by_node` in the model's TOML file | doubling and bisection, write-back after a retried sweep | the exports carry the batch; the directory depends on the table |
| **Remote store** (`upload.py`, `execute/remote_storage.py`) | index on the server, content-addressed blobs, `.ptrs/` of each clone | push, apply-overrides, pull, ls, clean, purge, `ensure_local` | command line and the writer's SFTP backend |
| **Layer-batched drivers** (`run_layer_batched_*.py`, `run_lipschitz_ratio_bootstrap_eqd_sweep_gpu.py`, `sync_node_scratch.sh`, the two relay scripts) | SLURM job ids, files on two nodes and in staging | relay in, train or generate, relay out, reclaim | SLURM, the writer's files |
| **Training and checkpoints** (`train_batched_manifold.py`, `autoencoder/`) | checkpoints per chunk of layers | chunk skipping, periodic and final saves | the shard readers |
| **Shard maintenance** (`scripts/helper/*shard*`, `*manifests*`) | the writer's files | clean corrupt, reclaim pushed, finish and reconstruct manifests | runs by hand beside or between sweeps |
| **Graph extraction and pullback**, **Jacobian execution and optimisation**, **estimators**, **analysis** | ONNX protobufs, arrays | sequential and numeric | none of the above at run time |

### What is hard, and what makes each component correct

- **Writer.** A run may be killed at any instant; the next one may have other
  parameters or run on another node. The NFS progress file and scratch can
  disagree. A pool copies and deletes files while the writer goes on. Uploads
  fail one by one. *Correct when*: the recorded shards are exactly the rows
  0..next_row-1 in order; no recorded shard is backed by a torn file or by
  another shard's rows; what is marked pushed is whole in staging and is never
  lost again; the number of outstanding uploads stays within `max_in_flight`;
  a finished run leaves a manifest whose rows can be read; every run ends.
- **Sweep loops.** Producer and consumer threads, retries with the failed
  attempt's generator still alive, layers that resume from different rows,
  blocks that end where shards do not. *Correct when*: row r of every file is
  the row computed for r, whatever was interrupted; a run that ends without an
  error is complete; every run ends, and an out-of-memory error is retried.
- **Locks and exports.** Waiters remove old lock files by name. Exporters write
  in place and existence stands for completeness; the batch baked into an export
  and the batch a job feeds come from a table that other jobs rewrite. *Correct
  when*: one caller at a time is inside; what is returned is a whole artifact;
  a job runs on exports of its own batch and outputs; the table loses nothing.
- **Remote store.** Push, purge and clean run from several machines without a
  lock on the index; hashes are cached by modification time. *Correct when*:
  whatever the index names is in the store; a path gives what was last pushed
  there; local files are only deleted when their own contents are remote.
- **Drivers and training.** A sequence of jobs that only communicate through
  files, with a driver that can be killed while its jobs go on. *Correct when*:
  no input is reclaimed before what is made from it is saved, one batch at a
  time is resident, no interrupted training is taken for a finished one, and a
  clean run neither raises nor waits for ever.
- **Maintenance.** The scripts delete or rebuild the writer's records. *Correct
  when*: they never turn a torn shard into a recorded one, and never delete the
  last copy of a recorded shard.

The hazards, each at its line and with the properties that cover it, are the
`hazards` of `PROJECT.json`.

## 2. Modules

| Module | What it is |
|---|---|
| `ShardedWriter` | one layer's writer, the NFS relay, the upload pool, crashes, clean-ups and reclaims |
| `ResumableLog` | what a layer's output promises, as four row counts; `ShardedWriter` implements it |
| `ShardedWriterProofs` | lemmas about lists of shards; type correctness and contiguity, proved; and, on one scratch disk, the shard files and pending uploads |
| `DurabilityProofs` | the refinement of `ResumableLog`, what `close()` announces and what later runs leave of it, proved on one scratch disk |
| `SweepLoop` | the loops of thirteen scripts above their writers, the prefetch thread, the retries |
| `SweepProofs` | the loops' safety properties, proved for any numbers and sizes |
| `ArtifactLock` | `exclusive_lock`, `remove_stale` and the `ensure_*` block, by any number of callers |
| `ArtifactLockProofs` | its safety properties, proved |
| `ExportCache` | batch sizes: the config table, the exports made with them, the jobs that use both, the search |
| `ExportCacheProofs` | all its invariants, proved |
| `RemoteStore` | the commands of `upload.py` on index, blobs, pointers and files |
| `PathStore` | what the store promises, as a map from paths to contents; `RemoteStore` implements it |
| `RemoteStoreProofs` | its types, and that recorded hashes are those of the files, proved |
| `OrderlyStoreProofs` | what it promises while deletions are orderly, and the refinement of `PathStore`, proved |
| `LayerBatches` | the drivers, their SLURM jobs and the files of two nodes |
| `LayerBatchesProofs` | all its invariants and its action property, proved for any layers, batches, runs and faults |
| `MC*` | constants for the model checker |

The modules meet at small interfaces. `SweepLoop` sees of a writer the rows it
holds and the rows that are recorded, which is what `ShardedWriter` is shown to
keep. `LayerBatches` sees of a sweep or a training whether its outputs are
there, half written or whole. `ExportCache` takes the lock that `ArtifactLock`
describes as working.

### ShardedWriter

The variables are the code's own: `progress` is `progress.json` (and the
writer's `_progress`, which is the same after every save), `manifest`,
`local[n][i]` is `shard_0000i.h5` on node n, `staged[i]` the same name in NFS
staging, and `next_row`, `cur_shard_idx`, `cur_shard_start`, `cur_h5`,
`blocks_since_flush`, `pending_uploads` are the writer's fields. `call_end` is
the `row_end` of the `write_rows` call in progress and `deferred` the position
of the loop of `_push_deferred_shards`. `cfg` is the run's command line.

Rows carry no payload. A shard file is the rows it was opened for and how many
of them have reached the disk (`[lo, hi, upto]`); it is torn when `upto < hi`.
That is all the properties need to tell a file of the right rows from a
truncated one or from one of another configuration.

Steps are cut where another process or a kill can observe the difference:

| Code | Actions |
|---|---|
| `__post_init__` | `Start`, `DropShardsMissingLocally` (truncation and its save), `DiscardUnfinishedShard` (one file at a time, ascending), `Constructed` |
| `write_rows` | `WriteRows` (its checks), `OpenShard`, `WriteChunk` (one turn of the loop, with the flush), `WriteReturns` |
| `_close_and_upload_shard` | `RecordShard` (close the file, append the entry, save), then `SubmitUpload` |
| `_wait_oldest_pending_upload` | `WaitOldestPendingUpload`, from any of its three callers; a failed upload raises out of the run |
| `AsyncPusher` / `push` | `UploadCopy`, `UploadRemove` (`auto_delete`), `UploadFails`, for any pending upload, in any order |
| `close` | `Close` or `ClosePartialShard`, `PushDeferredShard`, `DeferredSubmitted`, `WriteManifest` |
| interpreter exit | `Exit`: joins the pool, HDF5 flushes what is open |
| SIGKILL | `Crash`: an open file holds what was flushed, and perhaps more |
| `clean_corrupt_shards.py` | `CleanScratch`, between runs |
| `reclaim_pushed_shards.py` | `ReclaimPushed`, between runs: one file of a pushed shard that is in staging |
| caller | `WriteRows` with any block up to `MaxBlock`, `Close` at any point, `CallerRaises` |

`ClosePartialShard` deserves a word: `close()` is documented to finish a shard
that is not full, but it does so with `dset.resize` on datasets that
`_open_shard` creates without chunking, which h5py refuses with a TypeError. So
an early `close()` raises, and the shard is discarded by the next run.

### SweepLoop

A row is its number: the row a loop computes for row r is the label r, wherever
in the file it is then written. `out[l]` is the list of labels in layer l's
writer and `saved[l]` how many of them are in recorded shards, to which a new
writer goes back. `write_rows` is the pair `WriteRows` (its two guards) and
`WriteShardPart` (one turn of its loop).

| Code | Actions |
|---|---|
| `run_perturbed_sweep`, `_run_perturbed_sweep_once` | `OpenPerturbed`, `GetChunk`, `GetMark`, `LayerOfChunk` (skip, trim), `ChunkDone`, `OutOfMemory`, `Join` |
| `_prefetch_chunk_rows`' worker thread | `WorkerPutsChunk`, `BuildFails`, `WorkerPutsError`, `WorkerPutsSentinel`; a put on a full queue is not enabled |
| `generate_base_activations.py` | `OpenActivations`, `LayerOfActivations`, `NextActivations` (lockstep without the trim) |
| ambient, tangent, direct tangent, autoencoder variants | `Open*`, `*Position`: position by position from position 0 |
| bases, distances, statistics, determinants | `Open*`, `*Block`: blocks from `next_row` |
| `generate_base_sequences.py` | `PassOver`, `TakeExample`, `LastExamples`, `EnoughExamples` |
| kv-cache sweep, kernel overlap | `NextGroup`, `Candidates`, `GroupDone`, `KvOutOfMemory` |

Each behaviour is one script (`kind`) run up to `MaxRuns` times with any of the
batch sizes, killed or raising anywhere.

### ArtifactLock

`lock` is the lock file and its age in one bit (younger or older than
`stale_seconds`); `artifact` is the output file: absent, torn, whole, or opened
by two writers at once. `StatLock`, `UnlinkStale` and `CreateLock` are the three
system calls of a waiter's poll, so they interleave; `Leave` is the `finally`
clause, which also unlinks by name. `Decide`, `OpenOutput`, `FinishBuild` and
`BuildRaises` are the block of `ensure_*`; `Kill` stops a process where it is.
`LongHold` says whether a live holder may exceed `stale_seconds`. `aged` and
`cut` are history: whether a lock file ever went stale, and whether a build ever
stopped half-way. They only occur in properties.

### ExportCache

Of an export only the batch dimension, the outputs and (for a pullback) the
batch of its mask matter, and whether it is whole or torn. `config` is the
`batch_by_node` table of the TOML file, or `Lost` while it is truncated;
`files[dir]` the exports in the directory the table selects: the unsuffixed one
when at most one node has an entry, else one per node. A job is a sweep, the base
activations, a sampling, the base statistics, the determinants, or a batch
search; each node runs one at a time.

| Code | Actions |
|---|---|
| `run_perturbed_sweep` up to its session | `CheckBase`, `EnsureBase`, `CheckExtra`, `EnsureExtra`, `OpenSession`; only the sweep compares batches |
| `ensure_*` of the other jobs | the same actions, entered at the place the script starts from |
| `ensure_subgraphs`, the pullback | `EnsureSubgraphs`, `EnsurePullback` |
| the export itself | `BeginWrite` (the file is torn), `EndWrite` |
| the forward pass, the out-of-memory retry | `Run`, `OutOfMemory`, `RunMap` |
| `find_max_batch_size` | `StartFind`, `Double`, `Bisect`; a probe is `Fits` |
| `_update_batch_by_node` | `ReadConfig`, `TruncateConfig`, `WriteConfig` |

### RemoteStore

A *place* is a directory tree with one process: a clone of the project, or a
node's scratch whose files are registered in its clone's `.ptrs/`. The hash of a
file is its content, so a blob may contain something other than its name says.
`job[pl]` is the command running at a place with one task per file, whose stage
is the next server call; every stage may fail (`SftpError`) and every command may
be killed.

| Code | Actions |
|---|---|
| `_push_file`, `cmd_push`, `cmd_apply_overrides` | `StartPush`, `StartOverrides`, `Compare`, `FindBlob`, `PutBlob`, `PushPointer`, `PushIndex`, `EndPush` (may delete what was pushed) |
| `cmd_pull`, `ensure_local`, `_pull_ptr` | `Sync`, `PullName`, `EnsureLocal`, `Check`, `Get`, `Land`, `PullPointer`, `EndPull` |
| `cmd_ls`, `browser.py` | `Browse`, `BrowsePull`, `BrowseDelete`, `DeleteBlob`, `DeleteIndex`, `EndBrowse` |
| `cmd_clean` | `Clean`, `EndClean` |
| `cmd_purge` | `Purge` (reads the index), `ListOrphans`, `RemoveOrphan`, `EndPurge` |

`Orderly` says that deletions are made alone, not broken off, and not of a blob
another path shares; nothing in the code sees to it. `remote_purge` drops it.

### LayerBatches

What a driver batches is a *unit*: a layer, or for the bootstrap sweep a
sublayer, which needs two layers and shares them with its neighbours. `store` is
what each place (storage node, compute node, NFS staging, NFS) holds under each
path: nothing, part of it, half-written files, a periodic checkpoint, or all of
it. Jobs outlive a killed driver. A batch is the set of its units; where the code
has lists, of layers to relay, reclaim or train, they are in the order of
`Layers` (`InOrder`), and the loops over layers are folds of that order
(`FoldLayers`).

| Code | Actions |
|---|---|
| `_make_batches`, `_make_pair_batches` | `MakeBatches`, from `Fits` and `Added` |
| the driver's `main` | `StartDriver`, `CheckBatch`, `Measure`, `SubmitRelayIn`, `SubmitTrain`, `SubmitRelayOut`, `RelayedOut`, `Reclaim`, `KillDriver` |
| `_wait_for_jobs`, `_job_succeeded` | `Waited`, `Succeeded` |
| `scratch_to_nfs.sh`, `nfs_to_scratch.sh` | `UpBegin`, `UpEnd`, `DownBegin`, `DownEnd`, `CleanStaging`; `TornCopyEnds` when files vanish under rsync |
| `_rm_rf_on_node` | `RmBegin`, `RmEnd` |
| `train_batched_manifold.py` | `LoadTraining`, `NextChunk`, `SaveBegin`, `CheckpointEnd`, `SaveEnd`, `TrainDone` |
| the generation jobs | `LoadLayer`, `SkipPair`, `LosesInput`, `SaveBegin`, `SaveEnd` |
| SLURM | `JobFails` |

## 3. Runs

| Run | Bounds | Shows |
|---|---|---|
| `writer_restarts` | one node, 5 rows in shards of 2 (the last one short), blocks up to 3 rows, 3 runs, four upload modes (no push; eager with and without deletion; deferred), `max_in_flight` 1 and 2 | contiguity, intact shards, bounded uploads, readable result, the abstract log, termination |
| `writer_reconfigured` | one node, 4 rows in shards of 1 or 2, or 3 rows in shards of 2; 3 runs | a changed `--shard-rows`, row count or upload mode mixes no old file with a new one |
| `writer_two_nodes` (violation) | two nodes, one shard of two rows, 3 runs | a torn leftover on one node is taken for the shard finished on the other |
| `writer_unpushed` (violation) | one node, 3 shards of one row, 2 runs | a killed run leaves a shard no later run uploads |
| `artifact_lock` | three callers, one of which may be killed; any mix of force; slow holders | exclusion while fresh, whole artifacts, no needless rebuild, everyone is served |
| `artifact_lock_stale` (violation) | the same with no slow holder | two waiters of one stale lock both get in |
| `sweep_loops` | two layers of 8 rows, shards of 3, groups of 4, blocks of 2 to 4, 3 runs, 2 retries, a queue of 2 | row r is what was computed for r; complete ends; every run ends; a memory error near the end is retried |
| `sweep_oom` (violation) | one layer of 6 rows, batches 1 and 2, one retry | after a memory error with more chunks to come than the queue holds, no retry starts |
| `export_cache` | two nodes with capacities 3 and 6 for a probe, 2 and 5 for a sweep, a default batch of 8, 3 jobs, one kill | sessions serve their jobs, the search is exact, the config keeps its updates, pullbacks match |
| `remote_store` | a clone and a scratch disk, two paths of one file name, two contents and a torn one, 3 commands, 3 file writes, orderly deletions | nothing indexed is missing, no cached hash lies, nothing is deleted unsaved; a map from paths to contents |
| `remote_purge` (violation) | the same without orderly deletions | purge deletes a blob that is referenced |
| `layer_batches` | three layers in two batches, eight command lines of the four drivers, 2 runs, 3 faults | inputs are never lost, outputs are saved before inputs go, one batch is resident, clean runs succeed, runs end |

Why the bounds suffice. Three runs are the least in which a record made by one
run is damaged by a second and trusted by a third. Three shards, one of them
short, are the least with a first, a middle and a last one, so that a
truncation keeps some, drops some and can drop a pushed one. A block of three
rows crosses a shard boundary and can fill a shard and open the next. With two
uploads in flight one can be delayed, fail or finish out of order against
another. For the lock, two waiters and one killed holder are needed for the
race of the stale lock file; the theorems cover any number.

For the loops, blocks of 2, 3 and 4 rows against shards of 3 and groups of 4 make
blocks end before, at and after shard and group boundaries, and two layers cut
off at different shards resume at different rows. A queue of two is shorter
than the chunks left in the middle of a sweep and longer than those left at its
end, and both cases are needed for the two properties of the retry. In
`export_cache` the default batch is too large for both nodes, on one of them
still after a retry, and the tables start with one entry or none, so that jobs
move between the shared and the suffixed directories; three jobs let one make an
export, one overtake it and one meet the result. In `remote_store` two paths
of one file name are what `clean` can confuse, and two contents let a path be
replaced and a blob be shared. In `layer_batches` one batch has two layers and
two sublayers share one, three faults can kill a driver, one of its jobs and a
job of the next run, and two runs let jobs of both overlap.

Deadlock is checked for the lock and the drivers. The other systems stop when
their bound on runs or commands is reached.

### Findings

1. `writer_two_nodes` / `KeptShardsAreDone`. `_drop_shards_missing_locally`
   accepts an unpushed shard when a file of its name exists on the node. Node 1
   is killed in the middle of the shard, node 2 completes it without pushing,
   and node 1 then treats its own torn file as done, contrary to lines 194-199.
   On one scratch disk this cannot happen, and that is proved (section 5).
2. `writer_unpushed` / `FinishedMeansPushed`. A shard is recorded before it is
   uploaded, and without `--defer-push` no later run submits it: after a kill
   between the two, all later runs finish cleanly with `pushed: false`,
   contrary to the module's docstring (lines 8-12).
3. `artifact_lock_stale` / `MutualExclusion`. `remove_stale` unlinks by name
   after a separate stat, so of two waiters that saw the same stale file the
   slower one removes the faster one's new lock; the docstring
   (`fs_utils.py:16-19`) says such races are harmless.
4. `sweep_oom` / `OomIsRetried`. Letting go of the out-of-memory exception closes
   the suspended `_prefetch_chunk_rows` generator, whose `finally` joins a worker
   that nobody tells to stop (`generate_perturbed_sweep.py:99`). With more items
   to put than the queue takes, the join never ends and the retry never starts.
5. `remote_purge` / `PurgeKeepsReferenced`. `cmd_purge` removes what an earlier
   snapshot of the index did not name (`upload.py:991`), including a blob whose
   pointer a push has written since.

Noticed while modelling, and stated where a property has to except it:

- The direct tangent sweep has no test for a complete layer, so resuming a
  finished one raises (`OnlyUntrimmedRejected`, `CleanRunSucceeds`); the base
  activations' lockstep does not trim, so a layer that resumes inside a block
  raises. In both the writer's guard saves the data.
- Relays that a killed driver left behind share the staging directory with those
  of the next run, and each removes it after its copy (`alone` in
  `LayerBatches`); a training job left behind can replace final checkpoints by
  periodic ones, and a checkpoint relay left behind can save periodic ones of the
  next run's training; both count as finished (`cut`).
- Layers kept for a later batch that turns out to be complete are never
  reclaimed, contrary to the bootstrap driver's docstring (lines 3-6, 198-201).
  Its launcher script is not in the repository at this commit under the name it
  submits; the model takes it as present.
- Nodes without entries of their own share the unsuffixed export directory, so
  one node's sweep can replace the export another is about to open. Only the
  perturbed sweep compares batches; the other jobs raise on exports of an older
  batch. A torn base export is only replaced by a job that forces it, a torn
  extra-outputs export by none.
- `find_max_batch_size` may return a batch past `--max-batch`.
- `reclaim_pushed_shards.py` trusts staging, from which `nfs_to_scratch.sh`
  removes files: after both, a shard marked pushed can be nowhere. In the model
  nothing is removed from staging, so this is not part of any property.

## 4. Fairness and liveness

`ShardedWriter` assumes weak fairness of the writer's own steps, of its caller
and of the pool: they are threads of one live process. `Crash`, `Start` and
`CleanScratch` have none: nothing obliges SLURM or a person to act. Under it
`RunTerminates` holds: whatever fails, a run that was started comes to an end,
with no wait for an upload that nobody will serve. An upload that hangs for ever
(rsync without a timeout on a dead mount) is outside the model.

`ArtifactLock` assumes weak fairness of each process's steps (they poll in a
loop with a sleep) and of `GrowStale` (time passes). With it `EveryoneServed`
holds, because every process calls `ensure_*` once and so nobody overtakes a
waiter for ever. Each process asks once in the model as in the code: a job
calls `ensure_*` for an artifact when it starts.

`SweepLoop` assumes weak fairness of the main thread and of the prefetch thread,
two threads of one live process; a thread blocked in `put` or `join` has no step.
Kills, memory errors and other exceptions have no fairness. `RunEnds` and
`RetriedNearTheEnd` hold under it, and `OomIsRetried` fails under it.

`LayerBatches` assumes weak fairness of the driver (it polls as long as it lives)
and of SLURM's running some job that can run. Under it `RunEnds` holds: a run
ends unless it waits for the second job of a relay whose first failed, which
SLURM keeps in the queue for ever.

`ExportCache` and `RemoteStore` have safety properties only: their jobs are
sequences of calls that nothing in the model can block.

## 5. Theorems

Checked by TLAPS for all values of the constants; the only assumptions are
`WriterAssumption`, `SweepAssumption`, `LockAssumption`, `ExportCacheAssumption`,
`RemoteAssumption`, `LayersAssumption` (types and non-emptiness of the constants;
a layer is a whole number of groups; no layer is listed twice) and, where it says
so, `OneNode` (all
runs of a layer use one scratch disk), `UniformCut` (their command lines agree on
the rows of the layer and of a shard, whatever else they differ in), `Orderly`
(deletions from the remote store are made alone, not broken off, and not of a
blob another path shares) and `Neighbours` (a layer that two sublayers share is
needed by all those between them; in the configs of `src/configs` each sublayer's
output is the next one's input, which is more; `MCLayerBatches` has TLC evaluate it
for the run's layers).

| Theorem | States |
|---|---|
| `ShardedWriterProofs!TypeCorrect` | `Spec => []TypeOK` |
| `ShardedWriterProofs!ContiguousAlways` | `Spec => []Contiguous` for any nodes and any sequence of configurations |
| `ShardedWriterProofs!IntactOnOneNode` | with `OneNode`, `Spec => []ShardsIntact` |
| `ShardedWriterProofs!InFlightOnOneNode` | with `OneNode`, `Spec => []InFlightBounded` |
| `DurabilityProofs!WriterImplementsLog` | with `OneNode`, `Spec => ImplementsLog` |
| `DurabilityProofs!ClosedOnOneNode` | with `OneNode`, `Spec => []ClosedIsReadable` |
| `DurabilityProofs!PublishedOnOneNode` | with `OneNode` and `UniformCut`, `Spec => []PublishedIsStaged` |
| `SweepProofs!TypeCorrect` | `Spec => []TypeOK` |
| `SweepProofs!RowsStayInPlace` | `Spec => []RowsInPlace`, for any layers, rows, sizes and batches |
| `SweepProofs!OthersAreNeverRejected` | `Spec => []OnlyUntrimmedRejected` |
| `SweepProofs!DoneIsComplete` | `Spec => []FinishedIsComplete` |
| `ArtifactLockProofs!TypeCorrect` | `Spec => []TypeOK` |
| `ArtifactLockProofs!Exclusion` | `Spec => []ExclusiveWhileFresh` |
| `ArtifactLockProofs!WholeForCallers` | `Spec => []ReturnedIsWhole` |
| `ArtifactLockProofs!BuiltOnce` | `Spec => WholeIsKept` |
| `ExportCacheProofs!TypeCorrect` | `Spec => []TypeOK` |
| `ExportCacheProofs!SearchIsExact` | `Spec => []SearchFindsMax`, for all capacities, starts and limits |
| `ExportCacheProofs!RetriedBatchRuns` | `Spec => []WrittenBackFits` |
| `ExportCacheProofs!UpdatesKept` | `Spec => []ConfigKeepsUpdates`, for any number of nodes |
| `ExportCacheProofs!PullbacksMatch` | `Spec => []PullbackMatchesSubgraph` |
| `ExportCacheProofs!SessionsServe` | `Spec => []SessionServesRun`, for any mix of jobs |
| `RemoteStoreProofs!TypeCorrect` | `Spec => []TypeOK` |
| `RemoteStoreProofs!HashesAreTrue` | `Spec => []CachedHashIsTrue`, for any clones and scratch disks |
| `OrderlyStoreProofs!PointersCanBePulled` | with `Orderly`, `Spec => []IndexNamesBlob` |
| `OrderlyStoreProofs!NothingDeletedUnsaved` | with `Orderly`, `Spec => DeletedIsStored` |
| `OrderlyStoreProofs!StoreIsMap` | with `Orderly`, `Spec => ImplementsStore` |
| `LayerBatchesProofs!BatchesMade` | the greedy batches hold every unit, in order; none is empty; each fits or is one unit |
| `LayerBatchesProofs!TypeCorrect` | `Spec => []TypeOK`, for any layers, sizes, command lines, runs and faults |
| `LayerBatchesProofs!NeverLost` | `Spec => []InputNeverLost` |
| `LayerBatchesProofs!ReclaimsSavedOnly` | `Spec => ReclaimsOnlySaved` |
| `LayerBatchesProofs!PassedBatchesSaved` | `Spec => []PassedIsSaved` |
| `LayerBatchesProofs!CleanRunsSucceed` | `Spec => []CleanRunSucceeds` |
| `LayerBatchesProofs!OneBatchAtATime` | with `Neighbours`, `Spec => []OneBatchResident` |

**Contiguity.** `Contiguous` alone is not inductive: `RecordShard` appends the
entry `cur_shard_idx, cur_shard_start..next_row`, so one has to know that the
cursor stands at the end of the list. `Inv == TypeOK /\ Recorded /\ Cursor` says
so at every point of the run where it is true: in particular not between
recording a shard and rolling over, nor after a failed wait, where `cur_h5` is
still set although the file is closed. Even types need it: that
`cur_shard_idx` is a shard number when a shard is opened follows from the list
being a chain of non-empty intervals below `MaxRows` (the lemmas `PrefixChain`,
`AppendChain`, `PushedChain`, `KeptPrefix` about such lists).

**Intact shards and bounded uploads.** `UInv` adds three parts. `Files`: what is
under a recorded shard's name on scratch is that shard or nothing, what is
marked pushed is in staging, and during a run an unpushed recorded shard can
only be missing from scratch because its upload is done (`NotGone`: this is
what construction establishes by truncating). `Uploads`: the pending
uploads are of distinct recorded, unpushed shards in ascending order, each whole
on scratch or in staging according to its state. `OpenFile`: the open file is
the next shard's or the one just recorded, so that nothing is ever written into
another recorded shard's file. `OneNode` is needed: run `writer_two_nodes` is
the counterexample without it.

**The resumable log.** The four counts of `ResumableLog` are, for the writer, the
rows in front of the first shard that is not stored, not confirmed, and so on;
`ChainGrows` orders them. Each action is then a step of the log or a stutter:
appending an entry records, a copy to staging stores, marking an entry confirms,
truncating an unpushed tail loses, a manifest publishes. That truncation and
clean-ups never lose confirmed rows is where `UInv` is used: a pushed shard is in
staging, and a kept list is a prefix that contains every confirmed row.

**After close().** `CInv` says what `close()` has done at each of its steps: in the
loop over deferred shards every shard before `deferred` is pushed or awaited
(`Promised`), while it drains all are, and once closed none is awaited and the
manifest is the list of shards (`Announced`). A shard that is not pushed is
then still on scratch, by `NotGone`.

**Manifests of earlier runs.** With `UniformCut` every run cuts where the earlier
runs cut, so a manifest and the current list agree index by index however far
the list was truncated and grew again (`Aligned`, `SameRows`); re-uploading a
shard overwrites the staged file with the same rows. Without `UniformCut` this is
not so: a smaller `--shard-rows` puts other rows under a published name.

**Rows of the loops.** `SInv` speaks of a loop in two ways: of where its main thread
is once the call of `write_rows` in progress is over (`stage`), and of the rows
each layer then has (`reached`); so a step inside a call changes neither. A call's
remaining rows fit behind those that are there (`CallOK`), and what a loop knows of
`reached` where it is, is one line per loop: `ChunksOK` (chunks end in ascending
order and each next one begins where every layer already is, at or before its
`next_row`), `BlocksOK`, `PositionsOK`, `GroupsOK`, `ExamplesOK` (the usable
examples passed over are the rows there are). `ChunkOrder` carries the chunks
through the prefetch queue, whether or not the thread fails between two of them.
That positions restart at row 0 is safe because their output is one shard: all of
it is recorded or nothing (`LayerOK`). With any chunk size, also one that differs
from the last run's, the trim is what keeps `ChunksOK`.

**Lock.** `LockInv`: while no lock file was ever stale, no waiter is about to
unlink, and whoever is inside has the lock file. `ArtifactInv` follows the
artifact: who builds without force found nothing, who writes is alone, and
nothing torn is left unless a build was cut short.

**Batches and exports.** The invariants follow what each job knows. `SearchInv`:
while doubling, `lo` is the last probe and fits; while bisecting, `lo` fits and
`hi` does not; hence at the end `lo` is the largest. `WrittenInv`: a sweep that
reached its update has run at the batch it will write. `ConfigInv`: while no two
updates overlapped and none was cut, the text a job read is the config, and the
config agrees with what each node was last told (`clobbered \/ Agreed`).
`FilesInv`: a file that is being written has one writer (`WriterOk`), who makes
a pullback only from a whole subgraph, and a subgraph is never replaced once it
is there (`PullsMatch`). `ServeInv` says where a sweep may be in relation to its
directory: unless the directory is shared and was written by another, the base
export it has passed has its batch, and the extra outputs it has passed have
its outputs too (`PlacesOk`, `ExportsOk`).

**Recorded hashes.** `load_ptr` believes a pointer whose mtime is the file's, so
what has to be invariant is about times: no two places have a file of one path
and one time (`FileTimes`), and a hash recorded with a time, in the index, in a
`.ptrs/` file or by a command about to record it, is `Truthful`: a file of that
path and time has that content and is not one being downloaded. The last part is
needed because `_pull_ptr` writes the file first and its pointer after it.
`Handled` says what a command knows of each file it has in hand; `CacheTrue`,
that a blob is what its name says, follows from `PutBlob` uploading a file whose
hash is known. The proof uses that two writes of a file differ in mtime.

**The store as a map.** `OInv` adds what each command may rely on while deletions
are orderly: a push past its blob stage has its blob, a deletion sees the index
as it is and no other path on its blobs, the hashes a purge spares are all those
the index names (`Tidy`), and a deleting command is alone (`Lonely`). Blobs are
then removed only for paths somebody asked to delete, or that nobody names; a push
puts the pointer last, over a blob that is there. Without `Orderly` the invariant
fails where a purge runs next to a push: `remote_purge` is the counterexample.

**Batches and their jobs.** The state of `LayerBatches` has many parts, so its
invariant is built in layers, each proved on top of the ones before:

- `Typed`: the store, the driver and the jobs are well formed. A job is one of four
  kinds with the paths and positions of its kind; inputs on the storage node are
  whole, and nothing but relays and removals on the other node touch inputs. This
  gives `TypeOK` and `InputNeverLost`.
- `Phased`: which of this run's jobs there are at each position of the driver, and
  what each is for (`MineOK`): a relay of a layer of the current batch, a removal of
  one that no later batch needs, a job whose units are the batch's and are still to
  do or done.
- `Sound`: every batch behind the driver has its outputs saved, also the current one
  once its inputs are being reclaimed (`Behind`). For the return of the checkpoints
  it has to follow them through staging, which older jobs could disturb; hence
  `alone`. This gives `ReclaimsOnlySaved`.
- `Finished`: a half-written or periodic checkpoint is only where a job of this run is
  at work on that layer; older jobs neither train it nor copy it while unfinished
  (`WholeOK`), unless the layer is in `cut`. This gives `PassedIsSaved`.
- `Clean`: in a run of its own without faults each relay finds its source whole and
  leaves it whole at the other end, no two relays have one layer, and when the job
  is submitted every layer of the batch is there. This gives `CleanRunSucceeds`.
- `Ordered`: a sublayer is begun only when all batches before its own are complete
  (`InTurn`), so that a batch found incomplete has nothing begun behind it (`Fresh`).
- `Resident`: what this run brought is part of the current batch; when a check passes
  a batch while layers are there, that batch was complete from the start, and during
  the reclaiming each layer is in the list, in the removal under way, or needed by
  the next batch. Here `Neighbours` is used: without it a layer could be kept across
  a batch that does not need it, and TLC refutes `OneBatchResident` on three such
  sublayers. This gives `OneBatchResident`.

A step of a job is summarised once, as its effect on the store and a function from
the jobs to what they are after it (`Heirs`: a removal may tear other jobs'
copies), a step of the driver by what it submits and where it goes; the later layers
use only these summaries. `FoldLayers` is recursive in a position, and facts
about it are shown for the least position at which they would fail
(`LeastElement`, from the library's well-foundedness of `<`). Batches are what
`BatchesMade` says.

The attempt to prove `PassedIsSaved` showed that it was stated too strongly: with
three runs, the checkpoint relay that the first left running can copy a periodic
checkpoint of the second's training to the storage node; that training finishes, and
the third run, with no older job left, takes the copy for finished although nothing
was cut short. `cut` now also has the layers that an older run's job is still to copy
when they are not trained yet. The bound of two runs had hidden it; the invariants
were then checked with three runs before they were proved.

Only model-checked: liveness (`RunTerminates`, `EveryoneServed`, `RunEnds`,
`RetriedNearTheEnd`), which this prover does not handle under fairness. Every
invariant and action property of the passing runs has a theorem, except those of
the runs that show a disagreement, which do not hold.

## 6. Not modelled

- **Numerics**, which are most of the repository: ONNX graph surgery, Jacobians,
  optimisation, autoencoders, estimators, statistics, plots and notebooks, and
  the load tests. They are sequential, keep no state between runs, and their
  correctness is a matter of floating point, for which reference
  implementations and tests are the better tool. They are why the map covers a
  minority of the repository's lines.
- **Writer.** Several layers' writers sharing one `AsyncPusher`: each waits only
  for its own uploads, so sharing delays them, which the free interleaving of
  `PoolStep` covers. The SFTP backend ("kept only as a fallback"). Partial NFS
  writes of `progress.json`, `manifest.json` and staged shards, which are
  written to a temporary name and renamed. Readers that pull shards while a
  writer runs. `ReclaimPushed` and `CleanScratch` happen between runs.
- **Maintenance.** `finish_perturbed_sweep_manifests.py` and
  `reconstruct_perturbed_sweep_manifests.py` push to the SFTP store, which is
  not composed with the writer.
- **Sweep loops.** What the rows contain; uploads (`ShardedWriter` has them) and
  so the pusher that a failed attempt leaves running; the distances sweep's
  random generator, which a resumed run starts anew; the part of the
  autoencoder sweep after its variants.
- **Remote store.** The browser's screens, `migrate`, prefixes in names. One
  process per place, so no two commands race on one `.ptrs/`; the index is read
  in one step; two writes of a file always differ in mtime (a rewrite within one
  tick of the file system's clock would be missed by `load_ptr`, the hazard at
  `upload.py:407`).
- **Layer batches.** One checkpoint chunk per layer; the two `sbatch` calls of a
  relay are one step; sweeps do not push; the manifests of all layers' inputs
  are on NFS; capacity measurement; more than one compute node.
- **Exports.** One job per node at a time; the per-file lock works; the probe
  exports of the search, which have names of their own, are not files; the
  determinants' two reads of the batch are one. The kv-cache export's staleness.
- `gmanifold/concurrent.py` (`fit_concurrent`): independent fits on threads that
  share nothing but a semaphore and are all joined.

## 7. Plan

- The composition of several layers' writers with one pusher, across retries.
- Safety lemmas behind the liveness properties: that a driver's wait can only last
  while a job runs or is stuck, and that a joining main thread and a prefetch thread
  are not both blocked; the progress measure of a run, as an action property.
