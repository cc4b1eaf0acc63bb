--------------------------- MODULE ShardedWriter ---------------------------
(***************************************************************************)
(* One layer's ShardedLayerWriter (execute/sharded_writer.py) over the     *)
(* NFS relay (execute/node_relay.py): the rows of a layer are written to   *)
(* shard files on node-local scratch, recorded in progress.json on NFS,    *)
(* uploaded to NFS staging by a thread pool, and published in a manifest   *)
(* by close().  A run may be killed between any two steps, its caller may  *)
(* raise, an upload may fail, and the next run may have other parameters   *)
(* or be scheduled on another node.                                        *)
(*                                                                         *)
(* Rows carry no payload: the contents of a shard file are the rows it     *)
(* was opened for and how many of them have reached the file.              *)
(***************************************************************************)
EXTENDS Integers, Sequences, FiniteSets

CONSTANTS
  Node,      \* nodes with a scratch disk of their own
  Configs,   \* parameter sets the layer's command may be run with
  MaxRows,   \* bound: no configuration has more rows
  MaxBlock,  \* bound: rows a caller hands to one write_rows call
  MaxRuns    \* bound: runs started in a behaviour

ConfigType ==
  [n_rows : 1..MaxRows, shard_rows : Nat \ {0}, flush_every : Nat \ {0},
   max_in_flight : Nat \ {0}, no_push : BOOLEAN, defer_push : BOOLEAN,
   auto_delete : BOOLEAN]

ASSUME WriterAssumption ==
  /\ Node # {}
  /\ MaxRows \in Nat \ {0}
  /\ MaxBlock \in Nat \ {0}
  /\ MaxRuns \in Nat
  /\ Configs # {} /\ Configs \subseteq ConfigType

VARIABLES
  progress,            \* progress.json; the writer's _progress is the same after each save
  manifest,            \* manifest.json
  local,               \* shard files on each node's scratch
  staged,              \* shard files in NFS staging
  pc, node, cfg,       \* the running job: where it is, where it runs, its parameters
  next_row, cur_shard_idx, cur_shard_start,
  cur_h5,              \* is a shard file open for writing
  blocks_since_flush,
  call_end,            \* row_end of the write_rows call in progress
  deferred,            \* position of close()'s loop over completed_shards
  pending_uploads,     \* submitted uploads, oldest first
  runs                 \* runs started so far

disk == <<progress, manifest, local, staged>>
shard == <<next_row, cur_shard_idx, cur_shard_start, cur_h5, blocks_since_flush>>
job == <<node, cfg, runs>>
vars == <<disk, pc, job, shard, call_end, deferred, pending_uploads>>

Row == 0..MaxRows
Idx == 0..(MaxRows - 1)

(* A shard file was opened for rows lo..hi-1; those below upto are in it.  *)
File == [lo : Row, hi : Row, upto : Row]
NoFile == [lo |-> 0, hi |-> 0, upto |-> 0]
Torn(f) == f.upto < f.hi

ShardEntry == [shard_idx : Idx, row_start : Row, row_end : Row, pushed : BOOLEAN]
Holds(f, s) == f = [lo |-> s.row_start, hi |-> s.row_end, upto |-> s.row_end]

shards == progress.completed_shards
First(ks, none) == IF ks = {} THEN none ELSE CHOOSE k \in ks : \A j \in ks : k <= j
LastEnd(ss) == IF ss = <<>> THEN 0 ELSE ss[Len(ss)].row_end

(* n_rows of the dict in memory: the file's when one was loaded.           *)
ProgressRows == IF progress.exists THEN progress.n_rows ELSE cfg.n_rows
SaveProgress(ss, row) ==
  progress' = [exists |-> TRUE, n_rows |-> ProgressRows,
               completed_shards |-> ss, next_row |-> row]

ShardCapacityEnd(start) ==
  IF start + cfg.shard_rows <= cfg.n_rows THEN start + cfg.shard_rows ELSE cfg.n_rows

Running == pc # "down"
Init ==
  /\ progress = [exists |-> FALSE, n_rows |-> 0, completed_shards |-> <<>>, next_row |-> 0]
  /\ manifest = progress
  /\ local = [n \in Node |-> [i \in Idx |-> NoFile]]
  /\ staged = [i \in Idx |-> NoFile]
  /\ pc = "down" /\ node \in Node /\ cfg \in Configs /\ runs = 0
  /\ next_row = 0 /\ cur_shard_idx = 0 /\ cur_shard_start = 0
  /\ cur_h5 = FALSE /\ blocks_since_flush = 0
  /\ call_end = 0 /\ deferred = 0 /\ pending_uploads = <<>>

-----------------------------------------------------------------------------
(* Construction: load progress.json, reconcile it with scratch.            *)

Start(n, c) ==
  /\ pc = "down" /\ runs < MaxRuns
  /\ pc' = "load" /\ node' = n /\ cfg' = c /\ runs' = runs + 1
  /\ UNCHANGED <<disk, shard, call_end, deferred, pending_uploads>>

MissingLocally(s) == ~s.pushed /\ local[node][s.shard_idx] = NoFile

(* Mutants: only the missing shards are dropped; all of them are.          *)
KeptShards_OnlyMissing == SelectSeq(shards, LAMBDA s : ~MissingLocally(s))
KeptShards_StartOver ==
  IF \E k \in 1..Len(shards) : MissingLocally(shards[k]) THEN <<>> ELSE shards

(* The shards before the first one that is not pushed and not here.       *)
KeptShards ==
  SubSeq(shards, 1, First({k \in 1..Len(shards) : MissingLocally(shards[k])},
                          Len(shards) + 1) - 1)

(* Mutant: the next row is computed from the run's own shard_rows.         *)
DropShards_Aligned ==
  /\ pc = "load"
  /\ IF KeptShards = shards THEN UNCHANGED progress
     ELSE SaveProgress(KeptShards, LastEnd(KeptShards))
  /\ cur_shard_idx' = Len(KeptShards)
  /\ cur_shard_start' = Len(KeptShards) * cfg.shard_rows
  /\ next_row' = Len(KeptShards) * cfg.shard_rows
  /\ cur_h5' = FALSE /\ blocks_since_flush' = 0
  /\ pc' = "discard"
  /\ UNCHANGED <<manifest, local, staged, job, call_end, deferred, pending_uploads>>

DropShardsMissingLocally ==
  /\ pc = "load"
  /\ IF KeptShards = shards THEN UNCHANGED progress
     ELSE SaveProgress(KeptShards, LastEnd(KeptShards))
  /\ cur_shard_idx' = Len(KeptShards)
  /\ cur_shard_start' = LastEnd(KeptShards)
  /\ next_row' = LastEnd(KeptShards)
  /\ cur_h5' = FALSE /\ blocks_since_flush' = 0
  /\ pc' = "discard"
  /\ UNCHANGED <<manifest, local, staged, job, call_end, deferred, pending_uploads>>

Unfinished == {i \in Idx : i >= cur_shard_idx /\ local[node][i] # NoFile}

DiscardUnfinishedShard ==
  /\ pc = "discard"
  /\ \E i \in Unfinished :
       /\ \A j \in Unfinished : i <= j
       /\ local' = [local EXCEPT ![node][i] = NoFile]
  /\ UNCHANGED <<progress, manifest, staged, pc, job, shard, call_end, deferred,
                 pending_uploads>>

Constructed ==
  /\ pc = "discard" /\ Unfinished = {}
  /\ pc' = "ready"
  /\ UNCHANGED <<disk, job, shard, call_end, deferred, pending_uploads>>
-----------------------------------------------------------------------------
(* write_rows: fill the open shard chunk by chunk, rolling over when full. *)

(* Mutant: without the check against n_rows.                               *)
WriteRows_PastEnd(row_end) ==
  /\ pc = "ready"
  /\ row_end > next_row
  /\ call_end' = row_end /\ pc' = "write"
  /\ UNCHANGED <<disk, job, shard, deferred, pending_uploads>>

WriteRows(row_end) ==
  /\ pc = "ready"
  /\ row_end > next_row /\ row_end <= cfg.n_rows
  /\ call_end' = row_end /\ pc' = "write"
  /\ UNCHANGED <<disk, job, shard, deferred, pending_uploads>>

OpenShard ==
  /\ pc = "write" /\ ~cur_h5 /\ next_row < call_end
  /\ local' = [local EXCEPT ![node][cur_shard_idx] =
                 [lo |-> cur_shard_start, hi |-> ShardCapacityEnd(cur_shard_start),
                  upto |-> cur_shard_start]]
  /\ cur_h5' = TRUE
  /\ UNCHANGED <<progress, manifest, staged, pc, job, next_row, cur_shard_idx,
                 cur_shard_start, blocks_since_flush, call_end, deferred, pending_uploads>>

WriteChunk ==
  LET capacity_end == ShardCapacityEnd(cur_shard_start)
      chunk_end    == IF call_end <= capacity_end THEN call_end ELSE capacity_end
      full         == chunk_end = capacity_end
      flush        == full \/ blocks_since_flush + 1 >= cfg.flush_every
  IN  /\ pc = "write" /\ cur_h5 /\ next_row < call_end
      /\ next_row' = chunk_end
      /\ local' = IF flush THEN [local EXCEPT ![node][cur_shard_idx].upto = chunk_end]
                           ELSE local
      /\ blocks_since_flush' = IF flush THEN 0 ELSE blocks_since_flush + 1
      /\ pc' = IF full THEN "full" ELSE "write"
      /\ UNCHANGED <<progress, manifest, staged, job, cur_shard_idx, cur_shard_start,
                     cur_h5, call_end, deferred, pending_uploads>>

WriteReturns ==
  /\ pc = "write" /\ next_row = call_end
  /\ pc' = "ready"
  /\ UNCHANGED <<disk, job, shard, call_end, deferred, pending_uploads>>

Rollover ==
  /\ cur_h5' = FALSE
  /\ cur_shard_idx' = cur_shard_idx + 1
  /\ cur_shard_start' = next_row
  /\ UNCHANGED <<next_row, blocks_since_flush>>

(* Mutant: an uploading configuration records the shard as pushed.         *)
Entry_Pushed == [shard_idx |-> cur_shard_idx, row_start |-> cur_shard_start,
                 row_end |-> next_row, pushed |-> ~cfg.no_push]

Entry == [shard_idx |-> cur_shard_idx, row_start |-> cur_shard_start,
          row_end |-> next_row, pushed |-> FALSE]

(* _close_and_upload_shard up to the upload: the file is closed and the    *)
(* shard recorded as not pushed.                                           *)
RecordShard ==
  /\ pc = "full"
  /\ local' = [local EXCEPT ![node][cur_shard_idx].hi = next_row,
                            ![node][cur_shard_idx].upto = next_row]
  /\ SaveProgress(Append(shards, Entry), next_row)
  /\ IF cfg.no_push \/ cfg.defer_push
     THEN Rollover /\ pc' = "write"
     ELSE pc' = "submit" /\ UNCHANGED shard
  /\ UNCHANGED <<manifest, staged, job, call_end, deferred, pending_uploads>>
-----------------------------------------------------------------------------
(* Uploads: the writer's side.                                             *)

Upload(s) == [shard_idx |-> s.shard_idx, state |-> "queued"]

(* Mutants: one upload too many; one too few.                              *)
Keep_Loose == IF pc = "drain" THEN 0 ELSE cfg.max_in_flight
Keep_Tight == IF pc = "drain" THEN 0 ELSE cfg.max_in_flight - 2

(* How many uploads may stay pending while the writer goes on.             *)
Keep == IF pc = "drain" THEN 0 ELSE cfg.max_in_flight - 1

(* Mutant: the upload's result is not looked at.                           *)
WaitOldest_IgnoresFailure ==
  /\ pc \in {"submit", "drain"} \/ (pc = "defer" /\ deferred <= Len(shards))
  /\ Len(pending_uploads) > Keep /\ pending_uploads # <<>>
  /\ Head(pending_uploads).state \in {"done", "failed"}
  /\ pending_uploads' = Tail(pending_uploads)
  /\ SaveProgress([shards EXCEPT ![Head(pending_uploads).shard_idx + 1].pushed = TRUE],
                  next_row)
  /\ UNCHANGED <<manifest, local, staged, pc, job, shard, call_end, deferred>>

WaitOldestPendingUpload ==
  /\ \/ pc \in {"submit", "drain"}
     \/ pc = "defer" /\ deferred <= Len(shards) /\ ~shards[deferred].pushed
  /\ Len(pending_uploads) > Keep /\ pending_uploads # <<>>
  /\ pending_uploads' = Tail(pending_uploads)
  /\ LET up == Head(pending_uploads)
     IN  \/ /\ up.state = "done"
            /\ SaveProgress([shards EXCEPT ![up.shard_idx + 1].pushed = TRUE], next_row)
            /\ UNCHANGED pc
         \/ /\ up.state = "failed"
            /\ pc' = "exiting"
            /\ UNCHANGED progress
  /\ UNCHANGED <<manifest, local, staged, job, shard, call_end, deferred>>

SubmitUpload ==
  /\ pc = "submit" /\ Len(pending_uploads) <= Keep
  /\ pending_uploads' = Append(pending_uploads, Upload(shards[cur_shard_idx + 1]))
  /\ Rollover
  /\ pc' = "write"
  /\ UNCHANGED <<disk, job, call_end, deferred>>

(* Uploads: the pool's side, one rsync per upload in any order.            *)

UploadCopy(k) ==
  LET i == pending_uploads[k].shard_idx
  IN  /\ pending_uploads[k].state = "queued"
      /\ local[node][i] # NoFile
      /\ staged' = [staged EXCEPT ![i] = local[node][i]]
      /\ pending_uploads' = [pending_uploads EXCEPT ![k].state =
                               IF cfg.auto_delete THEN "copied" ELSE "done"]
      /\ UNCHANGED <<progress, manifest, local, pc, job, shard, call_end, deferred>>

UploadRemove(k) ==
  /\ pending_uploads[k].state = "copied"
  /\ local' = [local EXCEPT ![node][pending_uploads[k].shard_idx] = NoFile]
  /\ pending_uploads' = [pending_uploads EXCEPT ![k].state = "done"]
  /\ UNCHANGED <<progress, manifest, staged, pc, job, shard, call_end, deferred>>

UploadFails(k) ==
  /\ pending_uploads[k].state = "queued"
  /\ pending_uploads' = [pending_uploads EXCEPT ![k].state = "failed"]
  /\ UNCHANGED <<disk, pc, job, shard, call_end, deferred>>

PoolStep == \E k \in 1..Len(pending_uploads) :
              UploadCopy(k) \/ UploadRemove(k) \/ UploadFails(k)
-----------------------------------------------------------------------------
(* close(): upload what was deferred, drain, publish.                      *)

Close ==
  /\ pc = "ready" /\ ~cur_h5
  /\ pc' = IF cfg.defer_push /\ ~cfg.no_push THEN "defer" ELSE "drain"
  /\ deferred' = 1
  /\ UNCHANGED <<disk, job, shard, call_end, pending_uploads>>

(* A shard that is open when close() is called is never full.  Its         *)
(* datasets were created without chunking, so dset.resize raises.          *)
ClosePartialShard ==
  /\ pc = "ready" /\ cur_h5
  /\ pc' = "exiting"
  /\ UNCHANGED <<disk, job, shard, call_end, deferred, pending_uploads>>

PushDeferredShard ==
  /\ pc = "defer" /\ deferred <= Len(shards)
  /\ shards[deferred].pushed \/ Len(pending_uploads) <= Keep
  /\ pending_uploads' = IF shards[deferred].pushed THEN pending_uploads
                        ELSE Append(pending_uploads, Upload(shards[deferred]))
  /\ deferred' = deferred + 1
  /\ UNCHANGED <<disk, pc, job, shard, call_end>>

DeferredSubmitted ==
  /\ pc = "defer" /\ deferred > Len(shards)
  /\ pc' = "drain"
  /\ UNCHANGED <<disk, job, shard, call_end, deferred, pending_uploads>>

(* Mutant: the manifest is written without waiting for the uploads.        *)
WriteManifest_NoDrain ==
  /\ pc = "drain"
  /\ manifest' = [exists |-> TRUE, n_rows |-> ProgressRows,
                  completed_shards |-> shards, next_row |-> next_row]
  /\ pc' = "closed"
  /\ UNCHANGED <<progress, local, staged, job, shard, call_end, deferred, pending_uploads>>

WriteManifest ==
  /\ pc = "drain" /\ pending_uploads = <<>>
  /\ manifest' = [exists |-> TRUE, n_rows |-> ProgressRows,
                  completed_shards |-> shards, next_row |-> next_row]
  /\ pc' = "closed"
  /\ UNCHANGED <<progress, local, staged, job, shard, call_end, deferred, pending_uploads>>

(* load_shard_rows: the file a reader on node n opens for one manifest     *)
(* entry; ensure_local takes a copy on scratch as it is.                   *)
LoadedShard(n, s) ==
  IF s.pushed /\ local[n][s.shard_idx] = NoFile THEN staged[s.shard_idx]
  ELSE local[n][s.shard_idx]
-----------------------------------------------------------------------------
(* How a run ends.                                                         *)

CallerRaises ==
  /\ pc = "ready"
  /\ pc' = "exiting"
  /\ UNCHANGED <<disk, job, shard, call_end, deferred, pending_uploads>>

NoJob ==
  /\ pc' = "down"
  /\ next_row' = 0 /\ cur_shard_idx' = 0 /\ cur_shard_start' = 0
  /\ cur_h5' = FALSE /\ blocks_since_flush' = 0
  /\ call_end' = 0 /\ deferred' = 0 /\ pending_uploads' = <<>>

(* The interpreter joins the pool's threads and HDF5 flushes open files.   *)
Exit ==
  /\ pc \in {"exiting", "closed"}
  /\ \A k \in 1..Len(pending_uploads) : pending_uploads[k].state \in {"done", "failed"}
  /\ local' = IF cur_h5 THEN [local EXCEPT ![node][cur_shard_idx].upto = next_row]
                        ELSE local
  /\ NoJob
  /\ UNCHANGED <<progress, manifest, staged, job>>

(* SIGKILL: an open file holds what was flushed and perhaps more.          *)
Crash ==
  /\ Running
  /\ IF cur_h5
     THEN \E row \in local[node][cur_shard_idx].upto..next_row :
            local' = [local EXCEPT ![node][cur_shard_idx].upto = row]
     ELSE UNCHANGED local
  /\ NoJob
  /\ UNCHANGED <<progress, manifest, staged, job>>

(* clean_corrupt_shards.py between runs: every shard file of a node, or    *)
(* with --only-corrupt those that do not open, which are torn ones.        *)
CleanScratch(n) ==
  /\ pc = "down"
  /\ \E gone \in {Idx} \cup SUBSET {i \in Idx : Torn(local[n][i])} :
       local' = [local EXCEPT ![n] = [i \in Idx |-> IF i \in gone THEN NoFile ELSE @[i]]]
  /\ UNCHANGED <<progress, manifest, staged, pc, job, shard, call_end, deferred,
                 pending_uploads>>

(* reclaim_pushed_shards.py between runs: scratch files of shards that are *)
(* marked pushed and have a file in staging; any of them, as it may stop   *)
(* once enough space is free.                                              *)
Reclaimable(n) ==
  {i \in Idx : /\ local[n][i] # NoFile /\ staged[i] # NoFile
               /\ \E k \in 1..Len(shards) : shards[k].shard_idx = i /\ shards[k].pushed}

ReclaimPushed(n) ==
  /\ pc = "down"
  /\ \E i \in Reclaimable(n) : local' = [local EXCEPT ![n][i] = NoFile]
  /\ UNCHANGED <<progress, manifest, staged, pc, job, shard, call_end, deferred,
                 pending_uploads>>

WriterStep ==
  \/ DropShardsMissingLocally \/ DiscardUnfinishedShard \/ Constructed
  \/ OpenShard \/ WriteChunk \/ WriteReturns \/ RecordShard
  \/ WaitOldestPendingUpload \/ SubmitUpload
  \/ PushDeferredShard \/ DeferredSubmitted \/ WriteManifest \/ Exit

CallerStep ==
  \/ \E row_end \in (next_row + 1)..(next_row + MaxBlock) : WriteRows(row_end)
  \/ Close \/ ClosePartialShard \/ CallerRaises

Environment ==
  \/ \E n \in Node, c \in Configs : Start(n, c)
  \/ \E n \in Node : CleanScratch(n) \/ ReclaimPushed(n)
  \/ Crash

Next == WriterStep \/ CallerStep \/ PoolStep \/ Environment

(* A live process keeps executing its own code and the pool keeps serving  *)
(* its queue; nothing obliges SLURM to start, kill or clean anything.      *)
Fairness == WF_vars(WriterStep) /\ WF_vars(CallerStep) /\ WF_vars(PoolStep)

Spec == Init /\ [][Next]_vars /\ Fairness
-----------------------------------------------------------------------------
(* Properties.                                                             *)

(* Types of the persistent records and of the running job's fields.        *)
ProgressType == [exists : BOOLEAN, n_rows : Row, completed_shards : Seq(ShardEntry),
                 next_row : Row]
UploadType == [shard_idx : Idx, state : {"queued", "copied", "done", "failed"}]

TypeOK ==
  /\ progress \in ProgressType /\ manifest \in ProgressType
  /\ local \in [Node -> [Idx -> File]] /\ staged \in [Idx -> File]
  /\ pc \in {"down", "load", "discard", "ready", "write", "full", "submit", "defer",
             "drain", "closed", "exiting"}
  /\ node \in Node /\ cfg \in Configs /\ runs \in 0..MaxRuns
  /\ next_row \in Row /\ cur_shard_idx \in Row /\ cur_shard_start \in Row
  /\ cur_h5 \in BOOLEAN /\ blocks_since_flush \in Nat
  /\ call_end \in Row /\ deferred \in Nat
  /\ pending_uploads \in Seq(UploadType)

(* completed_shards numbers its shards 0, 1, 2, ... and they cover rows    *)
(* 0..next_row-1 without a gap, an overlap or an empty shard, after any    *)
(* number of crashes, truncations and changes of --shard-rows: what a      *)
(* loader concatenates in shard_idx order is the layer's rows in order.    *)
Contiguous ==
  /\ \A k \in 1..Len(shards) :
       /\ shards[k].shard_idx = k - 1
       /\ shards[k].row_start = IF k = 1 THEN 0 ELSE shards[k - 1].row_end
       /\ shards[k].row_start < shards[k].row_end
  /\ progress.next_row = LastEnd(shards)

(* At most max_in_flight uploads are outstanding, each of another shard    *)
(* that is recorded, not yet marked pushed, and whole on scratch until it  *)
(* is copied and in staging from then on.                                  *)
InFlightBounded ==
  /\ Len(pending_uploads) <= cfg.max_in_flight
  /\ \A k \in 1..Len(pending_uploads) :
       LET up == pending_uploads[k]
           s  == shards[up.shard_idx + 1]
       IN  /\ \A j \in 1..(k - 1) : pending_uploads[j].shard_idx < up.shard_idx
           /\ up.shard_idx < Len(shards) /\ ~s.pushed
           /\ up.state = "queued" => Holds(local[node][up.shard_idx], s)
           /\ up.state \in {"copied", "done"} => Holds(staged[up.shard_idx], s)

(* A recorded shard is never backed by a torn file or by another shard's   *)
(* rows: what scratch has under its name is the whole shard or nothing,    *)
(* and what is marked pushed is whole in staging.                          *)
ShardsIntact ==
  \A k \in 1..Len(shards) :
    /\ \A n \in Node : local[n][k - 1] = NoFile \/ Holds(local[n][k - 1], shards[k])
    /\ shards[k].pushed => Holds(staged[k - 1], shards[k])

(* Once close() has returned, load_shard_rows on the same node reads every *)
(* row of the manifest from whole shards, and a deferred run has left no   *)
(* shard behind.                                                           *)
ClosedIsReadable ==
  pc = "closed" =>
    /\ manifest.completed_shards = shards /\ manifest.next_row = LastEnd(shards)
    /\ \A k \in 1..Len(shards) : Holds(LoadedShard(node, shards[k]), shards[k])
    /\ cfg.defer_push /\ ~cfg.no_push => \A k \in 1..Len(shards) : shards[k].pushed

(* Every shard a manifest lists as pushed is in staging with the rows the  *)
(* manifest gives it, also while later runs recompute and re-upload.       *)
PublishedIsStaged ==
  \A k \in 1..Len(manifest.completed_shards) :
    LET s == manifest.completed_shards[k]
    IN  s.pushed => Holds(staged[s.shard_idx], s)

(* The writer promises what a resumable log of rows promises.              *)
RowsBefore(ss, ks) == IF ks = {} THEN LastEnd(ss) ELSE ss[First(ks, 1)].row_start
ConfirmedRows == RowsBefore(shards, {k \in 1..Len(shards) : ~shards[k].pushed})
DurableRows ==
  RowsBefore(shards, {k \in 1..Len(shards) : ~Holds(staged[shards[k].shard_idx], shards[k])})

Log == INSTANCE ResumableLog WITH
         recorded <- progress.next_row, durable <- DurableRows,
         confirmed <- ConfirmedRows, published <- manifest.next_row
ImplementsLog == Log!Spec

(* No run waits forever: whatever fails, a started run comes to an end.    *)
RunTerminates == Running ~> ~Running

(* Module docstring, lines 8-10: the progress file records the shards that *)
(* are fully uploaded.  A run of an uploading configuration that closes    *)
(* leaves no recorded shard that was never uploaded.                       *)
FinishedMeansPushed ==
  pc = "closed" /\ ~cfg.no_push => \A k \in 1..Len(shards) : shards[k].pushed

(* _drop_shards_missing_locally, lines 194-199: also when a run resumes on *)
(* a different node, a shard that is kept as done is really done.          *)
KeptShardsAreDone ==
  pc = "ready" =>
    \A k \in 1..Len(shards) : ~shards[k].pushed => Holds(local[node][k - 1], shards[k])
=============================================================================
