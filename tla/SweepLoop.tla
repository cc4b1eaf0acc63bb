----------------------------- MODULE SweepLoop -----------------------------
(***************************************************************************)
(* The loops of scripts/python/generate_*.py and of their relatives that   *)
(* compute a sweep block by block and hand the blocks to the layers'       *)
(* ShardedLayerWriters: how each one resumes where its writers stopped,    *)
(* which rows it passes to write_rows, the prefetching thread of           *)
(* generate_perturbed_sweep.py, and the retries after the GPU ran out of   *)
(* memory.                                                                 *)
(*                                                                         *)
(* A row is known by its number: the row a loop computed for row r is the  *)
(* label r, whatever row of the file it is then written to.  A writer is   *)
(* what its caller sees of it: the rows it holds, and how many of them are *)
(* in recorded shards and so survive the run (ShardedWriter has the rest). *)
(***************************************************************************)
EXTENDS Integers, Sequences, FiniteSets

CONSTANTS
  Kinds,       \* the loops of this instance
  Layers,      \* writers of the loops that drive several layers
  NRows,       \* rows of a layer
  ShardRows,   \* rows of a shard of the loops that take --shard-rows
  Group,       \* rows of one position, or of one (sample, position)
  Batches,     \* batch, block and flush sizes a run may be given
  Prefetch,    \* maxsize of the prefetch queue
  MaxRetries,  \* _OOM_MAX_RETRIES
  Dataset,     \* examples of the base dataset: is it long enough to be used
  MaxRuns      \* bound: runs of a behaviour

AllKinds == {"perturbed", "activations", "ambient", "tangent", "variant", "direct",
             "bases", "distances", "stats", "det", "overlap", "sequences", "kvcache"}

ASSUME SweepAssumption ==
  /\ Kinds \subseteq AllKinds
  /\ Layers \in Nat \ {0} /\ NRows \in Nat \ {0} /\ ShardRows \in Nat \ {0}
  /\ Group \in Nat \ {0} /\ NRows % Group = 0
  /\ Batches \subseteq Nat \ {0} /\ Batches # {}
  /\ Prefetch \in Nat \ {0} /\ MaxRetries \in Nat /\ MaxRuns \in Nat
  /\ Dataset \in Seq(BOOLEAN)

VARIABLES
  kind,        \* which script this is
  pc,          \* where its main thread is
  runs,
  batch,       \* cfg.batch_for_node(), rows_per_block, flush_every or candidate_batch
  attempt,     \* of the retry loop
  out,         \* out[l] : labels of the rows in layer l's writer, in order
  saved,       \* saved[l] : rows of layer l in recorded shards
  call,        \* the write_rows call in progress
  it,          \* the loop's own variables
  bounds,      \* chunk_bounds
  queue,       \* the prefetch queue
  built,       \* chunks the worker has put
  worker,      \* the prefetch thread
  why          \* why the prefetch generator is being closed

control == <<kind, runs, batch, attempt>>
prefetching == <<bounds, queue, built, worker, why>>
vars == <<control, pc, out, saved, call, it, prefetching>>

Lockstep == {"perturbed", "activations"}
PerPosition == {"ambient", "tangent", "variant", "direct"}
Writers == IF kind \in Lockstep THEN 1..Layers ELSE {1}

Lesser(a, b) == IF a <= b THEN a ELSE b
Greater(a, b) == IF a >= b THEN a ELSE b
(* Labels of the rows lo..hi-1.                                            *)
RowsOf(lo, hi) == [i \in 1..(hi - lo) |-> lo + i - 1]

next_row(l) == Len(out[l])
ResumeRow == CHOOSE r \in {saved[l] : l \in Writers} : \A l \in Writers : r <= saved[l]

(* Mutant: the per-position sweeps cut their output into shards.           *)
ShardCapacity_Cut == ShardRows
ShardCapacity == IF kind \in PerPosition \cup {"bases", "overlap"} THEN NRows ELSE ShardRows

NoCall == [layer |-> 1, hi |-> 0, rows |-> <<>>, back |-> "down"]
NoLoop == [at |-> 0, turn |-> 0, hi |-> 0, seen |-> 0, skip |-> 0, held |-> <<>>]

Init ==
  /\ kind \in Kinds /\ pc = "down" /\ runs = 0 /\ batch \in Batches /\ attempt = 0
  /\ out = [l \in 1..Layers |-> <<>>] /\ saved = [l \in 1..Layers |-> 0]
  /\ call = NoCall /\ it = NoLoop
  /\ bounds = <<>> /\ queue = <<>> /\ built = 0 /\ worker = "gone" /\ why = "none"

-----------------------------------------------------------------------------
(* A run, and the writers it is given.                                     *)

Run(b) ==
  /\ pc = "down" /\ runs < MaxRuns
  /\ pc' = "open" /\ runs' = runs + 1 /\ batch' = b /\ attempt' = 0
  /\ why' = "none"
  /\ UNCHANGED <<kind, out, saved, call, it, bounds, queue, built, worker>>

(* New writers hold what was recorded: an unfinished shard is discarded.   *)
NewWriters ==
  /\ pc = "open"
  /\ out' = [l \in 1..Layers |-> SubSeq(out[l], 1, saved[l])]
  /\ call' = NoCall
  /\ UNCHANGED <<control, saved>>

NoPrefetch == UNCHANGED prefetching

(* write_rows(lo, hi, rows): the main thread goes on at back.              *)
WriteRows(l, lo, rows, back) ==
  /\ UNCHANGED <<control, out, saved, prefetching>>
  /\ \/ rows = <<>> /\ pc' = back /\ UNCHANGED call
     \/ /\ rows # <<>> /\ lo = next_row(l) /\ lo + Len(rows) <= NRows
        /\ pc' = "write"
        /\ call' = [layer |-> l, hi |-> lo + Len(rows), rows |-> rows, back |-> back]
     \/ /\ rows # <<>> /\ ~(lo = next_row(l) /\ lo + Len(rows) <= NRows)
        /\ pc' = "rejected" /\ UNCHANGED call

(* One turn of its loop: up to the end of the shard, which is recorded     *)
(* when it is full.                                                        *)
WriteShardPart ==
  LET l == call.layer
      full == Lesser(saved[l] + ShardCapacity, NRows)
      n == Lesser(call.hi, full) - next_row(l)
  IN /\ pc = "write"
     /\ out' = [out EXCEPT ![l] = @ \o SubSeq(call.rows, 1, n)]
     /\ saved' = [saved EXCEPT ![l] = IF next_row(l) + n = full THEN full ELSE @]
     /\ call' = [call EXCEPT !.rows = SubSeq(@, n + 1, Len(@))]
     /\ pc' = IF next_row(l) + n = call.hi THEN call.back ELSE "write"
     /\ UNCHANGED <<control, it, prefetching>>

(* close() of every writer: one that still has an open shard raises.       *)
Close ==
  /\ pc = "close"
  /\ pc' = IF \A l \in Writers : next_row(l) = saved[l] THEN "done" ELSE "raised"
  /\ UNCHANGED <<control, out, saved, call, it, prefetching>>

Ended == {"done", "raised", "rejected"}
Exit ==
  /\ pc \in Ended /\ pc' = "down" /\ worker' = "gone"
  /\ UNCHANGED <<control, out, saved, call, it, bounds, queue, built, why>>

Kill ==
  /\ pc \notin Ended \cup {"down"} /\ pc' = "down" /\ worker' = "gone" /\ why' = "none"
  /\ UNCHANGED <<control, out, saved, call, it, bounds, queue, built>>

-----------------------------------------------------------------------------
(* generate_perturbed_sweep.py: all layers in lockstep over chunks that a  *)
(* thread prepares ahead.                                                  *)

Chunks ==
  [c \in 1..((NRows + batch - 1) \div batch) |->
     [lo |-> (c - 1) * batch, hi |-> Lesser(c * batch, NRows)]]

(* Chunks end in ascending order: those that end by the resume row, which  *)
(* are left out, are the first ones.                                       *)
(* Mutant: chunks that begin before the resume row are left out too.       *)
ChunkBounds_ByStart ==
  LET first == CHOOSE c \in 1..(Len(Chunks) + 1) :
                 \A d \in 1..Len(Chunks) : Chunks[d].lo >= ResumeRow <=> d >= c
  IN SubSeq(Chunks, first, Len(Chunks))
ChunkBounds ==
  LET first == CHOOSE c \in 1..(Len(Chunks) + 1) :
                 \A d \in 1..Len(Chunks) : Chunks[d].hi > ResumeRow <=> d >= c
  IN SubSeq(Chunks, first, Len(Chunks))

OpenPerturbed ==
  /\ kind = "perturbed" /\ NewWriters
  /\ bounds' = ChunkBounds /\ queue' = <<>> /\ built' = 0
  /\ worker' = "building" /\ why' = "none"
  /\ pc' = "get" /\ UNCHANGED it

(* _worker: it blocks in put while the queue is full.                      *)
(* Mutant: a queue without maxsize.                                        *)
Put_Unbounded(item) == queue' = Append(queue, item)
Put(item) == Len(queue) < Prefetch /\ queue' = Append(queue, item)
Chunk(k) == [what |-> "chunk", lo |-> k.lo, hi |-> k.hi]
Mark(w) == [what |-> w, lo |-> 0, hi |-> 0]

WorkerPutsChunk ==
  /\ worker = "building" /\ built < Len(bounds)
  /\ Put(Chunk(bounds[built + 1])) /\ built' = built + 1
  /\ UNCHANGED <<control, pc, out, saved, call, it, bounds, worker, why>>

BuildFails ==
  /\ worker = "building" /\ built < Len(bounds) /\ worker' = "failed"
  /\ UNCHANGED <<control, pc, out, saved, call, it, bounds, queue, built, why>>

WorkerPutsError ==
  /\ worker = "failed" /\ Put(Mark("error")) /\ worker' = "ending"
  /\ UNCHANGED <<control, pc, out, saved, call, it, bounds, built, why>>

(* Mutant: the sentinel only after a loop that ran to its end.             *)
WorkerPutsSentinel_IfComplete ==
  /\ worker = "building" /\ built = Len(bounds)
  /\ Put(Mark("sentinel")) /\ worker' = "gone"
  /\ UNCHANGED <<control, pc, out, saved, call, it, bounds, built, why>>

WorkerPutsSentinel ==
  /\ worker = "ending" \/ (worker = "building" /\ built = Len(bounds))
  /\ Put(Mark("sentinel")) /\ worker' = "gone"
  /\ UNCHANGED <<control, pc, out, saved, call, it, bounds, built, why>>

(* The consumer's side of the queue, up to the generator's finally clause. *)
GetChunk ==
  /\ pc = "get" /\ queue # <<>> /\ Head(queue).what = "chunk"
  /\ queue' = Tail(queue)
  /\ it' = [it EXCEPT !.at = Head(queue).lo, !.hi = Head(queue).hi, !.turn = 1]
  /\ pc' = "layers"
  /\ UNCHANGED <<control, out, saved, call, bounds, built, worker, why>>

GetMark ==
  /\ pc = "get" /\ queue # <<>> /\ Head(queue).what # "chunk"
  /\ queue' = Tail(queue)
  /\ why' = IF Head(queue).what = "sentinel" THEN "end" ELSE "error"
  /\ pc' = "join"
  /\ UNCHANGED <<control, out, saved, call, it, bounds, built, worker>>

(* thread.join() in the finally clause.                                    *)
Join ==
  /\ pc = "join" /\ worker = "gone"
  /\ \/ why = "end" /\ pc' = "close" /\ UNCHANGED <<batch, attempt>>
     \/ why = "error" /\ pc' = "raised" /\ UNCHANGED <<batch, attempt>>
     \/ /\ why = "oom" /\ pc' = "open"
        /\ attempt' = attempt + 1 /\ batch' = Greater(1, (batch * 7) \div 10)
  /\ UNCHANGED <<kind, runs, out, saved, call, it, prefetching>>

(* One layer's share of the chunk, trimmed to what that layer lacks.       *)
(* Mutants: the rows are not trimmed with the call; the call is not.       *)
LayerOfChunk_RowsUncut ==
  LET skip == Greater(0, next_row(it.turn) - it.at)
  IN /\ pc = "layers" /\ it.turn <= Layers
     /\ it' = [it EXCEPT !.turn = @ + 1]
     /\ IF it.hi <= next_row(it.turn)
        THEN UNCHANGED <<control, pc, out, saved, call, prefetching>>
        ELSE WriteRows(it.turn, it.at + skip,
                       SubSeq(RowsOf(it.at, it.hi), 1, it.hi - it.at - skip), "layers")

LayerOfChunk ==
  LET skip == Greater(0, next_row(it.turn) - it.at)
  IN /\ kind = "perturbed" /\ pc = "layers" /\ it.turn <= Layers
     /\ it' = [it EXCEPT !.turn = @ + 1]
     /\ IF it.hi <= next_row(it.turn)
        THEN UNCHANGED <<control, pc, out, saved, call, prefetching>>
        ELSE WriteRows(it.turn, it.at + skip, RowsOf(it.at + skip, it.hi), "layers")

ChunkDone ==
  /\ kind = "perturbed" /\ pc = "layers" /\ it.turn > Layers
  /\ pc' = "get" /\ UNCHANGED <<control, out, saved, call, it, prefetching>>

(* The forward pass or a layer's gather runs out of memory: the exception  *)
(* leaves the loop, and when the retry loop lets go of it the suspended    *)
(* generator is closed.  The last attempt's error ends the run.            *)
OutOfMemory ==
  /\ kind = "perturbed" /\ pc = "layers"
  /\ IF attempt < MaxRetries THEN pc' = "join" /\ why' = "oom"
                             ELSE pc' = "raised" /\ UNCHANGED why
  /\ UNCHANGED <<control, out, saved, call, it, bounds, queue, built, worker>>

Worker == WorkerPutsChunk \/ WorkerPutsError \/ WorkerPutsSentinel
-----------------------------------------------------------------------------
(* generate_base_activations.py: lockstep without the trim.                *)

OpenActivations ==
  /\ kind = "activations" /\ NewWriters /\ NoPrefetch
  /\ pc' = IF ResumeRow >= NRows THEN "close" ELSE "layers"
  /\ it' = [NoLoop EXCEPT !.at = ResumeRow, !.hi = Lesser(ResumeRow + batch, NRows), !.turn = 1]

LayerOfActivations ==
  /\ kind = "activations" /\ pc = "layers" /\ it.turn <= Layers
  /\ it' = [it EXCEPT !.turn = @ + 1]
  /\ IF it.hi <= next_row(it.turn)
     THEN UNCHANGED <<control, pc, out, saved, call, prefetching>>
     ELSE WriteRows(it.turn, it.at, RowsOf(it.at, it.hi), "layers")

NextActivations ==
  /\ kind = "activations" /\ pc = "layers" /\ it.turn > Layers
  /\ pc' = IF it.at + batch >= NRows THEN "close" ELSE "layers"
  /\ it' = [it EXCEPT !.at = @ + batch, !.hi = Lesser(it.at + 2 * batch, NRows), !.turn = 1]
  /\ UNCHANGED <<control, out, saved, call, prefetching>>

-----------------------------------------------------------------------------
(* Position by position, Group rows each.  The position loop always starts *)
(* at position 0, the rows at the writer's next_row.                       *)

StartPositions == it' = [NoLoop EXCEPT !.at = saved[1]]
SkipIfComplete ==
  /\ NewWriters /\ NoPrefetch /\ StartPositions
  /\ pc' = IF saved[1] >= NRows THEN "close" ELSE "positions"

OpenAmbient == kind = "ambient" /\ SkipIfComplete
OpenTangent == kind = "tangent" /\ SkipIfComplete
OpenVariant == kind = "variant" /\ SkipIfComplete
OpenDirect ==
  kind = "direct" /\ NewWriters /\ NoPrefetch /\ StartPositions /\ pc' = "positions"

WritePosition ==
  /\ pc = "positions" /\ it.turn * Group < NRows
  /\ it' = [it EXCEPT !.turn = @ + 1, !.at = @ + Group]
  /\ WriteRows(1, it.at, RowsOf(it.turn * Group, (it.turn + 1) * Group), "positions")

AmbientPosition == kind = "ambient" /\ WritePosition
TangentPosition == kind = "tangent" /\ WritePosition
VariantPosition == kind = "variant" /\ WritePosition
DirectPosition == kind = "direct" /\ WritePosition

PositionsDone ==
  /\ pc = "positions" /\ it.turn * Group >= NRows
  /\ pc' = "close" /\ UNCHANGED <<control, out, saved, call, it, prefetching>>

-----------------------------------------------------------------------------
(* Blocks from next_row to the end: generate_tangent_bases.py, generate_    *)
(* tangent_manifold_distances.py, compute_base_jacobian_stats.py (rows are *)
(* base samples) and compute_perturbed_jacobian_det.py.  The last two pass *)
(* over a layer that is complete.                                          *)

StartBlocks ==
  /\ NewWriters /\ NoPrefetch
  /\ pc' = "block" /\ it' = [NoLoop EXCEPT !.at = saved[1]]
StartUnlessComplete ==
  /\ NewWriters /\ NoPrefetch
  /\ pc' = IF saved[1] >= NRows THEN "done" ELSE "block"
  /\ it' = [NoLoop EXCEPT !.at = saved[1]]

OpenBases == kind = "bases" /\ StartBlocks
OpenDistances == kind = "distances" /\ StartBlocks
OpenStats == kind = "stats" /\ StartUnlessComplete
OpenDet == kind = "det" /\ StartUnlessComplete

WriteBlock ==
  /\ pc = "block" /\ it.at < NRows
  /\ it' = [it EXCEPT !.at = @ + batch]
  /\ WriteRows(1, it.at, RowsOf(it.at, Lesser(it.at + batch, NRows)), "block")

BasesBlock == kind = "bases" /\ WriteBlock
DistancesBlock == kind = "distances" /\ WriteBlock
StatsBlock == kind = "stats" /\ WriteBlock
DetBlock == kind = "det" /\ WriteBlock

BlocksDone ==
  /\ pc = "block" /\ it.at >= NRows
  /\ pc' = "close" /\ UNCHANGED <<control, out, saved, call, it, prefetching>>

-----------------------------------------------------------------------------
(* generate_base_sequences.py: the rows are the dataset's usable examples, *)
(* in order; a resumed run passes over the ones it already has.            *)

OpenSequences ==
  /\ kind = "sequences" /\ NewWriters /\ NoPrefetch
  /\ pc' = IF saved[1] >= NRows THEN "close" ELSE "examples"
  /\ it' = [NoLoop EXCEPT !.at = 1, !.skip = saved[1]]

UsableBefore(i) == Cardinality({j \in 1..(i - 1) : Dataset[j]})
DatasetOver == it.at > Len(Dataset) \/ next_row(1) + Len(it.held) >= NRows

(* Mutant: every example counts as seen, usable or not.                    *)
PassOver_Any ==
  /\ pc = "examples" /\ ~DatasetOver
  /\ ~Dataset[it.at] \/ it.seen < it.skip
  /\ it' = [it EXCEPT !.at = @ + 1, !.seen = IF it.seen < it.skip THEN @ + 1 ELSE @]
  /\ UNCHANGED <<control, pc, out, saved, call, prefetching>>

PassOver ==
  /\ pc = "examples" /\ ~DatasetOver
  /\ ~Dataset[it.at] \/ it.seen < it.skip
  /\ it' = [it EXCEPT !.at = @ + 1, !.seen = IF Dataset[it.at] THEN @ + 1 ELSE @]
  /\ UNCHANGED <<control, pc, out, saved, call, prefetching>>

TakeExample ==
  LET held == Append(it.held, UsableBefore(it.at))
  IN /\ pc = "examples" /\ ~DatasetOver /\ Dataset[it.at] /\ it.seen >= it.skip
     /\ IF Len(held) >= batch
        THEN /\ it' = [it EXCEPT !.at = @ + 1, !.held = <<>>]
             /\ WriteRows(1, next_row(1), held, "examples")
        ELSE /\ it' = [it EXCEPT !.at = @ + 1, !.held = held]
             /\ UNCHANGED <<control, pc, out, saved, call, prefetching>>

LastExamples ==
  /\ pc = "examples" /\ DatasetOver
  /\ it' = [it EXCEPT !.held = <<>>]
  /\ WriteRows(1, next_row(1), it.held, "enough")

EnoughExamples ==
  /\ pc = "enough" /\ pc' = IF next_row(1) < NRows THEN "raised" ELSE "close"
  /\ UNCHANGED <<control, out, saved, call, it, prefetching>>

-----------------------------------------------------------------------------
(* generate_perturbed_sweep_kvcache.py: groups of one (sample, position),  *)
(* each in blocks of candidates; an interrupted group goes on inside.      *)

OpenKvCache ==
  /\ kind = "kvcache" /\ NewWriters /\ NoPrefetch
  /\ pc' = "groups" /\ it' = [NoLoop EXCEPT !.at = saved[1] \div Group]

(* Mutant: the group is begun at its first candidate.                      *)
NextGroup_FromFirst ==
  /\ pc = "groups"
  /\ \/ /\ it.at * Group >= NRows /\ pc' = "close" /\ UNCHANGED it
     \/ /\ it.at * Group < NRows /\ pc' = "candidates" /\ it' = [it EXCEPT !.turn = 0]
  /\ UNCHANGED <<control, out, saved, call, prefetching>>

NextGroup ==
  /\ pc = "groups"
  /\ IF it.at * Group >= NRows THEN pc' = "close" /\ UNCHANGED it
     ELSE IF (it.at + 1) * Group <= next_row(1)
          THEN pc' = "groups" /\ it' = [it EXCEPT !.at = @ + 1]
          ELSE pc' = "candidates"
               /\ it' = [it EXCEPT !.turn = Greater(0, next_row(1) - it.at * Group)]
  /\ UNCHANGED <<control, out, saved, call, prefetching>>

Candidates ==
  LET lo == it.at * Group + it.turn
  IN /\ pc = "candidates" /\ it.turn < Group
     /\ it' = [it EXCEPT !.turn = @ + batch]
     /\ WriteRows(1, lo, RowsOf(lo, it.at * Group + Lesser(it.turn + batch, Group)), "candidates")

GroupDone ==
  /\ pc = "candidates" /\ it.turn >= Group
  /\ pc' = "groups" /\ it' = [it EXCEPT !.at = @ + 1, !.turn = 0]
  /\ UNCHANGED <<control, out, saved, call, prefetching>>

KvOutOfMemory ==
  /\ kind = "kvcache" /\ pc = "candidates"
  /\ IF attempt < MaxRetries
     THEN pc' = "open" /\ attempt' = attempt + 1 /\ batch' = Greater(1, (batch * 7) \div 10)
     ELSE pc' = "raised" /\ UNCHANGED <<attempt, batch>>
  /\ UNCHANGED <<kind, runs, out, saved, call, it, prefetching>>

(* compute_kernel_tangent_overlap.py: the groups are the samples, and the  *)
(* sample loop always starts at the first.                                 *)
OpenOverlap ==
  /\ kind = "overlap" /\ NewWriters /\ NoPrefetch
  /\ pc' = IF saved[1] >= NRows THEN "done" ELSE "groups"
  /\ it' = NoLoop

(* Anything else a forward pass may raise ends the run.                    *)
Raises ==
  /\ \/ pc \in {"positions", "block"}
     \/ kind = "activations" /\ pc = "layers"
     \/ kind = "overlap" /\ pc = "candidates"
  /\ pc' = "raised" /\ UNCHANGED <<control, out, saved, call, it, prefetching>>

-----------------------------------------------------------------------------
MainThread ==
  \/ WriteShardPart \/ Close \/ Exit
  \/ OpenPerturbed \/ GetChunk \/ GetMark \/ Join \/ LayerOfChunk \/ ChunkDone
  \/ OpenActivations \/ LayerOfActivations \/ NextActivations
  \/ OpenAmbient \/ OpenTangent \/ OpenVariant \/ OpenDirect
  \/ AmbientPosition \/ TangentPosition \/ VariantPosition \/ DirectPosition \/ PositionsDone
  \/ OpenBases \/ OpenDistances \/ OpenStats \/ OpenDet
  \/ BasesBlock \/ DistancesBlock \/ StatsBlock \/ DetBlock \/ BlocksDone
  \/ OpenSequences \/ PassOver \/ TakeExample \/ LastExamples \/ EnoughExamples
  \/ OpenKvCache \/ OpenOverlap \/ NextGroup \/ Candidates \/ GroupDone

Faults == Kill \/ BuildFails \/ OutOfMemory \/ KvOutOfMemory \/ Raises

Next == MainThread \/ Worker \/ Faults \/ \E b \in Batches : Run(b)

(* Two threads of a live process; a blocked thread has no step.            *)
Spec == Init /\ [][Next]_vars /\ WF_vars(Worker) /\ WF_vars(MainThread)
-----------------------------------------------------------------------------
(* Properties.                                                             *)

Row == 0..NRows
PCs == {"down", "open", "get", "join", "layers", "write", "positions", "block", "examples",
        "enough", "groups", "candidates", "close"} \cup Ended

(* Types of the variables.                                                 *)
TypeOK ==
  /\ kind \in AllKinds /\ pc \in PCs /\ runs \in 0..MaxRuns
  /\ batch \in Nat \ {0} /\ attempt \in 0..MaxRetries
  /\ out \in [1..Layers -> Seq(Row)] /\ saved \in [1..Layers -> Row]
  /\ \A l \in 1..Layers : saved[l] <= Len(out[l]) /\ Len(out[l]) <= NRows
  /\ call.layer \in 1..Layers /\ call.hi \in Row
  /\ call.rows \in Seq(Nat) /\ call.back \in PCs
  /\ it.at \in Nat /\ it.turn \in Nat /\ it.hi \in Nat /\ it.seen \in Nat
  /\ it.skip \in Nat /\ it.held \in Seq(Nat)
  /\ Len(queue) <= Prefetch /\ built \in 0..Len(bounds)
  /\ worker \in {"gone", "building", "failed", "ending"}
  /\ why \in {"none", "end", "error", "oom"}

(* Whatever the loops, the batch sizes of the runs and retries, and the    *)
(* points at which runs were cut off, row r of a layer is the row computed *)
(* for r: resuming, trimming and skipping never shift the data against the *)
(* row numbers (generate_perturbed_sweep.py:316-323, generate_base_        *)
(* sequences.py:59-63, generate_perturbed_sweep_kvcache.py:294-297).       *)
RowsInPlace == \A l \in 1..Layers : \A r \in 1..Len(out[l]) : out[l][r] = r - 1

(* write_rows refuses a block that does not begin at next_row or runs past *)
(* the end.  Only two loops can ever hand it one: the activations' (which  *)
(* does not trim) and generate_tangent_sweep_direct.py's (which does not   *)
(* test for a complete layer); there it is the guard that saves the data.  *)
OnlyUntrimmedRejected == pc = "rejected" => kind \in {"activations", "direct"}

(* A run that ends without an exception has recorded all rows of all its   *)
(* layers.                                                                 *)
FinishedIsComplete == pc = "done" => \A l \in Writers : saved[l] = NRows

(* A run in which the GPU memory suffices ends, whatever the preparing     *)
(* thread raises and however full its queue is.                            *)
RunEnds == (pc # "down") ~> (pc = "down" \/ why = "oom")

(* What the preparing thread still has to put, its sentinel included.      *)
StillToPut ==
  CASE worker = "gone" -> 0
    [] worker = "ending" -> 1
    [] worker = "failed" -> 2
    [] OTHER -> Len(bounds) - built + 1

(* After an out-of-memory error near the end of the sweep, when the rest   *)
(* of the chunks and the sentinel fit the queue, the next attempt begins.  *)
RetriedNearTheEnd ==
  (pc = "join" /\ why = "oom" /\ Len(queue) + StillToPut <= Prefetch)
    ~> (pc \in {"open", "down"})

(* run_perturbed_sweep "retries _run_perturbed_sweep_once on OOM", up to   *)
(* _OOM_MAX_RETRIES times (generate_perturbed_sweep.py:119-125): the error *)
(* is followed by the next attempt.  It is not: closing the suspended      *)
(* generator joins a worker that blocks in put for ever.                   *)
OomIsRetried == (pc = "join" /\ why = "oom") ~> (pc \in {"open", "down"})
=============================================================================
