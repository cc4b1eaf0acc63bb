---------------------------- MODULE SweepProofs ----------------------------
(***************************************************************************)
(* Theorems about the sweeps' loops for any number of layers and rows, any *)
(* sizes of shards and groups, and any batch sizes of runs and retries.    *)
(***************************************************************************)
EXTENDS SweepLoop, FiniteSetTheorems, NaturalsInduction, SequenceTheorems, WellFoundedInduction, TLAPS

-----------------------------------------------------------------------------
(* The invariant.                                                          *)

Backs == {"layers", "positions", "block", "examples", "enough", "candidates"}
Bound == [lo : Row, hi : Row]
Item == [what : {"chunk", "error", "sentinel"}, lo : Row, hi : Row]
Call == [layer : 1..Layers, hi : Row, rows : Seq(Nat), back : PCs]
Loop == [at : Nat, turn : Nat, hi : Nat, seen : Nat, skip : Nat, held : Seq(Nat)]

Types ==
  /\ kind \in AllKinds /\ pc \in PCs /\ runs \in 0..MaxRuns
  /\ batch \in Nat \ {0} /\ attempt \in 0..MaxRetries
  /\ call \in Call /\ it \in Loop
  /\ bounds \in Seq(Bound) /\ queue \in Seq(Item) /\ Len(queue) <= Prefetch
  /\ built \in 0..Len(bounds)
  /\ worker \in {"gone", "building", "failed", "ending"}
  /\ why \in {"none", "end", "error", "oom"}

(* A layer's writer: its rows in place, an unrecorded shard not yet full.  *)
LayerOK(l) ==
  /\ saved[l] <= Len(out[l]) /\ Len(out[l]) <= NRows
  /\ Len(out[l]) = saved[l] \/ (Len(out[l]) < saved[l] + ShardCapacity /\ Len(out[l]) < NRows)
  /\ ShardCapacity = NRows => saved[l] \in {0, NRows}
  /\ \A r \in 1..Len(out[l]) : out[l][r] = r - 1
RowsOK ==
  /\ out \in [1..Layers -> Seq(Row)] /\ saved \in [1..Layers -> Row]
  /\ \A l \in 1..Layers : LayerOK(l)

(* The rest of a call fits behind the rows that are there.                 *)
CallOK == pc = "write" =>
  /\ call.back \in Backs /\ call.rows # <<>>
  /\ Len(out[call.layer]) + Len(call.rows) = call.hi
  /\ \A i \in 1..Len(call.rows) : call.rows[i] = Len(out[call.layer]) + i - 1

(* The rows lo, lo + 1, ...                                                *)
Labelled(rows, lo) == \A i \in 1..Len(rows) : rows[i] = lo + i - 1

(* Where the loop is, and what each layer has, once the call in progress   *)
(* is over.                                                                *)
stage == IF pc = "write" THEN call.back ELSE pc
reached == [l \in 1..Layers |->
              IF pc = "write" /\ call.layer = l THEN call.hi ELSE Len(out[l])]

KindOK ==
  /\ stage \in {"get", "join"} => kind = "perturbed"
  /\ stage = "layers" => kind \in Lockstep
  /\ stage = "positions" => kind \in PerPosition
  /\ stage = "block" => kind \in {"bases", "distances", "stats", "det"}
  /\ stage \in {"examples", "enough"} => kind = "sequences"
  /\ stage \in {"groups", "candidates"} => kind \in {"kvcache", "overlap"}

(* The chunks, in the queue and still to be put there, follow each other   *)
(* up to the last row.                                                     *)
Ahead == IF built < Len(bounds) THEN bounds[built + 1].lo ELSE NRows
Wanted == IF queue # <<>> /\ Head(queue).what = "chunk" THEN Head(queue).lo ELSE Ahead
BoundsOK == \A i \in 1..Len(bounds) :
  bounds[i].hi = IF i < Len(bounds) THEN bounds[i + 1].lo ELSE NRows
QueueOK == \A i \in 1..Len(queue) : queue[i].what = "chunk" =>
  /\ i > 1 => queue[i - 1].what = "chunk"
  /\ queue[i].hi = IF i < Len(queue) /\ queue[i + 1].what = "chunk" THEN queue[i + 1].lo ELSE Ahead
WorkerOK ==
  /\ worker \in {"building", "failed"} => \A i \in 1..Len(queue) : queue[i].what = "chunk"
  /\ kind = "perturbed" /\ stage \in {"get", "layers"} =>
       /\ worker = "ending" => \E i \in 1..Len(queue) : queue[i].what = "error"
       /\ \A i \in 1..Len(queue) : queue[i].what = "sentinel" =>
            built = Len(bounds) \/ \E j \in 1..(i - 1) : queue[j].what = "error"

(* What each loop has done when it is there.                               *)
ChunksOK == kind = "perturbed" =>
  /\ stage = "get" => \A l \in 1..Layers : Wanted <= reached[l]
  /\ stage = "layers" =>
       /\ it.hi = Wanted /\ it.hi <= NRows /\ 1 <= it.turn
       /\ \A l \in 1..Layers : it.at <= reached[l] /\ (l < it.turn => it.hi <= reached[l])
  /\ stage = "join" /\ why = "end" => \A l \in 1..Layers : NRows <= reached[l]
  /\ stage = "join" /\ why = "oom" => attempt < MaxRetries
ActivationsOK == kind = "activations" /\ stage = "layers" =>
  /\ it.at < NRows /\ it.hi = Lesser(it.at + batch, NRows) /\ 1 <= it.turn
  /\ \A l \in 1..Layers : l < it.turn => it.hi <= reached[l]
PositionsOK == stage = "positions" =>
  \/ it.turn = 0 /\ reached[1] = NRows /\ it.at = NRows /\ kind = "direct"
  \/ it.turn * Group <= NRows /\ reached[1] = it.turn * Group /\ it.at = it.turn * Group
BlocksOK == stage = "block" => reached[1] = Lesser(it.at, NRows)
ExamplesOK == stage = "examples" =>
  /\ it.at \in 1..(Len(Dataset) + 1) /\ it.seen <= it.skip
  /\ it.seen < it.skip =>
       it.held = <<>> /\ it.seen = UsableBefore(it.at) /\ reached[1] = it.skip
  /\ it.seen = it.skip => reached[1] + Len(it.held) = UsableBefore(it.at)
  /\ reached[1] + Len(it.held) <= NRows
  /\ \A i \in 1..Len(it.held) : it.held[i] = reached[1] + i - 1
GroupsOK ==
  /\ stage = "groups" => it.at * Group <= reached[1]
  /\ stage = "candidates" =>
       (it.at + 1) * Group <= NRows /\ reached[1] = it.at * Group + Lesser(it.turn, Group)
LoopsOK == ChunksOK /\ ActivationsOK /\ PositionsOK /\ BlocksOK /\ ExamplesOK /\ GroupsOK

EndOK ==
  /\ stage = "close" => \A l \in Writers : NRows <= reached[l]
  /\ pc = "done" => \A l \in Writers : saved[l] = NRows
  /\ pc = "rejected" => kind \in {"activations", "direct"}

ChunkOrder == BoundsOK /\ QueueOK /\ WorkerOK
SInv == Types /\ RowsOK /\ CallOK /\ KindOK /\ ChunkOrder /\ LoopsOK /\ EndOK

-----------------------------------------------------------------------------
(* Numbers, rows and calls.                                                *)

LEMMA Capacity == ShardCapacity \in Nat \ {0}
BY SweepAssumption DEF ShardCapacity

LEMMA LesserGreater ==
  ASSUME NEW a \in Nat, NEW b \in Nat
  PROVE  /\ Lesser(a, b) \in Nat /\ Lesser(a, b) <= a /\ Lesser(a, b) <= b
         /\ Lesser(a, b) = a \/ Lesser(a, b) = b
         /\ Greater(a, b) \in Nat /\ Greater(a, b) >= a /\ Greater(a, b) >= b
         /\ Greater(a, b) = a \/ Greater(a, b) = b
BY DEF Lesser, Greater

LEMMA RowsOfFacts ==
  ASSUME NEW lo \in Nat, NEW hi \in Nat
  PROVE  /\ RowsOf(lo, hi) \in Seq(Nat)
         /\ Len(RowsOf(lo, hi)) = IF lo <= hi THEN hi - lo ELSE 0
         /\ \A i \in 1..Len(RowsOf(lo, hi)) : RowsOf(lo, hi)[i] = lo + i - 1
<1> DEFINE n == IF lo <= hi THEN hi - lo ELSE 0
           f == [i \in 1..n |-> lo + i - 1]
<1>1. n \in Nat /\ 1..n = 1..(hi - lo)
  OBVIOUS
<1>2. RowsOf(lo, hi) = f
  BY <1>1 DEF RowsOf
<1>3. f \in [1..n -> Nat]
  OBVIOUS
<1>4. f \in Seq(Nat) /\ Len(f) = n
  BY <1>1, <1>3
<1> QED
  BY <1>2, <1>4

LEMMA SomeRows ==
  ASSUME NEW lo \in Nat, NEW hi \in Nat, lo < hi
  PROVE  /\ RowsOf(lo, hi) \in Seq(Nat) /\ RowsOf(lo, hi) # <<>>
         /\ Len(RowsOf(lo, hi)) = hi - lo /\ lo + Len(RowsOf(lo, hi)) = hi
         /\ Labelled(RowsOf(lo, hi), lo)
<1>1. RowsOf(lo, hi) \in Seq(Nat) /\ Labelled(RowsOf(lo, hi), lo)
  BY RowsOfFacts DEF Labelled
<1>2. Len(RowsOf(lo, hi)) = IF lo <= hi THEN hi - lo ELSE 0
  BY RowsOfFacts
<1>3. Len(RowsOf(lo, hi)) = hi - lo /\ hi - lo > 0
  BY <1>2
<1> QED
  BY <1>1, <1>3

(* The writers while no call is in progress.                               *)
LEMMA Layer ==
  ASSUME RowsOK, NEW l \in 1..Layers
  PROVE  /\ out[l] \in Seq(Row) /\ Len(out[l]) \in Row /\ saved[l] \in Row /\ LayerOK(l)
         /\ next_row(l) = Len(out[l])
         /\ pc # "write" => reached[l] = Len(out[l])
BY SweepAssumption DEF RowsOK, LayerOK, Row, next_row, reached

LEMMA FirstLayer == 1 \in 1..Layers
BY SweepAssumption

LEMMA SomeWriters == Writers \subseteq 1..Layers /\ 1 \in Writers
BY SweepAssumption DEF Writers

(* write_rows called with the rows lo, lo+1, ... as their labels say.      *)
LEMMA CallsWrite ==
  ASSUME Types, RowsOK, NEW l \in 1..Layers, NEW lo \in Nat, NEW rows \in Seq(Nat),
         NEW back \in Backs, pc # "write",
         Labelled(rows, lo), WriteRows(l, lo, rows, back)
  PROVE  /\ UNCHANGED <<control, out, saved, prefetching>>
         /\ pc' \in PCs \ {"done"} /\ call' \in Call /\ RowsOK' /\ CallOK'
         /\ \/ /\ pc' = "rejected" /\ stage' = "rejected" /\ rows # <<>>
               /\ ~(lo = Len(out[l]) /\ lo + Len(rows) <= NRows)
            \/ /\ stage' = back /\ pc' # "rejected"
               /\ rows = <<>> \/ (lo = Len(out[l]) /\ lo + Len(rows) <= NRows)
               /\ \A m \in 1..Layers :
                    reached'[m] = IF m = l /\ rows # <<>> THEN lo + Len(rows) ELSE Len(out[m])
<1>1. UNCHANGED <<control, out, saved, prefetching>> /\ UNCHANGED kind
  BY DEF WriteRows, control
<1>2. RowsOK'
  BY <1>1 DEF RowsOK, LayerOK, ShardCapacity
<1>3. back \in PCs \ {"done", "rejected", "write"}
  BY DEF Backs, PCs, Ended
<1>4. Len(rows) \in Nat /\ NRows \in Nat
  BY SweepAssumption
<1>5. CASE rows = <<>> /\ pc' = back /\ UNCHANGED call
  BY <1>1, <1>2, <1>3, <1>5 DEF Types, CallOK, stage, reached
<1>6. CASE rows # <<>> /\ ~(lo = next_row(l) /\ lo + Len(rows) <= NRows) /\ pc' = "rejected" /\ UNCHANGED call
  BY <1>1, <1>2, <1>6 DEF Types, CallOK, stage, PCs, Ended, next_row
<1>7. CASE /\ rows # <<>> /\ lo = next_row(l) /\ lo + Len(rows) <= NRows /\ pc' = "write"
           /\ call' = [layer |-> l, hi |-> lo + Len(rows), rows |-> rows, back |-> back]
  <2>1. call' \in Call
    BY <1>3, <1>4, <1>7 DEF Call, Row
  <2>2. call'.layer = l /\ call'.hi = lo + Len(rows) /\ call'.rows = rows /\ call'.back = back
    BY <1>7
  <2>3. out' = out /\ lo = Len(out[l])
    BY <1>1, <1>7 DEF next_row
  <2>4. CallOK'
    BY <1>7, <2>2, <2>3 DEF CallOK, Labelled
  <2>5. stage' = back /\ pc' \in PCs
    BY <1>7, <2>2 DEF stage, PCs
  <2>6. \A m \in 1..Layers : reached'[m] = IF m = l THEN lo + Len(rows) ELSE Len(out[m])
    BY <1>7, <2>2, <2>3 DEF reached
  <2> QED
    BY <1>1, <1>2, <1>7, <2>1, <2>3, <2>4, <2>5, <2>6
<1> QED
  BY <1>5, <1>6, <1>7 DEF WriteRows

-----------------------------------------------------------------------------
(* What several actions have in common.                                    *)

LEMMA NoCallGoesOn ==
  ASSUME Types, RowsOK, pc # "write", pc' # "write", UNCHANGED <<kind, out, saved>>
  PROVE  /\ RowsOK' /\ CallOK' /\ stage = pc /\ stage' = pc'
         /\ \A l \in 1..Layers : reached'[l] = reached[l] /\ reached[l] = Len(out[l])
BY DEF RowsOK, LayerOK, ShardCapacity, CallOK, stage, reached

LEMMA ChunkOrderKept ==
  ASSUME ChunkOrder, UNCHANGED <<kind, bounds, queue, built>>, worker' \in {worker, "gone"},
         kind = "perturbed" /\ stage' \in {"get", "layers"} =>
           stage \in {"get", "layers"} /\ worker' = worker
  PROVE  ChunkOrder'
<1>1. BoundsOK' /\ QueueOK'
  BY DEF ChunkOrder, BoundsOK, QueueOK, Ahead
<1>2. WorkerOK'
  BY DEF ChunkOrder, WorkerOK
<1> QED
  BY <1>1, <1>2 DEF ChunkOrder

(* A run ends or begins again: no loop is in progress.                     *)
LEMMA LeavesLoops ==
  ASSUME SInv, Types', pc' \in {"down", "open", "raised"},
         UNCHANGED <<kind, out, saved, bounds, queue, built>>, worker' \in {worker, "gone"}
  PROVE  SInv'
<1>1. RowsOK'
  BY DEF SInv, RowsOK, LayerOK, ShardCapacity
<1>2. CallOK' /\ stage' \in {"down", "open", "raised"}
  BY DEF CallOK, stage
<1>3. KindOK'
  BY <1>2 DEF KindOK
<1>4. ChunkOrder'
  BY <1>2, ChunkOrderKept DEF SInv
<1>5. LoopsOK'
  BY <1>2 DEF LoopsOK, ChunksOK, ActivationsOK, PositionsOK, BlocksOK, ExamplesOK, GroupsOK
<1>6. EndOK'
  BY <1>2 DEF EndOK
<1> QED
  BY <1>1, <1>2, <1>3, <1>4, <1>5, <1>6 DEF SInv

(* New writers hold what was recorded.                                     *)
LEMMA Opens ==
  ASSUME Types, RowsOK, NewWriters, pc' # "write"
  PROVE  /\ UNCHANGED <<control, saved>> /\ call' \in Call /\ RowsOK' /\ CallOK' /\ stage' = pc'
         /\ stage = "open" /\ \A l \in 1..Layers : reached'[l] = saved[l]
<1>1. /\ UNCHANGED <<control, saved>> /\ UNCHANGED kind /\ call' = NoCall /\ pc = "open"
      /\ out' = [l \in 1..Layers |-> SubSeq(out[l], 1, saved[l])]
  BY DEF NewWriters, control
<1>2. call' \in Call
  <2>1. <<>> \in Seq(Nat)
    OBVIOUS
  <2> QED
    BY <1>1, <2>1, SweepAssumption DEF NoCall, Call, Row, PCs
<1>3. ASSUME NEW l \in 1..Layers
      PROVE  /\ out'[l] \in Seq(Row) /\ Len(out'[l]) = saved[l]
             /\ \A r \in 1..Len(out'[l]) : out'[l][r] = out[l][r]
  <2>1. out[l] \in Seq(Row) /\ saved[l] \in Nat /\ saved[l] <= Len(out[l])
    BY Layer DEF LayerOK, Row
  <2>2. out'[l] = SubSeq(out[l], 1, saved[l])
    BY <1>1
  <2> QED
    BY <2>1, <2>2
<1>4. ASSUME NEW l \in 1..Layers PROVE LayerOK(l)'
  <2>1. LayerOK(l) /\ saved'[l] = saved[l] /\ saved[l] \in Nat /\ Len(out[l]) \in Nat
    BY <1>1, Layer DEF Row
  <2>2. ShardCapacity' = ShardCapacity
    BY <1>1 DEF ShardCapacity
  <2>3. saved[l] <= NRows
    BY <2>1, SweepAssumption DEF LayerOK
  <2> QED
    BY <1>3, <2>1, <2>2, <2>3 DEF LayerOK
<1>5. out' \in [1..Layers -> Seq(Row)]
  BY <1>1, <1>3
<1>6. RowsOK'
  BY <1>1, <1>4, <1>5 DEF RowsOK
<1>7. \A l \in 1..Layers : reached'[l] = saved[l]
  BY <1>3 DEF reached
<1> QED
  BY <1>1, <1>2, <1>6, <1>7 DEF CallOK, stage

(* A set of numbers has a least one.                                       *)
LEMMA LeastOf ==
  ASSUME NEW T \in SUBSET Nat, T # {}
  PROVE  \E k \in T : \A j \in T : k <= j
<1> DEFINE R == OpToRel(<, Nat)
<1>1. IsWellFoundedOn(R, Nat)
  BY NatLessThanWellFounded, Zenon
<1>2. PICK k \in T : \A j \in T : ~(<<j, k>> \in R)
  <2> HIDE DEF R
  <2> QED
    BY <1>1, WFMin
<1>3. ASSUME NEW j \in T, j < k PROVE FALSE
  <2>1. j \in Nat /\ k \in Nat
    OBVIOUS
  <2>2. <<j, k>> \in R
    BY <1>3, <2>1, Zenon DEF OpToRel
  <2> QED
    BY <1>2, <2>2
<1>4. \A j \in T : j \in Nat /\ k \in Nat /\ ~(j < k)
  BY <1>3
<1> QED
  BY <1>4

LEMMA Resumes ==
  ASSUME RowsOK
  PROVE  ResumeRow \in Row /\ \A l \in Writers : ResumeRow <= saved[l]
<1> DEFINE T == {saved[l] : l \in Writers}
<1>1. T \subseteq Row /\ T # {}
  BY SomeWriters DEF RowsOK
<1>2. Row \subseteq Nat
  BY SweepAssumption DEF Row
<1>3. \E r \in T : \A j \in T : r <= j
  <2> HIDE DEF T
  <2> QED
    BY <1>1, <1>2, LeastOf
<1>4. \E r \in T : \A l \in Writers : r <= saved[l]
  BY <1>3
<1>5. ResumeRow \in T /\ \A l \in Writers : ResumeRow <= saved[l]
  BY <1>4 DEF ResumeRow
<1> QED
  BY <1>1, <1>5

-----------------------------------------------------------------------------
(* Runs begin, end and are cut off.                                        *)

LEMMA Shrinks == ASSUME batch \in Nat \ {0} PROVE Greater(1, (batch * 7) \div 10) \in Nat \ {0}
BY DEF Greater

LEMMA RunStep == ASSUME SInv, NEW b \in Batches, Run(b) PROVE SInv'
<1>1. Types'
  BY SweepAssumption DEF SInv, Types, Run, PCs
<1> QED
  BY <1>1, LeavesLoops DEF Run

LEMMA ExitStep == ASSUME SInv, Exit PROVE SInv'
<1>1. Types'
  BY DEF SInv, Types, Exit, control, PCs
<1> QED
  BY <1>1, LeavesLoops DEF Exit, control

LEMMA KillStep == ASSUME SInv, Kill PROVE SInv'
<1>1. Types'
  BY DEF SInv, Types, Kill, control, PCs
<1> QED
  BY <1>1, LeavesLoops DEF Kill, control

LEMMA RaisesStep == ASSUME SInv, Raises PROVE SInv'
<1>1. Types'
  BY DEF SInv, Types, Raises, control, prefetching, PCs, Ended
<1> QED
  BY <1>1, LeavesLoops DEF Raises, control, prefetching

LEMMA KvOutOfMemoryStep == ASSUME SInv, KvOutOfMemory PROVE SInv'
<1>1. Types'
  BY Shrinks, SweepAssumption DEF SInv, Types, KvOutOfMemory, prefetching, PCs, Ended
<1> QED
  BY <1>1, LeavesLoops DEF KvOutOfMemory, prefetching

-----------------------------------------------------------------------------
(* A call of write_rows goes on with the next shard.                       *)

LEMMA NotEmpty ==
  ASSUME NEW S, NEW s \in Seq(S), s # <<>>
  PROVE  Len(s) \in Nat /\ Len(s) >= 1
OBVIOUS

(* How many rows one turn of the loop writes.                              *)
LEMMA PartSize ==
  ASSUME NEW old \in Nat, NEW s \in Row, NEW len \in Nat \ {0}, NEW hi \in Row, NEW full, NEW n,
         s <= old, old = s \/ old < s + ShardCapacity,
         old + len = hi, full = Lesser(s + ShardCapacity, NRows), n = Lesser(hi, full) - old
  PROVE  /\ full \in Row /\ old < full /\ full <= s + ShardCapacity
         /\ full = NRows \/ full = s + ShardCapacity
         /\ n \in 1..len /\ old + n <= full /\ old + n <= hi
         /\ old + n = hi \/ old + n = full
<1>1. NRows \in Nat /\ ShardCapacity \in Nat /\ ShardCapacity > 0 /\ hi <= NRows /\ s <= NRows /\ s \in Nat /\ hi \in Nat
  BY SweepAssumption, Capacity DEF Row
<1>2. full \in Nat /\ full <= NRows /\ full <= s + ShardCapacity /\ (full = NRows \/ full = s + ShardCapacity)
  BY <1>1 DEF Lesser
<1>3. old < full
  BY <1>1, <1>2
<1>4. Lesser(hi, full) \in Nat /\ Lesser(hi, full) <= hi /\ Lesser(hi, full) <= full
      /\ (Lesser(hi, full) = hi \/ Lesser(hi, full) = full)
  BY <1>1, <1>2, LesserGreater
<1> QED
  BY <1>1, <1>2, <1>3, <1>4 DEF Row

(* The rows it writes and those it leaves.                                 *)
Longer(have, rows, n) == have \o SubSeq(rows, 1, n)
Rest(rows, n) == SubSeq(rows, n + 1, Len(rows))
LEMMA PartRows ==
  ASSUME NEW have \in Seq(Row), NEW rows \in Seq(Nat), NEW n \in 1..Len(rows),
         Len(have) + n <= NRows, Labelled(have, 0), Labelled(rows, Len(have))
  PROVE  /\ Longer(have, rows, n) \in Seq(Row) /\ Len(Longer(have, rows, n)) = Len(have) + n
         /\ Rest(rows, n) \in Seq(Nat) /\ Len(Rest(rows, n)) = Len(rows) - n
         /\ Labelled(Longer(have, rows, n), 0) /\ Labelled(Rest(rows, n), Len(have) + n)
<1> DEFINE part == SubSeq(rows, 1, n)
<1>1. Len(rows) \in Nat /\ n \in Nat /\ Len(have) \in Nat /\ NRows \in Nat
  BY SweepAssumption
<1>2. part \in Seq(Nat) /\ Len(part) = n /\ \A i \in 1..n : part[i] = Len(have) + i - 1
  BY <1>1 DEF Labelled
<1>3. /\ Rest(rows, n) \in Seq(Nat) /\ Len(Rest(rows, n)) = Len(rows) - n
      /\ \A i \in 1..(Len(rows) - n) : Rest(rows, n)[i] = Len(have) + n + i - 1
  BY <1>1 DEF Labelled, Rest
<1>4. Longer(have, rows, n) = have \o part
  BY DEF Longer
<1> HIDE DEF part
<1>5. \A i \in 1..n : part[i] \in Row
  BY <1>1, <1>2 DEF Row
<1>6. part \in Seq(Row)
  BY <1>2, <1>5
<1>7. have \o part \in Seq(Row) /\ Len(have \o part) = Len(have) + n
  BY <1>1, <1>2, <1>6, ConcatProperties
<1>8. \A r \in 1..(Len(have) + n) : (have \o part)[r] = 0 + r - 1
  BY <1>1, <1>2, <1>6 DEF Labelled
<1>9. Labelled(Longer(have, rows, n), 0)
  BY <1>4, <1>7, <1>8 DEF Labelled
<1>10. Labelled(Rest(rows, n), Len(have) + n)
  BY <1>3 DEF Labelled
<1> QED
  BY <1>3, <1>4, <1>7, <1>9, <1>10

(* The writers after it.                                                   *)
LEMMA PartWritten ==
  ASSUME SInv, WriteShardPart
  PROVE  \E n \in Nat :
           /\ Len(out[call.layer]) + n <= call.hi
           /\ pc' = IF Len(out[call.layer]) + n = call.hi THEN call.back ELSE "write"
           /\ RowsOK' /\ call' \in Call
           /\ call'.layer = call.layer /\ call'.hi = call.hi /\ call'.back = call.back
           /\ Len(out'[call.layer]) = Len(out[call.layer]) + n
           /\ \A m \in 1..Layers \ {call.layer} : out'[m] = out[m]
           /\ Len(call'.rows) = Len(call.rows) - n
           /\ \A i \in 1..Len(call'.rows) : call'.rows[i] = Len(out'[call.layer]) + i - 1
<1>1. PICK l \in 1..Layers : l = call.layer
  BY DEF SInv, Types, Call
<1>2. PICK rows \in Seq(Nat), hi \in Row : rows = call.rows /\ hi = call.hi
  BY DEF SInv, Types, Call
<1>3. PICK old \in Nat : old = Len(out[l])
  BY Layer, SweepAssumption DEF SInv, Row
<1>4. PICK full, n : full = Lesser(saved[l] + ShardCapacity, NRows) /\ n = Lesser(hi, full) - old
  OBVIOUS
<1>5. /\ rows # <<>> /\ old + Len(rows) = hi
      /\ \A i \in 1..Len(rows) : rows[i] = old + i - 1
  BY <1>1, <1>2, <1>3 DEF SInv, CallOK, WriteShardPart
<1>6. Len(rows) \in Nat \ {0}
  BY <1>5, NotEmpty
<1>7. out[l] \in Seq(Row) /\ saved[l] \in Row /\ LayerOK(l)
  BY Layer DEF SInv
<1>8. saved[l] <= old /\ (old = saved[l] \/ old < saved[l] + ShardCapacity)
  BY <1>3, <1>7 DEF LayerOK
<1>9. /\ full \in Row /\ old < full /\ full <= saved[l] + ShardCapacity
      /\ full = NRows \/ full = saved[l] + ShardCapacity
      /\ n \in 1..Len(rows) /\ old + n <= full /\ old + n <= hi
      /\ old + n = hi \/ old + n = full
  BY <1>4, <1>5, <1>6, <1>7, <1>8, PartSize
<1>10. NRows \in Nat /\ full \in Nat /\ full <= NRows /\ n \in Nat /\ n > 0
  BY <1>6, <1>9, SweepAssumption DEF Row
<1>11. PICK new, rest : new = Longer(out[l], rows, n) /\ rest = Rest(rows, n)
  OBVIOUS
<1>12. /\ new \in Seq(Row) /\ Len(new) = old + n
       /\ \A r \in 1..Len(new) : new[r] = r - 1
       /\ rest \in Seq(Nat) /\ Len(rest) = Len(rows) - n
       /\ \A i \in 1..Len(rest) : rest[i] = Len(new) + i - 1
  <2>1. Len(out[l]) + n <= NRows
    BY <1>3, <1>9, <1>10
  <2>3. Labelled(rows, Len(out[l]))
    BY <1>3, <1>5 DEF Labelled
  <2>2. Labelled(out[l], 0)
    BY <1>3, <1>7 DEF LayerOK, Labelled
  <2>4. out[l] \in Seq(Row) /\ rows \in Seq(Nat) /\ n \in 1..Len(rows)
    BY <1>7, <1>9
  <2>5. /\ new \in Seq(Row) /\ Len(new) = Len(out[l]) + n
        /\ rest \in Seq(Nat) /\ Len(rest) = Len(rows) - n
        /\ Labelled(new, 0) /\ Labelled(rest, Len(out[l]) + n)
    BY <2>1, <2>2, <2>3, <2>4, <1>11, PartRows
  <2>6. Len(new) \in Nat
    BY <2>5
  <2> QED
    BY <2>5, <2>6, <1>3 DEF Labelled
<1>13. /\ out' = [out EXCEPT ![l] = new]
       /\ saved' = [saved EXCEPT ![l] = IF old + n = full THEN full ELSE saved[l]]
       /\ call' = [call EXCEPT !.rows = rest]
       /\ pc' = IF old + n = hi THEN call.back ELSE "write"
       /\ UNCHANGED kind
  BY <1>1, <1>2, <1>3, <1>4, <1>11 DEF WriteShardPart, next_row, control, Longer, Rest
<1>14. /\ out' \in [1..Layers -> Seq(Row)] /\ out'[l] = new /\ \A m \in 1..Layers \ {l} : out'[m] = out[m]
  BY <1>12, <1>13 DEF SInv, RowsOK
<1>15. /\ saved' \in [1..Layers -> Row] /\ \A m \in 1..Layers \ {l} : saved'[m] = saved[m]
       /\ saved'[l] = IF old + n = full THEN full ELSE saved[l]
  BY <1>9, <1>13 DEF SInv, RowsOK
<1>16. ShardCapacity' = ShardCapacity
  BY <1>13 DEF ShardCapacity
<1>17. LayerOK(l)'
  <2>1. saved'[l] <= old + n /\ old + n <= NRows
    BY <1>7, <1>8, <1>9, <1>10, <1>15 DEF Row
  <2>2. old + n = saved'[l] \/ (old + n < saved'[l] + ShardCapacity /\ old + n < NRows)
    <3>1. CASE old + n = full
      BY <3>1, <1>15
    <3>2. CASE old + n # full
      <4>1. saved'[l] = saved[l] /\ saved[l] \in Nat /\ ShardCapacity \in Nat
        BY <3>2, <1>7, <1>15, Capacity, SweepAssumption DEF Row
      <4>2. old + n < full /\ full <= saved[l] + ShardCapacity /\ full <= NRows
        BY <3>2, <1>9, <1>10
      <4> QED
        BY <4>1, <4>2, <1>10
    <3> QED
      BY <3>1, <3>2
  <2>3. ShardCapacity = NRows => saved'[l] \in {0, NRows}
    BY <1>7, <1>9, <1>10, <1>15 DEF LayerOK, Row
  <2> QED
    BY <2>1, <2>2, <2>3, <1>12, <1>14, <1>16 DEF LayerOK
<1>18. \A m \in 1..Layers \ {l} : LayerOK(m)'
  BY <1>14, <1>15, <1>16 DEF SInv, RowsOK, LayerOK
<1>19. RowsOK'
  BY <1>14, <1>15, <1>17, <1>18 DEF RowsOK
<1>20. /\ call' \in Call /\ call'.layer = l /\ call'.hi = hi /\ call'.rows = rest /\ call'.back = call.back
  BY <1>1, <1>2, <1>12, <1>13 DEF SInv, Types, Call
<1> QED
  BY <1>1, <1>2, <1>3, <1>9, <1>10, <1>12, <1>13, <1>14, <1>19, <1>20

LEMMA WriteShardPartStep == ASSUME SInv, WriteShardPart PROVE SInv'
<1>1. PICK n \in Nat :
        /\ Len(out[call.layer]) + n <= call.hi
        /\ pc' = IF Len(out[call.layer]) + n = call.hi THEN call.back ELSE "write"
        /\ RowsOK' /\ call' \in Call
        /\ call'.layer = call.layer /\ call'.hi = call.hi /\ call'.back = call.back
        /\ Len(out'[call.layer]) = Len(out[call.layer]) + n
        /\ \A m \in 1..Layers \ {call.layer} : out'[m] = out[m]
        /\ Len(call'.rows) = Len(call.rows) - n
        /\ \A i \in 1..Len(call'.rows) : call'.rows[i] = Len(out'[call.layer]) + i - 1
  BY PartWritten
<1>2. UNCHANGED <<kind, runs, batch, attempt, bounds, queue, built, worker, why, it>>
  BY DEF WriteShardPart, control, prefetching
<1>3. pc = "write" /\ call.back \in Backs /\ Len(out[call.layer]) + Len(call.rows) = call.hi
  BY DEF SInv, CallOK, WriteShardPart
<1>4. call.back \in PCs \ {"write", "done", "rejected", "close"}
  BY <1>3 DEF Backs, PCs, Ended
<1>5. call.layer \in 1..Layers /\ call.rows \in Seq(Nat) /\ Len(out[call.layer]) \in Nat
      /\ Len(call.rows) \in Nat /\ call.hi \in Nat
  BY Layer, SweepAssumption DEF SInv, Types, Call, Row
<1>6. CallOK'
  <2> SUFFICES ASSUME pc' = "write" PROVE CallOK'
    BY DEF CallOK
  <2>1. Len(out[call.layer]) + n # call.hi
    BY <1>1, <1>4
  <2>2. PICK old \in Nat, len \in Nat : old = Len(out[call.layer]) /\ len = Len(call.rows)
    BY <1>5
  <2>3. old + len = call.hi /\ len # n
    BY <2>1, <2>2, <1>3
  <2>4. Len(call'.rows) = len - n /\ Len(out'[call.layer]) = old + n
    BY <2>2, <1>1
  <2>5. Len(call'.rows) # 0
    BY <2>3, <2>4
  <2>6. call'.rows # <<>> /\ Len(out'[call.layer]) + Len(call'.rows) = call.hi
    BY <2>3, <2>4, <2>5
  <2> QED
    BY <2>6, <1>1, <1>3 DEF CallOK
<1>7. stage' = stage
  BY <1>1, <1>3, <1>4 DEF stage
<1>8. \A m \in 1..Layers : reached'[m] = reached[m]
  <2>1. reached[call.layer] = call.hi /\ \A m \in 1..Layers \ {call.layer} : reached[m] = Len(out[m])
    BY <1>3, <1>5 DEF reached
  <2>2. reached'[call.layer] = call.hi
    BY <1>1, <1>5 DEF reached
  <2>3. \A m \in 1..Layers \ {call.layer} : reached'[m] = Len(out'[m])
    BY <1>1 DEF reached
  <2> QED
    BY <2>1, <2>2, <2>3, <1>1, <1>5
<1>9. reached' = reached
  BY <1>8 DEF reached
<1>10. Types'
  BY <1>1, <1>2, <1>4, <1>3 DEF SInv, Types
<1>11. KindOK'
  BY <1>2, <1>7 DEF SInv, KindOK
<1>12. ChunkOrder'
  BY <1>2, <1>7, ChunkOrderKept DEF SInv
<1>13. LoopsOK'
  <2>1. ChunksOK' /\ ActivationsOK'
    BY <1>2, <1>7, <1>9 DEF SInv, LoopsOK, ChunksOK, ActivationsOK, Wanted, Ahead
  <2>2. PositionsOK' /\ BlocksOK' /\ ExamplesOK' /\ GroupsOK'
    BY <1>2, <1>7, <1>9 DEF SInv, LoopsOK, PositionsOK, BlocksOK, ExamplesOK, GroupsOK
  <2> QED
    BY <2>1, <2>2 DEF LoopsOK
<1>14. EndOK'
  <2>1. stage' # "close" /\ pc' # "done" /\ pc' # "rejected"
    BY <1>1, <1>3, <1>4, <1>7 DEF stage
  <2> QED
    BY <2>1 DEF EndOK
<1> QED
  BY <1>1, <1>6, <1>10, <1>11, <1>12, <1>13, <1>14 DEF SInv

-----------------------------------------------------------------------------
(* Products and quotients.                                                 *)

LEMMA TimesMono ==
  ASSUME NEW a \in Nat, NEW b \in Nat, NEW g \in Nat, a <= b
  PROVE  a * g \in Nat /\ b * g \in Nat /\ a * g <= b * g
<1>1. PICK d \in Nat : b = a + d
  <2>1. b - a \in Nat /\ b = a + (b - a)
    OBVIOUS
  <2> QED
    BY <2>1
<1>2. d * g \in Nat /\ a * g \in Nat
  OBVIOUS
<1>3. (a + d) * g = a * g + d * g
  OBVIOUS
<1> QED
  BY <1>1, <1>2, <1>3

LEMMA TimesNext ==
  ASSUME NEW a \in Nat, NEW g \in Nat
  PROVE  a * g \in Nat /\ (a + 1) * g \in Nat /\ (a + 1) * g = a * g + g
OBVIOUS

LEMMA DivUp ==
  ASSUME NEW n \in Nat \ {0}, NEW b \in Nat \ {0}
  PROVE  LET k == (n + b - 1) \div b
         IN  k \in Nat \ {0} /\ n <= k * b /\ (k - 1) * b < n
<1>1. PICK m \in Nat : m = n + b - 1
  OBVIOUS
<1>2. PICK k \in Int : k = m \div b
  OBVIOUS
<1>3. k * b <= m /\ m < (k + 1) * b
  BY <1>1, <1>2
<1>4. (k + 1) * b = k * b + b /\ (k - 1) * b = k * b - b
  OBVIOUS
<1>5. n <= k * b /\ (k - 1) * b < n
  BY <1>1, <1>3, <1>4
<1>6. k > 0
  <2>1. ASSUME k <= 0 PROVE FALSE
    <3>1. k * b <= 0
      BY <2>1
    <3> QED
      BY <3>1, <1>5
  <2> QED
    BY <2>1
<1> QED
  BY <1>1, <1>2, <1>5, <1>6

LEMMA Quotient ==
  ASSUME NEW m \in Nat, NEW b \in Nat \ {0}
  PROVE  m \div b \in Nat /\ (m \div b) * b <= m
<1>1. PICK k \in Int : k = m \div b
  OBVIOUS
<1>2. k * b <= m /\ m < (k + 1) * b
  BY <1>1
<1>3. k >= 0
  <2>1. ASSUME k + 1 <= 0 PROVE FALSE
    <3>1. (k + 1) * b <= 0
      BY <2>1
    <3> QED
      BY <3>1, <1>2
  <2> QED
    BY <2>1
<1> QED
  BY <1>1, <1>2, <1>3

(* NRows is a number of groups: a group that begins before the end ends by *)
(* the end.                                                                *)
LEMMA GroupFits ==
  ASSUME NEW a \in Nat, a * Group < NRows
  PROVE  (a + 1) * Group <= NRows
<1>1. NRows \in Nat /\ Group \in Nat \ {0} /\ NRows % Group = 0
  BY SweepAssumption
<1>2. PICK k \in Int : k = NRows \div Group
  BY <1>1
<1>3. NRows = k * Group
  BY <1>1, <1>2
<1>4. k >= 0
  <2>1. ASSUME k < 0 PROVE FALSE
    <3>1. k * Group < 0
      BY <2>1, <1>1
    <3> QED
      BY <3>1, <1>1, <1>3
  <2> QED
    BY <2>1
<1>5. a < k
  <2>1. ASSUME k <= a PROVE FALSE
    <3>1. k * Group <= a * Group
      BY <2>1, <1>1, <1>4, TimesMono
    <3> QED
      BY <3>1, <1>1, <1>3
  <2> QED
    BY <2>1
<1> QED
  BY <1>1, <1>3, <1>4, <1>5, TimesMono

-----------------------------------------------------------------------------
(* The chunks of a run.                                                    *)

(* The chunks follow each other from row 0 to the last one.                *)
LEMMA ChunksCover ==
  ASSUME batch \in Nat \ {0}
  PROVE  \E k \in Nat \ {0} :
           /\ Chunks \in Seq(Bound) /\ Len(Chunks) = k
           /\ Chunks[1].lo = 0 /\ Chunks[k].hi = NRows
           /\ \A c \in 1..(k - 1) : Chunks[c].hi = Chunks[c + 1].lo
           /\ \A c \in 1..k, d \in 1..k : c <= d => Chunks[c].hi <= Chunks[d].hi
<1>1. NRows \in Nat \ {0} /\ NRows \in Nat
  BY SweepAssumption
<1>2. PICK k \in Nat \ {0} : k = (NRows + batch - 1) \div batch /\ NRows <= k * batch /\ (k - 1) * batch < NRows
  BY <1>1, DivUp
<1> DEFINE f == [c \in 1..k |-> [lo |-> (c - 1) * batch, hi |-> Lesser(c * batch, NRows)]]
<1>3. Chunks = f
  BY <1>2 DEF Chunks
<1>4. ASSUME NEW c \in 1..k
      PROVE  /\ (c - 1) * batch \in Row /\ Lesser(c * batch, NRows) \in Row /\ c * batch \in Nat
             /\ c < k => Lesser(c * batch, NRows) = c * batch
             /\ c = k => Lesser(c * batch, NRows) = NRows
  <2>1. c - 1 \in Nat /\ c \in Nat /\ k - 1 \in Nat /\ c - 1 <= k - 1
    BY <1>2
  <2>2. (c - 1) * batch \in Nat /\ (c - 1) * batch <= (k - 1) * batch
    BY <2>1, TimesMono
  <2>3. c * batch \in Nat
    BY <2>1
  <2>4. c < k => c * batch \in Nat /\ c * batch <= (k - 1) * batch
    BY <2>1, TimesMono
  <2> QED
    BY <1>1, <1>2, <2>1, <2>2, <2>3, <2>4 DEF Lesser, Row
<1>5. \A c \in 1..k : /\ f[c].lo = (c - 1) * batch /\ f[c].hi = Lesser(c * batch, NRows)
                      /\ f[c] \in Bound
  BY <1>4 DEF Bound
<1>6. f \in Seq(Bound) /\ Len(f) = k
  <2>1. f \in [1..k -> Bound]
    BY <1>5
  <2> HIDE DEF f
  <2>2. k \in Nat
    OBVIOUS
  <2> QED
    BY <2>1, <2>2
<1> HIDE DEF f
<1>7. f[1].lo = 0 /\ f[k].hi = NRows
  BY <1>2, <1>4, <1>5
<1>8. \A c \in 1..(k - 1) : f[c].hi = f[c + 1].lo
  <2> SUFFICES ASSUME NEW c \in 1..(k - 1) PROVE f[c].hi = f[c + 1].lo
    OBVIOUS
  <2>1. c \in 1..k /\ c + 1 \in 1..k /\ c < k /\ (c + 1) - 1 = c
    BY <1>2
  <2> QED
    BY <2>1, <1>4, <1>5
<1>9. \A c \in 1..k, d \in 1..k : c <= d => f[c].hi <= f[d].hi
  <2> SUFFICES ASSUME NEW c \in 1..k, NEW d \in 1..k, c <= d PROVE f[c].hi <= f[d].hi
    OBVIOUS
  <2>1. c * batch \in Nat /\ d * batch \in Nat /\ c * batch <= d * batch
    BY TimesMono
  <2> QED
    BY <1>1, <2>1, <1>5 DEF Lesser
<1> QED
  BY <1>2, <1>3, <1>6, <1>7, <1>8, <1>9

(* Those of a run that resumes at a row r begin at or before r.            *)
LEMMA BoundsCover ==
  ASSUME batch \in Nat \ {0}, RowsOK
  PROVE  \E b \in Seq(Bound) :
           /\ b = ChunkBounds
           /\ \A i \in 1..Len(b) : b[i].hi = IF i < Len(b) THEN b[i + 1].lo ELSE NRows
           /\ (IF 0 < Len(b) THEN b[1].lo ELSE NRows) <= ResumeRow
<1>1. PICK k \in Nat \ {0} :
        /\ Chunks \in Seq(Bound) /\ Len(Chunks) = k
        /\ Chunks[1].lo = 0 /\ Chunks[k].hi = NRows
        /\ \A c \in 1..(k - 1) : Chunks[c].hi = Chunks[c + 1].lo
        /\ \A c \in 1..k, d \in 1..k : c <= d => Chunks[c].hi <= Chunks[d].hi
  BY ChunksCover
<1>2. PICK r \in Row : r = ResumeRow
  BY Resumes
<1>3. PICK ch \in Seq(Bound) : ch = Chunks
  BY <1>1
<1>4. \A c \in 1..k : ch[c].hi \in Nat /\ ch[c].lo \in Nat /\ ch[c] \in Bound
  <2>1. \A c \in 1..k : ch[c] \in Bound
    BY <1>1, <1>3
  <2> QED
    BY <2>1, SweepAssumption DEF Bound, Row
<1>5. r \in Nat /\ NRows \in Nat
  BY SweepAssumption DEF Row
<1>6. \E e \in 1..(k + 1) : \A d \in 1..k : ch[d].hi > r <=> d >= e
  <2> DEFINE T == {c \in 1..k : ch[c].hi > r}
  <2>1. CASE T = {}
    <3>1. \A d \in 1..k : ~(ch[d].hi > r) /\ ~(d >= k + 1)
      BY <2>1
    <3> QED
      BY <3>1
  <2>2. CASE T # {}
    <3>1. T \in SUBSET Nat
      OBVIOUS
    <3>2. \E e \in T : \A j \in T : e <= j
      <4> HIDE DEF T
      <4> QED
        BY <3>1, <2>2, LeastOf
    <3>3. PICK e \in T : \A j \in T : e <= j
      BY <3>2
    <3>4. e \in 1..k /\ ch[e].hi > r
      OBVIOUS
    <3>5. ASSUME NEW d \in 1..k PROVE ch[d].hi > r <=> d >= e
      <4>1. ASSUME d >= e PROVE ch[d].hi > r
        <5>1. ch[e].hi <= ch[d].hi
          BY <1>1, <1>3, <3>4, <4>1
        <5> QED
          BY <5>1, <3>4, <1>4, <1>5
      <4>2. ASSUME ch[d].hi > r PROVE d >= e
        <5>1. d \in T
          BY <4>2
        <5> QED
          BY <5>1, <3>3
      <4> QED
        BY <4>1, <4>2
    <3>6. e \in 1..(k + 1) /\ \A d \in 1..k : ch[d].hi > r <=> d >= e
      BY <3>4, <3>5
    <3> HIDE DEF T
    <3> QED
      BY <3>6
  <2> QED
    BY <2>1, <2>2
<1>7. PICK first \in 1..(k + 1) :
        /\ \A d \in 1..k : ch[d].hi > r <=> d >= first
        /\ ChunkBounds = SubSeq(ch, first, k)
  <2> DEFINE e == CHOOSE c \in 1..(k + 1) : \A d \in 1..k : ch[d].hi > r <=> d >= c
  <2>1. e \in 1..(k + 1) /\ \A d \in 1..k : ch[d].hi > r <=> d >= e
    BY <1>6
  <2>2. ChunkBounds = SubSeq(ch, e, k)
    BY <1>1, <1>2, <1>3 DEF ChunkBounds
  <2> HIDE DEF e
  <2> QED
    BY <2>1, <2>2
<1>8. PICK b : b = SubSeq(ch, first, k)
  OBVIOUS
<1>9. Len(ch) = k
  BY <1>1, <1>3
<1>10. b \in Seq(Bound) /\ Len(b) = k - first + 1 /\ \A i \in 1..(k - first + 1) : b[i] = ch[first + i - 1]
  <2>1. \A i \in first..k : ch[i] \in Bound
    BY <1>4
  <2> QED
    BY <2>1, <1>8, SubSeqProperties
<1>11. \A i \in 1..Len(b) : b[i].hi = IF i < Len(b) THEN b[i + 1].lo ELSE NRows
  <2> SUFFICES ASSUME NEW i \in 1..Len(b) PROVE b[i].hi = IF i < Len(b) THEN b[i + 1].lo ELSE NRows
    OBVIOUS
  <2>1. i \in 1..(k - first + 1) /\ b[i] = ch[first + i - 1]
    BY <1>10
  <2>2. CASE i < Len(b)
    <3>1. first + i - 1 \in 1..(k - 1) /\ i + 1 \in 1..(k - first + 1) /\ (first + i - 1) + 1 = first + (i + 1) - 1
      BY <2>1, <2>2, <1>10
    <3>2. ch[first + i - 1].hi = ch[(first + i - 1) + 1].lo
      BY <3>1, <1>1, <1>3
    <3> QED
      BY <2>1, <2>2, <3>1, <3>2, <1>10
  <2>3. CASE ~(i < Len(b))
    <3>1. first + i - 1 = k
      BY <2>1, <2>3, <1>10
    <3> QED
      BY <2>1, <2>3, <3>1, <1>1, <1>3
  <2> QED
    BY <2>2, <2>3
<1>12. (IF 0 < Len(b) THEN b[1].lo ELSE NRows) <= r
  <2>1. CASE first = k + 1
    <3>1. Len(b) = 0 /\ k \in 1..k /\ ~(k >= first)
      BY <2>1, <1>10
    <3> QED
      BY <3>1, <1>1, <1>3, <1>5, <1>7
  <2>2. CASE first = 1
    <3>1. 0 < Len(b) /\ b[1] = ch[1]
      BY <2>2, <1>10
    <3> QED
      BY <3>1, <1>1, <1>3, <1>5
  <2>3. CASE first # 1 /\ first # k + 1
    <3>1. PICK p \in 1..(k - 1) : first = p + 1
      <4>1. first - 1 \in 1..(k - 1) /\ first = (first - 1) + 1
        BY <2>3
      <4> QED
        BY <4>1
    <3>2. p \in 1..k /\ ~(p >= first) /\ 0 < Len(b) /\ b[1] = ch[p + 1]
      BY <3>1, <1>10
    <3>3. ch[p].hi <= r /\ ch[p].hi = ch[p + 1].lo
      BY <3>1, <3>2, <1>1, <1>3, <1>4, <1>5, <1>7
    <3> QED
      BY <3>2, <3>3
  <2> QED
    BY <2>1, <2>2, <2>3
<1> QED
  BY <1>2, <1>7, <1>8, <1>10, <1>11, <1>12

-----------------------------------------------------------------------------
(* The preparing thread.                                                   *)

LEMMA OpenPerturbedStep == ASSUME SInv, OpenPerturbed PROVE SInv'
<1>1. /\ kind = "perturbed" /\ NewWriters /\ pc' = "get" /\ it' = it
      /\ bounds' = ChunkBounds /\ queue' = <<>> /\ built' = 0 /\ worker' = "building" /\ why' = "none"
  BY DEF OpenPerturbed
<1>2. /\ UNCHANGED <<control, saved>> /\ call' \in Call /\ RowsOK' /\ CallOK' /\ stage' = "get"
      /\ \A l \in 1..Layers : reached'[l] = saved[l]
  BY <1>1, Opens DEF SInv
<1>3. UNCHANGED <<kind, runs, batch, attempt>>
  BY <1>2 DEF control
<1>4. PICK b \in Seq(Bound) :
        /\ bounds' = b
        /\ \A i \in 1..Len(b) : b[i].hi = IF i < Len(b) THEN b[i + 1].lo ELSE NRows
        /\ (IF 0 < Len(b) THEN b[1].lo ELSE NRows) <= ResumeRow
  BY <1>1, BoundsCover DEF SInv, Types
<1>5. Types'
  <2>1. <<>> \in Seq(Item) /\ Len(<<>>) = 0 /\ Len(b) \in Nat
    OBVIOUS
  <2> QED
    BY <2>1, <1>1, <1>2, <1>3, <1>4, SweepAssumption DEF SInv, Types, PCs
<1>6. KindOK'
  BY <1>1, <1>2, <1>3 DEF KindOK, Lockstep
<1>7. ChunkOrder'
  BY <1>1, <1>4 DEF ChunkOrder, BoundsOK, QueueOK, WorkerOK
<1>8. ChunksOK'
  <2>1. Wanted' = IF 0 < Len(b) THEN b[1].lo ELSE NRows
    BY <1>1, <1>4 DEF Wanted, Ahead
  <2>2. Wanted' \in Row
    <3>1. 0 < Len(b) => b[1] \in Bound
      OBVIOUS
    <3> QED
      BY <2>1, <3>1, SweepAssumption DEF Bound, Row
  <2>3. ResumeRow \in Row /\ \A l \in 1..Layers : ResumeRow <= saved[l] /\ saved[l] \in Row
    BY <1>1, Resumes DEF SInv, Writers, Lockstep, RowsOK
  <2>4. \A l \in 1..Layers : Wanted' <= reached'[l]
    BY <2>1, <2>2, <2>3, <1>2, <1>4, SweepAssumption DEF Row
  <2> QED
    BY <1>2, <2>4 DEF ChunksOK
<1>9. LoopsOK'
  BY <1>2, <1>8 DEF LoopsOK, ActivationsOK, PositionsOK, BlocksOK, ExamplesOK, GroupsOK
<1>10. EndOK'
  BY <1>1, <1>2 DEF EndOK
<1> QED
  BY <1>2, <1>5, <1>6, <1>7, <1>9, <1>10 DEF SInv

(* The thread's steps leave the main thread as it is, and the next chunk.  *)
LEMMA WorkerFrame ==
  ASSUME SInv, UNCHANGED <<control, pc, out, saved, call, it, why>>, Types', ChunkOrder', Wanted' = Wanted
  PROVE  SInv'
<1>1. UNCHANGED <<kind, batch, attempt>>
  BY DEF control
<1>2. stage' = stage /\ reached' = reached
  BY DEF stage, reached
<1>3. RowsOK' /\ CallOK' /\ KindOK' /\ EndOK'
  BY <1>1, <1>2 DEF SInv, RowsOK, LayerOK, ShardCapacity, CallOK, KindOK, EndOK, Writers
<1>4. ChunksOK' /\ ActivationsOK'
  BY <1>1, <1>2 DEF SInv, LoopsOK, ChunksOK, ActivationsOK
<1>5. PositionsOK' /\ BlocksOK' /\ ExamplesOK' /\ GroupsOK'
  BY <1>1, <1>2 DEF SInv, LoopsOK, PositionsOK, BlocksOK, ExamplesOK, GroupsOK
<1> QED
  BY <1>3, <1>4, <1>5 DEF SInv, LoopsOK

LEMMA PutFacts ==
  ASSUME Types, NEW e \in Item, Put(e)
  PROVE  /\ queue' \in Seq(Item) /\ Len(queue') <= Prefetch /\ queue' # <<>>
         /\ Len(queue) \in Nat /\ Len(queue') = Len(queue) + 1
         /\ queue'[Len(queue) + 1] = e /\ \A i \in 1..Len(queue) : queue'[i] = queue[i]
         /\ Head(queue') = IF queue = <<>> THEN e ELSE Head(queue)
<1>1. queue \in Seq(Item) /\ queue' = Append(queue, e) /\ Len(queue) < Prefetch /\ Prefetch \in Nat
  BY SweepAssumption DEF Types, Put
<1>2. queue' \in Seq(Item) /\ Len(queue') = Len(queue) + 1 /\ Len(queue) \in Nat
  BY <1>1
<1>3. queue'[Len(queue) + 1] = e /\ \A i \in 1..Len(queue) : queue'[i] = queue[i]
  BY <1>1
<1>4. queue' # <<>> /\ Head(queue') = queue'[1]
  BY <1>1, <1>2
<1>5. CASE queue = <<>>
  BY <1>1, <1>2, <1>3, <1>4, <1>5
<1>6. CASE queue # <<>>
  <2>1. Len(queue) >= 1 /\ Head(queue) = queue[1]
    BY <1>1, <1>6
  <2> QED
    BY <2>1, <1>1, <1>2, <1>3, <1>4, <1>6
<1> QED
  BY <1>5, <1>6

LEMMA Headed ==
  ASSUME Types, queue # <<>>
  PROVE  /\ Len(queue) \in Nat /\ Len(queue) >= 1 /\ Head(queue) = queue[1] /\ Head(queue) \in Item
         /\ Tail(queue) \in Seq(Item) /\ Len(Tail(queue)) = Len(queue) - 1
         /\ \A i \in 1..(Len(queue) - 1) : Tail(queue)[i] = queue[i + 1]
BY DEF Types

LEMMA WorkerPutsChunkStep == ASSUME SInv, WorkerPutsChunk PROVE SInv'
<1> DEFINE n == Len(queue)
           b == bounds[built + 1]
           e == Chunk(b)
<1>1. /\ worker = "building" /\ built < Len(bounds) /\ Put(e) /\ built' = built + 1
      /\ UNCHANGED <<control, pc, out, saved, call, it, bounds, worker, why>>
  BY DEF WorkerPutsChunk
<1>2. Len(bounds) \in Nat /\ built \in Nat /\ b \in Bound
  BY <1>1 DEF SInv, Types
<1>3. e \in Item /\ e.what = "chunk" /\ e.lo = b.lo /\ e.hi = b.hi
  BY <1>2 DEF Chunk, Item, Bound
<1> HIDE DEF e
<1>4. /\ queue' \in Seq(Item) /\ Len(queue') <= Prefetch /\ queue' # <<>>
      /\ n \in Nat /\ Len(queue') = n + 1
      /\ queue'[n + 1] = e /\ \A i \in 1..n : queue'[i] = queue[i]
      /\ Head(queue') = IF queue = <<>> THEN e ELSE Head(queue)
  BY <1>1, <1>3, PutFacts DEF SInv
<1>5. \A i \in 1..n : queue[i].what = "chunk"
  BY <1>1 DEF SInv, ChunkOrder, WorkerOK
<1>6. UNCHANGED <<kind, runs, batch, attempt>>
  BY <1>1 DEF control
<1>7. Types'
  BY <1>1, <1>2, <1>4, <1>6 DEF SInv, Types
<1>8. Ahead = b.lo /\ Ahead' = b.hi
  BY <1>1, <1>2 DEF SInv, ChunkOrder, BoundsOK, Ahead
<1>9. BoundsOK'
  BY <1>1 DEF SInv, ChunkOrder, BoundsOK
<1>10. QueueOK'
  <2> SUFFICES ASSUME NEW i \in 1..(n + 1)
               PROVE  /\ i > 1 => queue'[i - 1].what = "chunk"
                      /\ queue'[i].hi = IF i < n + 1 /\ queue'[i + 1].what = "chunk"
                                        THEN queue'[i + 1].lo ELSE Ahead'
    BY <1>4 DEF QueueOK
  <2>1. CASE i = n + 1
    <3>1. i > 1 => i - 1 \in 1..n
      BY <1>4
    <3> QED
      BY <2>1, <3>1, <1>3, <1>4, <1>5, <1>8
  <2>2. CASE i # n + 1
    <3>1. i \in 1..n /\ (i > 1 => i - 1 \in 1..n)
      BY <2>2, <1>4
    <3>2. queue[i].hi = IF i < n /\ queue[i + 1].what = "chunk" THEN queue[i + 1].lo ELSE Ahead
      BY <3>1, <1>5 DEF SInv, ChunkOrder, QueueOK
    <3>3. CASE i < n
      <4>1. i + 1 \in 1..n
        BY <3>1, <3>3, <1>4
      <4> QED
        BY <3>1, <3>2, <3>3, <4>1, <1>4, <1>5
    <3>4. CASE i = n
      BY <3>1, <3>2, <3>4, <1>3, <1>4, <1>5, <1>8
    <3> QED
      BY <3>1, <3>3, <3>4, <1>4
  <2> QED
    BY <2>1, <2>2
<1>11. WorkerOK'
  <2>1. \A i \in 1..(n + 1) : queue'[i].what = "chunk"
    BY <1>3, <1>4, <1>5
  <2> QED
    BY <2>1, <1>1, <1>4 DEF WorkerOK
<1>12. Wanted' = Wanted
  <2>1. CASE queue = <<>>
    BY <2>1, <1>3, <1>4, <1>8 DEF Wanted
  <2>2. CASE queue # <<>>
    <3>1. Head(queue).what = "chunk"
      BY <2>2, <1>4, <1>5, Headed DEF SInv
    <3> QED
      BY <2>2, <3>1, <1>4 DEF Wanted
  <2> QED
    BY <2>1, <2>2
<1> QED
  BY <1>1, <1>7, <1>9, <1>10, <1>11, <1>12, WorkerFrame DEF ChunkOrder

(* A mark at the end of the queue.                                         *)
LEMMA PutMark ==
  ASSUME SInv, NEW w \in {"error", "sentinel"}, Put(Mark(w)), UNCHANGED <<bounds, built>>
  PROVE  /\ queue' \in Seq(Item) /\ Len(queue') <= Prefetch
         /\ Len(queue) \in Nat /\ Len(queue') = Len(queue) + 1
         /\ queue'[Len(queue) + 1].what = w
         /\ \A i \in 1..Len(queue) : queue'[i] = queue[i]
         /\ BoundsOK' /\ QueueOK' /\ Wanted' = Wanted
<1> DEFINE n == Len(queue)
           e == Mark(w)
<1>1. e \in Item /\ e.what = w /\ w # "chunk"
  BY SweepAssumption DEF Mark, Item, Row
<1> HIDE DEF e
<1>2. /\ queue' \in Seq(Item) /\ Len(queue') <= Prefetch /\ queue' # <<>>
      /\ n \in Nat /\ Len(queue') = n + 1
      /\ queue'[n + 1] = e /\ \A i \in 1..n : queue'[i] = queue[i]
      /\ Head(queue') = IF queue = <<>> THEN e ELSE Head(queue)
  BY <1>1, PutFacts DEF SInv, e
<1>3. Ahead' = Ahead
  BY DEF Ahead
<1>4. BoundsOK'
  BY DEF SInv, ChunkOrder, BoundsOK
<1>5. QueueOK'
  <2> SUFFICES ASSUME NEW i \in 1..(n + 1), queue'[i].what = "chunk"
               PROVE  /\ i > 1 => queue'[i - 1].what = "chunk"
                      /\ queue'[i].hi = IF i < n + 1 /\ queue'[i + 1].what = "chunk"
                                        THEN queue'[i + 1].lo ELSE Ahead'
    BY <1>2 DEF QueueOK
  <2>1. i \in 1..n
    BY <1>1, <1>2
  <2>2. /\ i > 1 => queue[i - 1].what = "chunk"
        /\ queue[i].hi = IF i < n /\ queue[i + 1].what = "chunk" THEN queue[i + 1].lo ELSE Ahead
    BY <2>1, <1>2 DEF SInv, ChunkOrder, QueueOK
  <2>3. i > 1 => i - 1 \in 1..n
    BY <2>1, <1>2
  <2>4. CASE i < n
    <3>1. i + 1 \in 1..n
      BY <2>1, <2>4, <1>2
    <3> QED
      BY <2>1, <2>2, <2>3, <2>4, <3>1, <1>2, <1>3
  <2>5. CASE i = n
    BY <2>1, <2>2, <2>3, <2>5, <1>1, <1>2, <1>3
  <2> QED
    BY <2>1, <2>4, <2>5, <1>2
<1>6. Wanted' = Wanted
  BY <1>1, <1>2, <1>3 DEF Wanted
<1> QED
  BY <1>1, <1>2, <1>4, <1>5, <1>6

LEMMA WorkerPutsErrorStep == ASSUME SInv, WorkerPutsError PROVE SInv'
<1>1. /\ worker = "failed" /\ Put(Mark("error")) /\ worker' = "ending"
      /\ UNCHANGED <<control, pc, out, saved, call, it, bounds, built, why>>
  BY DEF WorkerPutsError
<1>2. PICK w \in {"error", "sentinel"} : w = "error"
  OBVIOUS
<1>3. /\ queue' \in Seq(Item) /\ Len(queue') <= Prefetch
      /\ Len(queue) \in Nat /\ Len(queue') = Len(queue) + 1
      /\ queue'[Len(queue) + 1].what = w
      /\ \A i \in 1..Len(queue) : queue'[i] = queue[i]
      /\ BoundsOK' /\ QueueOK' /\ Wanted' = Wanted
  BY <1>1, <1>2, PutMark
<1>4. UNCHANGED <<kind, runs, batch, attempt>>
  BY <1>1 DEF control
<1>5. Types'
  BY <1>1, <1>3, <1>4 DEF SInv, Types
<1>6. \A i \in 1..Len(queue) : queue[i].what = "chunk"
  BY <1>1 DEF SInv, ChunkOrder, WorkerOK
<1>7. \A i \in 1..Len(queue') : queue'[i].what # "sentinel"
  BY <1>2, <1>3, <1>6
<1>8. \E i \in 1..Len(queue') : queue'[i].what = "error"
  <2>1. Len(queue) + 1 \in 1..Len(queue')
    BY <1>3
  <2> QED
    BY <2>1, <1>2, <1>3
<1>9. WorkerOK'
  BY <1>1, <1>7, <1>8 DEF WorkerOK
<1> QED
  BY <1>1, <1>3, <1>5, <1>9, WorkerFrame DEF ChunkOrder

LEMMA WorkerPutsSentinelStep == ASSUME SInv, WorkerPutsSentinel PROVE SInv'
<1>1. /\ worker = "ending" \/ (worker = "building" /\ built = Len(bounds))
      /\ Put(Mark("sentinel")) /\ worker' = "gone"
      /\ UNCHANGED <<control, pc, out, saved, call, it, bounds, built, why>>
  BY DEF WorkerPutsSentinel
<1>2. PICK w \in {"error", "sentinel"} : w = "sentinel"
  OBVIOUS
<1>3. /\ queue' \in Seq(Item) /\ Len(queue') <= Prefetch
      /\ Len(queue) \in Nat /\ Len(queue') = Len(queue) + 1
      /\ queue'[Len(queue) + 1].what = w
      /\ \A i \in 1..Len(queue) : queue'[i] = queue[i]
      /\ BoundsOK' /\ QueueOK' /\ Wanted' = Wanted
  BY <1>1, <1>2, PutMark
<1>4. UNCHANGED <<kind, runs, batch, attempt>>
  BY <1>1 DEF control
<1>5. Types'
  BY <1>1, <1>3, <1>4 DEF SInv, Types
<1>6. stage' = stage
  BY <1>1 DEF stage
<1>7. ASSUME kind = "perturbed", stage \in {"get", "layers"},
             NEW i \in 1..Len(queue'), queue'[i].what = "sentinel"
      PROVE  built = Len(bounds) \/ \E j \in 1..(i - 1) : queue'[j].what = "error"
  <2>1. CASE i = Len(queue) + 1
    <3>1. CASE worker = "ending"
      <4>1. PICK j \in 1..Len(queue) : queue[j].what = "error"
        BY <3>1, <1>7 DEF SInv, ChunkOrder, WorkerOK
      <4>2. j \in 1..(i - 1) /\ queue'[j].what = "error"
        BY <4>1, <2>1, <1>3
      <4> QED
        BY <4>2
    <3> QED
      BY <3>1, <1>1
  <2>2. CASE i # Len(queue) + 1
    <3>1. i \in 1..Len(queue) /\ queue[i].what = "sentinel"
      BY <2>2, <1>3, <1>7
    <3>2. CASE built # Len(bounds)
      <4>1. PICK j \in 1..(i - 1) : queue[j].what = "error"
        BY <3>1, <3>2, <1>7 DEF SInv, ChunkOrder, WorkerOK
      <4>2. j \in 1..Len(queue) /\ queue'[j].what = "error"
        BY <3>1, <4>1, <1>3
      <4> QED
        BY <4>2
    <3> QED
      BY <3>2
  <2> QED
    BY <2>1, <2>2
<1>8. WorkerOK'
  BY <1>1, <1>4, <1>6, <1>7 DEF WorkerOK
<1> QED
  BY <1>1, <1>3, <1>5, <1>8, WorkerFrame DEF ChunkOrder

LEMMA BuildFailsStep == ASSUME SInv, BuildFails PROVE SInv'
<1>1. /\ worker = "building" /\ worker' = "failed"
      /\ UNCHANGED <<control, pc, out, saved, call, it, bounds, queue, built, why>>
  BY DEF BuildFails
<1>2. UNCHANGED <<kind, runs, batch, attempt>> /\ stage' = stage
  BY <1>1 DEF control, stage
<1>3. Types'
  BY <1>1, <1>2 DEF SInv, Types
<1>4. ChunkOrder' /\ Wanted' = Wanted
  BY <1>1, <1>2 DEF SInv, ChunkOrder, BoundsOK, QueueOK, WorkerOK, Ahead, Wanted
<1> QED
  BY <1>1, <1>3, <1>4, WorkerFrame

-----------------------------------------------------------------------------
(* The consumer of the queue.                                              *)

LEMMA GetFacts ==
  ASSUME SInv, pc = "get", queue # <<>>, queue' = Tail(queue), UNCHANGED <<bounds, built>>
  PROVE  /\ queue' \in Seq(Item) /\ Len(queue') <= Prefetch /\ BoundsOK' /\ QueueOK'
         /\ kind = "perturbed" /\ stage = "get"
         /\ \A l \in 1..Layers : reached[l] = Len(out[l]) /\ Wanted <= reached[l]
         /\ Head(queue) \in Item /\ Head(queue) = queue[1]
         /\ Head(queue).what = "chunk" => Head(queue).hi = Wanted'
         /\ Len(queue) \in Nat /\ Len(queue) >= 1 /\ Len(queue') = Len(queue) - 1
         /\ \A i \in 1..(Len(queue) - 1) : queue'[i] = queue[i + 1]
<1> DEFINE n == Len(queue)
<1>1. /\ n \in Nat /\ n >= 1 /\ Head(queue) = queue[1] /\ Head(queue) \in Item
      /\ queue' \in Seq(Item) /\ Len(queue') = n - 1
      /\ \A i \in 1..(n - 1) : queue'[i] = queue[i + 1]
  BY Headed DEF SInv
<1>2. n <= Prefetch /\ Prefetch \in Nat
  BY SweepAssumption DEF SInv, Types
<1>3. stage = "get" /\ kind = "perturbed"
  BY DEF SInv, KindOK, stage
<1>4. \A l \in 1..Layers : reached[l] = Len(out[l]) /\ Wanted <= reached[l]
  BY <1>3 DEF SInv, LoopsOK, ChunksOK, reached
<1>5. BoundsOK' /\ Ahead' = Ahead
  BY DEF SInv, ChunkOrder, BoundsOK, Ahead
<1>6. QueueOK'
  <2> SUFFICES ASSUME NEW i \in 1..(n - 1), queue'[i].what = "chunk"
               PROVE  /\ i > 1 => queue'[i - 1].what = "chunk"
                      /\ queue'[i].hi = IF i < n - 1 /\ queue'[i + 1].what = "chunk"
                                        THEN queue'[i + 1].lo ELSE Ahead'
    BY <1>1 DEF QueueOK
  <2>1. i + 1 \in 1..n /\ queue[i + 1].what = "chunk" /\ i + 1 > 1 /\ (i + 1) - 1 = i
    BY <1>1
  <2>2. /\ queue[i].what = "chunk"
        /\ queue[i + 1].hi = IF i + 1 < n /\ queue[(i + 1) + 1].what = "chunk"
                             THEN queue[(i + 1) + 1].lo ELSE Ahead
    BY <2>1 DEF SInv, ChunkOrder, QueueOK
  <2>3. i > 1 => i - 1 \in 1..(n - 1) /\ (i - 1) + 1 = i
    BY <1>1
  <2>4. i < n - 1 => i + 1 \in 1..(n - 1) /\ i + 1 < n
    BY <1>1
  <2>5. ~(i < n - 1) => ~(i + 1 < n)
    BY <1>1
  <2> QED
    BY <2>1, <2>2, <2>3, <2>4, <2>5, <1>1, <1>5
<1>7. Head(queue).what = "chunk" => Head(queue).hi = Wanted'
  <2> SUFFICES ASSUME queue[1].what = "chunk" PROVE queue[1].hi = Wanted'
    BY <1>1
  <2>1. queue[1].hi = IF 1 < n /\ queue[2].what = "chunk" THEN queue[2].lo ELSE Ahead
    BY <1>1 DEF SInv, ChunkOrder, QueueOK
  <2>2. CASE n = 1
    <3>1. queue' = <<>>
      BY <2>2, <1>1
    <3> QED
      BY <2>1, <2>2, <3>1, <1>5 DEF Wanted
  <2>3. CASE n > 1
    <3>0. 1 \in 1..(n - 1) /\ 1 + 1 = 2 /\ n - 1 # 0
      BY <2>3, <1>1
    <3>1. queue' # <<>> /\ queue'[1] = queue[2]
      BY <3>0, <1>1
    <3>2. Head(queue') = queue[2]
      BY <3>1, <1>1
    <3> QED
      BY <2>1, <2>3, <3>1, <3>2, <1>5 DEF Wanted
  <2> QED
    BY <2>2, <2>3, <1>1
<1> QED
  BY <1>1, <1>2, <1>3, <1>4, <1>5, <1>6, <1>7

LEMMA GetChunkStep == ASSUME SInv, GetChunk PROVE SInv'
<1>1. /\ pc = "get" /\ queue # <<>> /\ Head(queue).what = "chunk" /\ queue' = Tail(queue)
      /\ it' = [it EXCEPT !.at = Head(queue).lo, !.hi = Head(queue).hi, !.turn = 1]
      /\ pc' = "layers"
      /\ UNCHANGED <<control, out, saved, call, bounds, built, worker, why>>
  BY DEF GetChunk
<1>2. /\ queue' \in Seq(Item) /\ Len(queue') <= Prefetch /\ BoundsOK' /\ QueueOK'
      /\ kind = "perturbed" /\ stage = "get"
      /\ \A l \in 1..Layers : reached[l] = Len(out[l]) /\ Wanted <= reached[l]
      /\ Head(queue) \in Item /\ Head(queue) = queue[1] /\ Head(queue).hi = Wanted'
      /\ Len(queue) \in Nat /\ Len(queue) >= 1 /\ Len(queue') = Len(queue) - 1
      /\ \A i \in 1..(Len(queue) - 1) : queue'[i] = queue[i + 1]
  BY <1>1, GetFacts
<1>3. UNCHANGED <<kind, runs, batch, attempt>>
  BY <1>1 DEF control
<1>4. Head(queue).lo \in Row /\ Head(queue).hi \in Row /\ NRows \in Nat
  BY <1>2, SweepAssumption DEF Item
<1>5. it' \in Loop /\ it'.at = Head(queue).lo /\ it'.hi = Head(queue).hi /\ it'.turn = 1
  <2>1. PICK lo \in Nat, hi \in Nat : lo = Head(queue).lo /\ hi = Head(queue).hi
    BY <1>4 DEF Row
  <2>2. it \in Loop /\ it' = [it EXCEPT !.at = lo, !.hi = hi, !.turn = 1]
    BY <1>1, <2>1 DEF SInv, Types
  <2>3. it' \in Loop /\ it'.at = lo /\ it'.hi = hi /\ it'.turn = 1
    BY <2>2 DEF Loop
  <2> QED
    BY <2>1, <2>3
<1>6. Types'
  BY <1>1, <1>2, <1>3, <1>5 DEF SInv, Types, PCs
<1>7. /\ RowsOK' /\ CallOK' /\ stage' = "layers"
      /\ \A l \in 1..Layers : reached'[l] = reached[l]
  BY <1>1, <1>3, NoCallGoesOn DEF SInv
<1>8. KindOK' /\ EndOK'
  BY <1>1, <1>2, <1>3, <1>7 DEF KindOK, EndOK, Lockstep
<1>9. WorkerOK'
  <2>1. worker' \in {"building", "failed"} => \A i \in 1..Len(queue') : queue'[i].what = "chunk"
    BY <1>1, <1>2 DEF SInv, ChunkOrder, WorkerOK
  <2>2. ASSUME worker' = "ending" PROVE \E i \in 1..Len(queue') : queue'[i].what = "error"
    <3>1. PICK i \in 1..Len(queue) : queue[i].what = "error"
      BY <2>2, <1>1, <1>2 DEF SInv, ChunkOrder, WorkerOK
    <3>2. i # 1
      BY <3>1, <1>1, <1>2
    <3>3. i - 1 \in 1..(Len(queue) - 1) /\ (i - 1) + 1 = i
      BY <3>1, <3>2, <1>2
    <3>4. queue'[i - 1].what = "error" /\ i - 1 \in 1..Len(queue')
      BY <3>1, <3>3, <1>2
    <3> QED
      BY <3>4
  <2>3. ASSUME NEW i \in 1..Len(queue'), queue'[i].what = "sentinel", built' # Len(bounds')
        PROVE  \E j \in 1..(i - 1) : queue'[j].what = "error"
    <3>1. i + 1 \in 1..Len(queue) /\ queue[i + 1].what = "sentinel" /\ (i + 1) - 1 = i
      BY <2>3, <1>2
    <3>2. PICK j \in 1..i : queue[j].what = "error"
      BY <2>3, <3>1, <1>1, <1>2 DEF SInv, ChunkOrder, WorkerOK
    <3>3. j # 1
      BY <3>2, <1>1, <1>2
    <3>4. j - 1 \in 1..(i - 1) /\ j - 1 \in 1..(Len(queue) - 1) /\ (j - 1) + 1 = j
      BY <2>3, <3>2, <3>3, <1>2
    <3>5. queue'[j - 1].what = "error"
      BY <3>2, <3>4, <1>2
    <3> QED
      BY <3>4, <3>5
  <2> QED
    BY <2>1, <2>2, <2>3 DEF WorkerOK
<1>10. ChunksOK'
  <2>1. Wanted = Head(queue).lo
    BY <1>1 DEF Wanted
  <2>2. it'.hi = Wanted' /\ it'.hi <= NRows
    BY <1>2, <1>4, <1>5 DEF Row
  <2>3. 1 <= it'.turn /\ \A l \in 1..Layers : it'.at <= reached'[l] /\ ~(l < it'.turn)
    BY <2>1, <1>2, <1>5, <1>7
  <2> QED
    BY <2>2, <2>3, <1>7 DEF ChunksOK
<1>11. LoopsOK'
  BY <1>2, <1>3, <1>7, <1>10 DEF LoopsOK, ActivationsOK, PositionsOK, BlocksOK, ExamplesOK, GroupsOK
<1> QED
  BY <1>2, <1>6, <1>7, <1>8, <1>9, <1>11 DEF SInv, ChunkOrder

LEMMA GetMarkStep == ASSUME SInv, GetMark PROVE SInv'
<1>1. /\ pc = "get" /\ queue # <<>> /\ Head(queue).what # "chunk" /\ queue' = Tail(queue)
      /\ why' = IF Head(queue).what = "sentinel" THEN "end" ELSE "error"
      /\ pc' = "join"
      /\ UNCHANGED <<control, out, saved, call, it, bounds, built, worker>>
  BY DEF GetMark
<1>2. /\ queue' \in Seq(Item) /\ Len(queue') <= Prefetch /\ BoundsOK' /\ QueueOK'
      /\ kind = "perturbed" /\ stage = "get"
      /\ \A l \in 1..Layers : reached[l] = Len(out[l]) /\ Wanted <= reached[l]
      /\ Head(queue) \in Item /\ Head(queue) = queue[1]
      /\ Len(queue) \in Nat /\ Len(queue) >= 1 /\ Len(queue') = Len(queue) - 1
      /\ \A i \in 1..(Len(queue) - 1) : queue'[i] = queue[i + 1]
  BY <1>1, GetFacts
<1>3. UNCHANGED <<kind, runs, batch, attempt>>
  BY <1>1 DEF control
<1>4. Types'
  BY <1>1, <1>2, <1>3 DEF SInv, Types, PCs
<1>5. /\ RowsOK' /\ CallOK' /\ stage' = "join"
      /\ \A l \in 1..Layers : reached'[l] = reached[l]
  BY <1>1, <1>3, NoCallGoesOn DEF SInv
<1>6. KindOK' /\ EndOK'
  BY <1>1, <1>2, <1>3, <1>5 DEF KindOK, EndOK
<1>7. WorkerOK'
  BY <1>1, <1>2, <1>5 DEF SInv, ChunkOrder, WorkerOK
<1>8. ChunksOK'
  <2>1. ASSUME why' = "end", NEW l \in 1..Layers PROVE NRows <= reached'[l]
    <3>1. queue[1].what = "sentinel" /\ 1 \in 1..Len(queue)
      BY <2>1, <1>1, <1>2
    <3>2. built = Len(bounds)
      BY <3>1, <1>2 DEF SInv, ChunkOrder, WorkerOK
    <3>3. Wanted = NRows
      BY <3>1, <3>2, <1>1 DEF Wanted, Ahead
    <3> QED
      BY <3>3, <1>2, <1>5
  <2>2. why' # "oom"
    BY <1>1
  <2> QED
    BY <2>1, <2>2, <1>5 DEF ChunksOK
<1>9. LoopsOK'
  BY <1>5, <1>8 DEF LoopsOK, ActivationsOK, PositionsOK, BlocksOK, ExamplesOK, GroupsOK
<1> QED
  BY <1>2, <1>4, <1>5, <1>6, <1>7, <1>9 DEF SInv, ChunkOrder

LEMMA JoinStep == ASSUME SInv, Join PROVE SInv'
<1>1. pc = "join" /\ UNCHANGED <<kind, runs, out, saved, call, it, bounds, queue, built, worker, why>>
  BY DEF Join, prefetching
<1>2. kind = "perturbed" /\ stage = "join"
  BY <1>1 DEF SInv, KindOK, stage
<1>3. CASE why = "end" /\ pc' = "close" /\ UNCHANGED <<batch, attempt>>
  <2>1. /\ RowsOK' /\ CallOK' /\ stage' = "close"
        /\ \A l \in 1..Layers : reached'[l] = reached[l]
    BY <1>1, <1>3, NoCallGoesOn DEF SInv
  <2>2. \A l \in 1..Layers : NRows <= reached'[l]
    BY <2>1, <1>2, <1>3 DEF SInv, LoopsOK, ChunksOK
  <2>3. Types'
    BY <1>1, <1>3 DEF SInv, Types, PCs
  <2>4. KindOK' /\ EndOK'
    BY <2>1, <2>2, <1>1, <1>2, <1>3, SomeWriters DEF KindOK, EndOK, Writers
  <2>5. ChunkOrder'
    BY <2>1, <1>1, ChunkOrderKept DEF SInv
  <2>6. LoopsOK'
    BY <2>1 DEF LoopsOK, ChunksOK, ActivationsOK, PositionsOK, BlocksOK, ExamplesOK, GroupsOK
  <2> QED
    BY <2>1, <2>3, <2>4, <2>5, <2>6 DEF SInv
<1>4. CASE why = "error" /\ pc' = "raised" /\ UNCHANGED <<batch, attempt>>
  <2>1. Types'
    BY <1>1, <1>4 DEF SInv, Types, PCs, Ended
  <2> QED
    BY <2>1, <1>1, <1>4, LeavesLoops
<1>5. CASE why = "oom" /\ pc' = "open" /\ attempt' = attempt + 1 /\ batch' = Greater(1, (batch * 7) \div 10)
  <2>1. attempt < MaxRetries
    BY <1>2, <1>5 DEF SInv, LoopsOK, ChunksOK
  <2>2. Types'
    BY <2>1, <1>1, <1>5, Shrinks, SweepAssumption DEF SInv, Types, PCs
  <2> QED
    BY <2>2, <1>1, <1>5, LeavesLoops
<1> QED
  BY <1>3, <1>4, <1>5 DEF Join

LEMMA ChunkDoneStep == ASSUME SInv, ChunkDone PROVE SInv'
<1>1. /\ kind = "perturbed" /\ pc = "layers" /\ it.turn > Layers /\ pc' = "get"
      /\ UNCHANGED <<control, out, saved, call, it, prefetching>>
  BY DEF ChunkDone
<1>2. UNCHANGED <<kind, runs, batch, attempt, bounds, queue, built, worker, why>>
  BY <1>1 DEF control, prefetching
<1>3. /\ RowsOK' /\ CallOK' /\ stage = "layers" /\ stage' = "get"
      /\ \A l \in 1..Layers : reached'[l] = reached[l]
  BY <1>1, <1>2, NoCallGoesOn DEF SInv
<1>4. Types'
  BY <1>1, <1>2 DEF SInv, Types, PCs
<1>5. KindOK' /\ EndOK'
  BY <1>1, <1>2, <1>3 DEF KindOK, EndOK
<1>6. ChunkOrder'
  BY <1>2, <1>3, ChunkOrderKept DEF SInv
<1>7. ChunksOK'
  <2>1. Wanted' = Wanted
    BY <1>2 DEF Wanted, Ahead
  <2>2. it.hi = Wanted /\ \A l \in 1..Layers : l < it.turn => it.hi <= reached[l]
    BY <1>1, <1>3 DEF SInv, LoopsOK, ChunksOK
  <2>3. it.turn \in Nat /\ \A l \in 1..Layers : l < it.turn
    BY <1>1, SweepAssumption DEF SInv, Types, Loop
  <2> QED
    BY <2>1, <2>2, <2>3, <1>3 DEF ChunksOK
<1>8. LoopsOK'
  BY <1>3, <1>7 DEF LoopsOK, ActivationsOK, PositionsOK, BlocksOK, ExamplesOK, GroupsOK
<1> QED
  BY <1>3, <1>4, <1>5, <1>6, <1>8 DEF SInv

LEMMA OutOfMemoryStep == ASSUME SInv, OutOfMemory PROVE SInv'
<1>1. /\ kind = "perturbed" /\ pc = "layers"
      /\ UNCHANGED <<control, out, saved, call, it, bounds, queue, built, worker>>
      /\ IF attempt < MaxRetries THEN pc' = "join" /\ why' = "oom" ELSE pc' = "raised" /\ UNCHANGED why
  BY DEF OutOfMemory
<1>2. UNCHANGED <<kind, runs, batch, attempt>>
  BY <1>1 DEF control
<1>3. Types'
  BY <1>1, <1>2 DEF SInv, Types, PCs, Ended
<1>4. CASE ~(attempt < MaxRetries)
  BY <1>1, <1>2, <1>3, <1>4, LeavesLoops
<1>5. CASE attempt < MaxRetries
  <2>1. RowsOK' /\ CallOK' /\ stage = "layers" /\ stage' = "join"
    BY <1>1, <1>2, <1>5, NoCallGoesOn DEF SInv
  <2>2. KindOK' /\ EndOK'
    BY <2>1, <1>1, <1>2, <1>5 DEF KindOK, EndOK
  <2>3. ChunkOrder'
    BY <2>1, <1>1, <1>2, ChunkOrderKept DEF SInv
  <2>4. LoopsOK'
    BY <2>1, <1>1, <1>2, <1>5 DEF LoopsOK, ChunksOK, ActivationsOK, PositionsOK, BlocksOK, ExamplesOK, GroupsOK
  <2> QED
    BY <2>1, <2>2, <2>3, <2>4, <1>3 DEF SInv
<1> QED
  BY <1>4, <1>5

-----------------------------------------------------------------------------
(* What the steps of the loops have in common: they call write_rows, go to *)
(* another place, or begin with new writers.                               *)

LEMMA Kept ==
  ASSUME UNCHANGED <<control, prefetching>>
  PROVE  UNCHANGED <<kind, runs, batch, attempt, bounds, queue, built, worker, why>>
BY DEF control, prefetching

MayCall(l, lo, rows, back) ==
  /\ l \in 1..Layers /\ lo \in Nat /\ rows \in Seq(Nat) /\ back \in Backs
  /\ pc # "write" /\ Labelled(rows, lo) /\ WriteRows(l, lo, rows, back)
  /\ it' \in Loop /\ (back = pc \/ (back = "enough" /\ pc = "examples"))
  /\ \/ kind \in {"activations", "direct"}
     \/ rows = <<>> \/ (lo = Len(out[l]) /\ lo + Len(rows) <= NRows)
Called(l, lo, rows, back) ==
  /\ UNCHANGED <<kind, runs, batch, attempt, bounds, queue, built, worker, why>>
  /\ Types' /\ RowsOK' /\ CallOK' /\ KindOK' /\ ChunkOrder' /\ EndOK'
  /\ stage = pc /\ \A m \in 1..Layers : reached[m] = Len(out[m])
  /\ \/ stage' = "rejected"
     \/ /\ stage' = back /\ (rows = <<>> \/ (lo = Len(out[l]) /\ lo + Len(rows) <= NRows))
        /\ \A m \in 1..Layers :
             reached'[m] = IF m = l /\ rows # <<>> THEN lo + Len(rows) ELSE Len(out[m])

LEMMA CallStep ==
  ASSUME SInv, NEW l, NEW lo, NEW rows, NEW back, MayCall(l, lo, rows, back)
  PROVE  Called(l, lo, rows, back)
<1>0. /\ l \in 1..Layers /\ lo \in Nat /\ rows \in Seq(Nat) /\ back \in Backs
      /\ pc # "write" /\ Labelled(rows, lo) /\ WriteRows(l, lo, rows, back)
      /\ it' \in Loop /\ (back = pc \/ (back = "enough" /\ pc = "examples"))
      /\ \/ kind \in {"activations", "direct"}
         \/ rows = <<>> \/ (lo = Len(out[l]) /\ lo + Len(rows) <= NRows)
  BY DEF MayCall
<1>1. /\ UNCHANGED <<control, out, saved, prefetching>>
      /\ pc' \in PCs \ {"done"} /\ call' \in Call /\ RowsOK' /\ CallOK'
      /\ \/ /\ pc' = "rejected" /\ stage' = "rejected" /\ rows # <<>>
            /\ ~(lo = Len(out[l]) /\ lo + Len(rows) <= NRows)
         \/ /\ stage' = back /\ pc' # "rejected"
            /\ rows = <<>> \/ (lo = Len(out[l]) /\ lo + Len(rows) <= NRows)
            /\ \A m \in 1..Layers :
                 reached'[m] = IF m = l /\ rows # <<>> THEN lo + Len(rows) ELSE Len(out[m])
  BY <1>0, CallsWrite DEF SInv
<1>2. UNCHANGED <<kind, runs, batch, attempt, bounds, queue, built, worker, why>>
  BY <1>1, Kept
<1>3. Types'
  BY <1>0, <1>1, <1>2 DEF SInv, Types
<1>4. stage = pc /\ \A m \in 1..Layers : reached[m] = Len(out[m])
  BY <1>0 DEF stage, reached
<1>5. KindOK'
  BY <1>0, <1>1, <1>2, <1>4 DEF SInv, KindOK
<1>6. back \notin {"get", "close"}
  BY <1>0 DEF Backs
<1>7. ChunkOrder'
  BY <1>0, <1>1, <1>2, <1>4, <1>6, ChunkOrderKept DEF SInv
<1>8. EndOK'
  BY <1>0, <1>1, <1>2, <1>6 DEF EndOK
<1> QED
  BY <1>1, <1>2, <1>3, <1>4, <1>5, <1>7, <1>8 DEF Called

LEMMA RejectedStep ==
  ASSUME SInv, pc # "write", pc' = "rejected", UNCHANGED <<control, out, saved, call, prefetching>>,
         it' \in Loop, kind \in {"activations", "direct"}
  PROVE  SInv'
<1>1. UNCHANGED <<kind, runs, batch, attempt, bounds, queue, built, worker, why>>
  BY Kept
<1>2. RowsOK' /\ CallOK' /\ stage' = "rejected"
  BY <1>1, NoCallGoesOn DEF SInv
<1>3. Types'
  BY <1>1 DEF SInv, Types, PCs, Ended
<1>4. ChunkOrder'
  BY <1>1, <1>2, ChunkOrderKept DEF SInv
<1>5. KindOK' /\ EndOK'
  BY <1>1, <1>2 DEF KindOK, EndOK
<1>6. LoopsOK'
  BY <1>2 DEF LoopsOK, ChunksOK, ActivationsOK, PositionsOK, BlocksOK, ExamplesOK, GroupsOK
<1> QED
  BY <1>2, <1>3, <1>4, <1>5, <1>6 DEF SInv

LEMMA MoveStep ==
  ASSUME SInv, pc # "write", pc' \in PCs \ {"write", "done", "rejected"},
         UNCHANGED <<control, out, saved, call, prefetching>>, it' \in Loop,
         kind = "perturbed" /\ pc' \in {"get", "layers"} => pc \in {"get", "layers"},
         pc' = "close" => \A l \in Writers : NRows <= Len(out[l])
  PROVE  /\ UNCHANGED <<kind, runs, batch, attempt, bounds, queue, built, worker, why>>
         /\ Types' /\ RowsOK' /\ CallOK' /\ ChunkOrder' /\ EndOK'
         /\ stage = pc /\ stage' = pc'
         /\ \A l \in 1..Layers : reached'[l] = Len(out[l]) /\ reached[l] = Len(out[l])
<1>1. UNCHANGED <<kind, runs, batch, attempt, bounds, queue, built, worker, why>>
  BY Kept
<1>2. /\ RowsOK' /\ CallOK' /\ stage = pc /\ stage' = pc'
      /\ \A l \in 1..Layers : reached'[l] = reached[l] /\ reached[l] = Len(out[l])
  BY <1>1, NoCallGoesOn DEF SInv
<1>3. Types'
  BY <1>1 DEF SInv, Types
<1>4. ChunkOrder'
  BY <1>1, <1>2, ChunkOrderKept DEF SInv
<1>5. EndOK'
  BY <1>1, <1>2, SomeWriters DEF EndOK, Writers
<1> QED
  BY <1>1, <1>2, <1>3, <1>4, <1>5

LEMMA OpenStep ==
  ASSUME SInv, NewWriters, NoPrefetch, it' \in Loop, kind # "perturbed",
         pc' \in PCs \ {"write", "rejected"},
         pc' \in {"close", "done"} => \A l \in Writers : NRows <= saved[l]
  PROVE  /\ UNCHANGED <<kind, runs, batch, attempt, bounds, queue, built, worker, why>>
         /\ Types' /\ RowsOK' /\ CallOK' /\ ChunkOrder' /\ EndOK' /\ stage' = pc'
         /\ \A l \in 1..Layers : reached'[l] = saved[l]
<1>1. /\ UNCHANGED <<control, saved>> /\ call' \in Call /\ RowsOK' /\ CallOK' /\ stage' = pc'
      /\ stage = "open" /\ \A l \in 1..Layers : reached'[l] = saved[l]
  BY Opens DEF SInv
<1>2. UNCHANGED <<kind, runs, batch, attempt, bounds, queue, built, worker, why>>
  BY <1>1, Kept DEF NoPrefetch
<1>3. Types'
  BY <1>1, <1>2 DEF SInv, Types
<1>4. ChunkOrder'
  BY <1>1, <1>2, ChunkOrderKept DEF SInv
<1>5. \A l \in Writers : saved[l] \in Row
  BY SomeWriters DEF SInv, RowsOK
<1>6. Writers' = Writers
  BY <1>2 DEF Writers
<1>7. EndOK'
  <2>1. ASSUME stage' = "close", NEW l \in Writers PROVE NRows <= reached'[l]
    BY <2>1, <1>1, SomeWriters
  <2>2. ASSUME pc' = "done", NEW l \in Writers PROVE saved'[l] = NRows
    BY <2>2, <1>1, <1>5, SweepAssumption DEF Row
  <2> QED
    BY <2>1, <2>2, <1>6 DEF EndOK
<1> QED
  BY <1>1, <1>2, <1>3, <1>4, <1>7

-----------------------------------------------------------------------------
(* generate_perturbed_sweep.py and generate_base_activations.py.           *)

(* The variables of a loop before and after a step.                        *)
LEMMA NoLoopYet ==
  /\ NoLoop \in Loop /\ NoLoop.at = 0 /\ NoLoop.turn = 0 /\ NoLoop.hi = 0
  /\ NoLoop.seen = 0 /\ NoLoop.skip = 0 /\ NoLoop.held = <<>>
<1>1. <<>> \in Seq(Nat)
  OBVIOUS
<1> QED
  BY <1>1 DEF NoLoop, Loop

LEMMA NextBlock ==
  ASSUME NEW loop \in Loop, NEW at \in Nat, NEW hi \in Nat,
         it' = [loop EXCEPT !.at = at, !.hi = hi, !.turn = 1]
  PROVE  it' \in Loop /\ it'.turn = 1 /\ it'.at = at /\ it'.hi = hi
BY DEF Loop

LEMMA NextLayer ==
  ASSUME it \in Loop, it' = [it EXCEPT !.turn = it.turn + 1]
  PROVE  it' \in Loop /\ it'.turn = it.turn + 1 /\ it'.at = it.at /\ it'.hi = it.hi
<1>1. PICK n \in Nat : n = it.turn + 1
  BY DEF Loop
<1>2. it' = [it EXCEPT !.turn = n]
  BY <1>1
<1> QED
  BY <1>1, <1>2 DEF Loop

LEMMA LayerOfChunkStep == ASSUME SInv, LayerOfChunk PROVE SInv'
<1>1. /\ kind = "perturbed" /\ pc = "layers" /\ it.turn <= Layers /\ it \in Loop /\ out \in [1..Layers -> Seq(Row)]
      /\ it' = [it EXCEPT !.turn = it.turn + 1] /\ stage = "layers"
  BY DEF LayerOfChunk, SInv, Types, RowsOK, stage
<1>2. PICK t \in 1..Layers, at \in Nat, hi \in Nat : t = it.turn /\ at = it.at /\ hi = it.hi
  <2>1. it.turn \in Nat /\ it.at \in Nat /\ it.hi \in Nat
    BY <1>1 DEF Loop
  <2>2. it.turn >= 1
    BY <1>1 DEF SInv, LoopsOK, ChunksOK
  <2> QED
    BY <2>1, <2>2, <1>1, SweepAssumption
<1>3. it' \in Loop /\ it'.turn = t + 1 /\ it'.at = at /\ it'.hi = hi
  BY <1>1, <1>2, NextLayer
<1>4. /\ hi = Wanted /\ hi <= NRows /\ NRows \in Nat
      /\ \A l \in 1..Layers : at <= Len(out[l]) /\ (l < t => hi <= Len(out[l])) /\ Len(out[l]) \in Nat
  BY <1>1, <1>2, Layer, SweepAssumption DEF SInv, LoopsOK, ChunksOK, reached, Row
<1>5. CASE hi <= Len(out[t])
  <2>1. UNCHANGED <<control, pc, out, saved, call, prefetching>>
    BY <1>2, <1>5 DEF LayerOfChunk, next_row
  <2>2. pc' \in PCs \ {"write", "done", "rejected"} /\ pc' # "close"
    BY <2>1, <1>1 DEF PCs, Ended
  <2>3. /\ UNCHANGED <<kind, runs, batch, attempt, bounds, queue, built, worker, why>>
        /\ Types' /\ RowsOK' /\ CallOK' /\ ChunkOrder' /\ EndOK'
        /\ stage' = pc' /\ \A l \in 1..Layers : reached'[l] = Len(out[l])
    BY <2>1, <2>2, <1>1, <1>3, MoveStep
  <2>4. KindOK'
    BY <2>1, <2>3, <1>1 DEF KindOK, Lockstep
  <2>5. \A l \in 1..Layers : l < t + 1 => hi <= Len(out[l])
    BY <1>4, <1>5
  <2>6. ChunksOK'
    <3>1. Wanted' = Wanted
      BY <2>3 DEF Wanted, Ahead
    <3> QED
      BY <3>1, <2>1, <2>3, <2>5, <1>1, <1>3, <1>4 DEF ChunksOK
  <2>7. LoopsOK'
    BY <2>1, <2>3, <2>6, <1>1 DEF LoopsOK, ActivationsOK, PositionsOK, BlocksOK, ExamplesOK, GroupsOK
  <2> QED
    BY <2>3, <2>4, <2>7 DEF SInv
<1>6. CASE ~(hi <= Len(out[t]))
  <2>1. Greater(0, next_row(t) - at) = Len(out[t]) - at
    BY <1>4 DEF Greater, next_row
  <2>2. PICK lo \in Nat : lo = Len(out[t])
    BY <1>4
  <2>3. at + (Len(out[t]) - at) = lo
    BY <1>4, <2>2
  <2>4. WriteRows(t, lo, RowsOf(lo, hi), "layers")
    BY <2>1, <2>2, <2>3, <1>2, <1>6 DEF LayerOfChunk, next_row
  <2>5. PICK rows \in Seq(Nat) :
          rows = RowsOf(lo, hi) /\ lo + Len(rows) = hi /\ rows # <<>> /\ Labelled(rows, lo)
    <3>1. lo < hi
      BY <2>2, <1>4, <1>6
    <3> QED
      BY <3>1, SomeRows
  <2>6. lo + Len(rows) = hi
    BY <2>5
  <2>7. PICK back \in Backs : back = "layers"
    BY DEF Backs
  <2>8. WriteRows(t, lo, rows, back) /\ back = pc /\ pc # "write"
    BY <2>4, <2>5, <2>7, <1>1
  <2>9. lo = Len(out[t]) /\ lo + Len(rows) <= NRows
    BY <2>2, <2>6, <1>4
  <2>10. /\ UNCHANGED <<kind, runs, batch, attempt, bounds, queue, built, worker, why>>
         /\ Types' /\ RowsOK' /\ CallOK' /\ KindOK' /\ ChunkOrder' /\ EndOK'
         /\ \/ stage' = "rejected"
            \/ /\ stage' = back
               /\ \A m \in 1..Layers :
                    reached'[m] = IF m = t /\ rows # <<>> THEN lo + Len(rows) ELSE Len(out[m])
    <3>1. MayCall(t, lo, rows, back)
      BY <2>5, <2>8, <2>9, <1>3 DEF MayCall
    <3> QED
      BY <3>1, CallStep DEF Called
  <2>11. ChunksOK'
    <3>1. Wanted' = Wanted
      BY <2>10 DEF Wanted, Ahead
    <3>2. stage' = "layers" => \A m \in 1..Layers : reached'[m] = IF m = t THEN hi ELSE Len(out[m])
      BY <2>5, <2>6, <2>10
    <3>3. stage' = "layers" => \A l \in 1..Layers : at <= reached'[l] /\ (l < t + 1 => hi <= reached'[l])
      BY <3>2, <2>2, <1>4, <1>6
    <3> QED
      BY <3>1, <3>3, <2>7, <2>10, <1>1, <1>3, <1>4 DEF ChunksOK
  <2>12. LoopsOK'
    BY <2>7, <2>10, <2>11, <1>1 DEF LoopsOK, ActivationsOK, PositionsOK, BlocksOK, ExamplesOK, GroupsOK
  <2> QED
    BY <2>10, <2>12 DEF SInv
<1> QED
  BY <1>5, <1>6

LEMMA OpenActivationsStep == ASSUME SInv, OpenActivations PROVE SInv'
<1>1. /\ kind = "activations" /\ NewWriters /\ NoPrefetch
      /\ pc' = IF ResumeRow >= NRows THEN "close" ELSE "layers"
      /\ it' = [NoLoop EXCEPT !.at = ResumeRow, !.hi = Lesser(ResumeRow + batch, NRows), !.turn = 1]
  BY DEF OpenActivations
<1>2. PICK r \in Nat, b \in Nat, hi \in Nat : r = ResumeRow /\ b = batch /\ hi = Lesser(r + b, NRows)
  <2>1. ResumeRow \in Nat /\ batch \in Nat /\ NRows \in Nat
    BY Resumes, SweepAssumption DEF SInv, Types, Row
  <2>2. ResumeRow + batch \in Nat
    BY <2>1
  <2>3. Lesser(ResumeRow + batch, NRows) \in Nat
    BY <2>1, <2>2, LesserGreater
  <2> QED
    BY <2>1, <2>3
<1>3. it' \in Loop /\ it'.at = r /\ it'.hi = hi /\ it'.turn = 1
  <2>1. it' = [NoLoop EXCEPT !.at = r, !.hi = hi, !.turn = 1]
    BY <1>1, <1>2
  <2> QED
    BY <2>1, NoLoopYet, NextBlock
<1>4. ResumeRow >= NRows => \A l \in Writers : NRows <= saved[l]
  BY Resumes, SomeWriters, SweepAssumption DEF SInv, RowsOK, Row
<1>5. pc' \in PCs \ {"write", "rejected", "done"}
  BY <1>1 DEF PCs, Ended
<1>6. /\ UNCHANGED <<kind, runs, batch, attempt, bounds, queue, built, worker, why>>
      /\ Types' /\ RowsOK' /\ CallOK' /\ ChunkOrder' /\ EndOK' /\ stage' = pc'
      /\ \A l \in 1..Layers : reached'[l] = saved[l]
  BY <1>1, <1>3, <1>4, <1>5, OpenStep
<1>7. KindOK'
  BY <1>1, <1>6 DEF KindOK, Lockstep
<1>8. ActivationsOK'
  <2>1. it'.hi = Lesser(it'.at + batch', NRows) /\ 1 <= it'.turn /\ \A l \in 1..Layers : ~(l < it'.turn)
    BY <1>2, <1>3, <1>6
  <2>2. stage' = "layers" => it'.at < NRows
    BY <1>1, <1>2, <1>3, <1>6, SweepAssumption
  <2> QED
    BY <2>1, <2>2 DEF ActivationsOK
<1>9. LoopsOK'
  BY <1>1, <1>6, <1>8 DEF LoopsOK, ChunksOK, PositionsOK, BlocksOK, ExamplesOK, GroupsOK
<1> QED
  BY <1>6, <1>7, <1>9 DEF SInv

LEMMA LayerOfActivationsStep == ASSUME SInv, LayerOfActivations PROVE SInv'
<1>1. /\ kind = "activations" /\ pc = "layers" /\ it.turn <= Layers /\ it \in Loop /\ out \in [1..Layers -> Seq(Row)]
      /\ it' = [it EXCEPT !.turn = it.turn + 1] /\ stage = "layers"
  BY DEF LayerOfActivations, SInv, Types, RowsOK, stage
<1>2. PICK t \in 1..Layers, at \in Nat, hi \in Nat : t = it.turn /\ at = it.at /\ hi = it.hi
  <2>1. it.turn \in Nat /\ it.at \in Nat /\ it.hi \in Nat
    BY <1>1 DEF Loop
  <2>2. it.turn >= 1
    BY <1>1 DEF SInv, LoopsOK, ActivationsOK
  <2> QED
    BY <2>1, <2>2, <1>1, SweepAssumption
<1>3. it' \in Loop /\ it'.turn = t + 1 /\ it'.at = at /\ it'.hi = hi
  BY <1>1, <1>2, NextLayer
<1>4. /\ hi = Lesser(at + batch, NRows) /\ at < hi /\ at < NRows /\ hi <= NRows
      /\ \A l \in 1..Layers : (l < t => hi <= Len(out[l])) /\ Len(out[l]) \in Nat
  <2>1. hi = Lesser(at + batch, NRows) /\ at < NRows
    BY <1>1, <1>2 DEF SInv, LoopsOK, ActivationsOK
  <2>2. at < hi /\ hi <= NRows
    BY <2>1, SweepAssumption DEF Lesser, SInv, Types
  <2>3. \A l \in 1..Layers : (l < t => hi <= Len(out[l])) /\ Len(out[l]) \in Nat
    BY <1>1, <1>2, Layer, SweepAssumption DEF SInv, LoopsOK, ActivationsOK, reached, Row
  <2> QED
    BY <2>1, <2>2, <2>3
<1>5. CASE hi <= Len(out[t])
  <2>1. UNCHANGED <<control, pc, out, saved, call, prefetching>>
    BY <1>2, <1>5 DEF LayerOfActivations, next_row
  <2>2. pc' \in PCs \ {"write", "done", "rejected"} /\ pc' # "close"
    BY <2>1, <1>1 DEF PCs, Ended
  <2>3. /\ UNCHANGED <<kind, runs, batch, attempt, bounds, queue, built, worker, why>>
        /\ Types' /\ RowsOK' /\ CallOK' /\ ChunkOrder' /\ EndOK'
        /\ stage' = pc' /\ \A l \in 1..Layers : reached'[l] = Len(out[l])
    BY <2>1, <2>2, <1>1, <1>3, MoveStep
  <2>4. KindOK'
    BY <2>1, <2>3, <1>1 DEF KindOK, Lockstep
  <2>5. \A l \in 1..Layers : l < t + 1 => hi <= reached'[l]
    BY <2>3, <1>4, <1>5
  <2>6. ActivationsOK'
    BY <2>3, <2>5, <1>3, <1>4 DEF ActivationsOK
  <2>7. LoopsOK'
    BY <2>1, <2>3, <2>6, <1>1 DEF LoopsOK, ChunksOK, PositionsOK, BlocksOK, ExamplesOK, GroupsOK
  <2> QED
    BY <2>3, <2>4, <2>7 DEF SInv
<1>6. CASE ~(hi <= Len(out[t]))
  <2>1. WriteRows(t, at, RowsOf(at, hi), "layers")
    BY <1>2, <1>6 DEF LayerOfActivations, next_row
  <2>2. PICK rows \in Seq(Nat) :
          rows = RowsOf(at, hi) /\ at + Len(rows) = hi /\ rows # <<>> /\ Labelled(rows, at)
    BY <1>4, SomeRows
  <2>3. PICK back \in Backs : back = "layers"
    BY DEF Backs
  <2>4. WriteRows(t, at, rows, back) /\ back = pc /\ pc # "write" /\ kind \in {"activations", "direct"}
    BY <2>1, <2>2, <2>3, <1>1
  <2>5. /\ UNCHANGED <<kind, runs, batch, attempt, bounds, queue, built, worker, why>>
        /\ Types' /\ RowsOK' /\ CallOK' /\ KindOK' /\ ChunkOrder' /\ EndOK'
        /\ \/ stage' = "rejected"
           \/ /\ stage' = back /\ (rows = <<>> \/ (at = Len(out[t]) /\ at + Len(rows) <= NRows))
              /\ \A m \in 1..Layers :
                   reached'[m] = IF m = t /\ rows # <<>> THEN at + Len(rows) ELSE Len(out[m])
    <3>1. MayCall(t, at, rows, back)
      BY <2>2, <2>4, <1>3 DEF MayCall
    <3> QED
      BY <3>1, CallStep DEF Called
  <2>6. ActivationsOK'
    <3>1. stage' = "layers" => \A m \in 1..Layers : reached'[m] = IF m = t THEN hi ELSE Len(out[m])
      BY <2>2, <2>5
    <3>2. stage' = "layers" => \A l \in 1..Layers : l < t + 1 => hi <= reached'[l]
      BY <3>1, <1>4
    <3> QED
      BY <3>2, <2>5, <1>3, <1>4 DEF ActivationsOK
  <2>7. LoopsOK'
    BY <2>3, <2>5, <2>6, <1>1 DEF LoopsOK, ChunksOK, PositionsOK, BlocksOK, ExamplesOK, GroupsOK
  <2> QED
    BY <2>5, <2>7 DEF SInv
<1> QED
  BY <1>5, <1>6

LEMMA NextActivationsStep == ASSUME SInv, NextActivations PROVE SInv'
<1>1. /\ kind = "activations" /\ pc = "layers" /\ it.turn > Layers
      /\ pc' = IF it.at + batch >= NRows THEN "close" ELSE "layers"
      /\ it' = [it EXCEPT !.at = @ + batch, !.hi = Lesser(it.at + 2 * batch, NRows), !.turn = 1]
      /\ UNCHANGED <<control, out, saved, call, prefetching>>
      /\ it \in Loop /\ batch \in Nat /\ stage = "layers"
  BY DEF NextActivations, SInv, Types, stage
<1>2. PICK at \in Nat, hi \in Nat : at = it.at + batch /\ hi = Lesser(it.at + 2 * batch, NRows)
  <2>1. it.at \in Nat /\ NRows \in Nat
    BY <1>1, SweepAssumption DEF Loop
  <2>2. it.at + batch \in Nat /\ it.at + 2 * batch \in Nat
    BY <2>1, <1>1
  <2>3. Lesser(it.at + 2 * batch, NRows) \in Nat
    BY <2>1, <2>2, LesserGreater
  <2> QED
    BY <2>2, <2>3
<1>3. it' \in Loop /\ it'.at = at /\ it'.hi = hi /\ it'.turn = 1
  <2>1. it' = [it EXCEPT !.at = at, !.hi = hi, !.turn = 1]
    BY <1>1, <1>2
  <2>2. it \in Loop
    BY <1>1
  <2> QED
    BY <2>1, <2>2, NextBlock
<1>4. hi = Lesser(at + batch, NRows)
  <2>1. it.at + 2 * batch = at + batch
    BY <1>1, <1>2 DEF Loop
  <2> QED
    BY <2>1, <1>2
<1>5. pc' = "close" => \A l \in Writers : NRows <= Len(out[l])
  <2>1. ASSUME pc' = "close", NEW l \in 1..Layers PROVE NRows <= Len(out[l])
    <3>1. it.hi = NRows
      <4>1. it.hi = Lesser(it.at + batch, NRows)
        BY <1>1 DEF SInv, LoopsOK, ActivationsOK
      <4>2. it.at + batch >= NRows /\ it.at + batch \in Nat /\ NRows \in Nat
        BY <2>1, <1>1, <1>2, SweepAssumption
      <4> QED
        BY <4>1, <4>2 DEF Lesser
    <3>2. l < it.turn /\ reached[l] = Len(out[l])
      BY <1>1, SweepAssumption DEF reached, Loop
    <3>3. it.hi <= reached[l]
      BY <3>2, <1>1 DEF SInv, LoopsOK, ActivationsOK
    <3> QED
      BY <3>1, <3>2, <3>3
  <2> QED
    BY <2>1, SomeWriters
<1>6. pc # "write" /\ pc' \in PCs \ {"write", "done", "rejected"}
  BY <1>1 DEF PCs, Ended
<1>7. /\ UNCHANGED <<kind, runs, batch, attempt, bounds, queue, built, worker, why>>
      /\ Types' /\ RowsOK' /\ CallOK' /\ ChunkOrder' /\ EndOK' /\ stage' = pc'
  BY <1>1, <1>3, <1>5, <1>6, MoveStep
<1>8. KindOK'
  BY <1>1, <1>7 DEF KindOK, Lockstep
<1>9. ActivationsOK'
  <2>1. \A l \in 1..Layers : ~(l < it'.turn)
    BY <1>3
  <2>2. stage' = "layers" => at < NRows
    BY <1>1, <1>2, <1>7, SweepAssumption
  <2> QED
    BY <2>1, <2>2, <1>3, <1>4, <1>7 DEF ActivationsOK
<1>10. LoopsOK'
  BY <1>1, <1>7, <1>9 DEF LoopsOK, ChunksOK, PositionsOK, BlocksOK, ExamplesOK, GroupsOK
<1> QED
  BY <1>7, <1>8, <1>10 DEF SInv

-----------------------------------------------------------------------------
(* The sweeps that go position by position.                                *)

LEMMA StartAt ==
  ASSUME NEW at \in Nat, it' = [NoLoop EXCEPT !.at = at]
  PROVE  it' \in Loop /\ it'.at = at /\ it'.turn = 0
<1>1. \A loop \in Loop : [loop EXCEPT !.at = at] \in Loop
                         /\ [loop EXCEPT !.at = at].at = at /\ [loop EXCEPT !.at = at].turn = loop.turn
  BY DEF Loop
<1> QED
  BY <1>1, NoLoopYet

(* The output of a sweep of positions is one shard: all of it is recorded, *)
(* or nothing.                                                             *)
LEMMA OneShard ==
  ASSUME SInv, kind \in PerPosition \cup {"bases", "overlap"}, NEW l \in 1..Layers
  PROVE  saved[l] \in {0, NRows}
<1>1. ShardCapacity = NRows
  BY DEF ShardCapacity
<1> QED
  BY <1>1, Layer DEF SInv, LayerOK

LEMMA PositionsOpen ==
  ASSUME SInv, kind \in PerPosition, NewWriters, NoPrefetch, StartPositions,
         pc' \in {"close", "positions"}, pc' = "close" => saved[1] >= NRows,
         pc' = "positions" => saved[1] < NRows \/ kind = "direct"
  PROVE  SInv'
<1>1. saved[1] \in {0, NRows} /\ NRows \in Nat
  BY OneShard, FirstLayer, SweepAssumption
<1>2. it' \in Loop /\ it'.at = saved[1] /\ it'.turn = 0
  BY <1>1, StartAt DEF StartPositions
<1>3. kind \notin Lockstep /\ Writers = {1} /\ kind # "perturbed"
  BY DEF Writers, PerPosition, Lockstep
<1>4. /\ UNCHANGED <<kind, runs, batch, attempt, bounds, queue, built, worker, why>>
      /\ Types' /\ RowsOK' /\ CallOK' /\ ChunkOrder' /\ EndOK' /\ stage' = pc'
      /\ reached'[1] = saved[1]
  <2>1. pc' \in PCs \ {"write", "rejected"}
    BY DEF PCs, Ended
  <2>2. pc' \in {"close", "done"} => \A l \in Writers : NRows <= saved[l]
    BY <1>1, <1>3
  <2> QED
    BY <2>1, <2>2, <1>2, <1>3, OpenStep, FirstLayer
<1>5. KindOK'
  BY <1>4 DEF KindOK
<1>6. PositionsOK'
  <2>1. saved[1] = 0 => 0 * Group <= NRows /\ saved[1] = 0 * Group
    BY SweepAssumption
  <2>2. saved[1] # 0 /\ pc' = "positions" => saved[1] = NRows /\ kind = "direct"
    BY <1>1
  <2> QED
    BY <2>1, <2>2, <1>2, <1>4 DEF PositionsOK
<1>7. LoopsOK'
  BY <1>4, <1>6 DEF LoopsOK, ChunksOK, ActivationsOK, BlocksOK, ExamplesOK, GroupsOK
<1> QED
  BY <1>4, <1>5, <1>7 DEF SInv

LEMMA OpenPositionsStep ==
  ASSUME SInv, OpenAmbient \/ OpenTangent \/ OpenVariant \/ OpenDirect
  PROVE  SInv'
<1>1. kind \in PerPosition /\ NewWriters /\ NoPrefetch /\ StartPositions
  BY DEF OpenAmbient, OpenTangent, OpenVariant, OpenDirect, SkipIfComplete, PerPosition
<1>2. saved[1] \in Nat /\ NRows \in Nat
  BY FirstLayer, SweepAssumption DEF SInv, RowsOK, Row
<1>3. CASE SkipIfComplete
  BY <1>1, <1>2, <1>3, PositionsOpen DEF SkipIfComplete
<1>4. CASE OpenDirect
  BY <1>1, <1>4, PositionsOpen DEF OpenDirect
<1> QED
  BY <1>3, <1>4 DEF OpenAmbient, OpenTangent, OpenVariant

LEMMA WritePositionStep == ASSUME SInv, kind \in PerPosition, WritePosition PROVE SInv'
<1>1. /\ pc = "positions" /\ it.turn * Group < NRows
      /\ it' = [it EXCEPT !.turn = it.turn + 1, !.at = it.at + Group]
      /\ WriteRows(1, it.at, RowsOf(it.turn * Group, (it.turn + 1) * Group), "positions")
      /\ it \in Loop /\ stage = "positions" /\ reached[1] = Len(out[1]) /\ 1 \in 1..Layers
  BY FirstLayer DEF WritePosition, SInv, Types, stage, reached
<1>2. PICK t \in Nat, at \in Nat, lo \in Nat, hi \in Nat :
        t = it.turn /\ at = it.at /\ lo = t * Group /\ hi = (t + 1) * Group
  <2>1. it.turn \in Nat /\ it.at \in Nat /\ Group \in Nat
    BY <1>1, SweepAssumption DEF Loop
  <2>2. it.turn * Group \in Nat /\ (it.turn + 1) * Group \in Nat
    BY <2>1, TimesNext
  <2> QED
    BY <2>1, <2>2
<1>3. hi = lo + Group /\ lo < hi /\ hi <= NRows
  <2>1. hi = lo + Group
    BY <1>2, TimesNext, SweepAssumption
  <2>2. t * Group < NRows
    BY <1>1, <1>2
  <2>3. hi <= NRows
    BY <2>2, <1>2, GroupFits
  <2> QED
    BY <2>1, <2>3, SweepAssumption
<1>4. (at = lo /\ Len(out[1]) = lo) \/ (kind = "direct" /\ t = 0 /\ Len(out[1]) = NRows /\ at = NRows)
  BY <1>1, <1>2 DEF SInv, LoopsOK, PositionsOK
<1>5. it' \in Loop /\ it'.turn = t + 1 /\ it'.at = at + Group
  <2>1. PICK n \in Nat, m \in Nat : n = t + 1 /\ m = at + Group
    BY <1>2, SweepAssumption
  <2>2. it' = [it EXCEPT !.turn = n, !.at = m]
    BY <1>1, <1>2, <2>1
  <2>3. \A loop \in Loop : /\ [loop EXCEPT !.turn = n, !.at = m] \in Loop
                           /\ [loop EXCEPT !.turn = n, !.at = m].at = m
                           /\ [loop EXCEPT !.turn = n, !.at = m].turn = n
    BY DEF Loop
  <2> QED
    BY <2>1, <2>2, <2>3, <1>1
<1>6. PICK rows \in Seq(Nat) :
        rows = RowsOf(lo, hi) /\ lo + Len(rows) = hi /\ rows # <<>> /\ Labelled(rows, lo)
  BY <1>3, SomeRows
<1>7. PICK back \in Backs : back = "positions"
  BY DEF Backs
<1>8. WriteRows(1, at, rows, back) /\ back = pc /\ pc # "write"
  BY <1>1, <1>2, <1>6, <1>7
<1>9. CASE at = lo /\ Len(out[1]) = lo
  <2>1. /\ UNCHANGED <<kind, runs, batch, attempt, bounds, queue, built, worker, why>>
        /\ Types' /\ RowsOK' /\ CallOK' /\ KindOK' /\ ChunkOrder' /\ EndOK'
        /\ \/ stage' = "rejected"
           \/ /\ stage' = back
              /\ \A m \in 1..Layers :
                   reached'[m] = IF m = 1 /\ rows # <<>> THEN lo + Len(rows) ELSE Len(out[m])
    <3>1. PICK l \in 1..Layers : l = 1
      BY FirstLayer
    <3>2. WriteRows(l, lo, rows, back) /\ lo = Len(out[l]) /\ lo + Len(rows) <= NRows
      BY <3>1, <1>3, <1>6, <1>8, <1>9
    <3>3. it' \in Loop /\ Labelled(rows, lo) /\ back = pc /\ pc # "write"
      BY <1>5, <1>6, <1>8
    <3>4. /\ UNCHANGED <<kind, runs, batch, attempt, bounds, queue, built, worker, why>>
          /\ Types' /\ RowsOK' /\ CallOK' /\ KindOK' /\ ChunkOrder' /\ EndOK'
          /\ \/ stage' = "rejected"
             \/ /\ stage' = back
                /\ \A m \in 1..Layers :
                     reached'[m] = IF m = l /\ rows # <<>> THEN lo + Len(rows) ELSE Len(out[m])
      <4>1. MayCall(l, lo, rows, back)
        BY <3>2, <3>3 DEF MayCall
      <4> QED
        BY <4>1, CallStep DEF Called
    <3> QED
      BY <3>1, <3>4
  <2>2. stage' = "positions" => reached'[1] = hi
    BY <2>1, <1>1, <1>6, <1>7
  <2>3. PositionsOK'
    <3>1. it'.turn * Group = hi /\ it'.at = hi
      BY <1>2, <1>3, <1>5, <1>9
    <3> QED
      BY <3>1, <2>2, <1>3 DEF PositionsOK
  <2>4. LoopsOK'
    BY <2>1, <2>3, <1>7 DEF LoopsOK, ChunksOK, ActivationsOK, BlocksOK, ExamplesOK, GroupsOK
  <2> QED
    BY <2>1, <2>4 DEF SInv
<1>10. CASE ~(at = lo /\ Len(out[1]) = lo)
  <2>1. kind = "direct" /\ Len(out[1]) = NRows /\ at = NRows
    BY <1>4, <1>10
  <2>2. rows # <<>> /\ ~(at + Len(rows) <= NRows)
    BY <2>1, <1>3, <1>6, SweepAssumption
  <2>3. UNCHANGED <<control, out, saved, prefetching>> /\ pc' = "rejected" /\ UNCHANGED call
    BY <2>2, <1>8 DEF WriteRows
  <2>4. UNCHANGED <<control, out, saved, call, prefetching>> /\ kind \in {"activations", "direct"} /\ pc # "write"
    BY <2>1, <2>3, <1>8
  <2> QED
    BY <2>3, <2>4, <1>5, RejectedStep
<1> QED
  BY <1>9, <1>10

LEMMA PositionStep ==
  ASSUME SInv, AmbientPosition \/ TangentPosition \/ VariantPosition \/ DirectPosition
  PROVE  SInv'
<1>1. kind \in PerPosition /\ WritePosition
  BY DEF AmbientPosition, TangentPosition, VariantPosition, DirectPosition, PerPosition
<1> QED
  BY <1>1, WritePositionStep

LEMMA PositionsDoneStep == ASSUME SInv, PositionsDone PROVE SInv'
<1>1. /\ pc = "positions" /\ it.turn * Group >= NRows /\ pc' = "close" /\ it \in Loop
      /\ UNCHANGED <<control, out, saved, call, it, prefetching>>
      /\ stage = "positions" /\ reached[1] = Len(out[1]) /\ 1 \in 1..Layers
  BY FirstLayer DEF PositionsDone, SInv, Types, stage, reached
<1>2. kind \in PerPosition
  BY <1>1 DEF SInv, KindOK
<1>3. Writers = {1}
  BY <1>2 DEF Writers, PerPosition, Lockstep
<1>4. NRows <= Len(out[1])
  <2>1. reached[1] = NRows \/ reached[1] = it.turn * Group
    BY <1>1 DEF SInv, LoopsOK, PositionsOK
  <2> QED
    BY <2>1, <1>1, SweepAssumption
<1>5. /\ UNCHANGED <<kind, runs, batch, attempt, bounds, queue, built, worker, why>>
      /\ Types' /\ RowsOK' /\ CallOK' /\ ChunkOrder' /\ EndOK' /\ stage' = "close"
  <2>1. it' \in Loop /\ pc # "write" /\ pc' \in PCs \ {"write", "done", "rejected"}
    BY <1>1 DEF PCs
  <2>2. pc' = "close" => \A l \in Writers : NRows <= Len(out[l])
    BY <1>3, <1>4
  <2> QED
    BY <2>1, <2>2, <1>1, MoveStep
<1>6. KindOK' /\ LoopsOK'
  BY <1>5 DEF KindOK, LoopsOK, ChunksOK, ActivationsOK, PositionsOK, BlocksOK, ExamplesOK, GroupsOK
<1> QED
  BY <1>5, <1>6 DEF SInv

-----------------------------------------------------------------------------
(* The sweeps that go block by block.                                      *)

Blockwise == {"bases", "distances", "stats", "det"}

LEMMA OpenBlocksStep ==
  ASSUME SInv, OpenBases \/ OpenDistances \/ OpenStats \/ OpenDet
  PROVE  SInv'
<1>1. /\ kind \in Blockwise /\ NewWriters /\ NoPrefetch /\ it' = [NoLoop EXCEPT !.at = saved[1]]
      /\ pc' \in {"done", "block"} /\ (pc' = "done" => saved[1] >= NRows)
  BY DEF OpenBases, OpenDistances, OpenStats, OpenDet, StartBlocks, StartUnlessComplete, Blockwise
<1>2. saved[1] \in Row /\ saved[1] \in Nat /\ saved[1] <= NRows /\ NRows \in Nat
  BY FirstLayer, SweepAssumption DEF SInv, RowsOK, Row
<1>3. it' \in Loop /\ it'.at = saved[1] /\ it'.turn = 0
  BY <1>1, <1>2, StartAt
<1>4. kind # "perturbed" /\ Writers = {1}
  BY <1>1 DEF Writers, Blockwise, Lockstep
<1>5. /\ UNCHANGED <<kind, runs, batch, attempt, bounds, queue, built, worker, why>>
      /\ Types' /\ RowsOK' /\ CallOK' /\ ChunkOrder' /\ EndOK' /\ stage' = pc'
      /\ reached'[1] = saved[1]
  <2>1. pc' \in PCs \ {"write", "rejected"}
    BY <1>1 DEF PCs, Ended
  <2>2. pc' \in {"close", "done"} => \A l \in Writers : NRows <= saved[l]
    BY <1>1, <1>2, <1>4
  <2> QED
    BY <2>1, <2>2, <1>1, <1>3, <1>4, OpenStep, FirstLayer
<1>6. KindOK'
  BY <1>1, <1>5 DEF KindOK, Blockwise
<1>7. BlocksOK'
  BY <1>2, <1>3, <1>5 DEF BlocksOK, Lesser
<1>8. LoopsOK'
  BY <1>1, <1>5, <1>7 DEF LoopsOK, ChunksOK, ActivationsOK, PositionsOK, ExamplesOK, GroupsOK
<1> QED
  BY <1>5, <1>6, <1>8 DEF SInv

LEMMA WriteBlockStep == ASSUME SInv, WriteBlock PROVE SInv'
<1>1. /\ pc = "block" /\ it.at < NRows
      /\ it' = [it EXCEPT !.at = it.at + batch]
      /\ WriteRows(1, it.at, RowsOf(it.at, Lesser(it.at + batch, NRows)), "block")
      /\ it \in Loop /\ batch \in Nat \ {0} /\ stage = "block" /\ reached[1] = Len(out[1]) /\ NRows \in Nat
  BY FirstLayer, SweepAssumption DEF WriteBlock, SInv, Types, stage, reached
<1>2. PICK lo \in Nat, next \in Nat, hi \in Nat :
        lo = it.at /\ next = it.at + batch /\ hi = Lesser(next, NRows) /\ lo < hi /\ hi <= NRows
  <2>1. it.at \in Nat /\ it.at + batch \in Nat
    BY <1>1 DEF Loop
  <2>2. /\ Lesser(it.at + batch, NRows) \in Nat /\ it.at < Lesser(it.at + batch, NRows)
        /\ Lesser(it.at + batch, NRows) <= NRows
    BY <2>1, <1>1 DEF Lesser
  <2> QED
    BY <2>1, <2>2
<1>3. Len(out[1]) = lo
  BY <1>1, <1>2 DEF SInv, LoopsOK, BlocksOK, Lesser
<1>4. it' \in Loop /\ it'.at = next
  <2>1. it' = [it EXCEPT !.at = next] /\ it \in Loop
    BY <1>1, <1>2
  <2>2. \A loop \in Loop : [loop EXCEPT !.at = next] \in Loop /\ [loop EXCEPT !.at = next].at = next
    BY DEF Loop
  <2> QED
    BY <2>1, <2>2
<1>5. PICK rows \in Seq(Nat) :
        rows = RowsOf(lo, hi) /\ lo + Len(rows) = hi /\ rows # <<>> /\ Labelled(rows, lo)
  BY <1>2, SomeRows
<1>6. PICK back \in Backs : back = "block"
  BY DEF Backs
<1>7. PICK l \in 1..Layers : l = 1
  BY FirstLayer
<1>8. WriteRows(l, lo, rows, back) /\ lo = Len(out[l]) /\ lo + Len(rows) <= NRows /\ back = pc /\ pc # "write"
  BY <1>1, <1>2, <1>3, <1>5, <1>6, <1>7
<1>9. /\ UNCHANGED <<kind, runs, batch, attempt, bounds, queue, built, worker, why>>
      /\ Types' /\ RowsOK' /\ CallOK' /\ KindOK' /\ ChunkOrder' /\ EndOK'
      /\ \/ stage' = "rejected"
         \/ /\ stage' = back
            /\ \A m \in 1..Layers :
                 reached'[m] = IF m = l /\ rows # <<>> THEN lo + Len(rows) ELSE Len(out[m])
  <2>1. MayCall(l, lo, rows, back)
    BY <1>4, <1>5, <1>8 DEF MayCall
  <2> QED
    BY <2>1, CallStep DEF Called
<1>10. stage' = "block" => reached'[1] = hi
  BY <1>5, <1>6, <1>7, <1>9
<1>11. BlocksOK'
  BY <1>2, <1>4, <1>10 DEF BlocksOK
<1>12. LoopsOK'
  BY <1>6, <1>9, <1>11 DEF LoopsOK, ChunksOK, ActivationsOK, PositionsOK, ExamplesOK, GroupsOK
<1> QED
  BY <1>9, <1>12 DEF SInv

LEMMA BlockStep ==
  ASSUME SInv, BasesBlock \/ DistancesBlock \/ StatsBlock \/ DetBlock
  PROVE  SInv'
BY WriteBlockStep DEF BasesBlock, DistancesBlock, StatsBlock, DetBlock

LEMMA BlocksDoneStep == ASSUME SInv, BlocksDone PROVE SInv'
<1>1. /\ pc = "block" /\ it.at >= NRows /\ pc' = "close" /\ it \in Loop
      /\ UNCHANGED <<control, out, saved, call, it, prefetching>>
      /\ stage = "block" /\ reached[1] = Len(out[1])
  BY FirstLayer DEF BlocksDone, SInv, Types, stage, reached
<1>2. kind \in Blockwise
  BY <1>1 DEF SInv, KindOK, Blockwise
<1>3. Writers = {1}
  BY <1>2 DEF Writers, Blockwise, Lockstep
<1>4. NRows <= Len(out[1])
  <2>1. reached[1] = Lesser(it.at, NRows)
    BY <1>1 DEF SInv, LoopsOK, BlocksOK
  <2> QED
    BY <2>1, <1>1, SweepAssumption DEF Lesser, Loop
<1>5. /\ UNCHANGED <<kind, runs, batch, attempt, bounds, queue, built, worker, why>>
      /\ Types' /\ RowsOK' /\ CallOK' /\ ChunkOrder' /\ EndOK' /\ stage' = "close"
  <2>1. it' \in Loop /\ pc # "write" /\ pc' \in PCs \ {"write", "done", "rejected"}
    BY <1>1 DEF PCs
  <2>2. pc' = "close" => \A l \in Writers : NRows <= Len(out[l])
    BY <1>3, <1>4
  <2> QED
    BY <2>1, <2>2, <1>1, MoveStep
<1>6. KindOK' /\ LoopsOK'
  BY <1>5 DEF KindOK, LoopsOK, ChunksOK, ActivationsOK, PositionsOK, BlocksOK, ExamplesOK, GroupsOK
<1> QED
  BY <1>5, <1>6 DEF SInv

-----------------------------------------------------------------------------
(* generate_base_sequences.py.                                             *)

(* The usable examples are counted one by one.                             *)
LEMMA UsableCount ==
  /\ UsableBefore(1) = 0
  /\ \A i \in 1..Len(Dataset) :
       /\ UsableBefore(i) \in Nat /\ UsableBefore(i + 1) \in Nat
       /\ Dataset[i] => UsableBefore(i + 1) = UsableBefore(i) + 1
       /\ ~Dataset[i] => UsableBefore(i + 1) = UsableBefore(i)
<1> DEFINE U(i) == {j \in 1..(i - 1) : Dataset[j]}
<1>1. UsableBefore(1) = 0
  <2>1. U(1) = {}
    OBVIOUS
  <2> QED
    BY <2>1, FS_EmptySet DEF UsableBefore
<1>2. ASSUME NEW i \in 1..Len(Dataset)
      PROVE  /\ UsableBefore(i) \in Nat /\ UsableBefore(i + 1) \in Nat
             /\ Dataset[i] => UsableBefore(i + 1) = UsableBefore(i) + 1
             /\ ~Dataset[i] => UsableBefore(i + 1) = UsableBefore(i)
  <2>1. i \in Nat /\ 1..(i + 1 - 1) = 1..(i - 1) \cup {i} /\ i \notin 1..(i - 1)
    BY SweepAssumption
  <2>2. U(i + 1) = IF Dataset[i] THEN U(i) \cup {i} ELSE U(i)
    BY <2>1
  <2>3. i \notin U(i)
    BY <2>1
  <2>4. IsFiniteSet(1..(i - 1))
    BY <2>1, FS_Interval
  <2>5. IsFiniteSet(U(i))
    BY <2>4, FS_Subset
  <2>6. Cardinality(U(i)) \in Nat /\ Cardinality(U(i) \cup {i}) = Cardinality(U(i)) + 1
    BY <2>3, <2>5, FS_AddElement, FS_CardinalityType
  <2>7. UsableBefore(i) = Cardinality(U(i)) /\ UsableBefore(i + 1) = Cardinality(U(i + 1))
    BY DEF UsableBefore
  <2> HIDE DEF U
  <2> QED
    BY <2>2, <2>6, <2>7
<1> QED
  BY <1>1, <1>2

LEMMA OpenSequencesStep == ASSUME SInv, OpenSequences PROVE SInv'
<1>1. /\ kind = "sequences" /\ NewWriters /\ NoPrefetch
      /\ pc' = IF saved[1] >= NRows THEN "close" ELSE "examples"
      /\ it' = [NoLoop EXCEPT !.at = 1, !.skip = saved[1]]
  BY DEF OpenSequences
<1>2. PICK s \in Row : s = saved[1] /\ s \in Nat /\ s <= NRows /\ NRows \in Nat
  BY FirstLayer, SweepAssumption DEF SInv, RowsOK, Row
<1>3. it' \in Loop /\ it'.at = 1 /\ it'.skip = s /\ it'.seen = 0 /\ it'.held = <<>>
  <2>1. s \in Nat /\ it' = [NoLoop EXCEPT !.at = 1, !.skip = s]
    BY <1>1, <1>2
  <2>2. \A loop \in Loop, n \in Nat : LET new == [loop EXCEPT !.at = n, !.skip = s]
           IN new \in Loop /\ new.at = n /\ new.skip = s /\ new.seen = loop.seen /\ new.held = loop.held
    BY <2>1 DEF Loop
  <2>3. 1 \in Nat
    OBVIOUS
  <2> QED
    BY <2>1, <2>2, <2>3, NoLoopYet
<1>4. kind # "perturbed" /\ Writers = {1}
  BY <1>1 DEF Writers, Lockstep
<1>5. /\ UNCHANGED <<kind, runs, batch, attempt, bounds, queue, built, worker, why>>
      /\ Types' /\ RowsOK' /\ CallOK' /\ ChunkOrder' /\ EndOK' /\ stage' = pc'
      /\ reached'[1] = saved[1]
  <2>1. pc' \in PCs \ {"write", "rejected"}
    BY <1>1 DEF PCs, Ended
  <2>2. pc' \in {"close", "done"} => \A l \in Writers : NRows <= saved[l]
    BY <1>1, <1>2, <1>4
  <2> QED
    BY <2>1, <2>2, <1>1, <1>3, <1>4, OpenStep, FirstLayer
<1>6. KindOK'
  BY <1>1, <1>5 DEF KindOK
<1>7. ExamplesOK'
  <2>1. Len(Dataset) \in Nat /\ 1 \in 1..(Len(Dataset) + 1)
    BY SweepAssumption
  <2>2. Len(it'.held) = 0 /\ UsableBefore(1) = 0
    BY <1>3, UsableCount
  <2> QED
    BY <2>1, <2>2, <1>2, <1>3, <1>5 DEF ExamplesOK
<1>8. LoopsOK'
  BY <1>1, <1>5, <1>7 DEF LoopsOK, ChunksOK, ActivationsOK, PositionsOK, BlocksOK, GroupsOK
<1> QED
  BY <1>5, <1>6, <1>8 DEF SInv

(* What is known while the dataset is gone through.                        *)
LEMMA AtExample ==
  ASSUME SInv, pc = "examples"
  PROVE  /\ kind = "sequences" /\ it \in Loop /\ stage = "examples" /\ NRows \in Nat
         /\ reached[1] = Len(out[1]) /\ next_row(1) = Len(out[1]) /\ Len(out[1]) \in Nat
         /\ it.held \in Seq(Nat) /\ Len(it.held) \in Nat /\ it.seen \in Nat /\ it.skip \in Nat
         /\ it.at \in 1..(Len(Dataset) + 1) /\ it.seen <= it.skip
         /\ it.seen < it.skip =>
              it.held = <<>> /\ it.seen = UsableBefore(it.at) /\ Len(out[1]) = it.skip
         /\ it.seen = it.skip => Len(out[1]) + Len(it.held) = UsableBefore(it.at)
         /\ Len(out[1]) + Len(it.held) <= NRows
         /\ Labelled(it.held, Len(out[1]))
<1>1. kind = "sequences" /\ it \in Loop /\ stage = "examples" /\ NRows \in Nat
  BY SweepAssumption DEF SInv, Types, KindOK, stage
<1>2. reached[1] = Len(out[1]) /\ next_row(1) = Len(out[1]) /\ Len(out[1]) \in Nat
  BY FirstLayer, Layer, SweepAssumption DEF SInv, Row
<1>3. it.held \in Seq(Nat) /\ Len(it.held) \in Nat /\ it.seen \in Nat /\ it.skip \in Nat
  BY <1>1 DEF Loop
<1> QED
  BY <1>1, <1>2, <1>3 DEF SInv, LoopsOK, ExamplesOK, Labelled

LEMMA PassOverStep == ASSUME SInv, PassOver PROVE SInv'
<1>1. /\ pc = "examples" /\ ~DatasetOver
      /\ ~Dataset[it.at] \/ it.seen < it.skip
      /\ it' = [it EXCEPT !.at = it.at + 1, !.seen = IF Dataset[it.at] THEN it.seen + 1 ELSE it.seen]
      /\ UNCHANGED <<control, pc, out, saved, call, prefetching>>
  BY DEF PassOver
<1>2. /\ kind = "sequences" /\ it \in Loop /\ stage = "examples" /\ NRows \in Nat
      /\ reached[1] = Len(out[1]) /\ Len(out[1]) \in Nat
      /\ it.held \in Seq(Nat) /\ Len(it.held) \in Nat /\ it.seen \in Nat /\ it.skip \in Nat
      /\ it.at \in 1..(Len(Dataset) + 1) /\ it.seen <= it.skip
      /\ it.seen < it.skip =>
           it.held = <<>> /\ it.seen = UsableBefore(it.at) /\ Len(out[1]) = it.skip
      /\ it.seen = it.skip => Len(out[1]) + Len(it.held) = UsableBefore(it.at)
      /\ Len(out[1]) + Len(it.held) <= NRows
      /\ Labelled(it.held, Len(out[1]))
  BY <1>1, AtExample
<1>3. PICK i \in 1..Len(Dataset) : i = it.at
  BY <1>1, <1>2, SweepAssumption DEF DatasetOver
<1>4. PICK next \in 1..(Len(Dataset) + 1), seen \in Nat :
        next = i + 1 /\ seen = IF Dataset[i] THEN it.seen + 1 ELSE it.seen
  BY <1>2, SweepAssumption
<1>5. it' \in Loop /\ it'.at = next /\ it'.seen = seen /\ it'.skip = it.skip /\ it'.held = it.held
  <2>1. it' = [it EXCEPT !.at = next, !.seen = seen]
    BY <1>1, <1>3, <1>4
  <2>2. next \in Nat /\ seen \in Nat
    OBVIOUS
  <2>3. \A loop \in Loop : LET new == [loop EXCEPT !.at = next, !.seen = seen]
           IN new \in Loop /\ new.at = next /\ new.seen = seen /\ new.skip = loop.skip /\ new.held = loop.held
    BY <2>2 DEF Loop
  <2>4. it \in Loop
    BY <1>2
  <2> QED
    BY <2>1, <2>3, <2>4
<1>6. /\ UNCHANGED <<kind, runs, batch, attempt, bounds, queue, built, worker, why>>
      /\ Types' /\ RowsOK' /\ CallOK' /\ ChunkOrder' /\ EndOK' /\ stage' = "examples"
      /\ reached'[1] = Len(out[1])
  <2>1. pc # "write" /\ pc' \in PCs \ {"write", "done", "rejected"} /\ pc' # "close" /\ pc' \notin {"get", "layers"}
    BY <1>1 DEF PCs, Ended
  <2> QED
    BY <2>1, <1>1, <1>5, MoveStep, FirstLayer
<1>7. KindOK'
  BY <1>2, <1>6 DEF KindOK
<1>8. /\ UsableBefore(i) \in Nat /\ UsableBefore(next) \in Nat
      /\ Dataset[i] => UsableBefore(next) = UsableBefore(i) + 1
      /\ ~Dataset[i] => UsableBefore(next) = UsableBefore(i)
  BY <1>4, UsableCount
<1>9. /\ seen <= it.skip
      /\ seen < it.skip => it.held = <<>> /\ seen = UsableBefore(next) /\ Len(out[1]) = it.skip
      /\ seen = it.skip => Len(out[1]) + Len(it.held) = UsableBefore(next)
  <2>1. CASE Dataset[i]
    <3>1. it.seen < it.skip /\ seen = it.seen + 1
      BY <1>1, <1>3, <1>4, <2>1
    <3>2. it.held = <<>> /\ it.seen = UsableBefore(i) /\ Len(out[1]) = it.skip /\ Len(it.held) = 0
      BY <3>1, <1>2, <1>3
    <3>3. seen <= it.skip /\ seen = UsableBefore(next)
      BY <3>1, <3>2, <1>2, <1>8, <2>1
    <3> QED
      BY <3>2, <3>3, <1>2
  <2>2. CASE ~Dataset[i]
    <3>1. seen = it.seen /\ UsableBefore(next) = UsableBefore(i)
      BY <1>4, <1>8, <2>2
    <3> QED
      BY <3>1, <1>2, <1>3
  <2> QED
    BY <2>1, <2>2
<1>10. Labelled(it'.held, Len(out[1])) /\ Len(out[1]) + Len(it'.held) <= NRows
  BY <1>2, <1>5
<1>11. ExamplesOK'
  BY <1>5, <1>6, <1>9, <1>10 DEF ExamplesOK, Labelled
<1>12. LoopsOK'
  BY <1>2, <1>6, <1>11 DEF LoopsOK, ChunksOK, ActivationsOK, PositionsOK, BlocksOK, GroupsOK
<1> QED
  BY <1>6, <1>7, <1>12 DEF SInv

LEMMA TakeExampleStep == ASSUME SInv, TakeExample PROVE SInv'
<1> DEFINE longer == Append(it.held, UsableBefore(it.at))
<1>1. pc = "examples" /\ ~DatasetOver /\ Dataset[it.at] /\ it.seen >= it.skip
  BY DEF TakeExample
<1>2. /\ kind = "sequences" /\ it \in Loop /\ stage = "examples" /\ NRows \in Nat
      /\ reached[1] = Len(out[1]) /\ next_row(1) = Len(out[1])
  BY <1>1, AtExample
<1>3. PICK i \in 1..Len(Dataset) : i = it.at
  <2>1. it.at \in 1..(Len(Dataset) + 1) /\ ~(it.at > Len(Dataset)) /\ Len(Dataset) \in Nat
    BY <1>1, AtExample, SweepAssumption DEF DatasetOver
  <2> QED
    BY <2>1
<1>4. PICK len \in Nat, have \in Seq(Nat), skip \in Nat :
        /\ len = Len(out[1]) /\ have = it.held /\ skip = it.skip /\ skip = it.seen
        /\ Labelled(have, len) /\ len + Len(have) = UsableBefore(i)
  <2>1. it.seen \in Nat /\ it.skip \in Nat /\ it.seen <= it.skip /\ it.seen >= it.skip
    BY <1>1, AtExample
  <2>2. it.seen = it.skip
    BY <2>1
  <2>3. /\ Len(out[1]) \in Nat /\ it.held \in Seq(Nat) /\ Labelled(it.held, Len(out[1]))
        /\ it.seen = it.skip => Len(out[1]) + Len(it.held) = UsableBefore(it.at)
    BY <1>1, AtExample
  <2> QED
    BY <1>3, <2>1, <2>2, <2>3
<1>5. PICK next \in 1..(Len(Dataset) + 1) : next = i + 1
  BY SweepAssumption
<1>6. PICK n \in Nat : n = UsableBefore(i) /\ n = len + Len(have) /\ UsableBefore(next) = n + 1 /\ n + 1 <= NRows
  <2>1. UsableBefore(i) \in Nat /\ UsableBefore(next) = UsableBefore(i) + 1
    BY <1>1, <1>3, <1>5, UsableCount
  <2>2. ~(len + Len(have) >= NRows)
    BY <1>1, <1>2, <1>4 DEF DatasetOver
  <2>3. Len(have) \in Nat /\ NRows \in Nat
    BY SweepAssumption
  <2>4. len + Len(have) + 1 <= NRows
    BY <2>2, <2>3
  <2>5. UsableBefore(i) = len + Len(have)
    BY <1>4
  <2> QED
    BY <2>1, <2>4, <2>5
<1>7. Len(have) \in Nat
  OBVIOUS
<1>8. PICK held \in Seq(Nat) : /\ held = longer /\ Len(held) = Len(have) + 1 /\ held # <<>>
                               /\ Labelled(held, len)
  <2>1. longer = Append(have, n)
    BY <1>3, <1>4, <1>6
  <2>2. Append(have, n) \in Seq(Nat) /\ Len(Append(have, n)) = Len(have) + 1
    OBVIOUS
  <2>3. ASSUME NEW k \in 1..(Len(have) + 1) PROVE Append(have, n)[k] = len + k - 1
    <3>1. CASE k = Len(have) + 1
      BY <3>1, <1>6
    <3>2. CASE k # Len(have) + 1
      <4>1. k \in 1..Len(have)
        BY <3>2, <1>7
      <4>2. Append(have, n)[k] = have[k]
        BY <4>1
      <4> QED
        BY <4>1, <4>2, <1>4 DEF Labelled
    <3> QED
      BY <3>1, <3>2
  <2>4. Labelled(Append(have, n), len)
    BY <2>2, <2>3 DEF Labelled
  <2>5. Append(have, n) # <<>>
    OBVIOUS
  <2> QED
    BY <2>1, <2>2, <2>4, <2>5
<1> HIDE DEF longer
<1>9. ASSUME NEW loop \in Loop, NEW h \in Seq(Nat)
      PROVE  LET new == [loop EXCEPT !.at = next, !.held = h]
             IN new \in Loop /\ new.at = next /\ new.seen = loop.seen /\ new.skip = loop.skip /\ new.held = h
  <2>1. next \in Nat
    BY SweepAssumption
  <2> QED
    BY <2>1 DEF Loop
<1>10. CASE /\ it' = [it EXCEPT !.at = it.at + 1, !.held = longer]
            /\ UNCHANGED <<control, pc, out, saved, call, prefetching>>
  <2>1. it' \in Loop /\ it'.at = next /\ it'.seen = skip /\ it'.skip = skip /\ it'.held = held
    <3>1. it' = [it EXCEPT !.at = next, !.held = held] /\ it \in Loop
      BY <1>2, <1>3, <1>5, <1>8, <1>10
    <3> QED
      BY <3>1, <1>4, <1>9
  <2>2. /\ UNCHANGED <<kind, runs, batch, attempt, bounds, queue, built, worker, why>>
        /\ Types' /\ RowsOK' /\ CallOK' /\ ChunkOrder' /\ EndOK' /\ stage' = "examples"
        /\ reached'[1] = Len(out[1])
    <3>1. UNCHANGED <<control, out, saved, call, prefetching>> /\ pc' = pc
      BY <1>10
    <3>2. pc # "write" /\ pc' \in PCs \ {"write", "done", "rejected"} /\ pc' # "close" /\ pc' \notin {"get", "layers"}
      BY <1>1, <3>1 DEF PCs, Ended
    <3> QED
      BY <3>1, <3>2, <1>1, <2>1, MoveStep, FirstLayer
  <2>3. KindOK'
    BY <1>2, <2>2 DEF KindOK
  <2>4. len + Len(held) <= NRows /\ len + Len(held) = UsableBefore(next) /\ reached'[1] = len
    <3>1. len + Len(held) = n + 1
      BY <1>6, <1>7, <1>8
    <3>2. reached'[1] = len
      BY <2>2, <1>4
    <3> QED
      BY <3>1, <3>2, <1>6
  <2>5. ExamplesOK'
    BY <2>1, <2>4, <1>8 DEF ExamplesOK, Labelled
  <2>6. LoopsOK'
    BY <1>2, <2>2, <2>5 DEF LoopsOK, ChunksOK, ActivationsOK, PositionsOK, BlocksOK, GroupsOK
  <2> QED
    BY <2>2, <2>3, <2>6 DEF SInv
<1>11. CASE /\ it' = [it EXCEPT !.at = it.at + 1, !.held = <<>>]
            /\ WriteRows(1, next_row(1), longer, "examples")
  <2>1. it' \in Loop /\ it'.at = next /\ it'.seen = skip /\ it'.skip = skip /\ it'.held = <<>>
    <3>1. it' = [it EXCEPT !.at = next, !.held = <<>>] /\ it \in Loop
      BY <1>2, <1>3, <1>5, <1>11
    <3>2. <<>> \in Seq(Nat)
      OBVIOUS
    <3> QED
      BY <3>1, <3>2, <1>4, <1>9
  <2>2. PICK back \in Backs : back = "examples"
    BY DEF Backs
  <2>3. PICK l \in 1..Layers : l = 1
    BY FirstLayer
  <2>4. /\ WriteRows(l, len, held, back) /\ len = Len(out[l]) /\ len + Len(held) <= NRows
        /\ back = pc /\ pc # "write" /\ Labelled(held, len)
    <3>1. WriteRows(l, len, held, back)
      BY <1>2, <1>4, <1>8, <1>11, <2>2, <2>3
    <3>2. len + Len(held) <= NRows
      BY <1>6, <1>7, <1>8
    <3> QED
      BY <3>1, <3>2, <1>1, <1>4, <1>8, <2>2, <2>3
  <2>5. /\ UNCHANGED <<kind, runs, batch, attempt, bounds, queue, built, worker, why>>
        /\ Types' /\ RowsOK' /\ CallOK' /\ KindOK' /\ ChunkOrder' /\ EndOK'
        /\ \/ stage' = "rejected"
           \/ /\ stage' = back
              /\ \A m \in 1..Layers :
                   reached'[m] = IF m = l /\ held # <<>> THEN len + Len(held) ELSE Len(out[m])
    <3>1. it' \in Loop
      BY <2>1
    <3>2. MayCall(l, len, held, back)
      BY <3>1, <2>4 DEF MayCall
    <3> QED
      BY <3>2, CallStep DEF Called
  <2>6. stage' = "examples" => reached'[1] = n + 1
    <3>1. len + Len(held) = n + 1
      BY <1>6, <1>7, <1>8
    <3> QED
      BY <3>1, <2>2, <2>3, <2>5, <1>8
  <2>7. Len(it'.held) = 0
    BY <2>1
  <2>8. ExamplesOK'
    BY <2>1, <2>6, <2>7, <1>6 DEF ExamplesOK
  <2>9. LoopsOK'
    BY <2>2, <2>5, <2>8, <1>2 DEF LoopsOK, ChunksOK, ActivationsOK, PositionsOK, BlocksOK, GroupsOK
  <2> QED
    BY <2>5, <2>9 DEF SInv
<1> QED
  BY <1>10, <1>11 DEF TakeExample, longer

LEMMA LastExamplesStep == ASSUME SInv, LastExamples PROVE SInv'
<1>1. /\ pc = "examples" /\ it' = [it EXCEPT !.held = <<>>]
      /\ WriteRows(1, next_row(1), it.held, "enough")
  BY DEF LastExamples
<1>2. /\ kind = "sequences" /\ it \in Loop /\ stage = "examples" /\ NRows \in Nat
      /\ next_row(1) = Len(out[1]) /\ Len(out[1]) \in Nat
      /\ it.held \in Seq(Nat) /\ Len(out[1]) + Len(it.held) <= NRows
      /\ Labelled(it.held, Len(out[1]))
  BY <1>1, AtExample
<1>3. it' \in Loop
  <2>1. <<>> \in Seq(Nat)
    OBVIOUS
  <2>2. \A loop \in Loop, h \in Seq(Nat) : [loop EXCEPT !.held = h] \in Loop
    BY DEF Loop
  <2>3. it \in Loop
    BY <1>2
  <2> QED
    BY <2>1, <2>2, <2>3, <1>1
<1>4. PICK back \in Backs : back = "enough"
  BY DEF Backs
<1>5. PICK l \in 1..Layers, lo \in Nat, rows \in Seq(Nat) : l = 1 /\ lo = Len(out[1]) /\ rows = it.held
  BY <1>2, FirstLayer
<1>6. /\ WriteRows(l, lo, rows, back) /\ lo = Len(out[l]) /\ lo + Len(rows) <= NRows
      /\ back = "enough" /\ pc = "examples" /\ pc # "write" /\ Labelled(rows, lo)
  BY <1>1, <1>2, <1>4, <1>5
<1>7. /\ Types' /\ RowsOK' /\ CallOK' /\ KindOK' /\ ChunkOrder' /\ EndOK'
      /\ stage' = "rejected" \/ stage' = back
  <2>1. MayCall(l, lo, rows, back)
    BY <1>3, <1>6 DEF MayCall
  <2> QED
    BY <2>1, CallStep DEF Called
<1>8. LoopsOK'
  BY <1>4, <1>7 DEF LoopsOK, ChunksOK, ActivationsOK, PositionsOK, BlocksOK, ExamplesOK, GroupsOK
<1> QED
  BY <1>7, <1>8 DEF SInv

LEMMA EnoughExamplesStep == ASSUME SInv, EnoughExamples PROVE SInv'
<1>1. /\ pc = "enough" /\ pc' = (IF next_row(1) < NRows THEN "raised" ELSE "close") /\ it \in Loop
      /\ UNCHANGED <<control, out, saved, call, it, prefetching>>
      /\ next_row(1) = Len(out[1]) /\ Len(out[1]) \in Nat /\ NRows \in Nat
  BY FirstLayer, Layer, SweepAssumption DEF EnoughExamples, SInv, Types, Row
<1>2. kind = "sequences"
  BY <1>1 DEF SInv, KindOK, stage
<1>3. Writers = {1}
  BY <1>2 DEF Writers, Lockstep
<1>4. /\ Types' /\ RowsOK' /\ CallOK' /\ ChunkOrder' /\ EndOK' /\ stage' = pc'
  <2>1. it' \in Loop /\ pc # "write" /\ pc' \in PCs \ {"write", "done", "rejected"} /\ pc' \notin {"get", "layers"}
    BY <1>1 DEF PCs, Ended
  <2>2. pc' = "close" => \A l \in Writers : NRows <= Len(out[l])
    BY <1>1, <1>3
  <2> QED
    BY <2>1, <2>2, <1>1, MoveStep
<1>5. KindOK' /\ LoopsOK'
  BY <1>1, <1>4 DEF KindOK, LoopsOK, ChunksOK, ActivationsOK, PositionsOK, BlocksOK, ExamplesOK, GroupsOK
<1> QED
  BY <1>4, <1>5 DEF SInv

-----------------------------------------------------------------------------
(* generate_perturbed_sweep_kvcache.py and compute_kernel_tangent_overlap. *)

LEMMA OpenGroups ==
  ASSUME SInv, kind \in {"kvcache", "overlap"}, NewWriters, NoPrefetch,
         it' \in Loop, NEW at \in Nat, it'.at = at, at * Group <= saved[1],
         pc' \in {"done", "groups"}, pc' = "done" => saved[1] >= NRows
  PROVE  SInv'
<1>1. kind # "perturbed" /\ Writers = {1} /\ saved[1] \in Nat /\ NRows \in Nat
  BY FirstLayer, SweepAssumption DEF Writers, Lockstep, SInv, RowsOK, Row
<1>2. /\ UNCHANGED <<kind, runs, batch, attempt, bounds, queue, built, worker, why>>
      /\ Types' /\ RowsOK' /\ CallOK' /\ ChunkOrder' /\ EndOK' /\ stage' = pc'
      /\ reached'[1] = saved[1]
  <2>1. pc' \in PCs \ {"write", "rejected"}
    BY DEF PCs, Ended
  <2>2. pc' \in {"close", "done"} => \A l \in Writers : NRows <= saved[l]
    BY <1>1
  <2> QED
    BY <2>1, <2>2, <1>1, OpenStep, FirstLayer
<1>3. KindOK'
  BY <1>2 DEF KindOK
<1>4. LoopsOK'
  BY <1>2 DEF LoopsOK, ChunksOK, ActivationsOK, PositionsOK, BlocksOK, ExamplesOK, GroupsOK
<1> QED
  BY <1>2, <1>3, <1>4 DEF SInv

LEMMA OpenKvCacheStep == ASSUME SInv, OpenKvCache PROVE SInv'
<1>1. /\ kind = "kvcache" /\ NewWriters /\ NoPrefetch
      /\ pc' = "groups" /\ it' = [NoLoop EXCEPT !.at = saved[1] \div Group]
  BY DEF OpenKvCache
<1>2. saved[1] \in Nat /\ Group \in Nat \ {0}
  BY FirstLayer, SweepAssumption DEF SInv, RowsOK, Row
<1>3. PICK at \in Nat : at = saved[1] \div Group /\ at * Group <= saved[1]
  BY <1>2, Quotient
<1>4. it' \in Loop /\ it'.at = at
  <2>1. it' = [NoLoop EXCEPT !.at = at]
    BY <1>1, <1>3
  <2> QED
    BY <2>1, StartAt
<1>5. kind \in {"kvcache", "overlap"} /\ pc' \in {"done", "groups"} /\ pc' # "done"
  BY <1>1
<1>6. NewWriters /\ NoPrefetch
  BY <1>1
<1> QED
  BY <1>3, <1>4, <1>5, <1>6, OpenGroups

LEMMA OpenOverlapStep == ASSUME SInv, OpenOverlap PROVE SInv'
<1>1. /\ kind = "overlap" /\ NewWriters /\ NoPrefetch
      /\ pc' = (IF saved[1] >= NRows THEN "done" ELSE "groups") /\ it' = NoLoop
  BY DEF OpenOverlap
<1>2. it' \in Loop /\ it'.at = 0
  BY <1>1, NoLoopYet
<1>3. 0 \in Nat /\ 0 * Group <= saved[1]
  BY FirstLayer, SweepAssumption DEF SInv, RowsOK, Row
<1>4. kind \in {"kvcache", "overlap"} /\ pc' \in {"done", "groups"} /\ (pc' = "done" => saved[1] >= NRows)
  BY <1>1
<1> QED
  BY <1>1, <1>2, <1>3, <1>4, OpenGroups

(* What is known between and in the groups.                                *)
LEMMA AtGroup ==
  ASSUME SInv, pc \in {"groups", "candidates"}
  PROVE  /\ kind \in {"kvcache", "overlap"} /\ Writers = {1} /\ it \in Loop /\ stage = pc
         /\ it.at \in Nat /\ it.turn \in Nat /\ NRows \in Nat /\ Group \in Nat \ {0}
         /\ it.at * Group \in Nat /\ (it.at + 1) * Group = it.at * Group + Group
         /\ Len(out[1]) \in Nat /\ next_row(1) = Len(out[1])
         /\ pc = "groups" => it.at * Group <= Len(out[1])
         /\ pc = "candidates" => /\ (it.at + 1) * Group <= NRows
                                 /\ Len(out[1]) = it.at * Group + Lesser(it.turn, Group)
<1>1. stage = pc /\ it \in Loop
  BY DEF stage, SInv, Types
<1>2. kind \in {"kvcache", "overlap"}
  BY <1>1 DEF SInv, KindOK
<1>3. Writers = {1}
  BY <1>2 DEF Writers, Lockstep
<1>4. it.at \in Nat /\ it.turn \in Nat /\ NRows \in Nat /\ Group \in Nat \ {0}
  BY <1>1, SweepAssumption DEF Loop
<1>5. it.at * Group \in Nat /\ (it.at + 1) * Group = it.at * Group + Group
  BY <1>4, TimesNext
<1>6. Len(out[1]) \in Nat /\ next_row(1) = Len(out[1]) /\ reached[1] = Len(out[1])
  BY FirstLayer, Layer, SweepAssumption DEF SInv, Row
<1>7. /\ pc = "groups" => it.at * Group <= Len(out[1])
      /\ pc = "candidates" => /\ (it.at + 1) * Group <= NRows
                              /\ Len(out[1]) = it.at * Group + Lesser(it.turn, Group)
  BY <1>1, <1>6 DEF SInv, LoopsOK, GroupsOK
<1> QED
  BY <1>1, <1>2, <1>3, <1>4, <1>5, <1>6, <1>7

(* A step between them that writes nothing.                                *)
LEMMA GroupMoves ==
  ASSUME SInv, pc \in {"groups", "candidates"}, pc' \in {"groups", "candidates", "close"},
         UNCHANGED <<control, out, saved, call, prefetching>>, it' \in Loop,
         pc' = "close" => NRows <= Len(out[1]),
         pc' = "groups" => it'.at * Group <= Len(out[1]),
         pc' = "candidates" => /\ (it'.at + 1) * Group <= NRows
                               /\ Len(out[1]) = it'.at * Group + Lesser(it'.turn, Group)
  PROVE  SInv'
<1>1. kind \in {"kvcache", "overlap"} /\ Writers = {1}
  BY AtGroup
<1>2. /\ UNCHANGED <<kind, runs, batch, attempt, bounds, queue, built, worker, why>>
      /\ Types' /\ RowsOK' /\ CallOK' /\ ChunkOrder' /\ EndOK' /\ stage' = pc'
      /\ reached'[1] = Len(out[1])
  <2>1. /\ pc # "write" /\ pc' \in PCs \ {"write", "done", "rejected"}
        /\ pc' = "close" => \A l \in Writers : NRows <= Len(out[l])
    BY <1>1 DEF PCs, Ended
  <2> QED
    BY <2>1, <1>1, MoveStep, FirstLayer
<1>3. KindOK'
  BY <1>1, <1>2 DEF KindOK
<1>4. LoopsOK'
  BY <1>1, <1>2 DEF LoopsOK, ChunksOK, ActivationsOK, PositionsOK, BlocksOK, ExamplesOK, GroupsOK
<1> QED
  BY <1>2, <1>3, <1>4 DEF SInv

LEMMA NextGroupStep == ASSUME SInv, NextGroup PROVE SInv'
<1>1. pc = "groups" /\ UNCHANGED <<control, out, saved, call, prefetching>> /\ pc \in {"groups", "candidates"}
  BY DEF NextGroup
<1>2. PICK at \in Nat, len \in Nat, begin \in Nat :
        /\ at = it.at /\ len = Len(out[1]) /\ len = next_row(1) /\ begin = at * Group /\ begin <= len
        /\ (at + 1) * Group = begin + Group /\ it \in Loop
  BY <1>1, AtGroup
<1>3. Group \in Nat \ {0} /\ NRows \in Nat
  BY SweepAssumption
<1>4. CASE begin >= NRows
  <2>1. pc' = "close" /\ it' = it
    BY <1>2, <1>4 DEF NextGroup
  <2>2. NRows <= Len(out[1]) /\ it' \in Loop /\ pc' \in {"groups", "candidates", "close"}
    BY <2>1, <1>2, <1>3, <1>4
  <2> QED
    BY <2>1, <2>2, <1>1, GroupMoves
<1>5. CASE ~(begin >= NRows) /\ begin + Group <= len
  <2>1. pc' = "groups" /\ it' = [it EXCEPT !.at = it.at + 1]
    BY <1>2, <1>5 DEF NextGroup
  <2>2. it' \in Loop /\ it'.at = at + 1
    <3>1. PICK n \in Nat : n = at + 1
      OBVIOUS
    <3>2. it' = [it EXCEPT !.at = n] /\ it \in Loop
      BY <2>1, <3>1, <1>2
    <3>3. \A loop \in Loop : [loop EXCEPT !.at = n] \in Loop /\ [loop EXCEPT !.at = n].at = n
      BY DEF Loop
    <3> QED
      BY <3>1, <3>2, <3>3
  <2>3. it'.at * Group <= Len(out[1]) /\ pc' \in {"groups", "candidates", "close"}
    BY <2>1, <2>2, <1>2, <1>5
  <2> QED
    BY <2>1, <2>2, <2>3, <1>1, GroupMoves
<1>6. CASE ~(begin >= NRows) /\ ~(begin + Group <= len)
  <2>1. PICK n \in Nat : n = len - begin /\ n = Greater(0, next_row(1) - it.at * Group) /\ Lesser(n, Group) = n
    BY <1>2, <1>3, <1>6 DEF Greater, Lesser
  <2>2. pc' = "candidates" /\ it' = [it EXCEPT !.turn = Greater(0, next_row(1) - it.at * Group)]
    BY <1>2, <1>6 DEF NextGroup
  <2>3. it' \in Loop /\ it'.at = at /\ it'.turn = n
    <3>1. it' = [it EXCEPT !.turn = n] /\ it \in Loop
      BY <2>1, <2>2, <1>2
    <3>2. \A loop \in Loop : /\ [loop EXCEPT !.turn = n] \in Loop /\ [loop EXCEPT !.turn = n].turn = n
                             /\ [loop EXCEPT !.turn = n].at = loop.at
      BY DEF Loop
    <3> QED
      BY <3>1, <3>2, <1>2
  <2>4. (it'.at + 1) * Group <= NRows
    <3>1. at * Group < NRows
      BY <1>2, <1>3, <1>6
    <3> QED
      BY <3>1, <2>3, GroupFits
  <2>5. Len(out[1]) = it'.at * Group + Lesser(it'.turn, Group)
    BY <2>1, <2>3, <1>2
  <2>6. pc' \in {"groups", "candidates", "close"}
    BY <2>2
  <2> QED
    BY <2>2, <2>3, <2>4, <2>5, <2>6, <1>1, GroupMoves
<1> QED
  BY <1>4, <1>5, <1>6

LEMMA GroupDoneStep == ASSUME SInv, GroupDone PROVE SInv'
<1>1. /\ pc = "candidates" /\ it.turn >= Group /\ pc' = "groups"
      /\ UNCHANGED <<control, out, saved, call, prefetching>>
      /\ pc \in {"groups", "candidates"} /\ pc' \in {"groups", "candidates", "close"}
  BY DEF GroupDone
<1>2. it' = [it EXCEPT !.at = it.at + 1, !.turn = 0]
  BY DEF GroupDone
<1>3. PICK n \in Nat : n = it.at + 1
  BY <1>1, AtGroup
<1>4. it' \in Loop /\ it'.at = n
  <2>1. it' = [it EXCEPT !.at = n, !.turn = 0] /\ it \in Loop
    BY <1>1, <1>2, <1>3, AtGroup
  <2>2. \A loop \in Loop : [loop EXCEPT !.at = n, !.turn = 0] \in Loop /\ [loop EXCEPT !.at = n, !.turn = 0].at = n
    BY DEF Loop
  <2> QED
    BY <2>1, <2>2
<1>5. n * Group <= Len(out[1])
  <2>1. Lesser(it.turn, Group) = Group /\ Group \in Nat /\ it.at * Group \in Nat
    BY <1>1, AtGroup DEF Lesser
  <2>2. Len(out[1]) = it.at * Group + Group /\ (it.at + 1) * Group = it.at * Group + Group
    BY <2>1, <1>1, AtGroup
  <2> QED
    BY <2>1, <2>2, <1>3
<1> QED
  BY <1>1, <1>4, <1>5, GroupMoves

LEMMA CandidatesStep == ASSUME SInv, Candidates PROVE SInv'
<1>1. /\ pc = "candidates" /\ it.turn < Group /\ pc \in {"groups", "candidates"}
      /\ WriteRows(1, it.at * Group + it.turn,
                   RowsOf(it.at * Group + it.turn, it.at * Group + Lesser(it.turn + batch, Group)), "candidates")
  BY DEF Candidates
<1>2. it' = [it EXCEPT !.turn = it.turn + batch]
  BY DEF Candidates
<1>3. batch \in Nat \ {0}
  BY DEF SInv, Types
<1>4. PICK at \in Nat, turn \in Nat, begin \in Nat :
        /\ at = it.at /\ turn = it.turn /\ begin = at * Group /\ turn < Group /\ begin + Group <= NRows
        /\ (at + 1) * Group <= NRows /\ Len(out[1]) = begin + turn /\ it \in Loop
  <2>1. it.turn \in Nat /\ Group \in Nat /\ it.turn < Group
    BY <1>1, AtGroup
  <2>2. Lesser(it.turn, Group) = it.turn
    BY <2>1 DEF Lesser
  <2>3. (it.at + 1) * Group <= NRows /\ (it.at + 1) * Group = it.at * Group + Group
    BY <1>1, AtGroup
  <2>4. /\ it.at \in Nat /\ it.at * Group \in Nat /\ it \in Loop
        /\ Len(out[1]) = it.at * Group + it.turn
    BY <1>1, <2>2, AtGroup
  <2> QED
    BY <2>1, <2>3, <2>4
<1>5. Group \in Nat /\ NRows \in Nat
  BY SweepAssumption
<1>6. PICK next \in Nat, lo \in Nat, hi \in Nat :
        /\ next = turn + batch /\ lo = begin + turn /\ hi = begin + Lesser(next, Group)
        /\ lo < hi /\ hi <= NRows
  <2>1. PICK sum \in Nat : sum = turn + batch /\ turn < sum /\ begin + turn \in Nat
    BY <1>3
  <2>2. PICK end \in Nat : end = Lesser(sum, Group) /\ turn < end /\ end <= Group
    <3>1. turn < Group /\ Group \in Nat
      BY <1>4, <1>5
    <3>2. Lesser(sum, Group) \in Nat /\ turn < Lesser(sum, Group) /\ Lesser(sum, Group) <= Group
      BY <2>1, <3>1 DEF Lesser
    <3> QED
      BY <3>2
  <2>3. begin + end \in Nat /\ begin + turn < begin + end /\ begin + end <= NRows
    <3>1. begin + Group <= NRows /\ turn < end /\ end <= Group
      BY <2>2, <1>4
    <3> QED
      BY <3>1, <1>5
  <2> QED
    BY <2>1, <2>2, <2>3
<1>7. it' \in Loop /\ it'.at = at /\ it'.turn = next
  <2>1. it' = [it EXCEPT !.turn = next] /\ it \in Loop
    BY <1>2, <1>4, <1>6
  <2>2. \A loop \in Loop : /\ [loop EXCEPT !.turn = next] \in Loop /\ [loop EXCEPT !.turn = next].turn = next
                           /\ [loop EXCEPT !.turn = next].at = loop.at
    BY DEF Loop
  <2> QED
    BY <2>1, <2>2, <1>4
<1>8. PICK rows \in Seq(Nat) :
        rows = RowsOf(lo, hi) /\ lo + Len(rows) = hi /\ rows # <<>> /\ Labelled(rows, lo)
  BY <1>6, SomeRows
<1>9. PICK back \in Backs : back = "candidates"
  BY DEF Backs
<1>10. PICK l \in 1..Layers : l = 1
  BY FirstLayer
<1>11. WriteRows(l, lo, rows, back) /\ lo = Len(out[l]) /\ lo + Len(rows) <= NRows /\ back = pc /\ pc # "write"
  BY <1>1, <1>4, <1>6, <1>8, <1>9, <1>10
<1>12. it' \in Loop /\ Labelled(rows, lo)
  BY <1>7, <1>8
<1>13. /\ UNCHANGED <<kind, runs, batch, attempt, bounds, queue, built, worker, why>>
       /\ Types' /\ RowsOK' /\ CallOK' /\ KindOK' /\ ChunkOrder' /\ EndOK'
       /\ \/ stage' = "rejected"
          \/ /\ stage' = back
             /\ \A m \in 1..Layers :
                  reached'[m] = IF m = l /\ rows # <<>> THEN lo + Len(rows) ELSE Len(out[m])
  <2>1. MayCall(l, lo, rows, back)
    BY <1>11, <1>12 DEF MayCall
  <2> QED
    BY <2>1, CallStep DEF Called
<1>14. stage' = "candidates" => reached'[1] = hi
  BY <1>8, <1>9, <1>10, <1>13
<1>15. GroupsOK'
  <2>1. stage' \in {"rejected", "candidates"}
    BY <1>9, <1>13
  <2> QED
    BY <2>1, <1>4, <1>6, <1>7, <1>14 DEF GroupsOK
<1>16. LoopsOK'
  BY <1>9, <1>13, <1>15 DEF LoopsOK, ChunksOK, ActivationsOK, PositionsOK, BlocksOK, ExamplesOK
<1> QED
  BY <1>13, <1>16 DEF SInv

-----------------------------------------------------------------------------
(* The end of a run.                                                       *)

LEMMA CloseStep == ASSUME SInv, Close PROVE SInv'
<1>1. /\ pc = "close" /\ UNCHANGED <<control, out, saved, call, it, prefetching>>
      /\ pc' = IF \A l \in Writers : next_row(l) = saved[l] THEN "done" ELSE "raised"
  BY DEF Close
<1>2. UNCHANGED <<kind, runs, batch, attempt, bounds, queue, built, worker, why>>
  BY <1>1, Kept
<1>3. Types'
  BY <1>1, <1>2 DEF SInv, Types, PCs, Ended
<1>4. CASE pc' = "raised"
  BY <1>1, <1>2, <1>3, <1>4, LeavesLoops
<1>5. CASE pc' = "done"
  <2>1. /\ RowsOK' /\ CallOK' /\ stage = "close" /\ stage' = "done"
        /\ \A l \in 1..Layers : reached[l] = Len(out[l])
    BY <1>1, <1>2, <1>5, NoCallGoesOn DEF SInv
  <2>2. ASSUME NEW l \in Writers PROVE saved'[l] = NRows
    <3>1. l \in 1..Layers /\ next_row(l) = saved[l] /\ NRows <= Len(out[l])
      BY <2>1, <1>1, <1>5, SomeWriters DEF SInv, EndOK
    <3>2. saved[l] \in Row /\ next_row(l) = Len(out[l])
      BY <3>1, Layer DEF SInv
    <3>3. saved[l] = NRows
      BY <3>1, <3>2, SweepAssumption DEF Row
    <3> QED
      BY <3>3, <1>1
  <2>3. EndOK'
    <3>1. Writers' = Writers
      BY <1>2 DEF Writers
    <3> QED
      BY <2>1, <2>2, <3>1, <1>5 DEF EndOK
  <2>4. ChunkOrder'
    BY <2>1, <1>2, ChunkOrderKept DEF SInv
  <2>5. KindOK' /\ LoopsOK'
    BY <2>1 DEF KindOK, LoopsOK, ChunksOK, ActivationsOK, PositionsOK, BlocksOK, ExamplesOK, GroupsOK
  <2> QED
    BY <2>1, <2>3, <2>4, <2>5, <1>3 DEF SInv
<1> QED
  BY <1>1, <1>4, <1>5

-----------------------------------------------------------------------------
(* The theorems.                                                           *)

LEMMA Begins == ASSUME Init PROVE SInv
<1>1. /\ kind \in Kinds /\ pc = "down" /\ runs = 0 /\ batch \in Batches /\ attempt = 0
      /\ out = [l \in 1..Layers |-> <<>>] /\ saved = [l \in 1..Layers |-> 0]
      /\ call = NoCall /\ it = NoLoop
      /\ bounds = <<>> /\ queue = <<>> /\ built = 0 /\ worker = "gone" /\ why = "none"
  BY DEF Init
<1>2. \A S : <<>> \in Seq(S) /\ Len(<<>>) = 0
  OBVIOUS
<1>3. stage = "down" /\ NRows \in Nat \ {0} /\ Layers \in Nat \ {0}
  BY <1>1, SweepAssumption DEF stage
<1>4. call \in Call /\ it \in Loop
  BY <1>1, <1>2, <1>3, NoLoopYet DEF NoCall, Call, Row, PCs
<1>5. bounds \in Seq(Bound) /\ queue \in Seq(Item) /\ Len(queue) = 0 /\ Len(bounds) = 0
  BY <1>1, <1>2
<1>6. Types
  BY <1>1, <1>4, <1>5, SweepAssumption DEF Types, PCs
<1>7. RowsOK
  <2>1. out \in [1..Layers -> Seq(Row)] /\ saved \in [1..Layers -> Row]
    BY <1>1, <1>2, <1>3 DEF Row
  <2>2. ASSUME NEW l \in 1..Layers PROVE LayerOK(l)
    <3>1. out[l] = <<>> /\ saved[l] = 0
      BY <1>1
    <3>2. Len(out[l]) = 0
      BY <3>1, <1>2
    <3> QED
      BY <3>1, <3>2, <1>3, Capacity DEF LayerOK
  <2> QED
    BY <2>1, <2>2 DEF RowsOK
<1>8. ChunkOrder
  BY <1>1, <1>3, <1>5 DEF ChunkOrder, BoundsOK, QueueOK, WorkerOK
<1>9. CallOK /\ KindOK /\ LoopsOK /\ EndOK
  BY <1>1, <1>3 DEF CallOK, KindOK, EndOK, LoopsOK, ChunksOK, ActivationsOK, PositionsOK,
                    BlocksOK, ExamplesOK, GroupsOK
<1> QED
  BY <1>6, <1>7, <1>8, <1>9 DEF SInv

LEMMA Stutters == ASSUME SInv, UNCHANGED vars PROVE SInv'
<1>1. UNCHANGED <<kind, runs, batch, attempt, pc, out, saved, call, it, bounds, queue, built, worker, why>>
  BY DEF vars, control, prefetching
<1>2. Types'
  BY <1>1 DEF SInv, Types
<1>3. RowsOK' /\ CallOK' /\ stage' = stage /\ reached' = reached
  BY <1>1 DEF SInv, RowsOK, LayerOK, ShardCapacity, CallOK, stage, reached
<1>4. ChunkOrder'
  BY <1>1, <1>3 DEF SInv, ChunkOrder, BoundsOK, QueueOK, WorkerOK, Ahead
<1>5. KindOK' /\ EndOK'
  BY <1>1, <1>3 DEF SInv, KindOK, EndOK, Writers
<1>6. LoopsOK'
  BY <1>1, <1>3 DEF SInv, LoopsOK, ChunksOK, ActivationsOK, PositionsOK, BlocksOK, ExamplesOK, GroupsOK, Wanted, Ahead
<1> QED
  BY <1>2, <1>3, <1>4, <1>5, <1>6 DEF SInv

LEMMA Steps == ASSUME SInv, Next PROVE SInv'
<1>1. CASE MainThread
  BY <1>1, WriteShardPartStep, CloseStep, ExitStep,
     OpenPerturbedStep, GetChunkStep, GetMarkStep, JoinStep, LayerOfChunkStep, ChunkDoneStep,
     OpenActivationsStep, LayerOfActivationsStep, NextActivationsStep,
     OpenPositionsStep, PositionStep, PositionsDoneStep,
     OpenBlocksStep, BlockStep, BlocksDoneStep,
     OpenSequencesStep, PassOverStep, TakeExampleStep, LastExamplesStep, EnoughExamplesStep,
     OpenKvCacheStep, OpenOverlapStep, NextGroupStep, CandidatesStep, GroupDoneStep DEF MainThread
<1>2. CASE Worker
  BY <1>2, WorkerPutsChunkStep, WorkerPutsErrorStep, WorkerPutsSentinelStep DEF Worker
<1>3. CASE Faults
  BY <1>3, KillStep, BuildFailsStep, OutOfMemoryStep, KvOutOfMemoryStep, RaisesStep DEF Faults
<1>4. CASE \E b \in Batches : Run(b)
  BY <1>4, RunStep
<1> QED
  BY <1>1, <1>2, <1>3, <1>4 DEF Next

LEMMA Invariant == Spec => []SInv
<1>1. Init => SInv
  BY Begins
<1>2. SInv /\ [Next]_vars => SInv'
  BY Steps, Stutters
<1> QED
  BY <1>1, <1>2, PTL DEF Spec

(* The variables keep their types, no writer holds more rows than it may,  *)
(* and the prefetch queue never holds more than maxsize chunks             *)
(* (generate_perturbed_sweep.py:74).                                       *)
THEOREM TypeCorrect == Spec => []TypeOK
<1>1. SInv => TypeOK
  BY SweepAssumption DEF SInv, Types, RowsOK, LayerOK, Call, Loop, TypeOK
<1> QED
  BY <1>1, Invariant, PTL

(* However runs, batch sizes, retries and kills follow each other, row r   *)
(* of a layer is the row that was computed for r.                          *)
THEOREM RowsStayInPlace == Spec => []RowsInPlace
<1>1. SInv => RowsInPlace
  BY DEF SInv, RowsOK, LayerOK, RowsInPlace
<1> QED
  BY <1>1, Invariant, PTL

(* Only the loops that neither trim nor test for a complete layer ever     *)
(* hand write_rows a block it refuses.                                     *)
THEOREM OthersAreNeverRejected == Spec => []OnlyUntrimmedRejected
<1>1. SInv => OnlyUntrimmedRejected
  BY DEF SInv, EndOK, OnlyUntrimmedRejected
<1> QED
  BY <1>1, Invariant, PTL

(* A run that ends without an exception has recorded every row of every    *)
(* layer it writes.                                                        *)
THEOREM DoneIsComplete == Spec => []FinishedIsComplete
<1>1. SInv => FinishedIsComplete
  BY DEF SInv, EndOK, FinishedIsComplete
<1> QED
  BY <1>1, Invariant, PTL

=============================================================================
