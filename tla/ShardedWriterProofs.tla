------------------------ MODULE ShardedWriterProofs ------------------------
(***************************************************************************)
(* What ShardedWriter promises for every set of nodes, configurations and  *)
(* bounds, proved: the types of its state and that completed_shards always *)
(* lists consecutive shards over consecutive rows; and, when all runs of a *)
(* layer share one scratch disk, that no recorded shard is ever backed by  *)
(* a torn file and that uploads stay within max_in_flight.                 *)
(***************************************************************************)
EXTENDS ShardedWriter, SequenceTheorems, WellFoundedInduction, TLAPS

-----------------------------------------------------------------------------
(* Facts about data.                                                       *)

(* A non-empty set of naturals has a least element, so First finds one.    *)
LEMMA Least ==
  ASSUME NEW T \in SUBSET Nat, T # {}
  PROVE  \E k \in T : \A j \in T : k <= j
<1> DEFINE R == {ss \in Nat \X Nat : ss[1] < ss[2]}
<1>1. IsWellFoundedOn(R, Nat)
  <2>1. R = OpToRel(<, Nat)
    BY Zenon DEF OpToRel
  <2> QED
    BY <2>1, NatLessThanWellFounded, Zenon
<1>2. PICK k \in T : \A j \in T : ~(<<j, k>> \in R)
  <2> HIDE DEF R
  <2> QED
    BY <1>1, WFMin
<1>3. ASSUME NEW j \in T PROVE k <= j
  <2> DEFINE jk == <<j, k>>
  <2>1. j \in Nat /\ k \in Nat
    OBVIOUS
  <2>2. jk \in Nat \X Nat /\ jk[1] = j /\ jk[2] = k
    BY <2>1
  <2>3. jk \notin R
    BY <1>2
  <2>4. ~(jk[1] < jk[2])
    <3> HIDE DEF jk
    <3> QED
      BY <2>2, <2>3
  <2> QED
    BY <2>1, <2>2, <2>4
<1> QED
  BY <1>3

(* The shards of a list are numbered 0, 1, ... and cover consecutive,      *)
(* non-empty ranges of rows; so the k-th ends at row k or later.           *)
Chain(ss) ==
  \A k \in 1..Len(ss) :
    /\ ss[k].shard_idx = k - 1
    /\ ss[k].row_start = IF k = 1 THEN 0 ELSE ss[k - 1].row_end
    /\ ss[k].row_start < ss[k].row_end
    /\ k <= ss[k].row_end

LEMMA LastEndType ==
  ASSUME NEW ss \in Seq(ShardEntry)
  PROVE  LastEnd(ss) \in Row
<1>1. CASE ss = <<>>
  BY <1>1, WriterAssumption DEF LastEnd, Row
<1>2. CASE ss # <<>>
  <2>1. Len(ss) \in 1..Len(ss)
    BY <1>2, EmptySeq
  <2>2. ss[Len(ss)] \in ShardEntry
    BY <2>1, ElementOfSeq
  <2> QED
    BY <1>2, <2>2 DEF LastEnd, ShardEntry
<1> QED
  BY <1>1, <1>2

LEMMA PrefixChain ==
  ASSUME NEW ss \in Seq(ShardEntry), NEW n \in 0..Len(ss)
  PROVE  LET t == SubSeq(ss, 1, n)
         IN  /\ t \in Seq(ShardEntry) /\ Len(t) = n
             /\ \A k \in 1..n : t[k] = ss[k]
             /\ Chain(ss) => Chain(t)
<1> DEFINE t == SubSeq(ss, 1, n)
<1>1. \A i \in 1..n : ss[i] \in ShardEntry
  BY ElementOfSeq
<1>2. t \in Seq(ShardEntry) /\ Len(t) = n /\ \A k \in 1..n : t[k] = ss[k]
  BY <1>1, SubSeqProperties
<1>3. Chain(ss) => Chain(t)
  <2> HIDE DEF t
  <2> SUFFICES ASSUME Chain(ss), NEW k \in 1..n
               PROVE  /\ t[k].shard_idx = k - 1
                      /\ t[k].row_start = IF k = 1 THEN 0 ELSE t[k - 1].row_end
                      /\ t[k].row_start < t[k].row_end
                      /\ k <= t[k].row_end
    BY <1>2 DEF Chain
  <2>1. Len(ss) \in Nat /\ k \in 1..Len(ss) /\ (k # 1 => k - 1 \in 1..n)
    BY LenProperties
  <2> QED
    BY <1>2, <2>1 DEF Chain
<1> QED
  BY <1>2, <1>3

LEMMA AppendChain ==
  ASSUME NEW ss \in Seq(ShardEntry), NEW e \in ShardEntry
  PROVE  LET t == Append(ss, e)
         IN  /\ t \in Seq(ShardEntry) /\ Len(t) = Len(ss) + 1 /\ t # <<>>
             /\ \A k \in 1..Len(ss) : t[k] = ss[k]
             /\ t[Len(ss) + 1] = e
             /\ LastEnd(t) = e.row_end
             /\ /\ Chain(ss)
                /\ e.shard_idx = Len(ss) /\ e.row_start = LastEnd(ss)
                /\ e.row_start < e.row_end
                => Chain(t)
<1> DEFINE t == Append(ss, e)
<1>1. /\ t \in Seq(ShardEntry) /\ Len(t) = Len(ss) + 1 /\ t # <<>>
      /\ \A k \in 1..Len(ss) : t[k] = ss[k]
      /\ t[Len(ss) + 1] = e
  BY AppendProperties
<1>2. LastEnd(t) = e.row_end
  <2> HIDE DEF t
  <2> QED
    BY <1>1 DEF LastEnd
<1>3. ASSUME Chain(ss), e.shard_idx = Len(ss), e.row_start = LastEnd(ss),
             e.row_start < e.row_end
      PROVE  Chain(t)
  <2> HIDE DEF t
  <2>1. ASSUME NEW k \in 1..Len(ss)
        PROVE  /\ t[k].shard_idx = k - 1
               /\ t[k].row_start = IF k = 1 THEN 0 ELSE t[k - 1].row_end
               /\ t[k].row_start < t[k].row_end
               /\ k <= t[k].row_end
    BY <1>1, <1>3 DEF Chain
  <2>2. Len(ss) <= LastEnd(ss) /\ (ss # <<>> => LastEnd(ss) = ss[Len(ss)].row_end)
    BY <1>3, EmptySeq DEF LastEnd, Chain
  <2>3. /\ e.row_start = IF Len(ss) + 1 = 1 THEN 0 ELSE t[Len(ss)].row_end
        /\ Len(ss) + 1 <= e.row_end
    <3>1. e.row_start \in Int /\ e.row_end \in Int
      BY DEF ShardEntry, Row
    <3>2. CASE ss = <<>>
      BY <3>1, <3>2, <2>2, <1>3 DEF LastEnd
    <3>3. CASE ss # <<>>
      BY <3>1, <3>3, <2>2, <1>1, <1>3, EmptySeq
    <3> QED
      BY <3>2, <3>3
  <2> QED
    BY <2>1, <2>3, <1>1, <1>3 DEF Chain
<1> QED
  BY <1>1, <1>2, <1>3

(* Marking a shard pushed changes nothing else.                            *)
LEMMA PushedEntry ==
  ASSUME NEW s \in ShardEntry
  PROVE  LET e == [s EXCEPT !.pushed = TRUE]
         IN  /\ e \in ShardEntry /\ e.pushed
             /\ e.shard_idx = s.shard_idx
             /\ e.row_start = s.row_start /\ e.row_end = s.row_end
BY DEF ShardEntry

LEMMA PushedChain ==
  ASSUME NEW ss \in Seq(ShardEntry), NEW j
  PROVE  LET t == [ss EXCEPT ![j].pushed = TRUE]
         IN  /\ t \in Seq(ShardEntry) /\ Len(t) = Len(ss)
             /\ \A k \in 1..Len(ss) :
                  t[k] = IF k = j THEN [ss[k] EXCEPT !.pushed = TRUE] ELSE ss[k]
             /\ LastEnd(t) = LastEnd(ss)
             /\ Chain(ss) => Chain(t)
<1> DEFINE t == [ss EXCEPT ![j].pushed = TRUE]
<1>1. /\ t \in Seq(ShardEntry) /\ Len(t) = Len(ss)
      /\ \A k \in 1..Len(ss) :
           t[k] = IF k = j THEN [ss[k] EXCEPT !.pushed = TRUE] ELSE ss[k]
  <2>1. CASE j \in 1..Len(ss)
    <3> DEFINE e == [ss[j] EXCEPT !.pushed = TRUE]
    <3>1. e \in ShardEntry
      BY <2>1, ElementOfSeq, PushedEntry
    <3>2. t = [ss EXCEPT ![j] = e]
      OBVIOUS
    <3>3. [ss EXCEPT ![j] = e] \in Seq(ShardEntry) /\ Len([ss EXCEPT ![j] = e]) = Len(ss)
      <4> HIDE DEF e
      <4> QED
        BY <2>1, <3>1, ExceptSeq
    <3>4. \A k \in 1..Len(ss) : [ss EXCEPT ![j] = e][k] = IF k = j THEN e ELSE ss[k]
      <4> HIDE DEF e
      <4> QED
        BY <2>1, <3>1, ExceptSeq
    <3> HIDE DEF t
    <3> QED
      BY <3>2, <3>3, <3>4
  <2>2. CASE j \notin 1..Len(ss)
    <3>1. t = ss
      <4>1. ss \in [1..Len(ss) -> ShardEntry]
        BY LenProperties
      <4> QED
        BY <2>2, <4>1
    <3> HIDE DEF t
    <3> QED
      BY <3>1, <2>2
  <2> QED
    BY <2>1, <2>2
<1> HIDE DEF t
<1>2. \A k \in 1..Len(ss) : /\ t[k].shard_idx = ss[k].shard_idx
                            /\ t[k].row_start = ss[k].row_start
                            /\ t[k].row_end = ss[k].row_end
  BY <1>1, ElementOfSeq, PushedEntry
<1>3. LastEnd(t) = LastEnd(ss)
  BY <1>1, <1>2, EmptySeq DEF LastEnd
<1>4. Chain(ss) => Chain(t)
  <2> SUFFICES ASSUME Chain(ss), NEW k \in 1..Len(ss)
               PROVE  /\ t[k].shard_idx = k - 1
                      /\ t[k].row_start = IF k = 1 THEN 0 ELSE t[k - 1].row_end
                      /\ t[k].row_start < t[k].row_end
                      /\ k <= t[k].row_end
    BY <1>1 DEF Chain
  <2>1. Len(ss) \in Nat /\ (k # 1 => k - 1 \in 1..Len(ss))
    BY LenProperties
  <2> QED
    BY <1>2, <2>1 DEF Chain
<1> QED
  BY <1>1, <1>3, <1>4 DEF t

(* First finds the least element, when there is one.                       *)
LEMMA FirstIsLeast ==
  ASSUME NEW ks \in SUBSET Nat, NEW none
  PROVE  /\ ks = {} => First(ks, none) = none
         /\ ks # {} => /\ First(ks, none) \in ks
                       /\ \A j \in ks : First(ks, none) <= j
BY Least DEF First

(* What a resumed writer keeps is a prefix of completed_shards: each shard *)
(* in it is pushed or has a file on this node, the next one neither.       *)
LEMMA KeptPrefix ==
  ASSUME TypeOK
  PROVE  \E n \in 0..Len(shards) : /\ KeptShards = SubSeq(shards, 1, n)
                                   /\ \A k \in 1..n : ~MissingLocally(shards[k])
                                   /\ n < Len(shards) => MissingLocally(shards[n + 1])
<1> DEFINE gone == {k \in 1..Len(shards) : MissingLocally(shards[k])}
           n == First(gone, Len(shards) + 1) - 1
<1>1. Len(shards) \in Nat
  BY LenProperties DEF TypeOK, ProgressType, shards
<1>2. gone \in SUBSET Nat
  BY <1>1
<1>3. CASE gone = {}
  <2>1. KeptShards = SubSeq(shards, 1, n)
    BY DEF KeptShards
  <2>2. n = Len(shards)
    <3> HIDE DEF gone
    <3> QED
      BY <1>1, <1>2, <1>3, FirstIsLeast
  <2>3. \A k \in 1..n : ~MissingLocally(shards[k])
    BY <1>3, <2>2
  <2> HIDE DEF n
  <2> QED
    BY <1>1, <2>1, <2>2, <2>3
<1>4. CASE gone # {}
  <2> HIDE DEF gone
  <2>1. First(gone, Len(shards) + 1) \in gone /\ \A j \in gone : First(gone, Len(shards) + 1) <= j
    BY <1>2, <1>4, FirstIsLeast
  <2>2. n \in 0..Len(shards)
    BY <1>1, <2>1 DEF gone
  <2>3. \A k \in 1..n : k \in 1..Len(shards) /\ k \notin gone
    BY <1>1, <2>1, <2>2 DEF gone
  <2>4. n + 1 \in gone
    BY <1>1, <2>1 DEF gone
  <2> QED
    BY <2>2, <2>3, <2>4 DEF gone, KeptShards
<1> QED
  BY <1>3, <1>4

LEMMA ShardsType ==
  ASSUME TypeOK
  PROVE  shards \in Seq(ShardEntry) /\ Len(shards) \in Nat
BY LenProperties DEF TypeOK, ProgressType, shards

LEMMA ConfigInt ==
  ASSUME TypeOK
  PROVE  /\ cfg \in ConfigType
         /\ cfg.n_rows \in 1..MaxRows /\ cfg.shard_rows \in Nat \ {0}
         /\ cfg.flush_every \in Nat \ {0} /\ cfg.max_in_flight \in Nat \ {0}
         /\ MaxRows \in Nat \ {0}
         /\ ProgressRows \in Row
<1>1. cfg \in ConfigType /\ MaxRows \in Nat \ {0}
  BY WriterAssumption DEF TypeOK
<1>2. /\ cfg.n_rows \in 1..MaxRows /\ cfg.shard_rows \in Nat \ {0}
      /\ cfg.flush_every \in Nat \ {0} /\ cfg.max_in_flight \in Nat \ {0}
  BY <1>1 DEF ConfigType
<1>3. ProgressRows \in Row
  BY <1>1, <1>2 DEF ProgressRows, TypeOK, ProgressType, Row
<1> QED
  BY <1>1, <1>2, <1>3

(* A shard that starts inside the layer ends inside it, and is not empty.  *)
LEMMA CapacityType ==
  ASSUME TypeOK, NEW start \in Row
  PROVE  /\ ShardCapacityEnd(start) \in Row
         /\ ShardCapacityEnd(start) <= cfg.n_rows
         /\ start < cfg.n_rows => start < ShardCapacityEnd(start)
BY ConfigInt DEF ShardCapacityEnd, Row

LEMMA SaveProgressType ==
  ASSUME TypeOK, NEW ss \in Seq(ShardEntry), NEW row \in Row, SaveProgress(ss, row)
  PROVE  /\ progress' \in ProgressType
         /\ shards' = ss /\ progress'.next_row = row
BY ConfigInt DEF SaveProgress, ProgressType, shards

LEMMA LocalType ==
  ASSUME TypeOK, NEW n \in Node, NEW i, NEW f, i \in Idx => f \in File
  PROVE  [local EXCEPT ![n][i] = f] \in [Node -> [Idx -> File]]
BY DEF TypeOK

LEMMA UptoType ==
  ASSUME TypeOK, NEW n \in Node, NEW i, NEW row, i \in Idx => row \in Row
  PROVE  [local EXCEPT ![n][i].upto = row] \in [Node -> [Idx -> File]]
<1> DEFINE f == [local[n][i] EXCEPT !.upto = row]
<1>1. i \in Idx => f \in File
  <2> SUFFICES ASSUME i \in Idx PROVE f \in File
    OBVIOUS
  <2>1. local[n][i] \in File
    BY DEF TypeOK
  <2> QED
    BY <2>1 DEF File
<1>2. [local EXCEPT ![n][i].upto = row] = [local EXCEPT ![n][i] = f]
  OBVIOUS
<1>3. [local EXCEPT ![n][i] = f] \in [Node -> [Idx -> File]]
  <2> HIDE DEF f
  <2> QED
    BY <1>1 DEF TypeOK
<1> QED
  BY <1>2, <1>3
-----------------------------------------------------------------------------
(* The inductive invariant.                                                *)

(* What the running job's fields say about completed_shards.               *)
AtEnd == pc \in {"discard", "ready", "write", "full", "defer", "drain"}
NothingOpen == pc \in {"down", "load", "discard", "defer", "drain", "closed"} => ~cur_h5

Cursor ==
  /\ NothingOpen
  /\ AtEnd => /\ cur_shard_idx = Len(shards)
              /\ cur_shard_start = LastEnd(shards)
              /\ ~cur_h5 => next_row = LastEnd(shards)
              /\ cur_h5 => next_row >= cur_shard_start
  /\ pc \in {"ready", "write"} /\ cur_h5 => next_row < ShardCapacityEnd(cur_shard_start)
  /\ pc = "full" => cur_h5 /\ next_row > cur_shard_start
  /\ pc = "submit" => /\ cur_h5 /\ Len(shards) > 0
                      /\ cur_shard_idx = Len(shards) - 1
                      /\ next_row = LastEnd(shards)
  /\ pc = "defer" => deferred >= 1
  /\ pc \in {"write", "full", "submit"} => next_row <= call_end /\ call_end <= cfg.n_rows

Recorded == Chain(shards) /\ progress.next_row = LastEnd(shards)

Inv == TypeOK /\ Recorded /\ Cursor

LEMMA InvInit == Init => Inv
<1> SUFFICES ASSUME Init PROVE Inv
  OBVIOUS
<1>1. shards = <<>> /\ LastEnd(shards) = 0 /\ Len(shards) = 0
  BY DEF Init, shards, LastEnd
<1>2. 0 \in Row /\ NoFile \in File
  BY WriterAssumption DEF Row, File, NoFile
<1>3. progress \in ProgressType /\ manifest \in ProgressType
  BY <1>2 DEF Init, ProgressType
<1>4. TypeOK
  <2>1. runs \in 0..MaxRuns /\ <<>> \in Seq(UploadType)
    BY WriterAssumption, EmptySeq DEF Init
  <2> QED
    BY <1>2, <1>3, <2>1 DEF Init, TypeOK
<1>5. Recorded
  BY <1>1 DEF Init, Recorded, Chain
<1>6. Cursor
  BY DEF Init, Cursor, NothingOpen, AtEnd
<1> QED
  BY <1>4, <1>5, <1>6 DEF Inv

LEMMA SubmitType ==
  ASSUME TypeOK, NEW s \in ShardEntry
  PROVE  Append(pending_uploads, Upload(s)) \in Seq(UploadType)
<1>1. Upload(s) \in UploadType
  BY DEF Upload, UploadType, ShardEntry
<1> QED
  BY <1>1, AppendProperties DEF TypeOK

LEMMA StateType ==
  ASSUME TypeOK, NEW k \in 1..Len(pending_uploads),
         NEW st \in {"queued", "copied", "done", "failed"}
  PROVE  [pending_uploads EXCEPT ![k].state = st] \in Seq(UploadType)
<1> DEFINE up == [pending_uploads[k] EXCEPT !.state = st]
<1>1. pending_uploads \in Seq(UploadType) /\ pending_uploads[k] \in UploadType
  BY ElementOfSeq DEF TypeOK
<1>2. up \in UploadType
  BY <1>1 DEF UploadType
<1>3. [pending_uploads EXCEPT ![k].state = st] = [pending_uploads EXCEPT ![k] = up]
  OBVIOUS
<1> HIDE DEF up
<1> QED
  BY <1>1, <1>2, <1>3, ExceptSeq

(* Every step keeps the types.                                             *)
LEMMA TypeStep ==
  ASSUME Inv, [Next]_vars
  PROVE  TypeOK'
<1> USE DEF disk, shard, job
<1>1. TypeOK /\ Recorded /\ Cursor
  BY DEF Inv
<1>2. /\ shards \in Seq(ShardEntry) /\ Len(shards) \in Nat /\ LastEnd(shards) \in Row
      /\ MaxRows \in Nat
  BY <1>1, ShardsType, LastEndType, WriterAssumption
<1>3. ASSUME NEW n \in Node, NEW c \in Configs, Start(n, c) PROVE TypeOK'
  BY <1>1, <1>3, WriterAssumption DEF Start, TypeOK
<1>4. CASE DropShardsMissingLocally
  <2>1. KeptShards \in Seq(ShardEntry) /\ Len(KeptShards) \in 0..Len(shards)
    BY <1>1, <1>2, KeptPrefix, PrefixChain
  <2>2. LastEnd(KeptShards) \in Row
    BY <2>1, LastEndType
  <2>3. progress' \in ProgressType
    <3>1. CASE KeptShards = shards
      BY <1>1, <1>4, <3>1 DEF DropShardsMissingLocally, TypeOK
    <3>2. CASE KeptShards # shards
      BY <1>1, <1>4, <3>2, <2>1, <2>2, SaveProgressType DEF DropShardsMissingLocally
    <3> QED
      BY <3>1, <3>2
  <2>4. Len(KeptShards) \in Row
    <3>1. Len(shards) = 0 \/ (Len(shards) <= LastEnd(shards))
      BY <1>1, <1>2, EmptySeq DEF Recorded, Chain, LastEnd
    <3> QED
      BY <1>2, <2>1, <3>1 DEF Row
  <2>5. 0 \in Nat
    OBVIOUS
  <2> QED
    BY <1>1, <1>4, <2>2, <2>3, <2>4 DEF DropShardsMissingLocally, TypeOK
<1>5. CASE DiscardUnfinishedShard
  <2>1. NoFile \in File
    BY <1>2 DEF NoFile, File, Row
  <2>2. PICK i : local' = [local EXCEPT ![node][i] = NoFile]
    BY <1>5 DEF DiscardUnfinishedShard
  <2>3. local' \in [Node -> [Idx -> File]]
    BY <1>1, <2>1, <2>2 DEF TypeOK
  <2> QED
    BY <1>1, <1>5, <2>3 DEF DiscardUnfinishedShard, TypeOK
<1>6. CASE Constructed
  BY <1>1, <1>6 DEF Constructed, TypeOK
<1>7. ASSUME NEW row_end \in (next_row + 1)..(next_row + MaxBlock), WriteRows(row_end)
      PROVE  TypeOK'
  <2>1. row_end \in Row
    BY <1>1, <1>7, ConfigInt, WriterAssumption DEF WriteRows, TypeOK, Row
  <2> QED
    BY <1>1, <1>7, <2>1 DEF WriteRows, TypeOK
<1>8. CASE OpenShard
  <2> DEFINE f == [lo |-> cur_shard_start, hi |-> ShardCapacityEnd(cur_shard_start),
                   upto |-> cur_shard_start]
  <2>1. f \in File
    BY <1>1, CapacityType DEF File, TypeOK
  <2>2. local' = [local EXCEPT ![node][cur_shard_idx] = f]
    BY <1>8 DEF OpenShard
  <2>3. local' \in [Node -> [Idx -> File]]
    <3> HIDE DEF f
    <3> QED
      BY <1>1, <2>1, <2>2 DEF TypeOK
  <2> QED
    BY <1>1, <1>8, <2>3 DEF OpenShard, TypeOK
<1>9. CASE WriteChunk
  <2> DEFINE capacity_end == ShardCapacityEnd(cur_shard_start)
             chunk_end == IF call_end <= capacity_end THEN call_end ELSE capacity_end
  <2>1. chunk_end \in Row
    BY <1>1, CapacityType DEF TypeOK
  <2>2. next_row' = chunk_end
    BY <1>9 DEF WriteChunk
  <2>3. local' = local \/ local' = [local EXCEPT ![node][cur_shard_idx].upto = chunk_end]
    BY <1>9 DEF WriteChunk
  <2>4. local' \in [Node -> [Idx -> File]]
    <3>1. node \in Node /\ local \in [Node -> [Idx -> File]]
      BY <1>1 DEF TypeOK
    <3> HIDE DEF chunk_end
    <3> QED
      BY <1>1, <2>1, <2>3, <3>1, UptoType
  <2>5. blocks_since_flush' \in Nat /\ pc' \in {"full", "write"}
    BY <1>1, <1>9 DEF WriteChunk, TypeOK
  <2> HIDE DEF chunk_end
  <2> QED
    BY <1>1, <1>9, <2>1, <2>2, <2>4, <2>5 DEF WriteChunk, TypeOK
<1>10. CASE WriteReturns
  BY <1>1, <1>10 DEF WriteReturns, TypeOK
<1>11. CASE RecordShard
  <2>1. /\ node \in Node /\ local \in [Node -> [Idx -> File]]
        /\ next_row \in Row /\ cur_shard_idx \in Row /\ cur_shard_start \in Row
    BY <1>1 DEF TypeOK
  <2>2. Entry \in ShardEntry /\ cur_shard_idx + 1 \in Row
    <3>1. cur_shard_idx = Len(shards) /\ cur_shard_start = LastEnd(shards)
          /\ cur_shard_start < next_row
      BY <1>1, <1>11, <2>1 DEF RecordShard, Cursor, AtEnd, Row
    <3>2. Len(shards) <= LastEnd(shards)
      BY <1>1, <1>2, EmptySeq DEF Recorded, Chain, LastEnd
    <3>3. cur_shard_idx \in Idx /\ cur_shard_idx + 1 \in Row
      BY <1>2, <2>1, <3>1, <3>2 DEF Idx, Row
    <3> QED
      BY <2>1, <3>3 DEF Entry, ShardEntry
  <2>3. Append(shards, Entry) \in Seq(ShardEntry)
    BY <1>2, <2>2, AppendChain
  <2>4. progress' \in ProgressType
    BY <1>1, <1>11, <2>1, <2>3, SaveProgressType DEF RecordShard
  <2>5. local' \in [Node -> [Idx -> File]]
    <3>1. local' = [local EXCEPT ![node][cur_shard_idx] =
                      [@ EXCEPT !.hi = next_row, !.upto = next_row]]
      BY <1>11, <2>1 DEF RecordShard
    <3> DEFINE f == [local[node][cur_shard_idx] EXCEPT !.hi = next_row, !.upto = next_row]
    <3>2. cur_shard_idx \in Idx => f \in File
      <4> SUFFICES ASSUME cur_shard_idx \in Idx PROVE f \in File
        OBVIOUS
      <4>1. local[node][cur_shard_idx] \in File
        BY <2>1
      <4> QED
        BY <2>1, <4>1 DEF File
    <3>3. local' = [local EXCEPT ![node][cur_shard_idx] = f]
      BY <3>1
    <3> HIDE DEF f
    <3> QED
      BY <2>1, <3>2, <3>3
  <2> QED
    BY <1>1, <1>11, <2>2, <2>4, <2>5 DEF RecordShard, Rollover, TypeOK
<1>12. CASE WaitOldestPendingUpload
  <2>1. pending_uploads' \in Seq(UploadType)
    BY <1>1, <1>12, HeadTailProperties DEF WaitOldestPendingUpload, TypeOK
  <2>2. progress' \in ProgressType
    <3> DEFINE up == Head(pending_uploads)
    <3>1. [shards EXCEPT ![up.shard_idx + 1].pushed = TRUE] \in Seq(ShardEntry)
      <4> HIDE DEF up
      <4> QED
        BY <1>2, PushedChain
    <3>2. next_row \in Row
      BY <1>1 DEF TypeOK
    <3> QED
      BY <1>1, <1>12, <3>1, <3>2, SaveProgressType DEF WaitOldestPendingUpload, TypeOK
  <2>3. pc' \in {pc, "exiting"}
    BY <1>12 DEF WaitOldestPendingUpload
  <2> QED
    BY <1>1, <1>12, <2>1, <2>2, <2>3 DEF WaitOldestPendingUpload, TypeOK
<1>13. CASE SubmitUpload
  <2>1. cur_shard_idx + 1 \in 1..Len(shards) /\ cur_shard_idx + 1 \in Row
    <3>1. Len(shards) <= LastEnd(shards)
      BY <1>1, <1>2, EmptySeq DEF Recorded, Chain, LastEnd
    <3> QED
      BY <1>1, <1>2, <1>13, <3>1 DEF SubmitUpload, Cursor, Row
  <2>2. shards[cur_shard_idx + 1] \in ShardEntry
    BY <1>2, <2>1, ElementOfSeq
  <2>3. pending_uploads' \in Seq(UploadType)
    BY <1>1, <1>13, <2>2, SubmitType DEF SubmitUpload
  <2> QED
    BY <1>1, <1>13, <2>1, <2>3 DEF SubmitUpload, Rollover, TypeOK
<1>14. ASSUME NEW k \in 1..Len(pending_uploads), UploadCopy(k) PROVE TypeOK'
  <2>1. pending_uploads[k].shard_idx \in Idx
    <3>1. pending_uploads[k] \in UploadType
      BY <1>1, ElementOfSeq DEF TypeOK
    <3> QED
      BY <3>1 DEF UploadType
  <2>2. staged' \in [Idx -> File]
    BY <1>1, <1>14, <2>1 DEF UploadCopy, TypeOK
  <2>3. pending_uploads' \in Seq(UploadType)
    BY <1>1, <1>14, StateType DEF UploadCopy
  <2> QED
    BY <1>1, <1>14, <2>2, <2>3 DEF UploadCopy, TypeOK
<1>15. ASSUME NEW k \in 1..Len(pending_uploads), UploadRemove(k) PROVE TypeOK'
  <2>1. NoFile \in File
    BY <1>2 DEF NoFile, File, Row
  <2>2. local' \in [Node -> [Idx -> File]]
    BY <1>1, <1>15, <2>1 DEF UploadRemove, TypeOK
  <2>3. pending_uploads' \in Seq(UploadType)
    BY <1>1, <1>15, StateType DEF UploadRemove
  <2> QED
    BY <1>1, <1>15, <2>2, <2>3 DEF UploadRemove, TypeOK
<1>16. ASSUME NEW k \in 1..Len(pending_uploads), UploadFails(k) PROVE TypeOK'
  <2>1. pending_uploads' \in Seq(UploadType)
    BY <1>1, <1>16, StateType DEF UploadFails
  <2> QED
    BY <1>1, <1>16, <2>1 DEF UploadFails, TypeOK
<1>17. CASE Close \/ ClosePartialShard \/ DeferredSubmitted \/ CallerRaises
  BY <1>1, <1>17 DEF Close, ClosePartialShard, DeferredSubmitted, CallerRaises, TypeOK
<1>18. CASE PushDeferredShard
  <2>1. deferred \in Nat
    BY <1>1 DEF TypeOK
  <2>2. pending_uploads' \in Seq(UploadType)
    <3>1. CASE pending_uploads' = pending_uploads
      BY <1>1, <3>1 DEF TypeOK
    <3>2. CASE pending_uploads' = Append(pending_uploads, Upload(shards[deferred]))
               /\ deferred \in 1..Len(shards)
      BY <1>1, <1>2, <3>2, ElementOfSeq, SubmitType
    <3> QED
      BY <1>1, <1>2, <1>18, <2>1, <3>1, <3>2 DEF PushDeferredShard, Cursor
  <2> QED
    BY <1>1, <1>18, <2>1, <2>2 DEF PushDeferredShard, TypeOK
<1>19. CASE WriteManifest
  <2>1. manifest' \in ProgressType
    <3>1. ProgressRows \in Row /\ next_row \in Row
      BY <1>1, ConfigInt DEF TypeOK
    <3>2. manifest' = [exists |-> TRUE, n_rows |-> ProgressRows,
                       completed_shards |-> shards, next_row |-> next_row]
      BY <1>19 DEF WriteManifest
    <3> QED
      BY <1>2, <3>1, <3>2 DEF ProgressType
  <2> QED
    BY <1>1, <1>19, <2>1 DEF WriteManifest, TypeOK
<1>20. NoJob => /\ pc' = "down" /\ pending_uploads' \in Seq(UploadType)
                /\ next_row' \in Row /\ cur_shard_idx' \in Row /\ cur_shard_start' \in Row
                /\ cur_h5' \in BOOLEAN /\ blocks_since_flush' \in Nat
                /\ call_end' \in Row /\ deferred' \in Nat
  <2>1. <<>> \in Seq(UploadType)
    BY EmptySeq
  <2> SUFFICES ASSUME NoJob
               PROVE  /\ pc' = "down" /\ pending_uploads' \in Seq(UploadType)
                      /\ next_row' \in Row /\ cur_shard_idx' \in Row
                      /\ cur_shard_start' \in Row
                      /\ cur_h5' \in BOOLEAN /\ blocks_since_flush' \in Nat
                      /\ call_end' \in Row /\ deferred' \in Nat
    OBVIOUS
  <2> QED
    <3>1. 0 \in Row /\ 0 \in Nat
      BY <1>2 DEF Row
    <3> QED
      BY <2>1, <3>1 DEF NoJob
<1>21. CASE Exit
  <2>1. local' \in [Node -> [Idx -> File]]
    <3>1. node \in Node /\ local \in [Node -> [Idx -> File]] /\ next_row \in Row
      BY <1>1 DEF TypeOK
    <3>2. \/ local' = local
          \/ local' = [local EXCEPT ![node][cur_shard_idx].upto = next_row]
      BY <1>21 DEF Exit
    <3>3. cur_shard_idx \in Idx => next_row \in Row
      BY <3>1
    <3>4. [local EXCEPT ![node][cur_shard_idx].upto = next_row] \in [Node -> [Idx -> File]]
      BY <1>1, <3>1, <3>3, UptoType
    <3> QED
      BY <3>1, <3>2, <3>4
  <2> QED
    BY <1>1, <1>20, <1>21, <2>1 DEF Exit, TypeOK
<1>22. CASE Crash
  <2>1. local' \in [Node -> [Idx -> File]]
    <3>1. node \in Node /\ local \in [Node -> [Idx -> File]] /\ next_row \in Row
      BY <1>1 DEF TypeOK
    <3>2. CASE cur_h5
      <4>1. PICK row \in local[node][cur_shard_idx].upto..next_row :
                   local' = [local EXCEPT ![node][cur_shard_idx].upto = row]
        BY <1>22, <3>2 DEF Crash
      <4>2. cur_shard_idx \in Idx => row \in Row
        <5> SUFFICES ASSUME cur_shard_idx \in Idx PROVE row \in Row
          OBVIOUS
        <5>1. local[node][cur_shard_idx] \in File
          BY <3>1
        <5>2. local[node][cur_shard_idx].upto \in Row
          BY <5>1 DEF File
        <5> QED
          BY <1>2, <3>1, <5>2 DEF Row
      <4> QED
        BY <1>1, <3>1, <4>1, <4>2, UptoType
    <3>3. CASE ~cur_h5
      BY <1>22, <3>1, <3>3 DEF Crash
    <3> QED
      BY <3>2, <3>3
  <2> QED
    BY <1>1, <1>20, <1>22, <2>1 DEF Crash, TypeOK
<1>23. ASSUME NEW n \in Node, CleanScratch(n) PROVE TypeOK'
  <2>1. NoFile \in File
    BY <1>2 DEF NoFile, File, Row
  <2>2. PICK gone : local' = [local EXCEPT ![n] =
                                [i \in Idx |-> IF i \in gone THEN NoFile ELSE @[i]]]
    BY <1>23 DEF CleanScratch
  <2>3. local' \in [Node -> [Idx -> File]]
    BY <1>1, <2>1, <2>2 DEF TypeOK
  <2> QED
    BY <1>1, <1>23, <2>3 DEF CleanScratch, TypeOK
<1>24. ASSUME NEW n \in Node, ReclaimPushed(n) PROVE TypeOK'
  <2>1. NoFile \in File
    BY <1>2 DEF NoFile, File, Row
  <2>2. PICK i \in Idx : local' = [local EXCEPT ![n][i] = NoFile]
    BY <1>24 DEF ReclaimPushed, Reclaimable
  <2>3. local' \in [Node -> [Idx -> File]]
    BY <1>1, <2>1, <2>2 DEF TypeOK
  <2> QED
    BY <1>1, <1>24, <2>3 DEF ReclaimPushed, TypeOK
<1>25. CASE UNCHANGED vars
  BY <1>1, <1>25 DEF vars, TypeOK
<1> QED
  BY <1>3, <1>4, <1>5, <1>6, <1>7, <1>8, <1>9, <1>10, <1>11, <1>12, <1>13, <1>14, <1>15,
     <1>16, <1>17, <1>18, <1>19, <1>21, <1>22, <1>23, <1>24, <1>25
  DEF Next, WriterStep, CallerStep, PoolStep, Environment

(* Every step keeps the rows recorded and the job's position consistent.   *)
LEMMA CursorStep ==
  ASSUME Inv, [Next]_vars
  PROVE  (Recorded /\ Cursor)'
<1> USE DEF disk, shard, job
<1>1. TypeOK /\ Recorded /\ Cursor
  BY DEF Inv
<1>2. /\ shards \in Seq(ShardEntry) /\ Len(shards) \in Nat /\ LastEnd(shards) \in Row
      /\ MaxRows \in Nat
      /\ next_row \in Row /\ cur_shard_start \in Row /\ cur_shard_idx \in Row
      /\ call_end \in Row /\ cfg.n_rows \in Row
  BY <1>1, ShardsType, LastEndType, ConfigInt DEF TypeOK, Row
<1>3. ASSUME UNCHANGED progress PROVE Recorded' /\ shards' = shards
  BY <1>1, <1>3 DEF Recorded, Chain, shards, LastEnd
<1>4. ASSUME UNCHANGED cfg PROVE \A r : ShardCapacityEnd(r)' = ShardCapacityEnd(r)
  BY <1>4 DEF ShardCapacityEnd
<1>5. ASSUME NEW n \in Node, NEW c \in Configs, Start(n, c) PROVE (Recorded /\ Cursor)'
  BY <1>1, <1>3, <1>5 DEF Start, Cursor, NothingOpen, AtEnd
<1>6. CASE DropShardsMissingLocally
  <2>1. KeptShards \in Seq(ShardEntry) /\ Chain(KeptShards) /\ LastEnd(KeptShards) \in Row
    BY <1>1, <1>2, KeptPrefix, PrefixChain, LastEndType DEF Recorded
  <2>2. shards' = KeptShards /\ progress'.next_row = LastEnd(KeptShards)
    <3>1. CASE KeptShards = shards
      BY <1>1, <1>6, <3>1 DEF DropShardsMissingLocally, shards, Recorded
    <3>2. CASE KeptShards # shards
      BY <1>1, <1>6, <2>1, <3>2, SaveProgressType DEF DropShardsMissingLocally
    <3> QED
      BY <3>1, <3>2
  <2>3. Recorded'
    BY <2>1, <2>2 DEF Recorded, Chain, LastEnd
  <2> QED
    BY <1>6, <2>2, <2>3 DEF DropShardsMissingLocally, Cursor, NothingOpen, AtEnd, LastEnd
<1>7. CASE DiscardUnfinishedShard \/ Constructed
  BY <1>1, <1>3, <1>7 DEF DiscardUnfinishedShard, Constructed, Cursor, NothingOpen, AtEnd, LastEnd
<1>8. ASSUME NEW row_end \in (next_row + 1)..(next_row + MaxBlock), WriteRows(row_end)
      PROVE  (Recorded /\ Cursor)'
  BY <1>1, <1>2, <1>3, <1>4, <1>8 DEF WriteRows, Cursor, NothingOpen, AtEnd, LastEnd, Row
<1>9. CASE OpenShard
  <2>1. next_row < ShardCapacityEnd(cur_shard_start)
    BY <1>1, <1>2, <1>9, CapacityType DEF OpenShard, Cursor, AtEnd, Row
  <2> QED
    BY <1>1, <1>2, <1>3, <1>4, <1>9, <2>1
    DEF OpenShard, Cursor, NothingOpen, AtEnd, LastEnd, Row
<1>10. CASE WriteChunk
  <2>1. next_row < call_end /\ next_row < ShardCapacityEnd(cur_shard_start)
        /\ cur_shard_start <= next_row
    BY <1>1, <1>2, <1>10 DEF WriteChunk, Cursor, AtEnd
  <2>2. ShardCapacityEnd(cur_shard_start) \in Row
    BY <1>1, <1>2, CapacityType
  <2>3. /\ next_row < next_row' /\ next_row' <= call_end
        /\ next_row' <= ShardCapacityEnd(cur_shard_start)
        /\ pc' = IF next_row' = ShardCapacityEnd(cur_shard_start) THEN "full" ELSE "write"
        /\ next_row' \in Row
    BY <1>2, <1>10, <2>1, <2>2 DEF WriteChunk, Row
  <2> QED
    BY <1>1, <1>2, <1>3, <1>4, <1>10, <2>1, <2>2, <2>3
    DEF WriteChunk, Cursor, NothingOpen, AtEnd, LastEnd, Row
<1>11. CASE WriteReturns
  BY <1>1, <1>3, <1>4, <1>11 DEF WriteReturns, Cursor, NothingOpen, AtEnd, LastEnd
<1>12. CASE RecordShard
  <2>1. cur_shard_idx = Len(shards) /\ cur_shard_start = LastEnd(shards)
        /\ cur_shard_start < next_row /\ next_row <= call_end /\ call_end <= cfg.n_rows
    BY <1>1, <1>12 DEF RecordShard, Cursor, AtEnd
  <2>2. Len(shards) <= LastEnd(shards)
    BY <1>1, <1>2, EmptySeq DEF Recorded, Chain, LastEnd
  <2>3. Entry \in ShardEntry
    BY <1>2, <2>1, <2>2 DEF Entry, ShardEntry, Idx, Row
  <2>4. /\ Entry.shard_idx = Len(shards) /\ Entry.row_start = LastEnd(shards)
        /\ Entry.row_end = next_row
    BY <2>1 DEF Entry
  <2> DEFINE ss == Append(shards, Entry)
  <2>5. /\ ss \in Seq(ShardEntry) /\ Len(ss) = Len(shards) + 1
        /\ LastEnd(ss) = next_row /\ Chain(ss)
    BY <1>1, <1>2, <2>1, <2>3, <2>4, AppendChain DEF Recorded
  <2>6. SaveProgress(ss, next_row)
    BY <1>12 DEF RecordShard
  <2> HIDE DEF ss
  <2>7. shards' = ss /\ progress'.next_row = next_row
    BY <1>1, <1>2, <2>5, <2>6, SaveProgressType
  <2>8. Recorded'
    BY <2>5, <2>7 DEF Recorded, Chain, LastEnd
  <2>9. LastEnd(shards)' = next_row /\ Len(shards') = Len(shards) + 1
    BY <2>5, <2>7 DEF LastEnd
  <2>10. /\ pc = "full" /\ cur_h5
         /\ next_row' = next_row /\ call_end' = call_end /\ cfg' = cfg
    BY <1>1, <1>12 DEF RecordShard, Rollover, Cursor
  <2>11. CASE pc' = "write" /\ Rollover
    BY <1>2, <2>1, <2>8, <2>9, <2>10, <2>11 DEF Rollover, Cursor, NothingOpen, AtEnd
  <2>12. CASE pc' = "submit" /\ UNCHANGED shard
    BY <1>2, <2>1, <2>8, <2>9, <2>10, <2>12 DEF Cursor, NothingOpen, AtEnd
  <2> QED
    BY <1>12, <2>11, <2>12 DEF RecordShard
<1>13. CASE WaitOldestPendingUpload
  <2> DEFINE j == Head(pending_uploads).shard_idx + 1
             ss == [shards EXCEPT ![j].pushed = TRUE]
  <2>1. /\ ss \in Seq(ShardEntry) /\ Len(ss) = Len(shards)
        /\ LastEnd(ss) = LastEnd(shards) /\ Chain(ss)
    <3> HIDE DEF j
    <3> QED
      BY <1>1, <1>2, PushedChain DEF Recorded
  <2>2. next_row = LastEnd(shards)
    BY <1>1, <1>13 DEF WaitOldestPendingUpload, Cursor, NothingOpen, AtEnd
  <2>3. \/ progress' = progress /\ pc' = "exiting"
        \/ SaveProgress(ss, next_row) /\ pc' = pc
    BY <1>13 DEF WaitOldestPendingUpload
  <2> HIDE DEF ss
  <2>4. /\ Recorded' /\ Len(shards') = Len(shards)
        /\ LastEnd(shards)' = LastEnd(shards)
    <3>1. CASE progress' = progress
      BY <1>3, <3>1 DEF LastEnd
    <3>2. CASE SaveProgress(ss, next_row)
      <4>1. shards' = ss /\ progress'.next_row = next_row
        BY <1>1, <1>2, <2>1, <3>2, SaveProgressType
      <4> QED
        BY <2>1, <2>2, <4>1 DEF Recorded, Chain, LastEnd
    <3> QED
      BY <2>3, <3>1, <3>2
  <2> QED
    BY <1>1, <1>4, <1>13, <2>3, <2>4
    DEF WaitOldestPendingUpload, Cursor, NothingOpen, AtEnd
<1>14. CASE SubmitUpload
  BY <1>1, <1>2, <1>3, <1>14
  DEF SubmitUpload, Rollover, Cursor, NothingOpen, AtEnd, LastEnd, Row
<1>15. ASSUME NEW k \in 1..Len(pending_uploads),
              UploadCopy(k) \/ UploadRemove(k) \/ UploadFails(k)
       PROVE  (Recorded /\ Cursor)'
  BY <1>1, <1>3, <1>4, <1>15
  DEF UploadCopy, UploadRemove, UploadFails, Cursor, NothingOpen, AtEnd, LastEnd
<1>16. CASE Close \/ ClosePartialShard \/ CallerRaises
  BY <1>1, <1>3, <1>16
  DEF Close, ClosePartialShard, CallerRaises, Cursor, NothingOpen, AtEnd, LastEnd
<1>17. CASE PushDeferredShard \/ DeferredSubmitted
  <2>1. deferred \in Nat
    BY <1>1 DEF TypeOK
  <2> QED
    BY <1>1, <1>3, <1>17, <2>1
    DEF PushDeferredShard, DeferredSubmitted, Cursor, NothingOpen, AtEnd, LastEnd
<1>18. CASE WriteManifest
  BY <1>1, <1>3, <1>18 DEF WriteManifest, Cursor, NothingOpen, AtEnd
<1>19. CASE Exit \/ Crash
  BY <1>3, <1>19 DEF Exit, Crash, NoJob, Cursor, NothingOpen, AtEnd
<1>20. ASSUME NEW n \in Node, CleanScratch(n) \/ ReclaimPushed(n)
       PROVE  (Recorded /\ Cursor)'
  BY <1>1, <1>3, <1>20 DEF CleanScratch, ReclaimPushed, Cursor, NothingOpen, AtEnd
<1>21. CASE UNCHANGED vars
  BY <1>1, <1>3, <1>4, <1>21 DEF vars, Cursor, NothingOpen, AtEnd, LastEnd
<1> QED
  BY <1>5, <1>6, <1>7, <1>8, <1>9, <1>10, <1>11, <1>12, <1>13, <1>14, <1>15, <1>16, <1>17,
     <1>18, <1>19, <1>20, <1>21
  DEF Next, WriterStep, CallerStep, PoolStep, Environment

LEMMA Invariant == Spec => []Inv
<1>1. Inv /\ [Next]_vars => Inv'
  BY TypeStep, CursorStep DEF Inv
<1> QED
  BY <1>1, InvInit, PTL DEF Spec

(* The type invariant: progress.json, the manifest, the shard files and    *)
(* the running job's fields have the types of TypeOK; no write runs past   *)
(* the layer's rows.                                                       *)
THEOREM TypeCorrect == Spec => []TypeOK
BY Invariant, PTL DEF Inv

(* completed_shards is numbered 0, 1, 2, ... and covers rows               *)
(* 0..next_row-1 without gap or overlap, whichever nodes and parameters    *)
(* the runs use and wherever they are killed.                              *)
THEOREM ContiguousAlways == Spec => []Contiguous
<1>1. Inv => Contiguous
  BY DEF Inv, Recorded, Chain, Contiguous
<1> QED
  BY <1>1, Invariant, PTL

-----------------------------------------------------------------------------
(* The shard files, for a layer whose runs all share one scratch disk and  *)
(* for every configuration, also one that changes from run to run.  (With  *)
(* two nodes the first of the two theorems fails.)                         *)

OneNode == \A m, n \in Node : m = n

-----------------------------------------------------------------------------
(* The inductive invariant.                                                *)

(* Pending uploads are of different shards, in order.                      *)
Ordered ==
  \A j, k \in 1..Len(pending_uploads) :
    j < k => pending_uploads[j].shard_idx < pending_uploads[k].shard_idx

(* Where the rows of each pending upload's shard are.                      *)
Tracked ==
  \A k \in 1..Len(pending_uploads) :
    /\ pending_uploads[k].shard_idx < Len(shards)
    /\ ~shards[pending_uploads[k].shard_idx + 1].pushed
    /\ pending_uploads[k].state = "queued" =>
         Holds(local[node][pending_uploads[k].shard_idx],
               shards[pending_uploads[k].shard_idx + 1])
    /\ pending_uploads[k].state \in {"copied", "done"} =>
         Holds(staged[pending_uploads[k].shard_idx],
               shards[pending_uploads[k].shard_idx + 1])

IntactHere ==
  \A k \in 1..Len(shards) : local[node][k - 1] = NoFile \/ Holds(local[node][k - 1], shards[k])

PushedStaged == \A k \in 1..Len(shards) : shards[k].pushed => Holds(staged[k - 1], shards[k])

(* While a run is going on, only an upload takes a recorded shard away.    *)
NotGone ==
  pc \notin {"down", "load"} =>
    \A k \in 1..Len(shards) : ~shards[k].pushed /\ local[node][k - 1] = NoFile =>
      \E j \in 1..Len(pending_uploads) :
        pending_uploads[j].shard_idx = k - 1 /\ pending_uploads[j].state = "done"

(* The open file is the next shard's, or the last one's, just recorded,    *)
(* whose upload is not submitted yet.                                      *)
OpenIsNext ==
  /\ cur_shard_idx = Len(shards) /\ cur_shard_start = LastEnd(shards)
  /\ local[node][cur_shard_idx].lo = cur_shard_start
OpenIsLast ==
  /\ Len(shards) > 0 /\ cur_shard_idx = Len(shards) - 1
  /\ ~shards[Len(shards)].pushed /\ next_row = LastEnd(shards)
  /\ Holds(local[node][cur_shard_idx], shards[Len(shards)])
  /\ \A k \in 1..Len(pending_uploads) : pending_uploads[k].shard_idx < cur_shard_idx
OpenFile == cur_h5 => OpenIsNext \/ OpenIsLast

(* How far the submitted uploads have come at each point of the run.       *)
Submitted ==
  /\ Len(pending_uploads) <= cfg.max_in_flight
  /\ pc \in {"down", "load", "discard"} => pending_uploads = <<>>
  /\ pc \in {"ready", "write", "full"} /\ cfg.defer_push => pending_uploads = <<>>
  /\ pc = "submit" => ~cfg.defer_push
  /\ pc = "defer" =>
       \A k \in 1..Len(pending_uploads) : pending_uploads[k].shard_idx < deferred - 1

Files == IntactHere /\ PushedStaged /\ NotGone
Uploads == Ordered /\ Tracked /\ Submitted
UInv == Inv /\ Files /\ Uploads /\ OpenFile

-----------------------------------------------------------------------------
(* Facts about a state that satisfies Inv.                                 *)

LEMMA StateFacts ==
  ASSUME Inv
  PROVE  /\ TypeOK /\ Recorded /\ Cursor
         /\ shards \in Seq(ShardEntry) /\ Len(shards) \in Nat /\ LastEnd(shards) \in Row
         /\ Len(shards) <= LastEnd(shards)
         /\ \A k \in 1..Len(shards) : /\ shards[k] \in ShardEntry
                                      /\ shards[k].shard_idx = k - 1
                                      /\ k - 1 \in Idx
         /\ pending_uploads \in Seq(UploadType) /\ Len(pending_uploads) \in Nat
         /\ \A k \in 1..Len(pending_uploads) : /\ pending_uploads[k].shard_idx \in Idx
                                               /\ pending_uploads[k].shard_idx \in Nat
         /\ node \in Node /\ local \in [Node -> [Idx -> File]] /\ staged \in [Idx -> File]
         /\ next_row \in Row /\ cur_shard_start \in Row /\ cur_shard_idx \in Row
         /\ MaxRows \in Nat /\ Row = 0..MaxRows /\ Idx = 0..(MaxRows - 1)
         /\ cfg.max_in_flight \in Nat \ {0}
<1>1. TypeOK /\ Recorded /\ Cursor
  BY DEF Inv
<1>2. shards \in Seq(ShardEntry) /\ Len(shards) \in Nat /\ LastEnd(shards) \in Row
  BY <1>1, ShardsType, LastEndType
<1>3. Len(shards) <= LastEnd(shards)
  BY <1>1, <1>2, EmptySeq DEF Recorded, Chain, LastEnd
<1>4. MaxRows \in Nat /\ Row = 0..MaxRows /\ Idx = 0..(MaxRows - 1)
  BY WriterAssumption DEF Row, Idx
<1>5. \A k \in 1..Len(shards) : /\ shards[k] \in ShardEntry
                                /\ shards[k].shard_idx = k - 1
                                /\ k - 1 \in Idx
  BY <1>1, <1>2, <1>3, <1>4, ElementOfSeq DEF Recorded, Chain
<1>6. pending_uploads \in Seq(UploadType) /\ Len(pending_uploads) \in Nat
  BY <1>1, LenProperties DEF TypeOK
<1>7. ASSUME NEW k \in 1..Len(pending_uploads)
      PROVE  pending_uploads[k].shard_idx \in Idx /\ pending_uploads[k].shard_idx \in Nat
  <2>1. pending_uploads[k] \in UploadType
    BY <1>6, ElementOfSeq
  <2> QED
    BY <1>4, <2>1 DEF UploadType
<1>8. /\ node \in Node /\ local \in [Node -> [Idx -> File]] /\ staged \in [Idx -> File]
      /\ next_row \in Row /\ cur_shard_start \in Row /\ cur_shard_idx \in Row
  BY <1>1 DEF TypeOK
<1>9. cfg.max_in_flight \in Nat \ {0}
  BY <1>1, ConfigInt
<1> QED
  BY <1>1, <1>2, <1>3, <1>4, <1>5, <1>6, <1>7, <1>8, <1>9

(* A whole file is not a missing one, and holding a shard's rows does not  *)
(* depend on the shard being pushed.                                       *)
LEMMA HoldsFacts ==
  ASSUME NEW s \in ShardEntry, NEW f
  PROVE  /\ s.row_start < s.row_end /\ Holds(f, s) => f # NoFile
         /\ Holds(f, [s EXCEPT !.pushed = TRUE]) <=> Holds(f, s)
<1>1. s.row_start \in Int /\ s.row_end \in Int
  BY WriterAssumption DEF ShardEntry, Row
<1>2. s.row_start < s.row_end /\ Holds(f, s) => f # NoFile
  BY <1>1, WriterAssumption DEF Holds, NoFile, ShardEntry, Row
<1>3. Holds(f, [s EXCEPT !.pushed = TRUE]) <=> Holds(f, s)
  BY PushedEntry DEF Holds
<1> QED
  BY <1>2, <1>3

LEMMA FileFacts ==
  ASSUME NEW f \in File, NEW r \in Row
  PROVE  /\ [f EXCEPT !.hi = r, !.upto = r] = [lo |-> f.lo, hi |-> r, upto |-> r]
         /\ [f EXCEPT !.upto = r] = [lo |-> f.lo, hi |-> f.hi, upto |-> r]
<1> DEFINE g == [f EXCEPT !.hi = r, !.upto = r]
<1>1. g \in File /\ g.lo = f.lo /\ g.hi = r /\ g.upto = r
  BY DEF File
<1>2. g = [lo |-> f.lo, hi |-> r, upto |-> r]
  <2> HIDE DEF g
  <2> QED
    BY <1>1 DEF File
<1>3. [f EXCEPT !.upto = r] = [lo |-> f.lo, hi |-> f.hi, upto |-> r]
  BY DEF File
<1> QED
  BY <1>2, <1>3
-----------------------------------------------------------------------------
(* Steps, grouped by what they touch.                                      *)

(* Control only: nothing on disk, no upload and no open file changes.      *)
LEMMA ControlStep ==
  ASSUME UInv,
         \/ Constructed \/ (\E row_end \in (next_row + 1)..(next_row + MaxBlock) : WriteRows(row_end))
         \/ WriteReturns \/ Close \/ ClosePartialShard \/ DeferredSubmitted \/ WriteManifest
         \/ CallerRaises
  PROVE  (Files /\ Uploads /\ OpenFile)'
<1> USE DEF disk, shard, job
<1>1. /\ UNCHANGED <<progress, local, staged, node, cfg, shard, pending_uploads>>
      /\ pc \notin {"down", "load", "submit", "full"}
      /\ pc' \notin {"down", "load", "discard", "submit", "full"}
  BY DEF Constructed, WriteRows, WriteReturns, Close, ClosePartialShard, DeferredSubmitted,
         WriteManifest, CallerRaises
<1>2. UNCHANGED <<shards, LastEnd(shards)>>
  BY <1>1 DEF shards, LastEnd
<1>3. Files'
  BY <1>1, <1>2 DEF UInv, Files, IntactHere, PushedStaged, NotGone
<1>4. OpenFile'
  BY <1>1, <1>2 DEF UInv, OpenFile, OpenIsNext, OpenIsLast
<1>5. Ordered' /\ Tracked'
  BY <1>1, <1>2 DEF UInv, Uploads, Ordered, Tracked
<1>6. Submitted'
  <2>1. Submitted
    BY DEF UInv, Uploads
  <2>2. pc' \in {"ready", "write"} => pc \in {"discard", "ready", "write"}
    BY DEF Constructed, WriteRows, WriteReturns, Close, ClosePartialShard, DeferredSubmitted,
           WriteManifest, CallerRaises
  <2>3. pc' = "defer" => pc = "ready" /\ cfg.defer_push
    BY DEF Constructed, WriteRows, WriteReturns, Close, ClosePartialShard, DeferredSubmitted,
           WriteManifest, CallerRaises
  <2>4. pc' = "defer" => Len(pending_uploads) = 0
    BY <2>1, <2>3 DEF Submitted
  <2> QED
    BY <1>1, <2>1, <2>2, <2>3, <2>4 DEF Submitted
<1> QED
  BY <1>3, <1>4, <1>5, <1>6 DEF Files, Uploads

(* A run begins: nothing is pending, and there is only one scratch.        *)
LEMMA StartStep ==
  ASSUME OneNode, UInv, NEW n \in Node, NEW c \in Configs, Start(n, c)
  PROVE  (Files /\ Uploads /\ OpenFile)'
<1> USE DEF disk, shard, job
<1>1. Inv /\ Files /\ Uploads
  BY DEF UInv
<1>2. node' = node
  BY <1>1, StateFacts DEF OneNode, Start
<1>3. UNCHANGED <<progress, local, staged, shard, pending_uploads>> /\ pc' = "load"
      /\ pending_uploads = <<>> /\ ~cur_h5
  BY <1>1, StateFacts DEF Start, Uploads, Submitted, Cursor, NothingOpen
<1>4. UNCHANGED shards
  BY <1>3 DEF shards
<1>5. cfg'.max_in_flight \in Nat
  BY WriterAssumption DEF Start, ConfigType
<1>6. Files'
  BY <1>1, <1>2, <1>3, <1>4 DEF Files, IntactHere, PushedStaged, NotGone
<1>7. Len(pending_uploads') = 0
  BY <1>3
<1>8. Uploads'
  BY <1>3, <1>5, <1>7 DEF Uploads, Ordered, Tracked, Submitted
<1>9. OpenFile'
  BY <1>3 DEF OpenFile
<1> QED
  BY <1>6, <1>8, <1>9

(* The writer keeps a prefix of the shards, all of them still here.        *)
LEMMA DropStep ==
  ASSUME UInv, DropShardsMissingLocally
  PROVE  (Files /\ Uploads /\ OpenFile)'
<1> USE DEF disk, shard, job
<1>1. Inv /\ Files /\ Uploads
  BY DEF UInv
<1>2. PICK n \in 0..Len(shards) : /\ KeptShards = SubSeq(shards, 1, n)
                                  /\ \A k \in 1..n : ~MissingLocally(shards[k])
  BY <1>1, StateFacts, KeptPrefix
<1>3. Len(KeptShards) = n /\ \A k \in 1..n : KeptShards[k] = shards[k] /\ k \in 1..Len(shards)
  BY <1>1, <1>2, StateFacts, PrefixChain
<1>4. shards' = KeptShards
  <2>1. KeptShards = shards => UNCHANGED progress
    BY DEF DropShardsMissingLocally
  <2>2. KeptShards # shards => SaveProgress(KeptShards, LastEnd(KeptShards))
    BY DEF DropShardsMissingLocally
  <2> QED
    BY <2>1, <2>2 DEF SaveProgress, shards
<1>5. UNCHANGED <<local, staged, node, cfg, pending_uploads>> /\ pc' = "discard"
      /\ pending_uploads = <<>> /\ ~cur_h5'
  BY <1>1 DEF DropShardsMissingLocally, Uploads, Submitted
<1>6. \A k \in 1..n : shards[k].pushed \/ local[node][k - 1] # NoFile
  BY <1>1, <1>2, <1>3, StateFacts DEF MissingLocally
<1>7. IntactHere' /\ PushedStaged' /\ NotGone'
  BY <1>1, <1>3, <1>4, <1>5, <1>6 DEF Files, IntactHere, PushedStaged, NotGone
<1>8. Uploads'
  <2>1. Len(pending_uploads') = 0
    BY <1>5
  <2> QED
    BY <1>1, <1>5, <2>1 DEF Uploads, Ordered, Tracked, Submitted
<1> QED
  BY <1>5, <1>7, <1>8 DEF Files, OpenFile

(* A leftover file past the recorded shards is deleted.                    *)
LEMMA DiscardStep ==
  ASSUME UInv, DiscardUnfinishedShard
  PROVE  (Files /\ Uploads /\ OpenFile)'
<1> USE DEF disk, shard, job
<1>1. Inv /\ Files /\ Uploads
  BY DEF UInv
<1>2. PICK i \in Unfinished : local' = [local EXCEPT ![node][i] = NoFile]
  BY DEF DiscardUnfinishedShard
<1>3. /\ UNCHANGED <<progress, staged, node, cfg, pc, shard, pending_uploads>>
      /\ pc = "discard" /\ pending_uploads = <<>> /\ ~cur_h5 /\ cur_shard_idx = Len(shards)
  BY <1>1, StateFacts DEF DiscardUnfinishedShard, Uploads, Submitted, Cursor, NothingOpen, AtEnd
<1>4. UNCHANGED shards
  BY <1>3 DEF shards
<1>5. i \in Idx /\ i >= Len(shards)
  BY <1>2, <1>3 DEF Unfinished
<1>6. \A k \in 1..Len(shards) : local'[node][k - 1] = local[node][k - 1]
  BY <1>1, <1>2, <1>5, StateFacts
<1>7. Files'
  BY <1>1, <1>3, <1>4, <1>6 DEF Files, IntactHere, PushedStaged, NotGone
<1>8. Uploads'
  <2>1. Len(pending_uploads) = 0
    BY <1>3
  <2> QED
    BY <1>1, <1>3, <2>1 DEF Uploads, Ordered, Tracked, Submitted
<1> QED
  BY <1>3, <1>7, <1>8 DEF OpenFile

(* Writing touches only the file past the recorded shards.                 *)
LEMMA WriteStep ==
  ASSUME UInv, OpenShard \/ WriteChunk
  PROVE  (Files /\ Uploads /\ OpenFile)'
<1> USE DEF disk, shard, job
<1>1. Inv /\ Files /\ Uploads /\ OpenFile
  BY DEF UInv
<1>2. /\ UNCHANGED <<progress, staged, node, cfg, cur_shard_idx, cur_shard_start,
                     pending_uploads>>
      /\ pc = "write" /\ pc' \in {"write", "full"} /\ cur_h5'
  BY DEF OpenShard, WriteChunk
<1>3. UNCHANGED <<shards, LastEnd(shards)>>
  BY <1>2 DEF shards, LastEnd
<1>4. cur_shard_idx = Len(shards) /\ cur_shard_start = LastEnd(shards)
  BY <1>1, <1>2, StateFacts DEF Cursor, AtEnd
<1>5. /\ \A k \in 1..Len(shards) : local'[node][k - 1] = local[node][k - 1]
      /\ local'[node][cur_shard_idx].lo = cur_shard_start
  <2>1. CASE OpenShard
    <3> DEFINE f == [lo |-> cur_shard_start, hi |-> ShardCapacityEnd(cur_shard_start),
                     upto |-> cur_shard_start]
    <3>1. local' = [local EXCEPT ![node][cur_shard_idx] = f] /\ f.lo = cur_shard_start
      BY <2>1 DEF OpenShard
    <3>2. cur_shard_idx \in Idx
      <4>1. next_row = LastEnd(shards) /\ next_row < call_end /\ call_end <= cfg.n_rows
        BY <1>1, <2>1, StateFacts DEF OpenShard, Cursor, AtEnd
      <4>2. cfg.n_rows \in 1..MaxRows /\ call_end \in Row
        BY <1>1, StateFacts, ConfigInt DEF TypeOK
      <4> QED
        BY <1>1, <1>4, <4>1, <4>2, StateFacts
    <3> HIDE DEF f
    <3> QED
      BY <1>1, <1>4, <3>1, <3>2, StateFacts
  <2>2. CASE WriteChunk
    <3>1. local[node][cur_shard_idx].lo = cur_shard_start
      BY <1>1, <1>4, <2>2, StateFacts DEF WriteChunk, OpenFile, OpenIsNext, OpenIsLast
    <3>2. PICK row : \/ local' = local
                     \/ local' = [local EXCEPT ![node][cur_shard_idx].upto = row]
      BY <2>2 DEF WriteChunk
    <3>3. cur_shard_idx \in Idx
      <4>1. next_row >= LastEnd(shards) /\ next_row < call_end /\ call_end <= cfg.n_rows
        BY <1>1, <2>2, StateFacts DEF WriteChunk, Cursor, AtEnd
      <4>2. cfg.n_rows \in 1..MaxRows /\ call_end \in Row
        BY <1>1, StateFacts, ConfigInt DEF TypeOK
      <4> QED
        BY <1>1, <1>4, <4>1, <4>2, StateFacts
    <3>4. local[node][cur_shard_idx] \in File
      BY <1>1, <3>3, StateFacts
    <3>5. CASE local' = [local EXCEPT ![node][cur_shard_idx].upto = row]
      <4>1. local'[node][cur_shard_idx] = [local[node][cur_shard_idx] EXCEPT !.upto = row]
        BY <1>1, <3>3, <3>5, StateFacts
      <4>2. local'[node][cur_shard_idx].lo = local[node][cur_shard_idx].lo
        BY <3>4, <4>1 DEF File
      <4>3. \A k \in 1..Len(shards) : local'[node][k - 1] = local[node][k - 1]
        BY <1>1, <1>4, <3>5, StateFacts
      <4> QED
        BY <3>1, <4>2, <4>3
    <3> QED
      BY <3>1, <3>2, <3>5
  <2> QED
    BY <2>1, <2>2
<1>6. Files'
  BY <1>1, <1>2, <1>3, <1>5 DEF Files, IntactHere, PushedStaged, NotGone
<1>7. Ordered' /\ Tracked'
  <2>1. \A k \in 1..Len(pending_uploads) :
          /\ pending_uploads[k].shard_idx + 1 \in 1..Len(shards)
          /\ local'[node][pending_uploads[k].shard_idx] = local[node][pending_uploads[k].shard_idx]
    <3> SUFFICES ASSUME NEW k \in 1..Len(pending_uploads)
                 PROVE  /\ pending_uploads[k].shard_idx + 1 \in 1..Len(shards)
                        /\ local'[node][pending_uploads[k].shard_idx] =
                             local[node][pending_uploads[k].shard_idx]
      OBVIOUS
    <3> DEFINE i == pending_uploads[k].shard_idx
    <3>1. i \in Nat /\ i < Len(shards) /\ i + 1 \in 1..Len(shards)
      <4>1. i \in Nat /\ i < Len(shards) /\ Len(shards) \in Nat
        BY <1>1, StateFacts DEF Uploads, Tracked
      <4> HIDE DEF i
      <4> QED
        BY <4>1
    <3> HIDE DEF i
    <3>2. local'[node][(i + 1) - 1] = local[node][(i + 1) - 1] /\ (i + 1) - 1 = i
      BY <1>5, <3>1
    <3> QED
      BY <3>1, <3>2 DEF i
  <2> QED
    BY <1>1, <1>2, <1>3, <2>1 DEF Uploads, Ordered, Tracked
<1>8. Submitted'
  BY <1>1, <1>2 DEF Uploads, Submitted
<1>9. OpenFile'
  BY <1>2, <1>3, <1>4, <1>5 DEF OpenFile, OpenIsNext
<1> QED
  BY <1>6, <1>7, <1>8, <1>9 DEF Uploads

(* The full shard is closed, whole on scratch, and recorded.               *)
LEMMA RecordStep ==
  ASSUME UInv, RecordShard
  PROVE  (Files /\ Uploads /\ OpenFile)'
<1> USE DEF disk, shard, job
<1>1. Inv /\ Files /\ Uploads /\ OpenFile
  BY DEF UInv
<1>2. /\ UNCHANGED <<manifest, staged, node, cfg, next_row, pending_uploads>>
      /\ pc = "full" /\ pc' \in {"write", "submit"}
      /\ pc' = "submit" => ~cfg.defer_push
  BY DEF RecordShard, Rollover
<1>3. cur_shard_idx = Len(shards) /\ cur_shard_start = LastEnd(shards) /\ cur_h5
      /\ cur_shard_start < next_row
  BY <1>1, <1>2, StateFacts DEF Cursor, AtEnd
<1>4. cur_shard_idx \in Idx
  BY <1>1, <1>3, StateFacts
<1>5. Entry \in ShardEntry
  BY <1>1, <1>4, StateFacts DEF Entry, ShardEntry
<1>6. /\ Len(shards') = Len(shards) + 1
      /\ \A k \in 1..Len(shards) : shards'[k] = shards[k]
      /\ shards'[Len(shards) + 1] = Entry
      /\ LastEnd(shards)' = next_row
  <2>1. shards' = Append(shards, Entry)
    BY DEF RecordShard, SaveProgress, shards
  <2>2. LastEnd(Append(shards, Entry)) = Entry.row_end /\ Entry.row_end = next_row
    BY <1>1, <1>5, AppendChain, StateFacts DEF Entry
  <2>3. LastEnd(shards)' = LastEnd(shards')
    BY DEF LastEnd
  <2>4. shards \in Seq(ShardEntry)
    BY <1>1, StateFacts
  <2>5. /\ Len(Append(shards, Entry)) = Len(shards) + 1
        /\ \A k \in 1..Len(shards) : Append(shards, Entry)[k] = shards[k]
        /\ Append(shards, Entry)[Len(shards) + 1] = Entry
    BY <1>5, <2>4, AppendProperties
  <2> QED
    BY <2>1, <2>2, <2>3, <2>5
<1>7. /\ Holds(local'[node][cur_shard_idx], Entry)
      /\ \A k \in 1..Len(shards) : local'[node][k - 1] = local[node][k - 1]
  <2> DEFINE f == [local[node][cur_shard_idx] EXCEPT !.hi = next_row, !.upto = next_row]
  <2>1. local' = [local EXCEPT ![node][cur_shard_idx] = f]
    BY DEF RecordShard
  <2>2. local[node][cur_shard_idx] \in File /\ local[node][cur_shard_idx].lo = cur_shard_start
    BY <1>1, <1>3, <1>4, StateFacts DEF OpenFile, OpenIsNext, OpenIsLast
  <2>3. Holds(f, Entry)
    <3>1. f = [lo |-> cur_shard_start, hi |-> next_row, upto |-> next_row]
      BY <1>1, <2>2, FileFacts, StateFacts
    <3> HIDE DEF f
    <3> QED
      BY <3>1 DEF Holds, Entry
  <2> HIDE DEF f
  <2> QED
    BY <1>1, <1>3, <1>4, <2>1, <2>3, StateFacts
<1>8. Entry # NoFile /\ ~Entry.pushed /\ local'[node][cur_shard_idx] # NoFile
  BY <1>1, <1>3, <1>5, <1>7, HoldsFacts DEF Entry, NoFile
<1>9. IntactHere' /\ PushedStaged' /\ NotGone'
  <2>1. \A k \in 1..Len(shards') : k \in 1..Len(shards) \/ (k = Len(shards) + 1 /\ k - 1 = cur_shard_idx)
    BY <1>1, <1>3, <1>6, StateFacts
  <2>2. IntactHere'
    BY <1>1, <1>2, <1>6, <1>7, <2>1 DEF Files, IntactHere
  <2>3. PushedStaged'
    BY <1>1, <1>2, <1>6, <1>8, <2>1 DEF Files, PushedStaged
  <2>4. NotGone'
    BY <1>1, <1>2, <1>6, <1>7, <1>8, <2>1 DEF Files, NotGone
  <2> QED
    BY <2>2, <2>3, <2>4
<1>10. Ordered' /\ Tracked'
  <2>1. ASSUME NEW k \in 1..Len(pending_uploads)
        PROVE  /\ pending_uploads[k].shard_idx < Len(shards)
               /\ shards'[pending_uploads[k].shard_idx + 1] = shards[pending_uploads[k].shard_idx + 1]
               /\ local'[node][pending_uploads[k].shard_idx] = local[node][pending_uploads[k].shard_idx]
    <3> DEFINE i == pending_uploads[k].shard_idx
    <3>1. i \in Nat /\ i < Len(shards) /\ i + 1 \in 1..Len(shards)
      <4>1. i \in Nat /\ i < Len(shards) /\ Len(shards) \in Nat
        BY <1>1, StateFacts DEF Uploads, Tracked
      <4> HIDE DEF i
      <4> QED
        BY <4>1
    <3> HIDE DEF i
    <3>2. local'[node][(i + 1) - 1] = local[node][(i + 1) - 1] /\ (i + 1) - 1 = i
      BY <1>7, <3>1
    <3> QED
      BY <1>6, <3>1, <3>2 DEF i
  <2>2. Len(shards) <= Len(shards')
    BY <1>1, <1>6, StateFacts
  <2>3. \A k \in 1..Len(pending_uploads) : pending_uploads[k].shard_idx < Len(shards')
    BY <1>1, <1>6, <2>1, StateFacts
  <2> QED
    BY <1>1, <1>2, <2>1, <2>3 DEF Uploads, Ordered, Tracked
<1>11. Submitted'
  BY <1>1, <1>2 DEF Uploads, Submitted
<1>12. OpenFile'
  <2>1. CASE Rollover
    BY <2>1 DEF Rollover, OpenFile
  <2>2. CASE UNCHANGED shard
    <3>1. /\ Len(shards') > 0 /\ cur_shard_idx' = Len(shards') - 1
          /\ shards'[Len(shards')] = Entry /\ cur_shard_idx' = Len(shards)
      BY <1>1, <1>3, <1>6, <2>2, StateFacts
    <3>2. \A k \in 1..Len(pending_uploads) : pending_uploads[k].shard_idx < Len(shards)
      BY <1>1 DEF Uploads, Tracked
    <3>3. Holds(local[node][cur_shard_idx], shards[Len(shards)])'
      BY <1>2, <1>7, <2>2, <3>1 DEF Holds
    <3> QED
      BY <1>2, <1>6, <1>8, <2>2, <3>1, <3>2, <3>3 DEF OpenFile, OpenIsLast
  <2> QED
    BY <2>1, <2>2 DEF RecordShard
<1> QED
  BY <1>9, <1>10, <1>11, <1>12 DEF Files, Uploads

(* The oldest upload is waited for: its shard is marked pushed, or the run *)
(* ends with the shard where it was.                                       *)
LEMMA WaitStep ==
  ASSUME UInv, WaitOldestPendingUpload
  PROVE  (Files /\ Uploads /\ OpenFile)'
<1> USE DEF disk, shard, job
<1> DEFINE up == Head(pending_uploads)
           i  == up.shard_idx
<1>1. Inv /\ Files /\ Uploads /\ OpenFile
  BY DEF UInv
<1>2. /\ UNCHANGED <<manifest, local, staged, node, cfg, next_row, cur_shard_idx,
                     cur_shard_start, cur_h5, deferred>>
      /\ pc \in {"submit", "drain", "defer"} /\ pc' \in {pc, "exiting"}
      /\ pending_uploads # <<>> /\ pending_uploads' = Tail(pending_uploads)
  BY DEF WaitOldestPendingUpload
<1>3. /\ Len(pending_uploads') = Len(pending_uploads) - 1
      /\ \A k \in 1..Len(pending_uploads') : pending_uploads'[k] = pending_uploads[k + 1]
      /\ Len(pending_uploads) \in Nat \ {0}
      /\ up = pending_uploads[1]
  BY <1>1, <1>2, StateFacts, HeadTailProperties, EmptySeq
<1>4. \A k \in 1..Len(pending_uploads') : /\ k + 1 \in 1..Len(pending_uploads)
                                          /\ pending_uploads[k + 1].shard_idx > i
  <2>1. \A k \in 1..Len(pending_uploads') : k + 1 \in 1..Len(pending_uploads) /\ 1 < k + 1
    BY <1>3
  <2>2. 1 \in 1..Len(pending_uploads)
    BY <1>3
  <2> QED
    BY <1>1, <1>3, <2>1, <2>2, StateFacts DEF Uploads, Ordered
<1>5. i \in Nat /\ i < Len(shards) /\ i + 1 \in 1..Len(shards)
      /\ (up.state = "done" => Holds(staged[i], shards[i + 1]))
  <2>1. 1 \in 1..Len(pending_uploads)
    BY <1>3
  <2>2. i \in Nat /\ i < Len(shards) /\ Len(shards) \in Nat
        /\ (up.state = "done" => Holds(staged[i], shards[i + 1]))
    BY <1>1, <1>3, <2>1, StateFacts DEF Uploads, Tracked
  <2> HIDE DEF i
  <2> QED
    BY <2>2
<1>6. \/ up.state = "done" /\ shards' = [shards EXCEPT ![i + 1].pushed = TRUE] /\ pc' = pc
      \/ up.state = "failed" /\ shards' = shards /\ pc' = "exiting"
  BY DEF WaitOldestPendingUpload, SaveProgress, shards
<1> HIDE DEF i, up
<1>7. /\ Len(shards') = Len(shards) /\ LastEnd(shards)' = LastEnd(shards)
      /\ \A k \in 1..Len(shards) :
           shards'[k] = IF up.state = "done" /\ k = i + 1
                        THEN [shards[k] EXCEPT !.pushed = TRUE] ELSE shards[k]
  <2>1. LastEnd(shards)' = LastEnd(shards')
    BY DEF LastEnd
  <2>2. CASE up.state = "done" /\ shards' = [shards EXCEPT ![i + 1].pushed = TRUE]
    <3> DEFINE t == [shards EXCEPT ![i + 1].pushed = TRUE]
    <3>1. shards \in Seq(ShardEntry)
      BY <1>1, StateFacts
    <3>2. /\ Len(t) = Len(shards) /\ LastEnd(t) = LastEnd(shards)
          /\ \A k \in 1..Len(shards) :
               t[k] = IF k = i + 1 THEN [shards[k] EXCEPT !.pushed = TRUE] ELSE shards[k]
      BY <3>1, PushedChain
    <3> HIDE DEF t
    <3> QED
      BY <2>1, <2>2, <3>2 DEF t
  <2>3. CASE up.state = "failed" /\ shards' = shards
    BY <2>1, <2>3
  <2> QED
    BY <1>6, <2>2, <2>3
<1>8. /\ \A k \in 1..Len(shards) : \A f : Holds(f, shards'[k]) <=> Holds(f, shards[k])
      /\ \A k \in 1..Len(shards) : k # i + 1 => shards'[k] = shards[k]
      /\ \A k \in 1..Len(shards) : shards[k].pushed => shards'[k].pushed
  <2> SUFFICES ASSUME NEW k \in 1..Len(shards)
               PROVE  /\ \A f : Holds(f, shards'[k]) <=> Holds(f, shards[k])
                      /\ k # i + 1 => shards'[k] = shards[k]
                      /\ shards[k].pushed => shards'[k].pushed
    OBVIOUS
  <2>1. shards[k] \in ShardEntry
    BY <1>1, StateFacts
  <2>2. CASE shards'[k] = shards[k]
    BY <2>2
  <2>3. CASE k = i + 1 /\ shards'[k] = [shards[k] EXCEPT !.pushed = TRUE]
    BY <2>1, <2>3, HoldsFacts, PushedEntry
  <2> QED
    BY <1>7, <2>2, <2>3
<1>9. IntactHere'
  BY <1>1, <1>2, <1>7, <1>8 DEF Files, IntactHere
<1>10. PushedStaged'
  <2> SUFFICES ASSUME NEW k \in 1..Len(shards), shards'[k].pushed
               PROVE  Holds(staged[k - 1], shards[k])
    BY <1>2, <1>7, <1>8 DEF PushedStaged
  <2>1. CASE up.state = "done" /\ k = i + 1
    BY <1>5, <2>1
  <2>2. CASE ~(up.state = "done" /\ k = i + 1)
    BY <1>1, <1>7, <2>2 DEF Files, PushedStaged
  <2> QED
    BY <2>1, <2>2
<1>11. NotGone'
  <2> SUFFICES ASSUME NEW k \in 1..Len(shards), ~shards'[k].pushed, local[node][k - 1] = NoFile
               PROVE  \E j \in 1..Len(pending_uploads') :
                        /\ pending_uploads'[j].shard_idx = k - 1
                        /\ pending_uploads'[j].state = "done"
    BY <1>2, <1>7 DEF NotGone
  <2>1. PICK j \in 1..Len(pending_uploads) :
               pending_uploads[j].shard_idx = k - 1 /\ pending_uploads[j].state = "done"
    BY <1>1, <1>2, <1>8 DEF Files, NotGone
  <2>2. j # 1
    <3> SUFFICES ASSUME j = 1 PROVE FALSE
      OBVIOUS
    <3>1. up.state = "done" /\ i = k - 1
      BY <1>3, <2>1 DEF i
    <3>2. k = i + 1
      BY <1>1, <3>1, StateFacts
    <3>3. shards'[k] = [shards[k] EXCEPT !.pushed = TRUE] /\ shards[k] \in ShardEntry
      BY <1>1, <1>7, <3>1, <3>2, StateFacts
    <3> QED
      BY <3>3, PushedEntry
  <2>3. j - 1 \in 1..Len(pending_uploads') /\ (j - 1) + 1 = j
    BY <1>3, <2>2
  <2> QED
    BY <1>3, <2>1, <2>3
<1>12. Ordered'
  BY <1>1, <1>3, <1>4 DEF Uploads, Ordered
<1>13. Tracked'
  <2> SUFFICES ASSUME NEW k \in 1..Len(pending_uploads')
               PROVE  LET u == pending_uploads[k + 1]
                          s == shards'[u.shard_idx + 1]
                      IN  /\ u.shard_idx < Len(shards) /\ ~s.pushed
                          /\ u.state = "queued" => Holds(local[node][u.shard_idx], s)
                          /\ u.state \in {"copied", "done"} => Holds(staged[u.shard_idx], s)
    BY <1>2, <1>3, <1>7 DEF Tracked
  <2> DEFINE u == pending_uploads[k + 1]
             n == u.shard_idx
  <2>1. k + 1 \in 1..Len(pending_uploads) /\ n > i /\ n \in Nat /\ n < Len(shards)
    BY <1>1, <1>4, StateFacts DEF Uploads, Tracked
  <2>2. n + 1 # i + 1 /\ n + 1 \in 1..Len(shards)
    <3> HIDE DEF n
    <3> QED
      BY <1>1, <1>5, <2>1, StateFacts
  <2>3. shards'[n + 1] = shards[n + 1]
    BY <1>8, <2>2
  <2> QED
    BY <1>1, <2>1, <2>3 DEF Uploads, Tracked
<1>14. Submitted'
  <2>1. Len(pending_uploads') <= cfg.max_in_flight
    BY <1>1, <1>3, StateFacts DEF Uploads, Submitted
  <2>2. pc' = "defer" => \A k \in 1..Len(pending_uploads') :
                           pending_uploads'[k].shard_idx < deferred - 1
    BY <1>1, <1>2, <1>3, <1>4 DEF Uploads, Submitted
  <2> QED
    BY <1>1, <1>2, <2>1, <2>2 DEF Uploads, Submitted
<1>15. OpenFile'
  <2> SUFFICES ASSUME cur_h5 PROVE OpenIsLast'
    BY <1>2 DEF OpenFile
  <2>1. pc = "submit"
    BY <1>1, <1>2, StateFacts DEF Cursor, NothingOpen
  <2>2. OpenIsLast
    BY <1>1, <2>1, StateFacts DEF OpenFile, OpenIsLast, OpenIsNext, Cursor
  <2>3. Len(shards) \in 1..Len(shards) /\ Len(shards) # i + 1
    <3>1. i < cur_shard_idx
      <4>1. 1 \in 1..Len(pending_uploads)
        BY <1>3
      <4> QED
        BY <1>3, <2>2, <4>1 DEF OpenIsLast, i
    <3> QED
      BY <1>1, <1>5, <2>2, <3>1, StateFacts DEF OpenIsLast
  <2>4. shards'[Len(shards)] = shards[Len(shards)]
    BY <1>8, <2>3
  <2>5. \A k \in 1..Len(pending_uploads') : pending_uploads'[k].shard_idx < cur_shard_idx
    BY <1>3, <1>4, <2>2 DEF OpenIsLast
  <2> QED
    BY <1>2, <1>7, <2>2, <2>4, <2>5 DEF OpenIsLast, Holds
<1> QED
  BY <1>9, <1>10, <1>11, <1>12, <1>13, <1>14, <1>15 DEF Files, Uploads

(* One more upload, of a shard after all pending ones that is whole here.  *)
LEMMA AppendUpload ==
  ASSUME UInv, NEW k \in 1..Len(shards), ~shards[k].pushed,
         Holds(local[node][k - 1], shards[k]),
         \A j \in 1..Len(pending_uploads) : pending_uploads[j].shard_idx < k - 1,
         pending_uploads' = Append(pending_uploads, Upload(shards[k])),
         UNCHANGED <<progress, local, staged, node>>
  PROVE  /\ Ordered' /\ Tracked'
         /\ Len(pending_uploads') = Len(pending_uploads) + 1
         /\ \A j \in 1..Len(pending_uploads) : pending_uploads'[j] = pending_uploads[j]
         /\ \A j \in 1..Len(pending_uploads') : pending_uploads'[j].shard_idx < k
<1> DEFINE n == Len(pending_uploads)
           u == Upload(shards[k])
<1>1. Inv /\ Uploads
  BY DEF UInv
<1>2. shards' = shards
  BY DEF shards
<1>3. u \in UploadType /\ u.shard_idx = k - 1 /\ u.state = "queued"
  BY <1>1, StateFacts DEF Upload, UploadType
<1>4. /\ Len(pending_uploads') = n + 1
      /\ \A j \in 1..n : pending_uploads'[j] = pending_uploads[j]
      /\ pending_uploads'[n + 1] = u
  <2>1. pending_uploads \in Seq(UploadType)
    BY <1>1, StateFacts
  <2> HIDE DEF u
  <2> QED
    BY <1>3, <2>1, AppendProperties DEF u
<1>5. n \in Nat /\ \A j \in 1..(n + 1) : j \in 1..n \/ j = n + 1
  <2>1. n \in Nat
    BY <1>1, StateFacts
  <2> HIDE DEF n
  <2> QED
    BY <2>1
<1>6. k - 1 \in Nat /\ (k - 1) + 1 = k /\ k - 1 < Len(shards)
  BY <1>1, StateFacts
<1> HIDE DEF n, u
<1>7. Ordered'
  <2> SUFFICES ASSUME NEW j \in 1..(n + 1), NEW m \in 1..(n + 1), j < m
               PROVE  pending_uploads'[j].shard_idx < pending_uploads'[m].shard_idx
    BY <1>4 DEF Ordered
  <2>1. j \in 1..n
    BY <1>5
  <2>2. CASE m \in 1..n
    BY <1>1, <1>4, <2>1, <2>2 DEF Uploads, Ordered, n
  <2>3. CASE m = n + 1
    BY <1>3, <1>4, <2>1, <2>3 DEF n
  <2> QED
    BY <1>5, <2>2, <2>3
<1>8. Tracked'
  <2> SUFFICES ASSUME NEW j \in 1..(n + 1)
               PROVE  LET v == pending_uploads'[j]
                          s == shards[v.shard_idx + 1]
                      IN  /\ v.shard_idx < Len(shards) /\ ~s.pushed
                          /\ v.state = "queued" => Holds(local[node][v.shard_idx], s)
                          /\ v.state \in {"copied", "done"} => Holds(staged[v.shard_idx], s)
    BY <1>2, <1>4 DEF Tracked
  <2>1. CASE j \in 1..n
    BY <1>1, <1>4, <2>1 DEF Uploads, Tracked, n
  <2>2. CASE j = n + 1
    BY <1>3, <1>4, <1>6, <2>2
  <2> QED
    BY <1>5, <2>1, <2>2
<1>9. \A j \in 1..Len(pending_uploads') : pending_uploads'[j].shard_idx < k
  <2> SUFFICES ASSUME NEW j \in 1..(n + 1) PROVE pending_uploads'[j].shard_idx < k
    BY <1>4
  <2>1. CASE j \in 1..n
    BY <1>1, <1>4, <1>6, <2>1, StateFacts DEF n
  <2>2. CASE j = n + 1
    BY <1>3, <1>4, <1>6, <2>2
  <2> QED
    BY <1>5, <2>1, <2>2
<1> QED
  BY <1>4, <1>7, <1>8, <1>9 DEF n

(* A new last upload takes no shard away.                                  *)
LEMMA AppendFiles ==
  ASSUME UInv, pc \notin {"down", "load"},
         \A j \in 1..Len(pending_uploads) : pending_uploads'[j] = pending_uploads[j],
         Len(pending_uploads') >= Len(pending_uploads), Len(pending_uploads') \in Nat,
         UNCHANGED <<progress, local, staged, node>>
  PROVE  Files'
<1>1. Inv /\ Files /\ shards' = shards
  BY DEF UInv, shards
<1>2. \A j \in 1..Len(pending_uploads) : j \in 1..Len(pending_uploads')
  BY <1>1, StateFacts
<1> QED
  BY <1>1, <1>2 DEF Files, IntactHere, PushedStaged, NotGone

LEMMA SubmitStep ==
  ASSUME UInv, SubmitUpload
  PROVE  (Files /\ Uploads /\ OpenFile)'
<1> USE DEF disk, shard, job
<1> DEFINE n == Len(shards)
<1>1. Inv /\ Uploads /\ OpenFile
  BY DEF UInv
<1>2. /\ UNCHANGED <<progress, manifest, local, staged, node, cfg>>
      /\ pc = "submit" /\ pc' = "write" /\ ~cur_h5'
      /\ Len(pending_uploads) <= cfg.max_in_flight - 1
      /\ pending_uploads' = Append(pending_uploads, Upload(shards[cur_shard_idx + 1]))
  BY DEF SubmitUpload, Rollover, Keep
<1>3. OpenIsLast /\ cur_shard_idx + 1 = n /\ n \in 1..Len(shards) /\ cur_shard_idx = n - 1
  BY <1>1, <1>2, StateFacts DEF OpenFile, OpenIsNext, OpenIsLast, Cursor
<1>4. /\ Ordered' /\ Tracked'
      /\ Len(pending_uploads') = Len(pending_uploads) + 1
      /\ \A j \in 1..Len(pending_uploads) : pending_uploads'[j] = pending_uploads[j]
  <2>1. /\ ~shards[n].pushed /\ Holds(local[node][n - 1], shards[n])
        /\ \A j \in 1..Len(pending_uploads) : pending_uploads[j].shard_idx < n - 1
        /\ pending_uploads' = Append(pending_uploads, Upload(shards[n]))
    BY <1>2, <1>3 DEF OpenIsLast
  <2> HIDE DEF n
  <2> QED
    BY <1>2, <1>3, <2>1, AppendUpload
<1>5. Files'
  BY <1>1, <1>2, <1>4, AppendFiles, StateFacts
<1>6. Submitted'
  BY <1>1, <1>2, <1>4, StateFacts DEF Uploads, Submitted
<1> QED
  BY <1>2, <1>4, <1>5, <1>6 DEF Uploads, OpenFile

LEMMA PushDeferredStep ==
  ASSUME UInv, PushDeferredShard
  PROVE  (Files /\ Uploads /\ OpenFile)'
<1> USE DEF disk, shard, job
<1>1. Inv /\ Files /\ Uploads
  BY DEF UInv
<1>2. /\ UNCHANGED <<progress, manifest, local, staged, node, cfg, pc, shard>>
      /\ pc = "defer" /\ ~cur_h5' /\ deferred' = deferred + 1
      /\ deferred \in 1..Len(shards)
  BY <1>1, StateFacts DEF PushDeferredShard, Cursor, NothingOpen, TypeOK
<1>3. shards' = shards
  BY <1>2 DEF shards
<1>4. \A j \in 1..Len(pending_uploads) : pending_uploads[j].shard_idx < deferred - 1
  BY <1>1, <1>2 DEF Uploads, Submitted
<1>5. CASE shards[deferred].pushed
  <2>1. UNCHANGED pending_uploads
    BY <1>5 DEF PushDeferredShard
  <2>2. \A j \in 1..Len(pending_uploads) : pending_uploads[j].shard_idx < deferred' - 1
    BY <1>1, <1>2, <1>4, StateFacts
  <2>3. Submitted'
    BY <1>1, <1>2, <2>1, <2>2 DEF Uploads, Submitted
  <2>4. Ordered' /\ Tracked'
    BY <1>1, <1>2, <1>3, <2>1 DEF Uploads, Ordered, Tracked
  <2> QED
    BY <1>1, <1>2, <1>3, <2>1, <2>3, <2>4
    DEF Uploads, OpenFile, Files, IntactHere, PushedStaged, NotGone
<1>6. CASE ~shards[deferred].pushed
  <2>1. /\ pending_uploads' = Append(pending_uploads, Upload(shards[deferred]))
        /\ Len(pending_uploads) <= cfg.max_in_flight - 1
    BY <1>2, <1>6 DEF PushDeferredShard, Keep
  <2>2. Holds(local[node][deferred - 1], shards[deferred])
    <3>1. ASSUME local[node][deferred - 1] = NoFile PROVE FALSE
      <4>1. \E j \in 1..Len(pending_uploads) : pending_uploads[j].shard_idx = deferred - 1
        BY <1>1, <1>2, <1>6, <3>1 DEF Files, NotGone
      <4> QED
        BY <1>1, <1>2, <1>4, <4>1, StateFacts
    <3> QED
      BY <1>1, <1>2, <3>1 DEF Files, IntactHere
  <2>3. /\ Ordered' /\ Tracked'
        /\ Len(pending_uploads') = Len(pending_uploads) + 1
        /\ \A j \in 1..Len(pending_uploads) : pending_uploads'[j] = pending_uploads[j]
        /\ \A j \in 1..Len(pending_uploads') : pending_uploads'[j].shard_idx < deferred
    BY <1>2, <1>4, <1>6, <2>1, <2>2, AppendUpload
  <2>4. Files'
    BY <1>1, <1>2, <2>3, AppendFiles, StateFacts
  <2>5. deferred' - 1 = deferred
    BY <1>2
  <2>6. Submitted'
    BY <1>1, <1>2, <2>1, <2>3, <2>5, StateFacts DEF Uploads, Submitted
  <2> QED
    BY <1>2, <2>3, <2>4, <2>6 DEF Uploads, OpenFile
<1> QED
  BY <1>5, <1>6

(* The pool's steps change the state of one upload.                        *)
LEMMA PoolFacts ==
  ASSUME UInv, NEW k \in 1..Len(pending_uploads), NEW st,
         pending_uploads' = [pending_uploads EXCEPT ![k].state = st],
         UNCHANGED <<progress, node>>
  PROVE  LET i == pending_uploads[k].shard_idx
         IN  /\ shards' = shards
             /\ Len(pending_uploads') = Len(pending_uploads)
             /\ \A j \in 1..Len(pending_uploads) :
                  /\ pending_uploads'[j].shard_idx = pending_uploads[j].shard_idx
                  /\ pending_uploads'[j].state = IF j = k THEN st ELSE pending_uploads[j].state
                  /\ j # k => pending_uploads[j].shard_idx # i
             /\ i \in Idx /\ i \in Nat /\ i < Len(shards) /\ i + 1 \in 1..Len(shards)
<1> DEFINE i == pending_uploads[k].shard_idx
           up == [pending_uploads[k] EXCEPT !.state = st]
<1>1. Inv /\ Ordered /\ Tracked
  BY DEF UInv, Uploads
<1>2. shards' = shards
  BY DEF shards
<1>3. pending_uploads \in [1..Len(pending_uploads) -> UploadType]
      /\ pending_uploads \in Seq(UploadType)
  BY <1>1, StateFacts, LenProperties
<1>4. pending_uploads[k] \in UploadType
  BY <1>3
<1>5. up.shard_idx = i /\ up.state = st
  BY <1>4 DEF UploadType
<1>6. pending_uploads' = [pending_uploads EXCEPT ![k] = up]
  OBVIOUS
<1>7. /\ Len(pending_uploads') = Len(pending_uploads)
      /\ \A j \in 1..Len(pending_uploads) :
           pending_uploads'[j] = IF j = k THEN up ELSE pending_uploads[j]
  <2> HIDE DEF up
  <2> QED
    BY <1>3, <1>6
<1>8. i \in Idx /\ i \in Nat /\ i < Len(shards) /\ i + 1 \in 1..Len(shards)
  <2>1. i \in Idx /\ i \in Nat /\ i < Len(shards) /\ Len(shards) \in Nat
    BY <1>1, StateFacts DEF Tracked
  <2> HIDE DEF i
  <2> QED
    BY <2>1
<1>9. \A j \in 1..Len(pending_uploads) : j # k => pending_uploads[j].shard_idx # i
  <2> SUFFICES ASSUME NEW j \in 1..Len(pending_uploads), j # k
               PROVE  pending_uploads[j].shard_idx # i
    OBVIOUS
  <2>1. pending_uploads[j].shard_idx \in Nat /\ i \in Nat
    BY <1>1, StateFacts
  <2>2. j < k \/ k < j
    OBVIOUS
  <2>3. j < k => pending_uploads[j].shard_idx < i
    BY <1>1 DEF Ordered
  <2>4. k < j => i < pending_uploads[j].shard_idx
    BY <1>1 DEF Ordered
  <2> HIDE DEF i
  <2> QED
    BY <2>1, <2>2, <2>3, <2>4
<1> HIDE DEF i, up
<1> QED
  BY <1>2, <1>5, <1>7, <1>8, <1>9 DEF i

(* The order, the number and the shards of the pending uploads stay.       *)
LEMMA PoolUploads ==
  ASSUME UInv, NEW k \in 1..Len(pending_uploads), NEW st,
         pending_uploads' = [pending_uploads EXCEPT ![k].state = st],
         UNCHANGED <<progress, node, cfg, pc, deferred, shard>>
  PROVE  /\ Ordered' /\ Submitted'
         /\ LastEnd(shards)' = LastEnd(shards)
<1>1. Uploads
  BY DEF UInv
<1>2. /\ shards' = shards
      /\ Len(pending_uploads') = Len(pending_uploads)
      /\ \A j \in 1..Len(pending_uploads) :
           pending_uploads'[j].shard_idx = pending_uploads[j].shard_idx
  BY PoolFacts
<1>3. Ordered'
  BY <1>1, <1>2 DEF Uploads, Ordered
<1>4. pending_uploads # <<>>
  BY DEF UInv
<1>5. Submitted'
  BY <1>1, <1>2, <1>4 DEF Uploads, Submitted
<1>6. LastEnd(shards)' = LastEnd(shards)
  BY <1>2 DEF LastEnd
<1> QED
  BY <1>3, <1>5, <1>6

(* rsync has copied a shard: staging holds what scratch holds.             *)
LEMMA CopyStep ==
  ASSUME UInv, NEW k \in 1..Len(pending_uploads), UploadCopy(k)
  PROVE  (Files /\ Uploads /\ OpenFile)'
<1> USE DEF disk, shard, job
<1> DEFINE i == pending_uploads[k].shard_idx
           st == IF cfg.auto_delete THEN "copied" ELSE "done"
<1>1. Inv /\ Files /\ Uploads /\ OpenFile
  BY DEF UInv
<1>2. /\ UNCHANGED <<progress, manifest, local, node, cfg, pc, deferred>> /\ UNCHANGED shard
      /\ pending_uploads[k].state = "queued" /\ st \in {"copied", "done"}
      /\ staged' = [staged EXCEPT ![i] = local[node][i]]
      /\ pending_uploads' = [pending_uploads EXCEPT ![k].state = st]
  BY DEF UploadCopy
<1> HIDE DEF st
<1>3. /\ shards' = shards /\ Len(pending_uploads') = Len(pending_uploads)
      /\ \A j \in 1..Len(pending_uploads) :
           /\ pending_uploads'[j].shard_idx = pending_uploads[j].shard_idx
           /\ pending_uploads'[j].state = IF j = k THEN st ELSE pending_uploads[j].state
           /\ j # k => pending_uploads[j].shard_idx # i
      /\ i \in Idx /\ i \in Nat /\ i < Len(shards) /\ i + 1 \in 1..Len(shards)
  BY <1>2, PoolFacts
<1>4. Ordered' /\ Submitted' /\ LastEnd(shards)' = LastEnd(shards)
  BY <1>2, PoolUploads
<1>5. /\ Holds(staged'[i], shards[i + 1]) /\ ~shards[i + 1].pushed
      /\ \A n \in Idx : n # i => staged'[n] = staged[n]
  BY <1>1, <1>2, <1>3, StateFacts DEF Uploads, Tracked
<1>6. Tracked'
  <2>1. ASSUME NEW j \in 1..Len(pending_uploads), j # k
        PROVE  staged'[pending_uploads[j].shard_idx] = staged[pending_uploads[j].shard_idx]
    BY <1>1, <1>3, <1>5, <2>1, StateFacts
  <2> QED
    BY <1>1, <1>2, <1>3, <1>5, <2>1 DEF Uploads, Tracked
<1>7. PushedStaged'
  <2> SUFFICES ASSUME NEW n \in 1..Len(shards), shards[n].pushed
               PROVE  Holds(staged'[n - 1], shards[n])
    BY <1>3 DEF PushedStaged
  <2>1. n # i + 1 /\ n - 1 \in Idx
    BY <1>1, <1>5, StateFacts
  <2>2. n - 1 # i
    <3> HIDE DEF i
    <3> QED
      BY <1>1, <1>3, <2>1, StateFacts
  <2> QED
    BY <1>1, <1>5, <2>1, <2>2 DEF Files, PushedStaged
<1>8. IntactHere' /\ NotGone'
  BY <1>1, <1>2, <1>3 DEF Files, IntactHere, NotGone
<1>9. OpenFile'
  BY <1>1, <1>2, <1>3, <1>4 DEF OpenFile, OpenIsNext, OpenIsLast, Holds
<1> QED
  BY <1>4, <1>6, <1>7, <1>8, <1>9 DEF Files, Uploads

(* auto_delete: the scratch copy of an uploaded shard goes.                *)
LEMMA RemoveStep ==
  ASSUME UInv, NEW k \in 1..Len(pending_uploads), UploadRemove(k)
  PROVE  (Files /\ Uploads /\ OpenFile)'
<1> USE DEF disk, shard, job
<1> DEFINE i == pending_uploads[k].shard_idx
<1>1. Inv /\ Files /\ Uploads /\ OpenFile
  BY DEF UInv
<1>2. /\ UNCHANGED <<progress, manifest, staged, node, cfg, pc, deferred>> /\ UNCHANGED shard
      /\ pending_uploads[k].state = "copied"
      /\ local' = [local EXCEPT ![node][i] = NoFile]
      /\ pending_uploads' = [pending_uploads EXCEPT ![k].state = "done"]
  BY DEF UploadRemove
<1>3. /\ shards' = shards /\ Len(pending_uploads') = Len(pending_uploads)
      /\ \A j \in 1..Len(pending_uploads) :
           /\ pending_uploads'[j].shard_idx = pending_uploads[j].shard_idx
           /\ pending_uploads'[j].state = IF j = k THEN "done" ELSE pending_uploads[j].state
           /\ j # k => pending_uploads[j].shard_idx # i
      /\ i \in Idx /\ i \in Nat /\ i < Len(shards) /\ i + 1 \in 1..Len(shards)
  BY <1>2, PoolFacts
<1>4. Ordered' /\ Submitted' /\ LastEnd(shards)' = LastEnd(shards)
  BY <1>2, PoolUploads
<1>5. /\ local'[node][i] = NoFile
      /\ \A n : n # i => local'[node][n] = local[node][n]
  <2>1. local'[node] = [local[node] EXCEPT ![i] = NoFile] /\ local[node] \in [Idx -> File]
    BY <1>1, <1>2, StateFacts
  <2> HIDE DEF i
  <2> QED
    BY <1>3, <2>1
<1>6. Tracked'
  BY <1>1, <1>2, <1>3, <1>5 DEF Uploads, Tracked
<1>7. IntactHere' /\ PushedStaged'
  BY <1>1, <1>2, <1>3, <1>5 DEF Files, IntactHere, PushedStaged
<1>8. NotGone'
  <2> SUFFICES ASSUME pc \notin {"down", "load"}, NEW n \in 1..Len(shards), ~shards[n].pushed,
                      local'[node][n - 1] = NoFile
               PROVE  \E j \in 1..Len(pending_uploads) :
                        /\ pending_uploads'[j].shard_idx = n - 1
                        /\ pending_uploads'[j].state = "done"
    BY <1>2, <1>3 DEF NotGone
  <2>1. CASE n - 1 = i
    BY <1>3, <2>1
  <2>2. CASE n - 1 # i
    <3>1. local[node][n - 1] = NoFile
      BY <1>5, <2>2
    <3> QED
      BY <1>1, <1>3, <3>1 DEF Files, NotGone
  <2> QED
    BY <2>1, <2>2
<1>9. OpenFile'
  <2> SUFFICES ASSUME cur_h5 PROVE OpenIsNext' \/ OpenIsLast'
    BY <1>2 DEF OpenFile
  <2>1. i # cur_shard_idx
    BY <1>1, <1>3, StateFacts DEF OpenFile, OpenIsNext, OpenIsLast
  <2>2. local'[node][cur_shard_idx] = local[node][cur_shard_idx]
    BY <1>5, <2>1
  <2> QED
    BY <1>1, <1>2, <1>3, <1>4, <2>2 DEF OpenFile, OpenIsNext, OpenIsLast
<1> QED
  BY <1>4, <1>6, <1>7, <1>8, <1>9 DEF Files, Uploads

(* A failed upload leaves everything where it was.                         *)
LEMMA FailStep ==
  ASSUME UInv, NEW k \in 1..Len(pending_uploads), UploadFails(k)
  PROVE  (Files /\ Uploads /\ OpenFile)'
<1> USE DEF disk, shard, job
<1> DEFINE i == pending_uploads[k].shard_idx
<1>1. Inv /\ Files /\ Uploads /\ OpenFile
  BY DEF UInv
<1>2. /\ UNCHANGED <<progress, manifest, local, staged, node, cfg, pc, deferred>>
      /\ UNCHANGED shard
      /\ pending_uploads[k].state = "queued"
      /\ pending_uploads' = [pending_uploads EXCEPT ![k].state = "failed"]
  BY DEF UploadFails
<1>3. /\ shards' = shards /\ Len(pending_uploads') = Len(pending_uploads)
      /\ \A j \in 1..Len(pending_uploads) :
           /\ pending_uploads'[j].shard_idx = pending_uploads[j].shard_idx
           /\ pending_uploads'[j].state = IF j = k THEN "failed" ELSE pending_uploads[j].state
           /\ j # k => pending_uploads[j].shard_idx # i
      /\ i \in Idx /\ i \in Nat /\ i < Len(shards) /\ i + 1 \in 1..Len(shards)
  BY <1>2, PoolFacts
<1>4. Ordered' /\ Submitted' /\ LastEnd(shards)' = LastEnd(shards)
  BY <1>2, PoolUploads
<1>5. Tracked'
  BY <1>1, <1>2, <1>3 DEF Uploads, Tracked
<1>6. Files'
  BY <1>1, <1>2, <1>3 DEF Files, IntactHere, PushedStaged, NotGone
<1>7. OpenFile'
  BY <1>1, <1>2, <1>3, <1>4 DEF OpenFile, OpenIsNext, OpenIsLast
<1> QED
  BY <1>4, <1>5, <1>6, <1>7 DEF Uploads

(* The run ends: a file still open keeps its rows or loses its tail.       *)
LEMMA EndStep ==
  ASSUME UInv, Exit \/ Crash
  PROVE  (Files /\ Uploads /\ OpenFile)'
<1> USE DEF disk, shard, job
<1>1. Inv /\ Files /\ Uploads /\ OpenFile
  BY DEF UInv
<1>2. /\ UNCHANGED <<progress, manifest, staged, node, cfg>>
      /\ pc' = "down" /\ pending_uploads' = <<>> /\ ~cur_h5'
  BY DEF Exit, Crash, NoJob
<1>3. shards' = shards
  BY <1>2 DEF shards
<1>4. ASSUME NEW k \in 1..Len(shards) PROVE local'[node][k - 1] = local[node][k - 1]
  <2>1. local' = local => local'[node][k - 1] = local[node][k - 1]
    OBVIOUS
  <2>2. CASE cur_h5 /\ OpenIsNext
    <3>1. PICK row : local' = [local EXCEPT ![node][cur_shard_idx].upto = row]
      BY <2>2 DEF Exit, Crash
    <3>2. cur_shard_idx # k - 1
      BY <1>1, <2>2, StateFacts DEF OpenIsNext
    <3> QED
      BY <1>1, <3>1, <3>2, StateFacts
  <2>3. CASE cur_h5 /\ OpenIsLast
    <3> DEFINE f == local[node][cur_shard_idx]
    <3>1. f \in File
      <4>1. cur_shard_idx \in Idx
        BY <1>1, <2>3, StateFacts DEF OpenIsLast
      <4> QED
        BY <1>1, <4>1, StateFacts
    <3>2. f.upto = next_row
      <4>1. next_row = shards[Len(shards)].row_end
        BY <1>1, <2>3, StateFacts, EmptySeq DEF OpenIsLast, LastEnd
      <4> QED
        BY <2>3, <4>1 DEF OpenIsLast, Holds
    <3>3. PICK row \in f.upto..next_row :
                 local' = [local EXCEPT ![node][cur_shard_idx].upto = row]
      <4>1. next_row \in f.upto..next_row
        BY <1>1, <3>2, StateFacts
      <4> QED
        BY <2>3, <4>1 DEF Exit, Crash
    <3>4. row = next_row
      BY <1>1, <3>2, <3>3, StateFacts
    <3>5. [f EXCEPT !.upto = row] = f
      BY <3>1, <3>2, <3>4 DEF File
    <3>6. local' = [local EXCEPT ![node][cur_shard_idx] = [f EXCEPT !.upto = row]]
      BY <3>3
    <3>7. local' = local
      <4> HIDE DEF f
      <4> QED
        BY <1>1, <3>5, <3>6, StateFacts DEF f
    <3> QED
      BY <3>7
  <2>4. CASE ~cur_h5
    BY <2>1, <2>4 DEF Exit, Crash
  <2> QED
    BY <1>1, <2>2, <2>3, <2>4 DEF OpenFile
<1>5. Files'
  BY <1>1, <1>2, <1>3, <1>4 DEF Files, IntactHere, PushedStaged, NotGone
<1>6. Uploads'
  <2>1. Len(pending_uploads') = 0
    BY <1>2
  <2> QED
    BY <1>1, <1>2, <2>1, StateFacts DEF Uploads, Ordered, Tracked, Submitted
<1> QED
  BY <1>2, <1>5, <1>6 DEF OpenFile

(* Between runs files are deleted.                                         *)
LEMMA CleanStep ==
  ASSUME UInv, NEW n \in Node, CleanScratch(n) \/ ReclaimPushed(n)
  PROVE  (Files /\ Uploads /\ OpenFile)'
<1> USE DEF disk, shard, job
<1>1. Inv /\ Files /\ Uploads /\ OpenFile
  BY DEF UInv
<1>2. /\ UNCHANGED <<progress, manifest, staged, node, cfg, pc, pending_uploads>>
      /\ UNCHANGED shard
      /\ pc = "down" /\ pending_uploads = <<>> /\ ~cur_h5'
  BY <1>1, StateFacts DEF CleanScratch, ReclaimPushed, Cursor, NothingOpen, Uploads, Submitted
<1>3. shards' = shards
  BY <1>2 DEF shards
<1>4. ASSUME CleanScratch(n)
      PROVE  \A i \in Idx : local'[node][i] \in {NoFile, local[node][i]}
  <2>1. PICK gone : local' = [local EXCEPT ![n] =
                                [i \in Idx |-> IF i \in gone THEN NoFile ELSE @[i]]]
    BY <1>4 DEF CleanScratch
  <2> QED
    BY <1>1, <2>1, StateFacts
<1>5. ASSUME ReclaimPushed(n)
      PROVE  \A i \in Idx : local'[node][i] \in {NoFile, local[node][i]}
  <2>1. PICK k \in Idx : local' = [local EXCEPT ![n][k] = NoFile]
    BY <1>5 DEF ReclaimPushed, Reclaimable
  <2> QED
    BY <1>1, <2>1, StateFacts
<1>6. Files'
  BY <1>1, <1>2, <1>3, <1>4, <1>5, StateFacts DEF Files, IntactHere, PushedStaged, NotGone
<1>7. Uploads'
  <2>1. Len(pending_uploads) = 0
    BY <1>2
  <2> QED
    BY <1>1, <1>2, <2>1 DEF Uploads, Ordered, Tracked, Submitted
<1> QED
  BY <1>2, <1>6, <1>7 DEF OpenFile
-----------------------------------------------------------------------------
(* The theorems.                                                           *)

LEMMA UInvInit == Init => UInv
<1> SUFFICES ASSUME Init PROVE UInv
  OBVIOUS
<1>1. Inv
  BY InvInit
<1>2. Len(shards) = 0 /\ Len(pending_uploads) = 0
  BY DEF Init, shards
<1>3. Files
  BY <1>2 DEF Files, IntactHere, PushedStaged, NotGone
<1>4. Uploads
  BY <1>1, <1>2, StateFacts DEF Init, Uploads, Ordered, Tracked, Submitted
<1>5. OpenFile
  BY DEF Init, OpenFile
<1> QED
  BY <1>1, <1>3, <1>4, <1>5 DEF UInv

LEMMA UInvStep ==
  ASSUME OneNode, UInv, [Next]_vars
  PROVE  UInv'
<1>1. Inv'
  BY TypeStep, CursorStep DEF UInv, Inv
<1>2. ASSUME Next PROVE (Files /\ Uploads /\ OpenFile)'
  <2>1. CASE WriterStep
    BY <2>1, ControlStep, DropStep, DiscardStep, WriteStep, RecordStep, WaitStep, SubmitStep,
       PushDeferredStep, EndStep DEF WriterStep
  <2>2. CASE CallerStep
    BY <2>2, ControlStep DEF CallerStep
  <2>3. CASE PoolStep
    BY <2>3, CopyStep, RemoveStep, FailStep DEF PoolStep
  <2>4. CASE Environment
    BY <2>4, StartStep, EndStep, CleanStep DEF Environment
  <2> QED
    BY <1>2, <2>1, <2>2, <2>3, <2>4 DEF Next
<1>3. ASSUME UNCHANGED vars PROVE (Files /\ Uploads /\ OpenFile)'
  <2>1. /\ UNCHANGED <<progress, local, staged, node, cfg, pc, pending_uploads, deferred>>
        /\ UNCHANGED shard
    BY <1>3 DEF vars, disk, shard, job
  <2>2. UNCHANGED <<shards, LastEnd(shards)>>
    BY <2>1 DEF shards, LastEnd
  <2>3. Files'
    BY <2>1, <2>2 DEF UInv, Files, IntactHere, PushedStaged, NotGone
  <2>4. Uploads'
    BY <2>1, <2>2 DEF UInv, Uploads, Ordered, Tracked, Submitted
  <2>5. OpenFile'
    BY <2>1, <2>2 DEF UInv, OpenFile, OpenIsNext, OpenIsLast, shard
  <2> QED
    BY <2>3, <2>4, <2>5
<1> QED
  BY <1>1, <1>2, <1>3 DEF UInv

LEMMA UInvariant ==
  ASSUME OneNode
  PROVE  Spec => []UInv
<1>1. UInv /\ [Next]_vars => UInv'
  BY UInvStep
<1> QED
  BY <1>1, UInvInit, PTL DEF Spec

(* When a layer's runs share one scratch disk, a recorded shard is never   *)
(* backed by a torn file or by other rows, and a shard marked pushed is    *)
(* whole in staging, whatever the runs' parameters.                        *)
THEOREM IntactOnOneNode ==
  ASSUME OneNode
  PROVE  Spec => []ShardsIntact
<1>1. UInv => ShardsIntact
  <2> SUFFICES ASSUME UInv, NEW k \in 1..Len(shards)
               PROVE  /\ \A n \in Node : \/ local[n][k - 1] = NoFile
                                         \/ Holds(local[n][k - 1], shards[k])
                      /\ shards[k].pushed => Holds(staged[k - 1], shards[k])
    BY DEF ShardsIntact
  <2>1. \A n \in Node : n = node
    BY StateFacts DEF OneNode, UInv
  <2> QED
    BY <2>1 DEF UInv, Files, IntactHere, PushedStaged
<1> QED
  BY <1>1, UInvariant, PTL

(* At most max_in_flight uploads are pending, of different shards that are *)
(* recorded, not marked pushed, and whole on scratch or in staging.        *)
THEOREM InFlightOnOneNode ==
  ASSUME OneNode
  PROVE  Spec => []InFlightBounded
<1>1. UInv => InFlightBounded
  <2> SUFFICES ASSUME UInv PROVE InFlightBounded
    OBVIOUS
  <2>1. \A k \in 1..Len(pending_uploads) : \A j \in 1..(k - 1) : j \in 1..Len(pending_uploads) /\ j < k
    BY StateFacts DEF UInv
  <2> QED
    BY <2>1 DEF UInv, Uploads, Ordered, Tracked, Submitted, InFlightBounded
<1> QED
  BY <1>1, UInvariant, PTL
=============================================================================
