-------------------------- MODULE DurabilityProofs --------------------------
(***************************************************************************)
(* What a layer's writer promises about rows over many runs, proved for    *)
(* every configuration, also one that changes from run to run, as long as  *)
(* all runs share one scratch disk: the writer implements the resumable    *)
(* log, and the run that closes can read every shard it announces.  If all *)
(* configurations cut the rows the same way, later runs never put other    *)
(* rows under a shard that a manifest lists as pushed.                     *)
(***************************************************************************)
EXTENDS ShardedWriterProofs

-----------------------------------------------------------------------------
(* Rows in front of a shard.                                               *)

(* Along a list of shards, rows grow.                                      *)
LEMMA ChainGrows ==
  ASSUME NEW ss \in Seq(ShardEntry), Chain(ss),
         NEW j \in 1..Len(ss), NEW k \in 1..Len(ss)
  PROVE  /\ j < k => ss[j].row_end <= ss[k].row_start
         /\ ss[k].row_start \in Nat /\ ss[k].row_end \in Nat
         /\ ss[k].row_end <= LastEnd(ss)
<1>1. Len(ss) \in Nat
  BY LenProperties
<1>2. \A n \in 1..Len(ss) : ss[n].row_start \in Nat /\ ss[n].row_end \in Nat
  <2> TAKE n \in 1..Len(ss)
  <2>1. ss[n] \in ShardEntry
    BY ElementOfSeq
  <2> QED
    BY <2>1, WriterAssumption DEF ShardEntry, Row
<1>3. \A i, m \in 1..Len(ss) : i < m => ss[i].row_end <= ss[m].row_start
  <2> TAKE i, m \in 1..Len(ss)
  <2> HAVE i < m
  <2> DEFINE bad == {n \in (i + 1)..Len(ss) : ~(ss[i].row_end <= ss[n].row_start)}
  <2>1. bad \in SUBSET Nat
    BY <1>1
  <2>2. bad = {}
    <3> SUFFICES ASSUME bad # {} PROVE FALSE
      OBVIOUS
    <3>1. PICK n \in bad : \A o \in bad : n <= o
      <4> HIDE DEF bad
      <4> QED
        BY <2>1, Least
    <3>2. n \in (i + 1)..Len(ss) /\ ~(ss[i].row_end <= ss[n].row_start)
      OBVIOUS
    <3>3. n - 1 \notin bad
      <4> HIDE DEF bad
      <4> QED
        BY <1>1, <3>1, <3>2
    <3> HIDE DEF bad
    <3>4. ss[n].row_start = ss[n - 1].row_end
      <4>1. n \in 1..Len(ss) /\ n # 1
        BY <1>1, <3>2
      <4> QED
        BY <4>1 DEF Chain
    <3>5. n - 1 # i
      BY <1>1, <1>2, <3>2, <3>4
    <3>6. n - 1 \in (i + 1)..Len(ss) /\ n - 1 \in 1..Len(ss)
      BY <1>1, <3>2, <3>5
    <3>7. ss[i].row_end <= ss[n - 1].row_start
      BY <3>3, <3>6 DEF bad
    <3>8. ss[n - 1].row_start < ss[n - 1].row_end
      BY <3>6 DEF Chain
    <3>9. /\ ss[i].row_end \in Nat /\ ss[n - 1].row_start \in Nat
          /\ ss[n - 1].row_end \in Nat
      BY <1>2, <3>6
    <3>10. ss[i].row_end <= ss[n - 1].row_end
      <4>1. \A a, b, c \in Nat : a <= b /\ b < c => a <= c
        OBVIOUS
      <4> QED
        BY <3>7, <3>8, <3>9, <4>1, Zenon
    <3> QED
      BY <3>2, <3>4, <3>10
  <2>3. m \in (i + 1)..Len(ss)
    BY <1>1
  <2> QED
    BY <2>2, <2>3
<1>4. ss[k].row_end <= LastEnd(ss)
  <2>1. Len(ss) \in 1..Len(ss) /\ ss # <<>>
    BY <1>1, EmptySeq
  <2>2. LastEnd(ss) = ss[Len(ss)].row_end /\ ss[Len(ss)].row_start < ss[Len(ss)].row_end
    BY <2>1 DEF LastEnd, Chain
  <2>3. CASE k = Len(ss)
    BY <1>2, <2>2, <2>3
  <2>4. CASE k < Len(ss)
    BY <1>2, <1>3, <2>1, <2>2, <2>4
  <2> QED
    BY <1>1, <2>3, <2>4
<1> QED
  BY <1>2, <1>3, <1>4

(* RowsBefore(ss, ks) is where the first shard of ks starts, or the end.   *)
LEMMA BeforeFacts ==
  ASSUME NEW ss \in Seq(ShardEntry), Chain(ss), NEW ks \in SUBSET (1..Len(ss))
  PROVE  /\ RowsBefore(ss, ks) \in Nat /\ RowsBefore(ss, ks) <= LastEnd(ss)
         /\ ks = {} => RowsBefore(ss, ks) = LastEnd(ss)
         /\ ks # {} => \E k \in ks : RowsBefore(ss, ks) = ss[k].row_start
         /\ \A k \in ks : RowsBefore(ss, ks) <= ss[k].row_start
         /\ LastEnd(ss) \in Nat
<1>1. Len(ss) \in Nat /\ ks \in SUBSET Nat
  BY LenProperties
<1>2. LastEnd(ss) \in Nat
  BY LastEndType, WriterAssumption DEF Row
<1>3. CASE ks = {}
  BY <1>2, <1>3 DEF RowsBefore
<1>4. CASE ks # {}
  <2> DEFINE f == First(ks, 1)
  <2>1. f \in ks /\ \A j \in ks : f <= j
    BY <1>1, <1>4, FirstIsLeast
  <2>2. RowsBefore(ss, ks) = ss[f].row_start
    BY <1>4 DEF RowsBefore
  <2> HIDE DEF f
  <2>3. f \in 1..Len(ss)
    BY <2>1
  <2>4. \A k \in ks : ss[f].row_start <= ss[k].row_start
    <3> TAKE k \in ks
    <3>1. k \in 1..Len(ss) /\ (f = k \/ f < k)
      BY <1>1, <2>1, <2>3
    <3>2. ss[f].row_start < ss[f].row_end
      BY <2>3 DEF Chain
    <3>3. ss[f].row_start \in Nat /\ ss[f].row_end \in Nat /\ ss[k].row_start \in Nat
      BY <2>3, <3>1, ChainGrows
    <3>4. f < k => ss[f].row_end <= ss[k].row_start
      BY <2>3, <3>1, ChainGrows
    <3> QED
      BY <3>1, <3>2, <3>3, <3>4
  <2>5. ss[f].row_start \in Nat /\ ss[f].row_start <= LastEnd(ss)
    <3>1. ss[f].row_start < ss[f].row_end
      BY <2>3 DEF Chain
    <3>2. ss[f].row_start \in Nat /\ ss[f].row_end \in Nat /\ ss[f].row_end <= LastEnd(ss)
      BY <2>3, ChainGrows
    <3> QED
      BY <1>2, <3>1, <3>2
  <2> QED
    BY <1>2, <1>4, <2>1, <2>2, <2>4, <2>5
<1> QED
  BY <1>3, <1>4

(* Fewer shards are met later.                                             *)
LEMMA BeforeSubset ==
  ASSUME NEW ss \in Seq(ShardEntry), Chain(ss), NEW ks \in SUBSET (1..Len(ss)),
         NEW js \in SUBSET ks
  PROVE  RowsBefore(ss, ks) <= RowsBefore(ss, js)
<1>1. js \in SUBSET (1..Len(ss))
  OBVIOUS
<1>2. /\ RowsBefore(ss, ks) \in Nat /\ RowsBefore(ss, js) \in Nat
      /\ RowsBefore(ss, ks) <= LastEnd(ss)
      /\ \A k \in ks : RowsBefore(ss, ks) <= ss[k].row_start
  BY BeforeFacts
<1>3. /\ js = {} => RowsBefore(ss, js) = LastEnd(ss)
      /\ js # {} => \E k \in js : RowsBefore(ss, js) = ss[k].row_start
  BY <1>1, BeforeFacts
<1> QED
  BY <1>2, <1>3

(* Marking shards pushed moves nothing.                                    *)
LEMMA BeforeSame ==
  ASSUME NEW ss \in Seq(ShardEntry), NEW tt \in Seq(ShardEntry), Len(tt) = Len(ss),
         LastEnd(tt) = LastEnd(ss),
         \A k \in 1..Len(ss) : tt[k].row_start = ss[k].row_start,
         NEW ks \in SUBSET (1..Len(ss))
  PROVE  RowsBefore(tt, ks) = RowsBefore(ss, ks)
<1>1. ks \in SUBSET Nat
  BY LenProperties
<1>2. ks # {} => First(ks, 1) \in ks
  BY <1>1, FirstIsLeast
<1> QED
  BY <1>2 DEF RowsBefore

(* One more shard.                                                         *)
LEMMA BeforeAppend ==
  ASSUME NEW ss \in Seq(ShardEntry), Chain(ss), NEW e \in ShardEntry,
         e.shard_idx = Len(ss), e.row_start = LastEnd(ss), e.row_start < e.row_end,
         NEW ks \in SUBSET (1..Len(ss))
  PROVE  LET tt == Append(ss, e)
         IN  /\ RowsBefore(tt, ks \cup {Len(ss) + 1}) = RowsBefore(ss, ks)
             /\ RowsBefore(tt, ks) = IF ks = {} THEN e.row_end ELSE RowsBefore(ss, ks)
<1> DEFINE tt == Append(ss, e)
<1>1. /\ tt \in Seq(ShardEntry) /\ Len(tt) = Len(ss) + 1
      /\ \A k \in 1..Len(ss) : tt[k] = ss[k]
      /\ tt[Len(ss) + 1] = e /\ LastEnd(tt) = e.row_end
  BY AppendChain
<1> HIDE DEF tt
<1>2. Len(ss) \in Nat /\ ks \in SUBSET Nat
  BY LenProperties
<1>3. CASE ks = {}
  <2> DEFINE one == ks \cup {Len(ss) + 1}
  <2>1. one \in SUBSET Nat /\ one # {} /\ \A k \in one : k = Len(ss) + 1
    BY <1>2, <1>3
  <2> HIDE DEF one, tt
  <2>2. First(one, 1) = Len(ss) + 1
    BY <2>1, FirstIsLeast
  <2>3. RowsBefore(tt, one) = LastEnd(ss)
    BY <1>1, <2>1, <2>2 DEF RowsBefore
  <2>4. RowsBefore(tt, ks) = e.row_end /\ RowsBefore(ss, ks) = LastEnd(ss)
    BY <1>1, <1>3 DEF RowsBefore
  <2> QED
    BY <1>3, <2>3, <2>4 DEF one, tt
<1>4. CASE ks # {}
  <2> DEFINE more == ks \cup {Len(ss) + 1}
  <2>1. First(ks, 1) \in ks /\ \A j \in ks : First(ks, 1) <= j
    BY <1>2, <1>4, FirstIsLeast
  <2>2. more \in SUBSET Nat /\ more # {}
    <3>1. Len(ss) + 1 \in Nat
      BY <1>2
    <3> QED
      BY <1>2, <3>1
  <2>3. First(more, 1) \in more /\ \A j \in more : First(more, 1) <= j
    <3> HIDE DEF more
    <3> QED
      BY <2>2, FirstIsLeast
  <2>4. First(more, 1) = First(ks, 1)
    <3>1. First(ks, 1) \in more /\ First(ks, 1) \in 1..Len(ss)
      BY <2>1
    <3>2. First(more, 1) <= First(ks, 1)
      BY <2>3, <3>1
    <3>3. First(more, 1) \in ks
      BY <1>2, <2>3, <3>1, <3>2
    <3>4. First(ks, 1) <= First(more, 1)
      BY <2>1, <3>3
    <3>5. First(ks, 1) \in Nat /\ First(more, 1) \in Nat
      BY <1>2, <2>1, <3>3
    <3> QED
      BY <3>2, <3>4, <3>5
  <2>5. tt[First(ks, 1)] = ss[First(ks, 1)]
    BY <1>1, <2>1
  <2>6. RowsBefore(tt, more) = ss[First(ks, 1)].row_start
    <3> HIDE DEF more
    <3> QED
      BY <2>2, <2>4, <2>5 DEF RowsBefore
  <2>7. RowsBefore(tt, ks) = RowsBefore(ss, ks) /\ RowsBefore(ss, ks) = ss[First(ks, 1)].row_start
    BY <1>4, <2>5 DEF RowsBefore
  <2> QED
    BY <1>4, <2>6, <2>7 DEF more, tt
<1> QED
  BY <1>3, <1>4 DEF tt

(* Fewer shards in the list.                                               *)
LEMMA BeforePrefix ==
  ASSUME NEW ss \in Seq(ShardEntry), Chain(ss), NEW n \in 0..Len(ss), n < Len(ss),
         NEW ks \in SUBSET (1..Len(ss))
  PROVE  LET tt == SubSeq(ss, 1, n)
             b  == RowsBefore(ss, ks)
         IN  /\ LastEnd(tt) = ss[n + 1].row_start
             /\ RowsBefore(tt, ks \cap (1..n)) = IF b <= LastEnd(tt) THEN b ELSE LastEnd(tt)
<1> DEFINE tt == SubSeq(ss, 1, n)
           b  == RowsBefore(ss, ks)
           js == ks \cap (1..n)
<1>1. tt \in Seq(ShardEntry) /\ Len(tt) = n /\ (\A k \in 1..n : tt[k] = ss[k]) /\ Chain(tt)
  BY PrefixChain
<1> HIDE DEF tt
<1>2. Len(ss) \in Nat /\ ks \in SUBSET Nat /\ n \in Nat /\ n + 1 \in 1..Len(ss)
  BY LenProperties
<1>3. LastEnd(tt) = ss[n + 1].row_start
  <2>1. CASE n = 0
    BY <1>1, <1>2, <2>1, EmptySeq DEF LastEnd, Chain
  <2>2. CASE n # 0
    <3>1. ss[n + 1].row_start = ss[n].row_end
      BY <1>2, <2>2 DEF Chain
    <3> QED
      BY <1>1, <1>2, <2>2, <3>1, EmptySeq DEF LastEnd
  <2> QED
    BY <2>1, <2>2
<1>4. /\ ks = {} => b = LastEnd(ss)
      /\ ks # {} => \E k \in ks : b = ss[k].row_start
      /\ \A k \in ks : b <= ss[k].row_start
      /\ b \in Nat
  BY BeforeFacts
<1>5. LastEnd(tt) \in Nat /\ LastEnd(tt) < LastEnd(ss)
  <2>1. /\ ss[n + 1].row_start \in Nat /\ ss[n + 1].row_end \in Nat
        /\ ss[n + 1].row_end <= LastEnd(ss)
    BY <1>2, ChainGrows
  <2>2. ss[n + 1].row_start < ss[n + 1].row_end
    BY <1>2 DEF Chain
  <2>3. LastEnd(ss) \in Nat
    BY LastEndType, WriterAssumption DEF Row
  <2> QED
    BY <1>3, <2>1, <2>2, <2>3
<1>6. CASE js = {}
  <2>1. RowsBefore(tt, js) = LastEnd(tt)
    <3> HIDE DEF js
    <3> QED
      BY <1>6 DEF RowsBefore
  <2>2. \A k \in ks : LastEnd(tt) <= ss[k].row_start
    <3> TAKE k \in ks
    <3>1. k \in 1..Len(ss) /\ k > n
      BY <1>2, <1>6
    <3>2. CASE k = n + 1
      BY <1>3, <1>5, <3>2
    <3>3. CASE n + 1 < k
      <4>1. ss[n + 1].row_end <= ss[k].row_start
        BY <1>2, <3>1, <3>3, ChainGrows
      <4>2. ss[n + 1].row_start < ss[n + 1].row_end
        BY <1>2 DEF Chain
      <4>3. /\ ss[n + 1].row_start \in Nat /\ ss[n + 1].row_end \in Nat
            /\ ss[k].row_start \in Nat
        BY <1>2, <3>1, ChainGrows
      <4> QED
        BY <1>3, <4>1, <4>2, <4>3
    <3> QED
      BY <1>2, <3>1, <3>2, <3>3
  <2>3. LastEnd(tt) <= b
    <3> HIDE DEF b
    <3> QED
      BY <1>4, <1>5, <2>2, LastEndType, WriterAssumption DEF Row
  <2>4. RowsBefore(tt, js) = IF b <= LastEnd(tt) THEN b ELSE LastEnd(tt)
    <3> HIDE DEF b, js
    <3> QED
      BY <1>4, <1>5, <2>1, <2>3
  <2> QED
    BY <1>3, <2>4 DEF tt
<1>7. CASE js # {}
  <2>1. js \in SUBSET Nat /\ js \in SUBSET (1..n) /\ ks # {}
    BY <1>2, <1>7
  <2>2. First(js, 1) \in js /\ \A j \in js : First(js, 1) <= j
    <3> HIDE DEF js
    <3> QED
      BY <1>7, <2>1, FirstIsLeast
  <2>3. First(ks, 1) \in ks /\ \A j \in ks : First(ks, 1) <= j
    BY <1>2, <2>1, FirstIsLeast
  <2> DEFINE f == First(js, 1)
             g == First(ks, 1)
  <2>4. f \in 1..n /\ f \in ks /\ g <= f /\ g \in 1..Len(ss)
    BY <2>2, <2>3
  <2>5. g \in js
    BY <1>2, <2>3, <2>4
  <2>6. f <= g
    BY <2>2, <2>5
  <2>7. f = g
    <3> HIDE DEF f, g
    <3> QED
      BY <1>2, <2>4, <2>6
  <2>8. RowsBefore(tt, js) = tt[f].row_start /\ b = ss[g].row_start
    <3> HIDE DEF js
    <3> QED
      BY <1>7, <2>1 DEF RowsBefore
  <2>9. RowsBefore(tt, js) = b
    BY <1>1, <2>4, <2>7, <2>8
  <2>10. b <= LastEnd(tt)
    <3> HIDE DEF f, g, b
    <3>1. tt[f].row_start < tt[f].row_end /\ f \in 1..Len(tt)
      BY <1>1, <2>4 DEF Chain
    <3>2. /\ tt[f].row_end <= LastEnd(tt) /\ tt[f].row_end \in Nat
          /\ tt[f].row_start \in Nat
      BY <1>1, <3>1, ChainGrows
    <3> QED
      BY <1>1, <1>5, <2>4, <2>7, <2>8, <3>1, <3>2
  <2> HIDE DEF b, js
  <2> QED
    BY <1>3, <2>9, <2>10 DEF tt, b, js
<1> QED
  BY <1>6, <1>7
-----------------------------------------------------------------------------
(* The rows of a list of shards that are confirmed, and those in storage.  *)

Unpushed(ss) == {k \in 1..Len(ss) : ~ss[k].pushed}
Unstored(ss, st) == {k \in 1..Len(ss) : ~Holds(st[ss[k].shard_idx], ss[k])}

LogFacts ==
  /\ shards \in Seq(ShardEntry) /\ Len(shards) \in Nat /\ Chain(shards)
  /\ progress.next_row = LastEnd(shards) /\ LastEnd(shards) \in Nat
  /\ ConfirmedRows = RowsBefore(shards, Unpushed(shards))
  /\ DurableRows = RowsBefore(shards, Unstored(shards, staged))
  /\ Unstored(shards, staged) \in SUBSET Unpushed(shards)
  /\ Unpushed(shards) \in SUBSET (1..Len(shards))
  /\ ConfirmedRows \in Nat /\ DurableRows \in Nat
  /\ ConfirmedRows <= DurableRows /\ DurableRows <= LastEnd(shards)

LEMMA LogState == UInv => LogFacts
<1> SUFFICES ASSUME UInv PROVE LogFacts
  OBVIOUS
<1>1. Inv /\ Files
  BY DEF UInv
<1>2. /\ shards \in Seq(ShardEntry) /\ Len(shards) \in Nat /\ Chain(shards)
      /\ progress.next_row = LastEnd(shards) /\ LastEnd(shards) \in Nat
      /\ \A k \in 1..Len(shards) : shards[k].shard_idx = k - 1
  BY <1>1, StateFacts DEF Recorded
<1>3. /\ ConfirmedRows = RowsBefore(shards, Unpushed(shards))
      /\ DurableRows = RowsBefore(shards, Unstored(shards, staged))
  BY DEF ConfirmedRows, DurableRows, Unpushed, Unstored
<1>4. /\ Unstored(shards, staged) \in SUBSET Unpushed(shards)
      /\ Unpushed(shards) \in SUBSET (1..Len(shards))
      /\ Unstored(shards, staged) \in SUBSET (1..Len(shards))
  BY <1>1, <1>2 DEF Files, PushedStaged, Unpushed, Unstored
<1>5. /\ RowsBefore(shards, Unpushed(shards)) \in Nat
      /\ RowsBefore(shards, Unstored(shards, staged)) \in Nat
      /\ RowsBefore(shards, Unstored(shards, staged)) <= LastEnd(shards)
  BY <1>2, <1>4, BeforeFacts
<1>6. RowsBefore(shards, Unpushed(shards)) <= RowsBefore(shards, Unstored(shards, staged))
  BY <1>2, <1>4, BeforeSubset
<1> QED
  BY <1>2, <1>3, <1>4, <1>5, <1>6 DEF LogFacts

(* Steps that touch none of the four numbers.                              *)
LEMMA LogStutter ==
  ASSUME UNCHANGED <<progress, manifest, staged>>
  PROVE  UNCHANGED Log!vars
<1>1. shards' = shards
  BY DEF shards
<1>2. ConfirmedRows' = ConfirmedRows /\ DurableRows' = DurableRows
  BY <1>1 DEF ConfirmedRows, DurableRows, RowsBefore, LastEnd
<1> QED
  BY <1>2 DEF Log!vars

LEMMA LogRecord ==
  ASSUME UInv, LogFacts, LogFacts', RecordShard
  PROVE  Log!Record
<1>1. Inv /\ Recorded /\ Cursor
  BY DEF UInv, Inv
<1>2. /\ shards \in Seq(ShardEntry) /\ Len(shards) \in Nat /\ Chain(shards)
      /\ progress.next_row = LastEnd(shards) /\ LastEnd(shards) \in Nat
      /\ ConfirmedRows = RowsBefore(shards, Unpushed(shards))
      /\ DurableRows = RowsBefore(shards, Unstored(shards, staged))
      /\ Unpushed(shards) \in SUBSET (1..Len(shards))
      /\ Unstored(shards, staged) \in SUBSET (1..Len(shards))
      /\ DurableRows <= LastEnd(shards) /\ DurableRows \in Nat
  BY DEF LogFacts
<1>3. cur_shard_idx = Len(shards) /\ cur_shard_start = LastEnd(shards)
      /\ cur_shard_start < next_row /\ next_row \in Nat
      /\ Len(shards) <= LastEnd(shards) /\ next_row <= cfg.n_rows /\ next_row \in Row
  <2>1. cur_shard_idx = Len(shards) /\ cur_shard_start = LastEnd(shards)
        /\ cur_shard_start < next_row
    BY <1>1 DEF RecordShard, Cursor, AtEnd
  <2>2. next_row <= call_end /\ call_end <= cfg.n_rows
    BY <1>1 DEF RecordShard, Cursor
  <2>3. next_row \in Row /\ call_end \in Row /\ cfg.n_rows \in Nat
    BY <1>1, StateFacts, ConfigInt DEF TypeOK
  <2> QED
    BY <1>1, <2>1, <2>2, <2>3, StateFacts
<1>4. /\ Entry \in ShardEntry /\ ~Entry.pushed
      /\ Entry.shard_idx = Len(shards) /\ Entry.row_start = LastEnd(shards)
      /\ Entry.row_end = next_row /\ Entry.row_start < Entry.row_end
  <2>1. Len(shards) \in Idx /\ LastEnd(shards) \in Row
    BY <1>1, <1>2, <1>3, StateFacts
  <2> QED
    BY <1>3, <2>1 DEF Entry, ShardEntry
<1> DEFINE tt == Append(shards, Entry)
<1>5. /\ tt \in Seq(ShardEntry) /\ Len(tt) = Len(shards) + 1
      /\ \A k \in 1..Len(shards) : tt[k] = shards[k]
      /\ tt[Len(shards) + 1] = Entry /\ LastEnd(tt) = next_row
  BY <1>2, <1>4, AppendChain
<1>6. shards' = tt /\ progress'.next_row = next_row
  BY <1>1, <1>2, <1>3, <1>5, SaveProgressType, StateFacts DEF RecordShard
<1>7. \A ks \in SUBSET (1..Len(shards)) :
        /\ RowsBefore(tt, ks \cup {Len(shards) + 1}) = RowsBefore(shards, ks)
        /\ RowsBefore(tt, ks) = IF ks = {} THEN next_row ELSE RowsBefore(shards, ks)
  BY <1>2, <1>4, BeforeAppend
<1> HIDE DEF tt
<1>8. UNCHANGED <<staged, manifest>>
  BY DEF RecordShard
<1>9. /\ progress'.next_row = LastEnd(shards') /\ DurableRows' <= LastEnd(shards')
      /\ ConfirmedRows' = RowsBefore(shards', Unpushed(shards'))
      /\ DurableRows' = RowsBefore(shards', Unstored(shards', staged'))
  BY DEF LogFacts
<1>10. ConfirmedRows' = ConfirmedRows
  <2>1. Unpushed(tt) = Unpushed(shards) \cup {Len(shards) + 1}
    BY <1>2, <1>4, <1>5 DEF Unpushed
  <2> QED
    BY <1>2, <1>6, <1>7, <1>9, <2>1
<1>11. DurableRows' >= DurableRows
  <2>1. Unstored(tt, staged) \in {Unstored(shards, staged),
                                  Unstored(shards, staged) \cup {Len(shards) + 1}}
    <3>1. \A k \in 1..Len(tt) : k \in 1..Len(shards) \/ k = Len(shards) + 1
      BY <1>2, <1>5
    <3>2. \A k \in 1..Len(shards) : k \in 1..Len(tt) /\ k # Len(shards) + 1
      BY <1>2, <1>5
    <3>3. Len(shards) + 1 \in 1..Len(tt)
      BY <1>2, <1>5
    <3>4. Unstored(tt, staged) \subseteq Unstored(shards, staged) \cup {Len(shards) + 1}
      BY <1>5, <3>1 DEF Unstored
    <3>5. Unstored(shards, staged) \subseteq Unstored(tt, staged)
      BY <1>5, <3>2 DEF Unstored
    <3> QED
      BY <3>4, <3>5
  <2>2. RowsBefore(shards, Unstored(shards, staged)) <= next_row
    BY <1>2, <1>3
  <2>3. DurableRows' = RowsBefore(tt, Unstored(tt, staged))
    BY <1>6, <1>8, <1>9
  <2>4. DurableRows' \in {next_row, DurableRows}
    <3> DEFINE ks == Unstored(shards, staged)
    <3>1. /\ RowsBefore(tt, ks \cup {Len(shards) + 1}) = DurableRows
          /\ RowsBefore(tt, ks) \in {next_row, DurableRows}
      BY <1>2, <1>7
    <3> QED
      BY <2>1, <2>3, <3>1
  <2> QED
    BY <1>2, <1>3, <2>2, <2>4
<1> QED
  BY <1>2, <1>3, <1>6, <1>8, <1>9, <1>10, <1>11 DEF Log!Record

(* An upload arrives: one more shard is in storage.                        *)
LEMMA LogCopy ==
  ASSUME UInv, LogFacts, LogFacts', NEW k \in 1..Len(pending_uploads), UploadCopy(k)
  PROVE  Log!Store \/ UNCHANGED Log!vars
<1>1. Inv /\ Files /\ Uploads
  BY DEF UInv
<1> DEFINE i == pending_uploads[k].shard_idx
<1>2. /\ UNCHANGED <<progress, manifest>> /\ shards' = shards
      /\ staged' = [staged EXCEPT ![i] = local[node][i]]
      /\ Holds(local[node][i], shards[i + 1])
      /\ i \in Idx /\ i \in Nat /\ i + 1 \in 1..Len(shards)
  <2>1. pending_uploads[k].state = "queued" /\ UNCHANGED <<progress, manifest>>
        /\ staged' = [staged EXCEPT ![i] = local[node][i]]
    BY DEF UploadCopy
  <2>2. i \in Idx /\ i \in Nat /\ i < Len(shards) /\ Len(shards) \in Nat
        /\ Holds(local[node][i], shards[i + 1])
    BY <1>1, <2>1, StateFacts DEF Uploads, Tracked
  <2> HIDE DEF i
  <2> QED
    BY <2>1, <2>2 DEF shards
<1> HIDE DEF i
<1>3. /\ shards \in Seq(ShardEntry) /\ Len(shards) \in Nat /\ Chain(shards)
      /\ progress.next_row = LastEnd(shards) /\ LastEnd(shards) \in Nat
      /\ ConfirmedRows = RowsBefore(shards, Unpushed(shards))
      /\ DurableRows = RowsBefore(shards, Unstored(shards, staged)) /\ DurableRows \in Nat
      /\ Unstored(shards, staged) \in SUBSET (1..Len(shards))
  BY DEF LogFacts
<1>4. /\ ConfirmedRows' = RowsBefore(shards', Unpushed(shards'))
      /\ DurableRows' = RowsBefore(shards', Unstored(shards', staged'))
      /\ DurableRows' <= LastEnd(shards') /\ DurableRows' \in Nat
  BY DEF LogFacts
<1>5. Unstored(shards, staged') \in SUBSET Unstored(shards, staged)
  <2> SUFFICES ASSUME NEW m \in 1..Len(shards), Holds(staged[shards[m].shard_idx], shards[m])
               PROVE  Holds(staged'[shards[m].shard_idx], shards[m])
    BY DEF Unstored
  <2>1. shards[m].shard_idx = m - 1 /\ m - 1 \in Idx /\ staged \in [Idx -> File]
    BY <1>1, StateFacts
  <2>2. CASE m - 1 = i
    <3>1. m = i + 1
      BY <1>2, <1>3, <2>2
    <3> QED
      BY <1>2, <2>1, <2>2, <3>1
  <2>3. CASE m - 1 # i
    BY <1>2, <2>1, <2>3
  <2> QED
    BY <2>2, <2>3
<1>6. DurableRows <= DurableRows'
  BY <1>2, <1>3, <1>4, <1>5, BeforeSubset
<1>7. ConfirmedRows' = ConfirmedRows /\ progress' = progress /\ manifest' = manifest
  BY <1>2, <1>3, <1>4
<1>8. CASE DurableRows' = DurableRows
  BY <1>7, <1>8 DEF Log!vars
<1>9. CASE DurableRows' > DurableRows
  BY <1>2, <1>3, <1>4, <1>7, <1>9 DEF Log!Store
<1> QED
  BY <1>3, <1>4, <1>6, <1>8, <1>9

(* The writer learns that its oldest upload has arrived.                   *)
LEMMA LogConfirm ==
  ASSUME UInv, LogFacts, LogFacts', WaitOldestPendingUpload
  PROVE  Log!Confirm \/ UNCHANGED Log!vars
<1>1. Inv /\ Recorded /\ Cursor
  BY DEF UInv, Inv
<1>2. /\ shards \in Seq(ShardEntry) /\ Len(shards) \in Nat /\ Chain(shards)
      /\ progress.next_row = LastEnd(shards) /\ LastEnd(shards) \in Nat
      /\ ConfirmedRows = RowsBefore(shards, Unpushed(shards)) /\ ConfirmedRows \in Nat
      /\ DurableRows = RowsBefore(shards, Unstored(shards, staged))
      /\ Unpushed(shards) \in SUBSET (1..Len(shards))
      /\ Unstored(shards, staged) \in SUBSET (1..Len(shards))
  BY DEF LogFacts
<1>3. /\ ConfirmedRows' = RowsBefore(shards', Unpushed(shards')) /\ ConfirmedRows' \in Nat
      /\ DurableRows' = RowsBefore(shards', Unstored(shards', staged'))
      /\ ConfirmedRows' <= DurableRows'
  BY DEF LogFacts
<1>4. UNCHANGED <<manifest, staged>>
  BY DEF WaitOldestPendingUpload
<1>5. CASE UNCHANGED progress
  BY <1>4, <1>5, LogStutter
<1>6. CASE ~UNCHANGED progress
  <2> DEFINE j  == Head(pending_uploads).shard_idx + 1
             tt == [shards EXCEPT ![j].pushed = TRUE]
  <2>1. SaveProgress(tt, next_row)
    BY <1>6 DEF WaitOldestPendingUpload
  <2>2. /\ tt \in Seq(ShardEntry) /\ Len(tt) = Len(shards) /\ LastEnd(tt) = LastEnd(shards)
        /\ \A k \in 1..Len(shards) :
             tt[k] = IF k = j THEN [shards[k] EXCEPT !.pushed = TRUE] ELSE shards[k]
    <3> HIDE DEF j
    <3> QED
      BY <1>2, PushedChain
  <2>3. next_row = LastEnd(shards) /\ next_row \in Row
    BY <1>1, StateFacts DEF WaitOldestPendingUpload, Cursor, NothingOpen, AtEnd
  <2> HIDE DEF tt
  <2>4. shards' = tt /\ progress'.next_row = next_row
    BY <1>1, <2>1, <2>2, <2>3, SaveProgressType, StateFacts
  <2> HIDE DEF j
  <2>5. \A k \in 1..Len(shards) :
          /\ tt[k].row_start = shards[k].row_start
          /\ tt[k].shard_idx = shards[k].shard_idx
          /\ shards[k].pushed => tt[k].pushed
          /\ \A f : Holds(f, tt[k]) <=> Holds(f, shards[k])
    <3> TAKE k \in 1..Len(shards)
    <3>1. shards[k] \in ShardEntry
      BY <1>2, ElementOfSeq
    <3>2. /\ [shards[k] EXCEPT !.pushed = TRUE].pushed
          /\ [shards[k] EXCEPT !.pushed = TRUE].shard_idx = shards[k].shard_idx
          /\ [shards[k] EXCEPT !.pushed = TRUE].row_start = shards[k].row_start
          /\ \A f : Holds(f, [shards[k] EXCEPT !.pushed = TRUE]) <=> Holds(f, shards[k])
      BY <3>1, PushedEntry, HoldsFacts
    <3> QED
      BY <2>2, <3>2
  <2>6. Unpushed(tt) \in SUBSET Unpushed(shards)
    BY <2>2, <2>5 DEF Unpushed
  <2>7. Unstored(tt, staged) = Unstored(shards, staged)
    BY <2>2, <2>5 DEF Unstored
  <2>8. \A ks \in SUBSET (1..Len(shards)) : RowsBefore(tt, ks) = RowsBefore(shards, ks)
    BY <1>2, <2>2, <2>5, BeforeSame
  <2>9. DurableRows' = DurableRows
    BY <1>2, <1>3, <1>4, <2>4, <2>7, <2>8
  <2>10. ConfirmedRows <= ConfirmedRows'
    <3>1. RowsBefore(shards, Unpushed(shards)) <= RowsBefore(shards, Unpushed(tt))
      BY <1>2, <2>6, BeforeSubset
    <3>2. RowsBefore(tt, Unpushed(tt)) = RowsBefore(shards, Unpushed(tt))
      BY <1>2, <2>6, <2>8
    <3> QED
      BY <1>2, <1>3, <2>4, <3>1, <3>2
  <2>11. progress'.next_row = progress.next_row /\ manifest' = manifest
    BY <1>2, <1>4, <2>3, <2>4
  <2>12. CASE ConfirmedRows' = ConfirmedRows
    BY <2>9, <2>11, <2>12 DEF Log!vars
  <2>13. CASE ConfirmedRows' > ConfirmedRows
    BY <1>3, <2>9, <2>11, <2>13 DEF Log!Confirm
  <2> QED
    BY <1>2, <1>3, <2>10, <2>12, <2>13
<1> QED
  BY <1>5, <1>6
(* A new run drops the shards that are on no disk it can reach.            *)
LEMMA LogLose ==
  ASSUME UInv, LogFacts, LogFacts', DropShardsMissingLocally
  PROVE  Log!Lose \/ UNCHANGED Log!vars
<1>1. Inv
  BY DEF UInv
<1>2. /\ shards \in Seq(ShardEntry) /\ Len(shards) \in Nat /\ Chain(shards)
      /\ progress.next_row = LastEnd(shards) /\ LastEnd(shards) \in Nat
      /\ ConfirmedRows = RowsBefore(shards, Unpushed(shards)) /\ ConfirmedRows \in Nat
      /\ DurableRows = RowsBefore(shards, Unstored(shards, staged)) /\ DurableRows \in Nat
      /\ Unpushed(shards) \in SUBSET (1..Len(shards))
      /\ Unstored(shards, staged) \in SUBSET (1..Len(shards))
  BY DEF LogFacts
<1>3. /\ progress'.next_row = LastEnd(shards')
      /\ ConfirmedRows' = RowsBefore(shards', Unpushed(shards'))
      /\ DurableRows' = RowsBefore(shards', Unstored(shards', staged'))
  BY DEF LogFacts
<1>4. UNCHANGED <<manifest, staged>>
  BY DEF DropShardsMissingLocally
<1>5. CASE KeptShards = shards
  <2>1. UNCHANGED progress
    BY <1>5 DEF DropShardsMissingLocally
  <2> QED
    BY <1>4, <2>1, LogStutter
<1>6. CASE KeptShards # shards
  <2>1. PICK n \in 0..Len(shards) :
               /\ KeptShards = SubSeq(shards, 1, n)
               /\ n < Len(shards) => MissingLocally(shards[n + 1])
    BY <1>1, KeptPrefix, StateFacts
  <2> DEFINE tt == SubSeq(shards, 1, n)
  <2>2. /\ tt \in Seq(ShardEntry) /\ Len(tt) = n /\ \A k \in 1..n : tt[k] = shards[k]
        /\ LastEnd(tt) \in Row
    BY <1>2, PrefixChain, LastEndType
  <2>3. n < Len(shards)
    <3>1. CASE n = Len(shards)
      <4>1. tt = shards
        <5> HIDE DEF tt
        <5>1. /\ tt \in [1..n -> ShardEntry] /\ shards \in [1..n -> ShardEntry]
          BY <1>2, <2>2, <3>1, LenProperties
        <5> QED
          BY <2>2, <5>1
      <4> QED
        BY <1>6, <2>1, <4>1
    <3> QED
      BY <1>2, <3>1
  <2>4. shards' = tt
    <3>1. SaveProgress(KeptShards, LastEnd(KeptShards))
      BY <1>6 DEF DropShardsMissingLocally
    <3> HIDE DEF tt
    <3> QED
      BY <1>1, <2>1, <2>2, <3>1, SaveProgressType, StateFacts DEF tt
  <2>5. /\ LastEnd(tt) = shards[n + 1].row_start
        /\ \A ks \in SUBSET (1..Len(shards)) :
             RowsBefore(tt, ks \cap (1..n)) =
               IF RowsBefore(shards, ks) <= LastEnd(tt) THEN RowsBefore(shards, ks) ELSE LastEnd(tt)
    BY <1>2, <2>3, BeforePrefix
  <2> HIDE DEF tt
  <2>6. /\ n + 1 \in Unpushed(shards) /\ n + 1 \in 1..Len(shards)
        /\ LastEnd(tt) \in Nat /\ LastEnd(tt) < LastEnd(shards)
    <3>1. n + 1 \in 1..Len(shards)
      BY <1>2, <2>3
    <3>2. n + 1 \in Unpushed(shards)
      BY <2>1, <2>3, <3>1 DEF MissingLocally, Unpushed
    <3>3. shards[n + 1].row_start < shards[n + 1].row_end
      BY <1>2, <3>1 DEF Chain
    <3>4. /\ shards[n + 1].row_end <= LastEnd(shards) /\ shards[n + 1].row_end \in Nat
          /\ shards[n + 1].row_start \in Nat
      BY <1>2, <3>1, ChainGrows
    <3>5. shards[n + 1].row_start < LastEnd(shards)
      <4>1. \A a, b, c \in Nat : a < b /\ b <= c => a < c
        OBVIOUS
      <4> QED
        BY <1>2, <3>3, <3>4, <4>1, Zenon
    <3> QED
      BY <2>5, <3>1, <3>2, <3>4, <3>5
  <2>7. ConfirmedRows <= LastEnd(tt)
    BY <1>2, <2>5, <2>6, BeforeFacts
  <2>8. /\ Unpushed(tt) = Unpushed(shards) \cap (1..n)
        /\ Unstored(tt, staged) = Unstored(shards, staged) \cap (1..n)
    <3>1. \A k \in 1..n : k \in 1..Len(shards)
      BY <1>2
    <3> QED
      BY <2>2, <3>1 DEF Unpushed, Unstored
  <2>9. ConfirmedRows' = ConfirmedRows
    BY <1>2, <1>3, <2>4, <2>5, <2>7, <2>8
  <2>10. DurableRows' = IF DurableRows <= LastEnd(tt) THEN DurableRows ELSE LastEnd(tt)
    BY <1>2, <1>3, <1>4, <2>4, <2>5, <2>8
  <2> QED
    BY <1>2, <1>3, <1>4, <2>4, <2>6, <2>7, <2>9, <2>10 DEF Log!Lose
<1> QED
  BY <1>5, <1>6

(* close() announces what is recorded.                                     *)
LEMMA LogPublish ==
  ASSUME UInv, LogFacts, WriteManifest
  PROVE  Log!Publish
<1>1. next_row = LastEnd(shards) /\ progress.next_row = LastEnd(shards)
  BY DEF UInv, Inv, LogFacts, WriteManifest, Cursor, NothingOpen, AtEnd
<1>2. UNCHANGED <<progress, staged>> /\ manifest'.next_row = next_row
  BY DEF WriteManifest
<1>3. shards' = shards
  BY <1>2 DEF shards
<1>4. ConfirmedRows' = ConfirmedRows /\ DurableRows' = DurableRows
  BY <1>2, <1>3 DEF ConfirmedRows, DurableRows, RowsBefore, LastEnd
<1> QED
  BY <1>1, <1>2, <1>4 DEF Log!Publish

LEMMA LogStep ==
  ASSUME UInv, LogFacts, LogFacts', [Next]_vars
  PROVE  [Log!Next]_Log!vars
<1> USE DEF disk, shard, job, Log!Next
<1>1. CASE WriterStep
  <2>1. CASE DropShardsMissingLocally
    BY <2>1, LogLose
  <2>2. CASE RecordShard
    BY <2>2, LogRecord
  <2>3. CASE WaitOldestPendingUpload
    BY <2>3, LogConfirm
  <2>4. CASE WriteManifest
    BY <2>4, LogPublish
  <2>5. CASE \/ DiscardUnfinishedShard \/ Constructed \/ OpenShard \/ WriteChunk \/ WriteReturns
             \/ SubmitUpload \/ PushDeferredShard \/ DeferredSubmitted \/ Exit
    <3>1. UNCHANGED <<progress, manifest, staged>>
      BY <2>5 DEF DiscardUnfinishedShard, Constructed, OpenShard, WriteChunk, WriteReturns,
                  SubmitUpload, PushDeferredShard, DeferredSubmitted, Exit
    <3> QED
      BY <3>1, LogStutter
  <2> QED
    BY <1>1, <2>1, <2>2, <2>3, <2>4, <2>5 DEF WriterStep
<1>2. CASE CallerStep
  <2>1. UNCHANGED <<progress, manifest, staged>>
    BY <1>2 DEF CallerStep, WriteRows, Close, ClosePartialShard, CallerRaises
  <2> QED
    BY <2>1, LogStutter
<1>3. ASSUME NEW k \in 1..Len(pending_uploads),
             UploadCopy(k) \/ UploadRemove(k) \/ UploadFails(k)
      PROVE  [Log!Next]_Log!vars
  <2>1. CASE UploadCopy(k)
    BY <2>1, LogCopy
  <2>2. CASE UploadRemove(k) \/ UploadFails(k)
    <3>1. UNCHANGED <<progress, manifest, staged>>
      BY <2>2 DEF UploadRemove, UploadFails
    <3> QED
      BY <3>1, LogStutter
  <2> QED
    BY <1>3, <2>1, <2>2
<1>4. CASE Environment
  <2>1. UNCHANGED <<progress, manifest, staged>>
    BY <1>4 DEF Environment, Start, CleanScratch, ReclaimPushed, Crash
  <2> QED
    BY <2>1, LogStutter
<1>5. CASE UNCHANGED vars
  <2>1. UNCHANGED <<progress, manifest, staged>>
    BY <1>5 DEF vars
  <2> QED
    BY <2>1, LogStutter
<1> QED
  BY <1>1, <1>2, <1>3, <1>4, <1>5 DEF Next, PoolStep

(* The writer implements the resumable log: whatever the runs' parameters  *)
(* and wherever runs are killed, rows become durable, confirmed and        *)
(* published in that order, and confirmed rows are never lost.             *)
THEOREM WriterImplementsLog ==
  ASSUME OneNode
  PROVE  Spec => ImplementsLog
<1>1. Init => Log!Init
  <2> SUFFICES ASSUME Init PROVE Log!Init
    OBVIOUS
  <2>1. shards = <<>> /\ Len(shards) = 0
    BY DEF Init, shards
  <2>2. ConfirmedRows = 0 /\ DurableRows = 0
    BY <2>1 DEF ConfirmedRows, DurableRows, RowsBefore, LastEnd
  <2> QED
    BY <2>2 DEF Init, Log!Init
<1>2. UInv /\ LogFacts /\ LogFacts' /\ [Next]_vars => [Log!Next]_Log!vars
  BY LogStep
<1> QED
  BY <1>1, <1>2, UInvariant, LogState, PTL DEF Spec, ImplementsLog, Log!Spec

-----------------------------------------------------------------------------
(* What close() goes through.                                              *)

Awaited(k) == \E j \in 1..Len(pending_uploads) : pending_uploads[j].shard_idx = k - 1

Promised ==
  cfg.defer_push /\ ~cfg.no_push =>
    /\ pc = "defer" => \A k \in 1..Len(shards) : k < deferred => shards[k].pushed \/ Awaited(k)
    /\ pc = "drain" => \A k \in 1..Len(shards) : shards[k].pushed \/ Awaited(k)
    /\ pc = "closed" => \A k \in 1..Len(shards) : shards[k].pushed

Announced ==
  pc = "closed" => /\ pending_uploads = <<>>
                   /\ manifest.completed_shards = shards
                   /\ manifest.next_row = LastEnd(shards)

CInv == UInv /\ Promised /\ Announced

(* The oldest upload is taken off the list.                                *)
LEMMA WaitFacts ==
  ASSUME UInv, WaitOldestPendingUpload
  PROVE  LET i == Head(pending_uploads).shard_idx
         IN  /\ Len(pending_uploads) \in Nat \ {0}
             /\ i = pending_uploads[1].shard_idx /\ i + 1 \in 1..Len(shards)
             /\ Len(pending_uploads') = Len(pending_uploads) - 1
             /\ \A k \in 1..Len(pending_uploads') : pending_uploads'[k] = pending_uploads[k + 1]
             /\ Len(shards') = Len(shards) /\ LastEnd(shards)' = LastEnd(shards)
             /\ pc' = pc => shards'[i + 1].pushed
             /\ \A k \in 1..Len(shards) :
                  /\ shards'[k].row_start = shards[k].row_start
                  /\ shards'[k].row_end = shards[k].row_end
                  /\ shards'[k].shard_idx = shards[k].shard_idx
                  /\ shards[k].pushed => shards'[k].pushed
<1> DEFINE up == Head(pending_uploads)
           i  == up.shard_idx
           tt == [shards EXCEPT ![i + 1].pushed = TRUE]
<1>1. Inv /\ Uploads
  BY DEF UInv
<1>2. pending_uploads # <<>> /\ pending_uploads' = Tail(pending_uploads)
  BY DEF WaitOldestPendingUpload
<1>3. /\ Len(pending_uploads') = Len(pending_uploads) - 1
      /\ \A k \in 1..Len(pending_uploads') : pending_uploads'[k] = pending_uploads[k + 1]
      /\ Len(pending_uploads) \in Nat \ {0}
      /\ up = pending_uploads[1]
  BY <1>1, <1>2, StateFacts, HeadTailProperties, EmptySeq
<1>4. i + 1 \in 1..Len(shards) /\ i = pending_uploads[1].shard_idx
  <2>1. 1 \in 1..Len(pending_uploads)
    BY <1>3
  <2>2. i \in Nat /\ i < Len(shards) /\ Len(shards) \in Nat
    BY <1>1, <1>3, <2>1, StateFacts DEF Uploads, Tracked
  <2>3. i = pending_uploads[1].shard_idx
    BY <1>3
  <2> HIDE DEF i
  <2> QED
    BY <2>2, <2>3
<1>5. \/ shards' = tt /\ pc' = pc
      \/ shards' = shards /\ pc' = "exiting" /\ pc # "exiting"
  BY DEF WaitOldestPendingUpload, SaveProgress, shards
<1>6. shards \in Seq(ShardEntry)
  BY <1>1, StateFacts
<1>7. /\ Len(tt) = Len(shards) /\ LastEnd(tt) = LastEnd(shards)
      /\ \A k \in 1..Len(shards) :
           tt[k] = IF k = i + 1 THEN [shards[k] EXCEPT !.pushed = TRUE] ELSE shards[k]
  <2> HIDE DEF i
  <2> QED
    BY <1>6, PushedChain
<1>8. LastEnd(shards)' = LastEnd(shards')
  BY DEF LastEnd
<1> HIDE DEF tt, i, up
<1>9. \A k \in 1..Len(shards) :
        /\ tt[k].row_start = shards[k].row_start
        /\ tt[k].row_end = shards[k].row_end
        /\ tt[k].shard_idx = shards[k].shard_idx
        /\ shards[k].pushed => tt[k].pushed
        /\ k = i + 1 => tt[k].pushed
  <2> TAKE k \in 1..Len(shards)
  <2>1. shards[k] \in ShardEntry
    BY <1>6, ElementOfSeq
  <2> QED
    BY <1>7, <2>1, PushedEntry
<1> QED
  BY <1>3, <1>4, <1>5, <1>7, <1>8, <1>9 DEF i, up

(* Only these steps lead into or through close().                          *)
LEMMA ClosingStep ==
  ASSUME Next, pc' \in {"defer", "drain", "closed"}
  PROVE  \/ Close \/ PushDeferredShard \/ DeferredSubmitted \/ WaitOldestPendingUpload
         \/ WriteManifest \/ PoolStep
BY DEF Next, WriterStep, CallerStep, Environment, DropShardsMissingLocally,
       DiscardUnfinishedShard, Constructed, OpenShard, WriteChunk, WriteReturns, RecordShard,
       SubmitUpload, Exit, Crash, NoJob, WriteRows, ClosePartialShard, CallerRaises, Start,
       CleanScratch, ReclaimPushed

LEMMA CInvStep ==
  ASSUME OneNode, CInv, [Next]_vars
  PROVE  CInv'
<1> USE DEF disk, shard, job
<1>1. UInv' /\ UInv /\ Inv /\ Promised /\ Announced
  BY UInvStep DEF CInv, UInv
<1>2. /\ Len(shards) \in Nat /\ Len(pending_uploads) \in Nat
      /\ pending_uploads \in Seq(UploadType)
      /\ \A k \in 1..Len(shards) : shards[k] \in ShardEntry /\ shards[k].shard_idx = k - 1
  BY <1>1, StateFacts
<1>3. CASE UNCHANGED vars
  <2>1. /\ UNCHANGED <<progress, manifest, pc, cfg, deferred, pending_uploads>>
        /\ UNCHANGED <<shards, LastEnd(shards)>>
    BY <1>3 DEF vars, shards, LastEnd
  <2> QED
    BY <1>1, <2>1 DEF CInv, Promised, Announced, Awaited
<1>4. CASE pc' \notin {"defer", "drain", "closed"}
  BY <1>1, <1>4 DEF CInv, Promised, Announced
<1>5. CASE Close
  <2>1. /\ pc' = (IF cfg.defer_push /\ ~cfg.no_push THEN "defer" ELSE "drain")
        /\ UNCHANGED cfg /\ deferred' = 1
    BY <1>5 DEF Close
  <2> QED
    BY <1>1, <2>1 DEF CInv, Promised, Announced
<1>6. CASE PushDeferredShard
  <2>1. /\ pc' = "defer" /\ pc = "defer" /\ UNCHANGED <<cfg, shards>>
        /\ deferred' = deferred + 1 /\ deferred <= Len(shards)
        /\ \/ shards[deferred].pushed /\ pending_uploads' = pending_uploads
           \/ pending_uploads' = Append(pending_uploads, Upload(shards[deferred]))
    BY <1>6 DEF PushDeferredShard, shards
  <2>2. deferred \in Nat /\ deferred >= 1 /\ deferred \in 1..Len(shards)
    BY <1>1, <1>2, <2>1 DEF Inv, TypeOK, Cursor
  <2>3. ASSUME pending_uploads' = Append(pending_uploads, Upload(shards[deferred]))
        PROVE  /\ \E j \in 1..Len(pending_uploads') :
                    pending_uploads'[j].shard_idx = deferred - 1
               /\ \A k : Awaited(k) => \E j \in 1..Len(pending_uploads') :
                                          pending_uploads'[j].shard_idx = k - 1
    <3>1. Upload(shards[deferred]) \in UploadType
      BY <1>2, <2>2 DEF Upload, UploadType, ShardEntry
    <3>2. /\ Len(pending_uploads') = Len(pending_uploads) + 1
          /\ \A j \in 1..Len(pending_uploads) : pending_uploads'[j] = pending_uploads[j]
          /\ pending_uploads'[Len(pending_uploads) + 1] = Upload(shards[deferred])
      BY <1>2, <2>3, <3>1, AppendProperties
    <3>3. pending_uploads'[Len(pending_uploads) + 1].shard_idx = deferred - 1
      BY <1>2, <2>2, <3>2 DEF Upload
    <3>4. /\ Len(pending_uploads) + 1 \in 1..Len(pending_uploads')
          /\ \A j \in 1..Len(pending_uploads) : j \in 1..Len(pending_uploads')
      BY <1>2, <3>2
    <3>5. \E j \in 1..Len(pending_uploads') : pending_uploads'[j].shard_idx = deferred - 1
      BY <3>3, <3>4
    <3>6. ASSUME NEW k, Awaited(k)
          PROVE  \E j \in 1..Len(pending_uploads') : pending_uploads'[j].shard_idx = k - 1
      <4>1. PICK j \in 1..Len(pending_uploads) : pending_uploads[j].shard_idx = k - 1
        BY <3>6 DEF Awaited
      <4>2. j \in 1..Len(pending_uploads') /\ pending_uploads'[j] = pending_uploads[j]
        BY <3>2, <3>4
      <4> QED
        BY <4>1, <4>2
    <3> QED
      BY <3>5, <3>6
  <2>4. \A k : Awaited(k) => \E j \in 1..Len(pending_uploads') :
                                  pending_uploads'[j].shard_idx = k - 1
    BY <2>1, <2>3 DEF Awaited
  <2>5. \A k \in 1..Len(shards) : k < deferred + 1 => k < deferred \/ k = deferred
    BY <2>2
  <2>6. ASSUME cfg.defer_push, ~cfg.no_push
        PROVE  \A k \in 1..Len(shards) : k < deferred + 1 =>
                 shards[k].pushed \/ \E j \in 1..Len(pending_uploads') :
                                        pending_uploads'[j].shard_idx = k - 1
    <3>1. \A k \in 1..Len(shards) : k < deferred => shards[k].pushed \/ Awaited(k)
      BY <1>1, <2>1, <2>6 DEF Promised
    <3>2. \A k \in 1..Len(shards) : k = deferred =>
            shards[k].pushed \/ \E j \in 1..Len(pending_uploads') :
                                   pending_uploads'[j].shard_idx = k - 1
      BY <2>1, <2>3
    <3> QED
      BY <2>4, <2>5, <3>1, <3>2
  <2>7. Promised'
    BY <2>1, <2>6 DEF Promised, Awaited
  <2> QED
    BY <1>1, <2>1, <2>7 DEF CInv, Announced
<1>7. CASE DeferredSubmitted
  <2>1. /\ pc' = "drain" /\ pc = "defer" /\ UNCHANGED <<cfg, shards, pending_uploads>>
        /\ deferred > Len(shards)
    BY <1>7 DEF DeferredSubmitted, shards
  <2>2. \A k \in 1..Len(shards) : k < deferred
    BY <1>1, <1>2, <2>1 DEF Inv, TypeOK
  <2> QED
    BY <1>1, <2>1, <2>2 DEF CInv, Promised, Announced, Awaited
<1>8. CASE WaitOldestPendingUpload /\ pc' # "exiting"
  <2> DEFINE i == Head(pending_uploads).shard_idx
  <2>1. UNCHANGED <<pc, cfg, deferred>> /\ pc # "closed"
    BY <1>8 DEF WaitOldestPendingUpload
  <2>2. /\ i = pending_uploads[1].shard_idx /\ i + 1 \in 1..Len(shards)
        /\ Len(pending_uploads') = Len(pending_uploads) - 1
        /\ \A k \in 1..Len(pending_uploads') : pending_uploads'[k] = pending_uploads[k + 1]
        /\ Len(shards') = Len(shards)
        /\ shards'[i + 1].pushed
        /\ \A k \in 1..Len(shards) : shards[k].pushed => shards'[k].pushed
    BY <1>1, <1>8, <2>1, WaitFacts
  <2> HIDE DEF i
  <2>3. ASSUME NEW k \in 1..Len(shards), shards[k].pushed \/ Awaited(k)
        PROVE  shards'[k].pushed \/ Awaited(k)'
    <3>1. CASE shards[k].pushed
      BY <2>2, <3>1
    <3>2. CASE Awaited(k)
      <4>1. PICK j \in 1..Len(pending_uploads) : pending_uploads[j].shard_idx = k - 1
        BY <3>2 DEF Awaited
      <4>2. CASE j = 1
        <5>1. k = i + 1
          BY <1>2, <2>2, <4>1, <4>2
        <5> QED
          BY <2>2, <5>1
      <4>3. CASE j # 1
        <5>1. j - 1 \in 1..Len(pending_uploads') /\ (j - 1) + 1 = j
          BY <1>2, <2>2, <4>3
        <5>2. pending_uploads'[j - 1] = pending_uploads[j]
          BY <2>2, <5>1
        <5> QED
          BY <4>1, <5>1, <5>2 DEF Awaited
      <4> QED
        BY <4>2, <4>3
    <3> QED
      BY <2>3, <3>1, <3>2
  <2> QED
    BY <1>1, <2>1, <2>2, <2>3 DEF CInv, Promised, Announced
<1>9. CASE WriteManifest
  <2>1. /\ pc = "drain" /\ pc' = "closed" /\ pending_uploads = <<>>
        /\ UNCHANGED <<progress, cfg, pending_uploads>>
        /\ manifest'.completed_shards = shards /\ manifest'.next_row = next_row
    BY <1>9 DEF WriteManifest
  <2>2. UNCHANGED shards /\ LastEnd(shards)' = LastEnd(shards)
    BY <2>1 DEF shards, LastEnd
  <2>3. next_row = LastEnd(shards)
    BY <1>1, <2>1 DEF Inv, Cursor, NothingOpen, AtEnd
  <2>4. \A k : ~Awaited(k)
    BY <2>1 DEF Awaited
  <2>5. Promised'
    BY <1>1, <2>1, <2>2, <2>4 DEF Promised
  <2> QED
    BY <1>1, <2>1, <2>2, <2>3, <2>5 DEF CInv, Announced
<1>10. ASSUME NEW k \in 1..Len(pending_uploads),
              UploadCopy(k) \/ UploadRemove(k) \/ UploadFails(k)
       PROVE  CInv'
  <2>1. /\ UNCHANGED <<progress, manifest, node, cfg, pc, deferred>>
        /\ \E st : pending_uploads' = [pending_uploads EXCEPT ![k].state = st]
    BY <1>10 DEF UploadCopy, UploadRemove, UploadFails
  <2>2. /\ shards' = shards /\ Len(pending_uploads') = Len(pending_uploads)
        /\ \A j \in 1..Len(pending_uploads) :
             pending_uploads'[j].shard_idx = pending_uploads[j].shard_idx
    BY <1>1, <2>1, PoolFacts
  <2>3. \A m : Awaited(m) => Awaited(m)'
    BY <2>2 DEF Awaited
  <2>4. pc # "closed"
    BY <1>1, <1>2 DEF Announced
  <2> QED
    BY <1>1, <2>1, <2>2, <2>3, <2>4 DEF CInv, Promised, Announced
<1>11. ASSUME Next, pc' \in {"defer", "drain", "closed"} PROVE CInv'
  <2>1. \/ Close \/ PushDeferredShard \/ DeferredSubmitted \/ WaitOldestPendingUpload
        \/ WriteManifest \/ PoolStep
    BY <1>11, ClosingStep
  <2> QED
    BY <1>5, <1>6, <1>7, <1>8, <1>9, <1>10, <1>11, <2>1 DEF PoolStep
<1> QED
  BY <1>3, <1>4, <1>11

LEMMA CInvariant ==
  ASSUME OneNode
  PROVE  Spec => []CInv
<1>1. Init => CInv
  <2>1. Init => Promised /\ Announced
    BY DEF Init, Promised, Announced
  <2> QED
    BY <2>1, UInvInit DEF CInv
<1>2. CInv /\ [Next]_vars => CInv'
  BY CInvStep
<1> QED
  BY <1>1, <1>2, PTL DEF Spec

(* When close() has returned, load_shard_rows on the same node reads every *)
(* row of the manifest from whole shards, and a deferred run has left no   *)
(* shard behind, whatever was killed, failed or reconfigured before.       *)
THEOREM ClosedOnOneNode ==
  ASSUME OneNode
  PROVE  Spec => []ClosedIsReadable
<1>1. CInv => ClosedIsReadable
  <2> SUFFICES ASSUME CInv, pc = "closed"
               PROVE  /\ manifest.completed_shards = shards
                      /\ manifest.next_row = LastEnd(shards)
                      /\ \A k \in 1..Len(shards) : Holds(LoadedShard(node, shards[k]), shards[k])
                      /\ cfg.defer_push /\ ~cfg.no_push => \A k \in 1..Len(shards) : shards[k].pushed
    BY DEF ClosedIsReadable
  <2>1. UInv /\ Inv /\ Promised /\ Announced /\ Files
    BY DEF CInv, UInv
  <2>2. \A k \in 1..Len(shards) : shards[k].shard_idx = k - 1
    BY <2>1, StateFacts
  <2>3. \A k \in 1..Len(shards) : ~shards[k].pushed => local[node][k - 1] # NoFile
    BY <2>1 DEF Files, NotGone, Announced
  <2>4. \A k \in 1..Len(shards) : Holds(LoadedShard(node, shards[k]), shards[k])
    BY <2>1, <2>2, <2>3 DEF LoadedShard, Files, IntactHere, PushedStaged
  <2> QED
    BY <2>1, <2>4 DEF Announced, Promised
<1> QED
  BY <1>1, CInvariant, PTL
-----------------------------------------------------------------------------
(* Later runs and the manifest of an earlier one.                          *)

(* Whatever else the command lines differ in, they cut the same rows at    *)
(* the same places: --shard-rows is the same, or not passed at all.        *)
UniformCut == \A c, d \in Configs : c.n_rows = d.n_rows /\ c.shard_rows = d.shard_rows

published == manifest.completed_shards
Aligned(ss) == \A k \in 1..Len(ss) : ss[k].row_end = ShardCapacityEnd(ss[k].row_start)
SameRows ==
  \A k \in 1..Len(published) : k \in 1..Len(shards) =>
    published[k].row_start = shards[k].row_start /\ published[k].row_end = shards[k].row_end
FullIsCut == pc = "full" => next_row = ShardCapacityEnd(cur_shard_start)

PInv ==
  /\ UInv /\ FullIsCut
  /\ Chain(published) /\ Aligned(shards) /\ Aligned(published) /\ SameRows
  /\ PublishedIsStaged

(* Every run cuts where the runs before it did.                            *)
LEMMA SameCut ==
  ASSUME UniformCut, UInv, UInv'
  PROVE  \A r : ShardCapacityEnd(r)' = ShardCapacityEnd(r)
<1>1. cfg \in Configs /\ cfg' \in Configs
  BY DEF UInv, Inv, TypeOK
<1> QED
  BY <1>1 DEF UniformCut, ShardCapacityEnd

(* Shards may go, be marked, or be added where the rows end; neither the   *)
(* manifest nor staging changes.                                           *)
LEMMA PublishKeep ==
  ASSUME UniformCut, PInv, UInv', FullIsCut', UNCHANGED <<manifest, staged>>,
         \A k \in 1..Len(shards') :
           \/ /\ k \in 1..Len(shards)
              /\ shards'[k].row_start = shards[k].row_start
              /\ shards'[k].row_end = shards[k].row_end
           \/ /\ k = Len(shards) + 1
              /\ shards'[k].row_start = LastEnd(shards)
              /\ shards'[k].row_end = ShardCapacityEnd(LastEnd(shards))
  PROVE  PInv'
<1>1. /\ UInv /\ Inv /\ Chain(published) /\ Aligned(shards) /\ Aligned(published) /\ SameRows
      /\ PublishedIsStaged
  BY DEF PInv, UInv
<1>2. published' = published /\ Len(published) \in Nat
  BY <1>1, StateFacts, LenProperties DEF published, TypeOK, ProgressType
<1>3. Len(shards) \in Nat
  BY <1>1, StateFacts
<1>4. \A r : ShardCapacityEnd(r)' = ShardCapacityEnd(r)
  BY <1>1, SameCut
<1>5. Aligned(shards)'
  <2> SUFFICES ASSUME NEW k \in 1..Len(shards')
               PROVE  (shards[k].row_end = ShardCapacityEnd(shards[k].row_start))'
    BY DEF Aligned
  <2>1. shards'[k].row_end = ShardCapacityEnd(shards'[k].row_start)
    BY <1>1 DEF Aligned
  <2>2. ShardCapacityEnd(shards[k].row_start)' = ShardCapacityEnd(shards'[k].row_start)
    <3>1. cfg \in Configs /\ cfg' \in Configs
      BY <1>1 DEF UInv, Inv, TypeOK
    <3> QED
      BY <3>1 DEF UniformCut, ShardCapacityEnd
  <2> QED
    BY <2>1, <2>2
<1>6. Aligned(published)'
  BY <1>1, <1>2, <1>4 DEF Aligned
<1>7. SameRows'
  <2> SUFFICES ASSUME NEW k \in 1..Len(published), k \in 1..Len(shards')
               PROVE  /\ published[k].row_start = shards'[k].row_start
                      /\ published[k].row_end = shards'[k].row_end
    BY <1>2 DEF SameRows
  <2>1. CASE k \in 1..Len(shards) /\ shards'[k].row_start = shards[k].row_start
                                  /\ shards'[k].row_end = shards[k].row_end
    BY <1>1, <2>1 DEF SameRows
  <2>2. CASE k = Len(shards) + 1 /\ shards'[k].row_start = LastEnd(shards)
                                 /\ shards'[k].row_end = ShardCapacityEnd(LastEnd(shards))
    <3>1. published[k].row_start = LastEnd(shards)
      <4>1. CASE shards = <<>>
        BY <1>1, <2>2, <4>1 DEF Chain, LastEnd
      <4>2. CASE shards # <<>>
        <5>1. Len(shards) # 0
          BY <1>1, <4>2, StateFacts, EmptySeq
        <5>2. k # 1 /\ k - 1 = Len(shards) /\ k - 1 \in 1..Len(shards) /\ k - 1 \in 1..Len(published)
          BY <1>2, <1>3, <2>2, <5>1
        <5>3. published[k].row_start = published[k - 1].row_end
          BY <1>1, <5>2 DEF Chain
        <5> QED
          BY <1>1, <4>2, <5>2, <5>3 DEF SameRows, LastEnd
      <4> QED
        BY <4>1, <4>2
    <3> QED
      BY <1>1, <2>2, <3>1 DEF Aligned
  <2> QED
    BY <2>1, <2>2
<1>8. PublishedIsStaged'
  BY <1>1 DEF PublishedIsStaged
<1> QED
  BY <1>1, <1>2, <1>5, <1>6, <1>7, <1>8 DEF PInv

(* The other steps leave the records, staging and the cut alone.           *)
LEMMA PublishFrame ==
  ASSUME Next
  PROVE  \/ DropShardsMissingLocally \/ WriteChunk \/ RecordShard \/ WaitOldestPendingUpload
         \/ WriteManifest \/ \E k \in 1..Len(pending_uploads) : UploadCopy(k)
         \/ /\ UNCHANGED <<progress, manifest, staged>>
            /\ pc' = "full" => UNCHANGED <<pc, cfg, next_row, cur_shard_start>>
<1> USE DEF disk, shard, job
<1>1. CASE WriterStep
  BY <1>1 DEF WriterStep, DiscardUnfinishedShard, Constructed, OpenShard, WriteReturns,
              SubmitUpload, Rollover, PushDeferredShard, DeferredSubmitted, Exit, NoJob
<1>2. CASE CallerStep
  BY <1>2 DEF CallerStep, WriteRows, Close, ClosePartialShard, CallerRaises
<1>3. CASE PoolStep
  BY <1>3 DEF PoolStep, UploadRemove, UploadFails
<1>4. CASE Environment
  BY <1>4 DEF Environment, Start, CleanScratch, ReclaimPushed, Crash, NoJob
<1> QED
  BY <1>1, <1>2, <1>3, <1>4 DEF Next

LEMMA PInvStep ==
  ASSUME OneNode, UniformCut, PInv, [Next]_vars
  PROVE  PInv'
<1> USE DEF disk, shard, job
<1>1. UInv' /\ UInv /\ Inv /\ FullIsCut
  BY UInvStep DEF PInv, UInv
<1>2. /\ Chain(published) /\ Aligned(shards) /\ Aligned(published) /\ SameRows
      /\ PublishedIsStaged
  BY DEF PInv
<1>3. /\ shards \in Seq(ShardEntry) /\ Len(shards) \in Nat /\ TypeOK /\ Chain(shards)
      /\ \A k \in 1..Len(shards) : shards[k].shard_idx = k - 1 /\ k - 1 \in Idx
  BY <1>1, StateFacts DEF Recorded
<1>4. \A r : ShardCapacityEnd(r)' = ShardCapacityEnd(r)
  BY <1>1, SameCut
<1>5. ASSUME UNCHANGED <<manifest, staged>>, UNCHANGED shards, FullIsCut'
      PROVE  PInv'
  BY <1>1, <1>5, PublishKeep
<1>6. CASE UNCHANGED <<progress, manifest, staged>>
           /\ (pc' = "full" => UNCHANGED <<pc, cfg, next_row, cur_shard_start>>)
  <2>1. UNCHANGED shards
    BY <1>6 DEF shards
  <2>2. FullIsCut'
    BY <1>1, <1>4, <1>6 DEF FullIsCut
  <2> QED
    BY <1>5, <1>6, <2>1, <2>2
<1>7. CASE DropShardsMissingLocally
  <2>1. UNCHANGED <<manifest, staged>> /\ pc' # "full"
    BY <1>7 DEF DropShardsMissingLocally
  <2>2. PICK n \in 0..Len(shards) : KeptShards = SubSeq(shards, 1, n)
    BY <1>3, KeptPrefix
  <2>3. shards' = SubSeq(shards, 1, n)
    <3>1. KeptShards = shards => shards' = KeptShards
      BY <1>7 DEF DropShardsMissingLocally, shards
    <3>2. KeptShards # shards => shards' = KeptShards
      BY <1>7 DEF DropShardsMissingLocally, SaveProgress, shards
    <3> QED
      BY <2>2, <3>1, <3>2
  <2>4. Len(shards') = n /\ \A k \in 1..n : shards'[k] = shards[k]
    BY <1>3, <2>3, PrefixChain
  <2>5. \A k \in 1..Len(shards') : k \in 1..Len(shards) /\ shards'[k] = shards[k]
    BY <1>3, <2>4
  <2> QED
    BY <1>1, <2>1, <2>5, PublishKeep DEF FullIsCut
<1>8. CASE WriteChunk
  <2>1. UNCHANGED <<progress, manifest, staged, cur_shard_start, cfg>>
    BY <1>8 DEF WriteChunk
  <2>2. pc' = "full" => next_row' = ShardCapacityEnd(cur_shard_start)
    BY <1>8 DEF WriteChunk
  <2>3. UNCHANGED shards
    BY <2>1 DEF shards
  <2>4. FullIsCut'
    BY <1>4, <2>1, <2>2 DEF FullIsCut
  <2> QED
    BY <1>5, <2>1, <2>3, <2>4
<1>9. CASE RecordShard
  <2>1. UNCHANGED <<manifest, staged>> /\ pc' # "full"
        /\ cur_shard_start = LastEnd(shards) /\ next_row = ShardCapacityEnd(LastEnd(shards))
        /\ cur_shard_idx = Len(shards)
    BY <1>1, <1>9 DEF RecordShard, Inv, Cursor, AtEnd, FullIsCut
  <2>2. shards' = Append(shards, Entry)
    BY <1>9 DEF RecordShard, SaveProgress, shards
  <2>3. /\ Len(shards') = Len(shards) + 1 /\ shards'[Len(shards) + 1] = Entry
        /\ \A k \in 1..Len(shards) : shards'[k] = shards[k]
    BY <1>3, <2>2
  <2>4. Entry.row_start = LastEnd(shards) /\ Entry.row_end = ShardCapacityEnd(LastEnd(shards))
    BY <2>1 DEF Entry
  <2>5. \A k \in 1..Len(shards') : k \in 1..Len(shards) \/ k = Len(shards) + 1
    BY <1>3, <2>3
  <2>6. FullIsCut'
    BY <2>1 DEF FullIsCut
  <2> QED
    BY <1>1, <2>1, <2>3, <2>4, <2>5, <2>6, PublishKeep
<1>10. CASE WaitOldestPendingUpload
  <2>1. UNCHANGED <<manifest, staged>> /\ pc' # "full"
    BY <1>10 DEF WaitOldestPendingUpload
  <2>2. Len(shards') = Len(shards)
        /\ \A k \in 1..Len(shards) : /\ shards'[k].row_start = shards[k].row_start
                                     /\ shards'[k].row_end = shards[k].row_end
    BY <1>1, <1>10, WaitFacts
  <2> QED
    BY <1>1, <2>1, <2>2, PublishKeep DEF FullIsCut
<1>11. CASE WriteManifest
  <2>1. published' = shards /\ UNCHANGED <<progress, staged, pending_uploads>> /\ pc' # "full"
    BY <1>11 DEF WriteManifest, published
  <2>2. UNCHANGED shards
    BY <2>1 DEF shards
  <2>3. Chain(published)' /\ SameRows' /\ FullIsCut'
    BY <1>3, <2>1, <2>2 DEF Chain, SameRows, FullIsCut
  <2>4. Aligned(shards)' /\ Aligned(published)'
    BY <1>2, <1>4, <2>1, <2>2 DEF Aligned
  <2>5. PublishedIsStaged'
    BY <1>1, <1>3, <2>1 DEF PublishedIsStaged, published, UInv, Files, PushedStaged
  <2> QED
    BY <1>1, <2>3, <2>4, <2>5 DEF PInv
<1>12. ASSUME NEW k \in 1..Len(pending_uploads), UploadCopy(k)
       PROVE  PInv'
  <2> DEFINE i == pending_uploads[k].shard_idx
  <2>1. UNCHANGED <<progress, manifest, cfg, pc, next_row, cur_shard_start>>
        /\ pending_uploads[k].state = "queued"
        /\ staged' = [staged EXCEPT ![i] = local[node][i]]
    BY <1>12 DEF UploadCopy
  <2>2. /\ UNCHANGED <<shards, published>>
    BY <2>1 DEF shards, published
  <2>3. i \in Idx /\ i \in Nat /\ i < Len(shards) /\ Holds(local[node][i], shards[i + 1])
    BY <1>1, <2>1, StateFacts DEF UInv, Uploads, Tracked
  <2>4. staged \in [Idx -> File]
    BY <1>3 DEF TypeOK
  <2>5. PublishedIsStaged'
    <3> SUFFICES ASSUME NEW m \in 1..Len(published), published[m].pushed
                 PROVE  Holds(staged'[published[m].shard_idx], published[m])
      BY <2>2 DEF PublishedIsStaged, published
    <3>1. published[m].shard_idx = m - 1 /\ Len(published) \in Nat
      BY <1>2, <1>3, LenProperties DEF Chain, published, TypeOK, ProgressType
    <3>2. CASE published[m].shard_idx = i
      <4>1. m = i + 1 /\ m \in 1..Len(shards)
        <5> HIDE DEF i
        <5> QED
          BY <1>3, <2>3, <3>1, <3>2
      <4>2. staged'[i] = local[node][i]
        BY <2>1, <2>3, <2>4
      <4>3. Holds(staged'[i], shards[m])
        BY <2>3, <4>1, <4>2
      <4> QED
        BY <1>2, <3>2, <4>1, <4>3 DEF SameRows, Holds
    <3>3. CASE published[m].shard_idx # i
      <4>1. Holds(staged[published[m].shard_idx], published[m])
        BY <1>2 DEF PublishedIsStaged, published
      <4>2. staged'[published[m].shard_idx] = staged[published[m].shard_idx]
        BY <2>1, <3>3
      <4> QED
        BY <4>1, <4>2
    <3> QED
      BY <3>2, <3>3
  <2>6. Chain(published)' /\ SameRows'
    BY <1>2, <2>2 DEF Chain, SameRows
  <2>7. Aligned(shards)' /\ Aligned(published)' /\ FullIsCut'
    BY <1>1, <1>2, <1>4, <2>1, <2>2 DEF Aligned, FullIsCut
  <2> QED
    BY <1>1, <2>5, <2>6, <2>7 DEF PInv
<1>13. CASE UNCHANGED vars
  <2>1. UNCHANGED <<progress, manifest, staged, pc, cfg, next_row, cur_shard_start>>
    BY <1>13 DEF vars
  <2> QED
    BY <1>6, <2>1
<1> QED
  BY <1>6, <1>7, <1>8, <1>9, <1>10, <1>11, <1>12, <1>13, PublishFrame

(* If all runs cut the rows the same way, every shard that a manifest      *)
(* lists as pushed stays in staging with the rows the manifest gives it,   *)
(* also while later runs drop, recompute and upload it again.              *)
THEOREM PublishedOnOneNode ==
  ASSUME OneNode, UniformCut
  PROVE  Spec => []PublishedIsStaged
<1>1. Init => PInv
  <2>1. Init => /\ FullIsCut /\ Len(published) = 0 /\ Len(shards) = 0
    BY DEF Init, FullIsCut, published, shards
  <2>2. Len(published) = 0 /\ Len(shards) = 0 =>
          /\ Chain(published) /\ Aligned(shards) /\ Aligned(published) /\ SameRows
          /\ PublishedIsStaged
    BY DEF Chain, Aligned, SameRows, PublishedIsStaged, published
  <2> QED
    BY <2>1, <2>2, UInvInit DEF PInv
<1>2. PInv /\ [Next]_vars => PInv'
  BY PInvStep
<1>3. PInv => PublishedIsStaged
  BY DEF PInv
<1> QED
  BY <1>1, <1>2, <1>3, PTL DEF Spec
=============================================================================
