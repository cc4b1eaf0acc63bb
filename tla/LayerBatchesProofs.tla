------------------------ MODULE LayerBatchesProofs ------------------------
(***************************************************************************)
(* Theorems about the layer-batched drivers, for any layers, sizes,         *)
(* command lines, number of runs and of faults.                             *)
(*                                                                          *)
(* The inductive invariant is built up: Typed (the store, the jobs and the  *)
(* driver are well formed), Phased (this run's jobs are the ones its        *)
(* position calls for), Sound (what is behind the driver is saved), and on  *)
(* top of Sound, each on its own, Finished (no checkpoint is taken for      *)
(* finished training), Clean (what a run without faults finds) and Ordered, *)
(* then Resident (what is on the compute node).  Steps are summarised once: *)
(* the driver's in lemmas XSteps, a job's as an effect on the store and a   *)
(* function from the jobs to their heirs; the later invariants use only     *)
(* those.                                                                   *)
(***************************************************************************)
EXTENDS LayerBatches, WellFoundedInduction, SequenceTheorems, TLAPS

-----------------------------------------------------------------------------
(* Folds over the layers.  They are defined by recursion on a position, so each fact
   about them is by induction: of the positions that fail it there would be a least. *)

LEMMA LessWellFounded == IsWellFoundedOn({ss \in Nat \X Nat : ss[1] < ss[2]}, Nat)
  BY NatLessThanWellFounded DEF OpToRel

LEMMA LeastElement ==
  ASSUME NEW T \in SUBSET Nat, T # {}
  PROVE  \E x \in T : \A y \in T : x <= y
<1> DEFINE R == {ss \in Nat \X Nat : ss[1] < ss[2]}
<1>1. IsWellFoundedOn(R, Nat)
  BY LessWellFounded
<1> HIDE DEF R
<1>2. PICK x \in T : \A y \in T : ~(<<y, x>> \in R)
  BY <1>1, WFMin
<1>3. \A y \in T : ~(y < x)
  BY <1>2 DEF R
<1> QED
  BY <1>2, <1>3

N == Len(Layers)

LEMMA NType == N \in Nat /\ \A n \in 1..N : Layers[n] \in LayerSet
  BY LayersAssumption DEF N, LayersAssumption

IsSteps(step, V) == step \in [1..N -> [V -> V]]

\* The steps of a fold exist as a function.
LEMMA StepsExist ==
  ASSUME NEW V, NEW base \in V, NEW step, IsSteps(step, V)
  PROVE  \E f \in [0..N -> V] : f[0] = base /\ \A n \in 1..N : f[n] = step[n][f[n - 1]]
<1> DEFINE m == N
<1>0. m \in Nat /\ step \in [1..m -> [V -> V]] /\ m = N
  BY NType DEF IsSteps
<1> HIDE DEF m
<1> DEFINE Upto(k, f) == f[0] = base /\ \A n \in 1..k : f[n] = step[n][f[n - 1]]
<1> DEFINE T == {k \in 0..m : ~\E f \in [0..k -> V] : Upto(k, f)}
<1>a. T \in SUBSET Nat
  BY <1>0
<1>b. T = {} => \E f \in [0..m -> V] : Upto(m, f)
  <2>1. m \in 0..m
    BY <1>0
  <2>2. m \notin T => \E f \in [0..m -> V] : Upto(m, f)
    BY <2>1
  <2> HIDE DEF T, Upto
  <2> QED
    BY <2>2
<1> SUFFICES ASSUME T # {} PROVE FALSE
  BY <1>0, <1>b
<1>1. PICK k \in T : \A y \in T : k <= y
  <2> HIDE DEF T
  <2> QED
    BY <1>a, LeastElement
<1>2. k # 0
  <2> SUFFICES ASSUME k = 0 PROVE FALSE
    OBVIOUS
  <2> DEFINE f == [n \in 0..0 |-> base]
  <2>1. f \in [0..k -> V]
    OBVIOUS
  <2>2. Upto(k, f)
    OBVIOUS
  <2> QED
    BY <2>1, <2>2
<1>3. k - 1 \in 0..m /\ k - 1 \notin T
  <2>1. k \in 1..m
    BY <1>0, <1>2
  <2>2. ~(k <= k - 1) /\ k - 1 \in 0..m
    BY <1>0, <2>1
  <2> HIDE DEF T
  <2> QED
    BY <1>1, <2>2
<1>4. PICK f \in [0..(k - 1) -> V] : Upto(k - 1, f)
  BY <1>3
<1> DEFINE g == [n \in 0..k |-> IF n = k THEN step[k][f[k - 1]] ELSE f[n]]
<1>5. k \in 1..m /\ step[k] \in [V -> V] /\ f[k - 1] \in V
  BY <1>0, <1>1, <1>2
<1>6. g \in [0..k -> V]
  BY <1>5
<1>7. g[0] = base
  BY <1>4, <1>5
<1>8. \A n \in 1..k : g[n] = step[n][g[n - 1]]
  BY <1>4, <1>5
<1> QED
  BY <1>1, <1>6, <1>7, <1>8

\* What FoldLayers(op, base, ls) computes when step is op.
Folds(f, base, ls, step) ==
    f[0] = base /\ \A n \in 1..N : f[n] = IF Layers[n] \in ls THEN step[Layers[n]][f[n - 1]] ELSE f[n - 1]

LEMMA FoldExists ==
  ASSUME NEW V, NEW base \in V, NEW ls, NEW step \in [LayerSet -> [V -> V]]
  PROVE  \E f \in [0..N -> V] : Folds(f, base, ls, step)
<1> DEFINE s == [n \in 1..N |-> [v \in V |-> IF Layers[n] \in ls THEN step[Layers[n]][v] ELSE v]]
<1>1. s \in [1..N -> [V -> V]]
  BY NType
<1>2. PICK f \in [0..N -> V] : f[0] = base /\ \A n \in 1..N : f[n] = s[n][f[n - 1]]
  <2>1. IsSteps(s, V)
    BY <1>1 DEF IsSteps
  <2> HIDE DEF s
  <2> QED
    BY <2>1, StepsExist
<1>3. \A n \in 1..N : f[n - 1] \in V
  BY NType
<1>4. \A n \in 1..N : f[n] = IF Layers[n] \in ls THEN step[Layers[n]][f[n - 1]] ELSE f[n - 1]
  BY <1>2, <1>3
<1> QED
  BY <1>2, <1>4 DEF Folds

LEMMA FoldUnique ==
  ASSUME NEW f, NEW g, f[0] = g[0], \A n \in 1..N : f[n - 1] = g[n - 1] => f[n] = g[n]
  PROVE  f[N] = g[N]
<1> DEFINE T == {n \in 0..N : f[n] # g[n]}
<1>1. T \in SUBSET Nat /\ (T = {} => f[N] = g[N])
  BY NType
<1> SUFFICES ASSUME T # {} PROVE FALSE
  BY <1>1
<1>2. PICK n \in T : \A y \in T : n <= y
  <2> HIDE DEF T
  <2> QED
    BY <1>1, LeastElement
<1>3. n \in 1..N
  BY NType
<1>4. n - 1 \in 0..N /\ ~(n <= n - 1)
  BY <1>3, NType
<1>5. n - 1 \notin T
  <2> HIDE DEF T
  <2> QED
    BY <1>2, <1>4
<1> QED
  BY <1>3, <1>4, <1>5

Appended(s, l) == Append(s, l)

LEMMA InOrderFolds ==
  ASSUME NEW ls
  PROVE  \E f \in [0..N -> Seq(LayerSet)] :
            /\ f[0] = <<>>
            /\ \A n \in 1..N : f[n] = IF Layers[n] \in ls THEN Append(f[n - 1], Layers[n]) ELSE f[n - 1]
            /\ InOrder(ls) = f[N]
<1> DEFINE Is(f) == f = [n \in 0..N |->
              IF n = 0 THEN <<>>
              ELSE IF Layers[n] \in ls THEN Appended(f[n - 1], Layers[n]) ELSE f[n - 1]]
<1> DEFINE step == [l \in LayerSet |-> [s \in Seq(LayerSet) |-> Appended(s, l)]]
<1>1. PICK g \in [0..N -> Seq(LayerSet)] : Folds(g, <<>>, ls, step)
  <2>1. step \in [LayerSet -> [Seq(LayerSet) -> Seq(LayerSet)]] /\ <<>> \in Seq(LayerSet)
    BY DEF Appended
  <2> QED
    BY <2>1, FoldExists
<1>2. \A n \in 1..N : g[n - 1] \in Seq(LayerSet) /\ Layers[n] \in LayerSet
  BY NType
<1>3. \A n \in 1..N : step[Layers[n]][g[n - 1]] = Appended(g[n - 1], Layers[n])
  BY <1>2
<1> HIDE DEF step
<1>4. g[0] = <<>> /\ \A n \in 1..N : g[n] = IF Layers[n] \in ls THEN Appended(g[n - 1], Layers[n]) ELSE g[n - 1]
  BY <1>1, <1>3 DEF Folds
<1>5. Is(g)
  <2> DEFINE h == [n \in 0..N |->
              IF n = 0 THEN <<>>
              ELSE IF Layers[n] \in ls THEN Appended(g[n - 1], Layers[n]) ELSE g[n - 1]]
  <2>1. \A n \in 0..N : n = 0 \/ n \in 1..N
    BY NType
  <2>2. \A n \in 0..N : g[n] = h[n]
    BY <1>4, <2>1
  <2>3. h = [n \in 0..N |-> g[n]]
    BY <2>2
  <2>4. g = [n \in 0..N |-> g[n]]
    OBVIOUS
  <2> HIDE DEF h
  <2> QED
    BY <2>3, <2>4 DEF h
<1> DEFINE f == CHOOSE f : Is(f)
<1>6. Is(f)
  BY <1>5
<1>7. InOrder(ls) = f[N]
  BY DEF InOrder, FoldLayers, N, Appended
<1>8. f[N] = g[N]
  <2> HIDE DEF f
  <2>1. f[0] = <<>> /\ \A n \in 1..N : f[n] = IF Layers[n] \in ls THEN Appended(f[n - 1], Layers[n]) ELSE f[n - 1]
    BY <1>6, NType
  <2> HIDE DEF Is
  <2>2. \A n \in 1..N : f[n - 1] = g[n - 1] => f[n] = g[n]
    BY <1>4, <2>1
  <2> QED
    BY <1>4, <2>1, <2>2, FoldUnique
<1> HIDE DEF f
<1> QED
  BY <1>4, <1>7, <1>8 DEF Appended

LEMMA ByLayers ==
  ASSUME NEW T \in SUBSET Nat, 0 \in T, \A n \in 1..N : n - 1 \in T => n \in T
  PROVE  \A n \in 0..N : n \in T
<1> DEFINE R == {n \in 0..N : n \notin T}
<1>1. R \in SUBSET Nat
  BY NType
<1> SUFFICES ASSUME R # {} PROVE FALSE
  OBVIOUS
<1>2. PICK n \in R : \A y \in R : n <= y
  <2> HIDE DEF R
  <2> QED
    BY <1>1, LeastElement
<1>3. n \in 1..N
  BY NType
<1>4. n - 1 \in 0..N /\ ~(n <= n - 1)
  BY <1>3, NType
<1>5. n - 1 \notin R
  <2> HIDE DEF R
  <2> QED
    BY <1>2, <1>4
<1> QED
  BY <1>3, <1>4, <1>5

LEMMA AppendSet ==
  ASSUME NEW s \in Seq(LayerSet), NEW l \in LayerSet
  PROVE  /\ Append(s, l) \in Seq(LayerSet)
         /\ ToSet(Append(s, l)) = ToSet(s) \union {l}
         /\ IsInjective(s) /\ l \notin ToSet(s) => IsInjective(Append(s, l))
<1> DEFINE t == Append(s, l)
<1>1. /\ t \in Seq(LayerSet) /\ Len(t) = Len(s) + 1 /\ Len(s) \in Nat
      /\ \A i \in 1..Len(s) : t[i] = s[i]
      /\ t[Len(s) + 1] = l
      /\ DOMAIN s = 1..Len(s) /\ DOMAIN t = 1..(Len(s) + 1)
  BY AppendProperties, LenProperties
<1> HIDE DEF t
<1>2. \A i \in DOMAIN t : i \in DOMAIN s \/ i = Len(s) + 1
  BY <1>1
<1>3. ToSet(t) = ToSet(s) \union {l}
  <2>1. ToSet(t) \subseteq ToSet(s) \union {l}
    BY <1>1, <1>2 DEF ToSet
  <2>2. ToSet(s) \union {l} \subseteq ToSet(t)
    BY <1>1 DEF ToSet
  <2> QED
    BY <2>1, <2>2
<1>4. ASSUME IsInjective(s), l \notin ToSet(s)
      PROVE  IsInjective(t)
  BY <1>1, <1>2, <1>4 DEF IsInjective, ToSet
<1> QED
  BY <1>1, <1>3, <1>4 DEF t

LEMMA LayersInjective ==
  /\ \A m, n \in 1..N : Layers[m] = Layers[n] => m = n
  /\ \A l \in LayerSet : \E n \in 1..N : Layers[n] = l
  /\ \A n \in 1..N : Layers[n] \in LayerSet
<1>1. DOMAIN Layers = 1..N
  BY LayersAssumption DEF N, LayersAssumption
<1> QED
  BY <1>1, LayersAssumption DEF LayersAssumption, LayerSet, ToSet, IsInjective

\* The layers of ls in order: all of them, each once.
LEMMA InOrderOf ==
  ASSUME NEW ls \in SUBSET LayerSet
  PROVE  /\ InOrder(ls) \in Seq(LayerSet)
         /\ ToSet(InOrder(ls)) = ls
         /\ IsInjective(InOrder(ls))
<1>1. PICK g \in [0..N -> Seq(LayerSet)] :
            /\ g[0] = <<>>
            /\ \A n \in 1..N : g[n] = IF Layers[n] \in ls THEN Append(g[n - 1], Layers[n]) ELSE g[n - 1]
            /\ InOrder(ls) = g[N]
  BY InOrderFolds
<1> DEFINE Upto(n) == {l \in ls : \E m \in 1..n : l = Layers[m]}
<1> DEFINE P(n) == ToSet(g[n]) = Upto(n) /\ IsInjective(g[n])
<1> DEFINE T == {n \in 0..N : P(n)}
<1>2. T \in SUBSET Nat
  BY NType
<1>3. 0 \in T
  BY <1>1, NType DEF ToSet, IsInjective
<1>4. ASSUME NEW n \in 1..N, n - 1 \in T
      PROVE  n \in T
  <2>1. /\ g[n - 1] \in Seq(LayerSet) /\ Layers[n] \in LayerSet
        /\ n \in 0..N /\ P(n - 1) /\ \A m \in 1..n : m \in 1..(n - 1) \/ m = n
    BY <1>4, NType
  <2>2. CASE Layers[n] \in ls
    <3>1. g[n] = Append(g[n - 1], Layers[n])
      BY <1>1, <2>2
    <3>2. Upto(n) = Upto(n - 1) \union {Layers[n]}
      BY <2>1, <2>2
    <3>3. Layers[n] \notin Upto(n - 1)
      <4>1. \A m \in 1..(n - 1) : m \in 1..N /\ m # n
        BY NType
      <4> QED
        BY <4>1, LayersInjective
    <3>4. ToSet(g[n - 1]) = Upto(n - 1) /\ IsInjective(g[n - 1])
      BY <2>1
    <3> HIDE DEF Upto
    <3>5. ToSet(g[n]) = Upto(n) /\ IsInjective(g[n])
      BY <2>1, <3>1, <3>2, <3>3, <3>4, AppendSet
    <3> QED
      BY <2>1, <3>5
  <2>3. CASE Layers[n] \notin ls
    <3>1. g[n] = g[n - 1]
      BY <1>1, <2>3
    <3>2. Upto(n) = Upto(n - 1)
      BY <2>1, <2>3
    <3> HIDE DEF Upto
    <3> QED
      BY <2>1, <3>1, <3>2
  <2> QED
    BY <2>2, <2>3
<1>5. P(N)
  <2> HIDE DEF T
  <2>1. N \in T
    BY <1>2, <1>3, <1>4, ByLayers, NType
  <2> QED
    BY <2>1 DEF T
<1>6. Upto(N) = ls
  BY LayersInjective
<1>7. g[N] \in Seq(LayerSet)
  BY NType
<1> QED
  BY <1>1, <1>5, <1>6, <1>7

LEMMA SizeType == \A l \in LayerSet : SizeGb[l] \in Nat
  BY LayersAssumption DEF LayersAssumption

WithLayer(gb, l) == gb + SizeGb[l]

LEMMA GbFolds ==
  ASSUME NEW ls
  PROVE  \E f \in [0..N -> Nat] :
            /\ f[0] = 0
            /\ \A n \in 1..N : f[n] = IF Layers[n] \in ls THEN f[n - 1] + SizeGb[Layers[n]] ELSE f[n - 1]
            /\ Gb(ls) = f[N]
<1> DEFINE Is(f) == f = [n \in 0..N |->
              IF n = 0 THEN 0
              ELSE IF Layers[n] \in ls THEN WithLayer(f[n - 1], Layers[n]) ELSE f[n - 1]]
<1> DEFINE step == [l \in LayerSet |-> [gb \in Nat |-> WithLayer(gb, l)]]
<1>1. PICK g \in [0..N -> Nat] : Folds(g, 0, ls, step)
  <2>1. step \in [LayerSet -> [Nat -> Nat]]
    BY SizeType DEF WithLayer
  <2> QED
    BY <2>1, FoldExists
<1>2. \A n \in 1..N : g[n - 1] \in Nat /\ Layers[n] \in LayerSet
  BY NType
<1>3. \A n \in 1..N : step[Layers[n]][g[n - 1]] = WithLayer(g[n - 1], Layers[n])
  BY <1>2
<1> HIDE DEF step
<1>4. g[0] = 0 /\ \A n \in 1..N : g[n] = IF Layers[n] \in ls THEN WithLayer(g[n - 1], Layers[n]) ELSE g[n - 1]
  BY <1>1, <1>3 DEF Folds
<1>5. Is(g)
  <2> DEFINE h == [n \in 0..N |->
              IF n = 0 THEN 0
              ELSE IF Layers[n] \in ls THEN WithLayer(g[n - 1], Layers[n]) ELSE g[n - 1]]
  <2>1. \A n \in 0..N : n = 0 \/ n \in 1..N
    BY NType
  <2>2. \A n \in 0..N : g[n] = h[n]
    BY <1>4, <2>1
  <2>3. h = [n \in 0..N |-> g[n]]
    BY <2>2
  <2>4. g = [n \in 0..N |-> g[n]]
    OBVIOUS
  <2> HIDE DEF h
  <2> QED
    BY <2>3, <2>4 DEF h
<1> DEFINE f == CHOOSE f : Is(f)
<1>6. Is(f)
  BY <1>5
<1>7. Gb(ls) = f[N]
  BY DEF Gb, FoldLayers, N, WithLayer
<1>8. f[N] = g[N]
  <2> HIDE DEF f
  <2>1. f[0] = 0 /\ \A n \in 1..N : f[n] = IF Layers[n] \in ls THEN WithLayer(f[n - 1], Layers[n]) ELSE f[n - 1]
    BY <1>6, NType
  <2> HIDE DEF Is
  <2>2. \A n \in 1..N : f[n - 1] = g[n - 1] => f[n] = g[n]
    BY <1>4, <2>1
  <2> QED
    BY <1>4, <2>1, <2>2, FoldUnique
<1> HIDE DEF f
<1> QED
  BY <1>4, <1>7, <1>8 DEF WithLayer

\* A set of layers is at least as large as each part of it.
LEMMA GbOf ==
  ASSUME NEW ls, NEW ms, ls \subseteq ms
  PROVE  Gb(ls) \in Nat /\ Gb(ls) <= Gb(ms)
<1>1. PICK f \in [0..N -> Nat] :
            /\ f[0] = 0
            /\ \A n \in 1..N : f[n] = IF Layers[n] \in ls THEN f[n - 1] + SizeGb[Layers[n]] ELSE f[n - 1]
            /\ Gb(ls) = f[N]
  BY GbFolds
<1>2. PICK g \in [0..N -> Nat] :
            /\ g[0] = 0
            /\ \A n \in 1..N : g[n] = IF Layers[n] \in ms THEN g[n - 1] + SizeGb[Layers[n]] ELSE g[n - 1]
            /\ Gb(ms) = g[N]
  BY GbFolds
<1> DEFINE T == {n \in 0..N : f[n] <= g[n]}
<1>3. T \in SUBSET Nat /\ 0 \in T
  BY <1>1, <1>2, NType
<1>4. ASSUME NEW n \in 1..N, n - 1 \in T
      PROVE  n \in T
  <2>1. /\ n \in 0..N /\ n - 1 \in 0..N /\ f[n - 1] <= g[n - 1] /\ SizeGb[Layers[n]] \in Nat
        /\ f[n - 1] \in Nat /\ g[n - 1] \in Nat
    BY <1>4, NType, SizeType
  <2>2. f[n] = f[n - 1] + SizeGb[Layers[n]] => g[n] = g[n - 1] + SizeGb[Layers[n]] \/ f[n] = f[n - 1]
    BY <1>1, <1>2
  <2>3. f[n] = f[n - 1] \/ (Layers[n] \in ms /\ f[n] = f[n - 1] + SizeGb[Layers[n]])
    BY <1>1
  <2>4. g[n] = g[n - 1] + SizeGb[Layers[n]] \/ (Layers[n] \notin ms /\ g[n] = g[n - 1])
    BY <1>2
  <2>5. f[n] <= g[n]
    BY <2>1, <2>3, <2>4
  <2> QED
    BY <2>1, <2>5
<1>5. N \in T
  <2> HIDE DEF T
  <2> QED
    BY <1>3, <1>4, ByLayers, NType
<1> QED
  BY <1>1, <1>2, <1>5, NType

-----------------------------------------------------------------------------
(* The batches. *)

\* new is bs with u in its last batch, or in one more.
AddsUnit(c, bs, u, new) ==
    /\ new \in Seq(SUBSET LayerSet)
    /\ Len(bs) \in Nat /\ Len(new) \in Nat
    /\ \A i \in 1..Len(bs) : bs[i] \in SUBSET LayerSet
    /\ \/ /\ Len(new) = Len(bs) /\ Len(bs) > 0
          /\ Fits(c, bs[Len(bs)], u)
          /\ \A i \in 1..Len(bs) : new[i] = IF i = Len(bs) THEN bs[i] \union {u} ELSE bs[i]
       \/ /\ Len(new) = Len(bs) + 1
          /\ \A i \in 1..Len(bs) : new[i] = bs[i]
          /\ new[Len(bs) + 1] = {u}

\* What one more unit does to the batches.
LEMMA AddedOf ==
  ASSUME NEW c, NEW bs \in Seq(SUBSET LayerSet), NEW u \in LayerSet,
         NEW new, new = Added(c, bs, u)
  PROVE  AddsUnit(c, bs, u, new)
<1>0. Len(bs) \in Nat /\ DOMAIN bs = 1..Len(bs) /\ \A i \in 1..Len(bs) : bs[i] \in SUBSET LayerSet
  BY LenProperties
<1>1. CASE bs # <<>> /\ Fits(c, Last(bs), u)
  <2>1. Len(bs) > 0 /\ Len(bs) \in 1..Len(bs)
    BY <1>0, <1>1, EmptySeq
  <2>2. Last(bs) = bs[Len(bs)]
    BY DEF Last
  <2> DEFINE b == bs[Len(bs)] \union {u}
  <2>3. b \in SUBSET LayerSet
    BY <1>0, <2>1
  <2>4. new = [bs EXCEPT ![Len(bs)] = b]
    BY <1>1 DEF Added
  <2> HIDE DEF b
  <2>5. new \in Seq(SUBSET LayerSet) /\ Len(new) = Len(bs)
        /\ \A i \in 1..Len(bs) : new[i] = IF i = Len(bs) THEN b ELSE bs[i]
    BY <2>1, <2>3, <2>4, ExceptSeq
  <2>6. Fits(c, bs[Len(bs)], u)
    BY <1>1, <2>2
  <2>7. \A i \in 1..Len(bs) : new[i] = IF i = Len(bs) THEN bs[i] \union {u} ELSE bs[i]
    BY <2>5 DEF b
  <2> QED
    BY <1>0, <2>1, <2>5, <2>6, <2>7 DEF AddsUnit
<1>2. CASE ~(bs # <<>> /\ Fits(c, Last(bs), u))
  <2>1. new = Append(bs, {u})
    BY <1>2 DEF Added
  <2>2. {u} \in SUBSET LayerSet
    OBVIOUS
  <2>3. /\ new \in Seq(SUBSET LayerSet) /\ Len(new) = Len(bs) + 1
        /\ \A i \in 1..Len(bs) : new[i] = bs[i]
        /\ new[Len(bs) + 1] = {u}
    BY <2>1, <2>2, AppendProperties
  <2>4. Len(new) \in Nat
    BY <1>0, <2>3
  <2> QED
    BY <1>0, <2>3, <2>4 DEF AddsUnit
<1> QED
  BY <1>1, <1>2

LEMMA BatchesFold ==
  ASSUME NEW c
  PROVE  \E f \in [0..N -> Seq(SUBSET LayerSet)] :
            /\ f[0] = <<>>
            /\ \A n \in 1..N : f[n] = IF Layers[n] \in Units(c) THEN Added(c, f[n - 1], Layers[n]) ELSE f[n - 1]
            /\ MakeBatches(c) = f[N]
<1> DEFINE ls == Units(c)
<1> DEFINE V == Seq(SUBSET LayerSet)
<1> DEFINE Plus(bs, u) == Added(c, bs, u)
<1> DEFINE Is(f) == f = [n \in 0..N |->
              IF n = 0 THEN <<>>
              ELSE IF Layers[n] \in ls THEN Plus(f[n - 1], Layers[n]) ELSE f[n - 1]]
<1> DEFINE step == [l \in LayerSet |-> [bs \in V |-> Plus(bs, l)]]
<1>0. \A bs \in V, l \in LayerSet : Plus(bs, l) \in V
  BY AddedOf DEF AddsUnit
<1>7. MakeBatches(c) = (CHOOSE f : Is(f))[N]
  BY DEF MakeBatches, FoldLayers, N
<1>e. <<>> \in V
  OBVIOUS
<1> HIDE DEF V, ls, Plus
<1>1. PICK g \in [0..N -> V] : Folds(g, <<>>, ls, step)
  <2>1. step \in [LayerSet -> [V -> V]]
    BY <1>0
  <2> HIDE DEF step
  <2> QED
    BY <2>1, <1>e, FoldExists
<1>2. \A n \in 1..N : g[n - 1] \in V /\ Layers[n] \in LayerSet
  BY NType
<1>3. \A n \in 1..N : step[Layers[n]][g[n - 1]] = Plus(g[n - 1], Layers[n])
  BY <1>2
<1> HIDE DEF step
<1>4. g[0] = <<>> /\ \A n \in 1..N : g[n] = IF Layers[n] \in ls THEN Plus(g[n - 1], Layers[n]) ELSE g[n - 1]
  BY <1>1, <1>3 DEF Folds
<1>5. Is(g)
  <2> DEFINE h == [n \in 0..N |->
              IF n = 0 THEN <<>>
              ELSE IF Layers[n] \in ls THEN Plus(g[n - 1], Layers[n]) ELSE g[n - 1]]
  <2>1. \A n \in 0..N : n = 0 \/ n \in 1..N
    BY NType
  <2>2. \A n \in 0..N : g[n] = h[n]
    BY <1>4, <2>1
  <2>3. h = [n \in 0..N |-> g[n]]
    BY <2>2
  <2>4. g = [n \in 0..N |-> g[n]]
    OBVIOUS
  <2> HIDE DEF h
  <2> QED
    BY <2>3, <2>4 DEF h
<1> DEFINE f == CHOOSE f : Is(f)
<1>6. Is(f)
  BY <1>5
<1>8. f[N] = g[N]
  <2> HIDE DEF f
  <2>1. f[0] = <<>> /\ \A n \in 1..N : f[n] = IF Layers[n] \in ls THEN Plus(f[n - 1], Layers[n]) ELSE f[n - 1]
    BY <1>6, NType
  <2> HIDE DEF Is
  <2>2. \A n \in 1..N : f[n - 1] = g[n - 1] => f[n] = g[n]
    BY <1>4, <2>1
  <2> QED
    BY <1>4, <2>1, <2>2, FoldUnique
<1>9. MakeBatches(c) = g[N]
  BY <1>7, <1>8
<1> HIDE DEF f, Is
<1> QED
  BY <1>4, <1>9 DEF Plus, V, ls

\* The batches bs made of the first n layers.
Made(c, n, bs) ==
    /\ bs \in Seq(SUBSET LayerSet)
    /\ \A i \in 1..Len(bs) : bs[i] # {}
    /\ \A i \in 1..Len(bs) : \A u \in bs[i] : u \in Units(c) /\ \E m \in 1..n : u = Layers[m]
    /\ \A m \in 1..n : Layers[m] \in Units(c) => \E i \in 1..Len(bs) : Layers[m] \in bs[i]
    /\ \A i, k \in 1..Len(bs) : i < k => \A u \in bs[i], v \in bs[k] : Before(u, v)
    /\ \A i \in 1..Len(bs) : Gb(Needs(c, bs[i])) <= c.target \/ \E u \in LayerSet : bs[i] = {u}

LEMMA MadeOnward ==
  ASSUME NEW c, NEW n \in 1..N, NEW bs, Made(c, n - 1, bs), Layers[n] \in Units(c)
  PROVE  Made(c, n, Added(c, bs, Layers[n]))
<1> DEFINE new == Added(c, bs, Layers[n])
<1> DEFINE u == Layers[n]
<1>0. /\ u \in LayerSet /\ n \in Nat /\ N \in Nat /\ n \in 1..n /\ bs \in Seq(SUBSET LayerSet)
      /\ \A m \in 1..n : m \in 1..(n - 1) \/ m = n
      /\ \A m \in 1..(n - 1) : m \in 1..n /\ m \in 1..N /\ m < n
  BY NType DEF Made
<1>a. AddsUnit(c, bs, u, new)
  BY <1>0, AddedOf
<1>1. /\ new \in Seq(SUBSET LayerSet)
      /\ Len(bs) \in Nat /\ Len(new) \in Nat
      /\ \A i \in 1..Len(bs) : bs[i] \in SUBSET LayerSet
      /\ \/ /\ Len(new) = Len(bs) /\ Len(bs) > 0
            /\ Fits(c, bs[Len(bs)], u)
            /\ \A i \in 1..Len(bs) : new[i] = IF i = Len(bs) THEN bs[i] \union {u} ELSE bs[i]
         \/ /\ Len(new) = Len(bs) + 1
            /\ \A i \in 1..Len(bs) : new[i] = bs[i]
            /\ new[Len(bs) + 1] = {u}
  BY <1>a DEF AddsUnit
<1>b. \A i \in 1..Len(bs) : bs[i] # {}
  BY DEF Made
<1>2. \A i \in 1..Len(bs) : \A v \in bs[i] : v \in Units(c) /\ (\E m \in 1..(n - 1) : v = Layers[m])
  BY DEF Made
<1>3. \A m \in 1..(n - 1) : Layers[m] \in Units(c) => \E i \in 1..Len(bs) : Layers[m] \in bs[i]
  BY DEF Made
<1>4. \A i, k \in 1..Len(bs) : i < k => \A v \in bs[i], w \in bs[k] : Before(v, w)
  BY DEF Made
<1>5. \A i \in 1..Len(bs) : Gb(Needs(c, bs[i])) <= c.target \/ \E v \in LayerSet : bs[i] = {v}
  BY DEF Made
<1>6. \A i \in 1..Len(bs) : \A v \in bs[i] : Before(v, u)
  <2> SUFFICES ASSUME NEW i \in 1..Len(bs), NEW v \in bs[i]
               PROVE  Before(v, u)
    OBVIOUS
  <2>1. PICK m \in 1..(n - 1) : v = Layers[m]
    BY <1>2
  <2> QED
    BY <2>1, <1>0 DEF Before, N
<1> HIDE DEF new, u
<1>u. Layers[n] = u /\ u \in Units(c)
  BY DEF u
<1>7. CASE /\ Len(new) = Len(bs) /\ Len(bs) > 0
           /\ Fits(c, bs[Len(bs)], u)
           /\ \A i \in 1..Len(bs) : new[i] = IF i = Len(bs) THEN bs[i] \union {u} ELSE bs[i]
  <2>0. Len(bs) \in 1..Len(bs)
    BY <1>1, <1>7
  <2>1. \A i \in 1..Len(bs) : \A v \in new[i] : v \in bs[i] \/ (v = u /\ i = Len(bs))
    BY <1>7
  <2>2. \A i \in 1..Len(new) : \A v \in new[i] : v \in Units(c) /\ \E m \in 1..n : v = Layers[m]
    BY <1>0, <1>2, <1>7, <1>u, <2>1
  <2>3. \A m \in 1..n : Layers[m] \in Units(c) => \E i \in 1..Len(new) : Layers[m] \in new[i]
    <3>1. \A i \in 1..Len(bs) : bs[i] \subseteq new[i]
      BY <1>7
    <3>2. u \in new[Len(bs)]
      BY <1>7, <2>0
    <3> QED
      BY <1>0, <1>3, <1>7, <1>u, <2>0, <3>1, <3>2
  <2>4. \A i, k \in 1..Len(new) : i < k => \A v \in new[i], w \in new[k] : Before(v, w)
    <3> SUFFICES ASSUME NEW i \in 1..Len(bs), NEW k \in 1..Len(bs), i < k,
                        NEW v \in new[i], NEW w \in new[k]
                 PROVE  Before(v, w)
      BY <1>7
    <3>1. i # Len(bs) /\ v \in bs[i]
      BY <1>1, <2>1
    <3>2. w \in bs[k] \/ w = u
      BY <2>1
    <3> QED
      BY <1>4, <1>6, <3>1, <3>2
  <2>5. \A i \in 1..Len(new) : Gb(Needs(c, new[i])) <= c.target \/ \E v \in LayerSet : new[i] = {v}
    <3> SUFFICES ASSUME NEW i \in 1..Len(bs)
                 PROVE  Gb(Needs(c, new[i])) <= c.target \/ \E v \in LayerSet : new[i] = {v}
      BY <1>7
    <3>1. CASE i = Len(bs)
      <4>1. new[i] = bs[Len(bs)] \union {u}
        BY <1>7, <2>0, <3>1
      <4> QED
        BY <1>7, <4>1 DEF Fits
    <3>2. CASE i # Len(bs)
      <4>1. new[i] = bs[i]
        BY <1>7, <3>2
      <4> QED
        BY <1>5, <4>1
    <3> QED
      BY <3>1, <3>2
  <2>6. \A i \in 1..Len(new) : new[i] # {}
    BY <1>b, <1>7
  <2> QED
    BY <1>1, <2>2, <2>3, <2>4, <2>5, <2>6 DEF Made, new, u
<1>8. CASE /\ Len(new) = Len(bs) + 1
           /\ \A i \in 1..Len(bs) : new[i] = bs[i]
           /\ new[Len(bs) + 1] = {u}
  <2>0. /\ \A i \in 1..Len(new) : i \in 1..Len(bs) \/ i = Len(new)
        /\ new[Len(new)] = {u} /\ Len(new) \in 1..Len(new)
        /\ \A i \in 1..Len(bs) : i \in 1..Len(new)
    BY <1>1, <1>8
  <2>2. \A i \in 1..Len(new) : \A v \in new[i] : v \in Units(c) /\ \E m \in 1..n : v = Layers[m]
    BY <1>0, <1>2, <1>8, <1>u, <2>0
  <2>3. \A m \in 1..n : Layers[m] \in Units(c) => \E i \in 1..Len(new) : Layers[m] \in new[i]
    BY <1>0, <1>3, <1>8, <1>u, <2>0
  <2>4. \A i, k \in 1..Len(new) : i < k => \A v \in new[i], w \in new[k] : Before(v, w)
    <3> SUFFICES ASSUME NEW i \in 1..Len(new), NEW k \in 1..Len(new), i < k,
                        NEW v \in new[i], NEW w \in new[k]
                 PROVE  Before(v, w)
      OBVIOUS
    <3>1. i \in 1..Len(bs)
      BY <1>1, <2>0
    <3>2. v \in bs[i]
      BY <3>1, <1>8
    <3>3. CASE k \in 1..Len(bs)
      BY <1>4, <1>8, <3>1, <3>2, <3>3
    <3>4. CASE k = Len(new)
      BY <1>6, <2>0, <3>1, <3>2, <3>4
    <3> QED
      BY <2>0, <3>3, <3>4
  <2>5. \A i \in 1..Len(new) : Gb(Needs(c, new[i])) <= c.target \/ \E v \in LayerSet : new[i] = {v}
    BY <1>0, <1>5, <1>8, <1>u, <2>0 DEF u
  <2>6. \A i \in 1..Len(new) : new[i] # {}
    BY <1>b, <1>8, <2>0
  <2> QED
    BY <1>1, <2>2, <2>3, <2>4, <2>5, <2>6 DEF Made, new, u
<1> QED
  BY <1>1, <1>7, <1>8

LEMMA MadeOn ==
  ASSUME NEW c, NEW n \in 1..N, NEW bs, Made(c, n - 1, bs), Layers[n] \notin Units(c)
  PROVE  Made(c, n, bs)
<1>0. \A m \in 1..n : m \in 1..(n - 1) \/ m = n
  BY NType
<1>1. \A m \in 1..(n - 1) : m \in 1..n
  BY NType
<1> QED
  BY <1>0, <1>1 DEF Made

\* The greedy fill of _make_batches: the batches hold every unit, once and in the order of
\* the sweep, none is empty, and each fits the target or is a single unit.
THEOREM BatchesMade ==
  ASSUME NEW c
  PROVE  Made(c, N, MakeBatches(c))
<1>1. PICK f \in [0..N -> Seq(SUBSET LayerSet)] :
            /\ f[0] = <<>>
            /\ \A n \in 1..N : f[n] = IF Layers[n] \in Units(c) THEN Added(c, f[n - 1], Layers[n]) ELSE f[n - 1]
            /\ MakeBatches(c) = f[N]
  BY BatchesFold
<1> DEFINE T == {n \in 0..N : Made(c, n, f[n])}
<1>2. T \in SUBSET Nat
  BY NType
<1>3. 0 \in T
  <2>1. Made(c, 0, <<>>)
    BY DEF Made
  <2> QED
    BY <1>1, <2>1, NType
<1>4. ASSUME NEW n \in 1..N, n - 1 \in T
      PROVE  n \in T
  <2>1. n \in 0..N /\ Made(c, n - 1, f[n - 1])
    BY <1>4, NType
  <2>2. Made(c, n, f[n])
    BY <1>1, <2>1, MadeOn, MadeOnward
  <2> QED
    BY <2>1, <2>2
<1>5. N \in T
  <2> HIDE DEF T
  <2> QED
    BY <1>2, <1>3, <1>4, ByLayers, NType
<1> QED
  BY <1>1, <1>5

-----------------------------------------------------------------------------
(* The first inductive invariant, Typed: the store and the jobs are well formed. *)

RelayPcs == {"queued", "up", "upTorn", "staged", "down", "downTorn", "clean", "ok",
             "failed", "stuck"}
RmPcs    == {"queued", "rm", "ok", "failed"}
TrainPcs == {"queued", "next", "fit", "checkpoint", "fitted", "save", "ok", "failed"}
AtUnit   == {"fit", "checkpoint", "fitted", "save"}    \* busy with the head of rest
JobPcs   == RelayPcs \union RmPcs \union TrainPcs

Job == [owner : 1..MaxRuns, kind : {"relay", "train", "rm"}, from : Places, to : Places,
        paths : SUBSET Paths, rest : Seq(LayerSet), pc : JobPcs]

IsRelay(j)  == j.kind = "relay"
IsFeed(j)   == j.kind = "relay" /\ j.to = "compute"     \* a layer's input, relayed in
IsReturn(j) == j.kind = "relay" /\ j.to = "storage"     \* the checkpoints, relayed out
IsTrain(j)  == j.kind = "train"
IsRm(j)     == j.kind = "rm"

\* A job is one of the four that the driver submits.
FeedOK(j)   == /\ IsFeed(j) /\ j.from = "storage"
               /\ \E l \in LayerSet : j.paths = {In(l)}
               /\ j.pc \in RelayPcs /\ ~cmd.sameNode
ReturnOK(j) == /\ IsReturn(j) /\ j.from = "compute" /\ j.paths = OutPaths
               /\ j.pc \in RelayPcs /\ ~cmd.sameNode /\ Training
RmOK(j)     == /\ IsRm(j) /\ j.from = "compute"
               /\ \E l \in LayerSet : j.paths = {In(l)}
               /\ j.pc \in RmPcs /\ ~cmd.sameNode /\ ~cmd.skipReclaim
TrainOK(j)  == /\ IsTrain(j) /\ j.pc \in TrainPcs
               /\ j.pc \in AtUnit => j.rest # <<>>
               /\ j.pc = "ok" => j.rest = <<>>
               /\ ~Training => j.pc \notin {"fit", "checkpoint"}
JobOK(j) ==
    /\ j \in Job /\ j.owner <= run
    /\ FeedOK(j) \/ ReturnOK(j) \/ RmOK(j) \/ TrainOK(j)
    /\ ~IsTrain(j) => j.rest = <<>>
AllOK(js) == \A j \in js : JobOK(j)
JobsOK == AllOK(jobs)

InputValues == {"none", "part", "whole"}
StoreOK ==
    /\ store \in [Places -> [Paths -> Values]]
    /\ \A pl \in Places : \A l \in LayerSet : store[pl][In(l)] \in InputValues
    /\ \A l \in LayerSet : store["storage"][In(l)] = "whole"
    /\ cmd.sameNode => \A l \in LayerSet : store["compute"][In(l)] = "none"

DriverPcs == {"off", "check", "measure", "relayIn", "train", "relayOut", "reclaim", "raised", "done"}
DriverType == [pc : DriverPcs, batch : Nat, todo : Seq(LayerSet)]
DriverOK ==
    /\ driver \in DriverType
    /\ run = 0 => driver.pc = "off" /\ driver.batch = 1
    /\ run > 0 => driver.batch \in 1..LastBatch
    /\ driver.pc = "relayIn" /\ cmd.sameNode => driver.todo = <<>>
    /\ driver.pc = "reclaim" => ~cmd.sameNode /\ ~cmd.skipReclaim
HistoryOK ==
    /\ cmd \in Commands
    /\ run \in 0..MaxRuns /\ faults \in 0..MaxFaults
    /\ clean \in BOOLEAN /\ alone \in BOOLEAN /\ left \subseteq LayerSet /\ cut \subseteq LayerSet

Typed == HistoryOK /\ DriverOK /\ StoreOK /\ JobsOK

-----------------------------------------------------------------------------
(* Sequences of layers. *)

LEMMA Popped ==
  ASSUME NEW s \in Seq(LayerSet), s # <<>>
  PROVE  /\ Head(s) \in LayerSet /\ Tail(s) \in Seq(LayerSet)
         /\ ToSet(s) = {Head(s)} \union ToSet(Tail(s))
         /\ IsInjective(s) => Head(s) \notin ToSet(Tail(s)) /\ IsInjective(Tail(s))
<1> DEFINE h == Head(s)
<1> DEFINE t == Tail(s)
<1>1. /\ h \in LayerSet /\ t \in Seq(LayerSet) /\ Len(s) \in Nat /\ Len(t) = Len(s) - 1
      /\ h = s[1] /\ Len(s) > 0
      /\ \A i \in 1..Len(t) : t[i] = s[i + 1]
      /\ DOMAIN s = 1..Len(s) /\ DOMAIN t = 1..Len(t)
  BY HeadTailProperties, LenProperties, EmptySeq
<1> HIDE DEF h, t
<1>2. 1 \in 1..Len(s) /\ \A i \in 1..Len(t) : i + 1 \in 1..Len(s) /\ i + 1 # 1
  BY <1>1
<1>3. \A i \in 1..Len(s) : i = 1 \/ (i - 1 \in 1..Len(t) /\ (i - 1) + 1 = i)
  BY <1>1
<1>4. ToSet(s) \subseteq {h} \union ToSet(t)
  <2>1. \A i \in 1..Len(s) : s[i] = h \/ \E k \in 1..Len(t) : s[i] = t[k]
    <3> SUFFICES ASSUME NEW i \in 1..Len(s), i # 1
                 PROVE  \E k \in 1..Len(t) : s[i] = t[k]
      BY <1>1
    <3>1. i - 1 \in 1..Len(t) /\ (i - 1) + 1 = i
      BY <1>3
    <3>2. t[i - 1] = s[(i - 1) + 1]
      BY <1>1, <3>1
    <3> QED
      BY <3>1, <3>2
  <2>2. ToSet(s) = {s[i] : i \in 1..Len(s)} /\ ToSet(t) = {t[i] : i \in 1..Len(t)}
    BY <1>1 DEF ToSet
  <2> QED
    BY <2>1, <2>2
<1>5. {h} \union ToSet(t) \subseteq ToSet(s)
  BY <1>1, <1>2 DEF ToSet
<1>6. ASSUME IsInjective(s)
      PROVE  h \notin ToSet(t) /\ IsInjective(t)
  <2>1. \A i, k \in 1..Len(s) : s[i] = s[k] => i = k
    BY <1>1, <1>6 DEF IsInjective
  <2>2. h \notin ToSet(t)
    BY <2>1, <1>1, <1>2 DEF ToSet
  <2>3. \A i, k \in 1..Len(t) : t[i] = t[k] => i + 1 = k + 1
    BY <2>1, <1>1, <1>2
  <2>4. \A i, k \in 1..Len(t) : i + 1 = k + 1 => i = k
    BY <1>1
  <2>5. IsInjective(t)
    BY <2>3, <2>4, <1>1 DEF IsInjective
  <2> QED
    BY <2>2, <2>5
<1> QED
  BY <1>1, <1>4, <1>5, <1>6 DEF h, t

LEMMA NoLayers ==
  /\ ToSet(<<>>) = {} /\ IsInjective(<<>>) /\ <<>> \in Seq(LayerSet)
  /\ \A s \in Seq(LayerSet) : ToSet(s) = {} => s = <<>>
<1>1. ToSet(<<>>) = {} /\ IsInjective(<<>>) /\ <<>> \in Seq(LayerSet)
  BY DEF ToSet, IsInjective
<1>2. ASSUME NEW s \in Seq(LayerSet), ToSet(s) = {}
      PROVE  s = <<>>
  BY <1>2, Popped
<1> QED
  BY <1>1, <1>2

-----------------------------------------------------------------------------
(* The command line, the batches and the paths. *)

LEMMA CommandType ==
  ASSUME HistoryOK
  PROVE  /\ cmd \in Commands
         /\ cmd.kind \in {"training", "bases", "direct", "pairs"}
         /\ cmd.sameNode \in BOOLEAN /\ cmd.skipReclaim \in BOOLEAN
         /\ cmd.target \in Nat /\ cmd.wanted \in SUBSET LayerSet /\ cmd.saved \in SUBSET LayerSet
  BY LayersAssumption DEF HistoryOK, LayersAssumption

LEMMA NeedsType ==
  ASSUME NEW c, NEW us \in SUBSET LayerSet, us \subseteq Units(c)
  PROVE  /\ Needs(c, us) \in SUBSET LayerSet
         /\ us \subseteq Needs(c, us)
<1>1. \A u \in us : c.kind = "pairs" => Output[u] \in LayerSet
  BY LayersAssumption DEF LayersAssumption, Units
<1> QED
  BY <1>1 DEF Needs

LEMMA BatchType ==
  ASSUME HistoryOK
  PROVE  /\ LastBatch \in Nat
         /\ \A i \in 1..LastBatch : /\ Batch(i) \in SUBSET LayerSet
                                    /\ Batch(i) \subseteq Units(cmd)
                                    /\ ToRun(i) \in SUBSET LayerSet
                                    /\ ToRun(i) \subseteq Batch(i)
                                    /\ BatchLayers(i) \in SUBSET LayerSet
                                    /\ Batch(i) \subseteq BatchLayers(i)
<1>1. Batches[cmd] = MakeBatches(cmd)
  BY CommandType DEF Batches
<1>2. Made(cmd, N, Batches[cmd])
  BY <1>1, BatchesMade
<1> DEFINE bs == Batches[cmd]
<1> HIDE DEF bs
<1>3. /\ bs \in Seq(SUBSET LayerSet)
      /\ \A i \in 1..Len(bs) : \A u \in bs[i] : u \in Units(cmd)
  BY <1>2 DEF Made, bs
<1>4. Len(bs) \in Nat /\ \A i \in 1..Len(bs) : bs[i] \in SUBSET LayerSet
  BY <1>3, LenProperties
<1>5. \A i \in 1..Len(bs) : Needs(cmd, bs[i]) \in SUBSET LayerSet /\ bs[i] \subseteq Needs(cmd, bs[i])
  BY <1>3, <1>4, NeedsType
<1> QED
  BY <1>3, <1>4, <1>5 DEF LastBatch, Batch, ToRun, BatchLayers, bs

LEMMA PathsApart ==
  /\ \A l, m : In(l) # Out(m)
  /\ \A l, m : In(l) = In(m) => l = m
  /\ \A l, m : Out(l) = Out(m) => l = m
  /\ \A l \in LayerSet : In(l) \in Paths /\ Out(l) \in Paths
  /\ \A p \in Paths : \E l \in LayerSet : p = In(l) \/ p = Out(l)
  /\ \A l : In(l) \notin OutPaths
  /\ \A l \in LayerSet : Out(l) \in OutPaths
  /\ OutPaths \subseteq Paths
  BY DEF In, Out, Paths, OutPaths

LEMMA NodeType ==
  /\ Compute \in Places /\ Saved \in Places /\ Written \in Places
  /\ Compute \in {"storage", "compute"} /\ Written \in {"storage", "compute", "nfs"}
  BY DEF Compute, Saved, Written, Places

(* What is in the store after a copy, or a removal. *)

Cells == [Places -> [Paths -> Values]]

LEMMA CopiedValue ==
  ASSUME NEW src \in Values, NEW dst \in Values
  PROVE  Copied(src, dst) \in Values
  BY DEF Copied, Values

LEMMA RsyncedCells ==
  ASSUME store \in Cells, NEW from \in Places, NEW to \in Places, NEW ps,
         NEW new, new = Rsynced(from, to, ps)
  PROVE  /\ new \in Cells
         /\ \A pl \in Places, p \in Paths :
              new[pl][p] = IF pl = to /\ p \in ps THEN Copied(store[from][p], store[to][p])
                           ELSE store[pl][p]
<1> DEFINE row == [p \in Paths |->
        IF p \in ps THEN Copied(store[from][p], store[to][p]) ELSE store[to][p]]
<1>0. \A pl \in Places, p \in Paths : store[pl][p] \in Values
  BY DEF Cells
<1>1. row \in [Paths -> Values]
  BY <1>0, CopiedValue
<1>2. new = [store EXCEPT ![to] = row]
  BY DEF Rsynced
<1>3. \A p \in Paths : row[p] = IF p \in ps THEN Copied(store[from][p], store[to][p]) ELSE store[to][p]
  OBVIOUS
<1> HIDE DEF row
<1>4. new \in Cells /\ new[to] = row /\ \A pl \in Places : pl # to => new[pl] = store[pl]
  BY <1>1, <1>2 DEF Cells
<1> QED
  BY <1>3, <1>4

LEMMA BegunCells ==
  ASSUME store \in Cells, NEW from \in Places, NEW to \in Places, NEW ps,
         NEW new, new = Begun(from, to, ps)
  PROVE  /\ new \in Cells
         /\ \A pl \in Places, p \in Paths :
              new[pl][p] = IF pl = to /\ p \in ps /\ store[to][p] = "none" /\ store[from][p] # "none"
                           THEN "part" ELSE store[pl][p]
<1> DEFINE row == [p \in Paths |->
        IF p \in ps /\ store[to][p] = "none" /\ store[from][p] # "none" THEN "part" ELSE store[to][p]]
<1>0. \A pl \in Places, p \in Paths : store[pl][p] \in Values
  BY DEF Cells
<1>1. row \in [Paths -> Values]
  BY <1>0 DEF Values
<1>2. new = [store EXCEPT ![to] = row]
  BY DEF Begun
<1>3. \A p \in Paths : row[p] = IF p \in ps /\ store[to][p] = "none" /\ store[from][p] # "none"
                                THEN "part" ELSE store[to][p]
  OBVIOUS
<1> HIDE DEF row
<1>4. new \in Cells /\ new[to] = row /\ \A pl \in Places : pl # to => new[pl] = store[pl]
  BY <1>1, <1>2 DEF Cells
<1> QED
  BY <1>3, <1>4

LEMMA RemovedCells ==
  ASSUME store \in Cells, NEW place \in Places, NEW ps, NEW v \in Values,
         NEW new, new = Removed(place, ps, v)
  PROVE  /\ new \in Cells
         /\ \A pl \in Places, p \in Paths :
              new[pl][p] = IF pl = place /\ p \in ps /\ store[place][p] # "none"
                           THEN v ELSE store[pl][p]
<1> DEFINE row == [p \in Paths |->
        IF p \in ps /\ store[place][p] # "none" THEN v ELSE store[place][p]]
<1>0. \A pl \in Places, p \in Paths : store[pl][p] \in Values
  BY DEF Cells
<1>1. row \in [Paths -> Values]
  BY <1>0
<1>2. new = [store EXCEPT ![place] = row]
  BY DEF Removed
<1>3. \A p \in Paths : row[p] = IF p \in ps /\ store[place][p] # "none" THEN v ELSE store[place][p]
  OBVIOUS
<1> HIDE DEF row
<1>4. new \in Cells /\ new[place] = row /\ \A pl \in Places : pl # place => new[pl] = store[pl]
  BY <1>1, <1>2 DEF Cells
<1> QED
  BY <1>3, <1>4

Stores(new, place, l, v) == new = [store EXCEPT ![place][Out(l)] = v]

LEMMA SavedCells ==
  ASSUME store \in Cells, NEW place \in Places, NEW l \in LayerSet, NEW v \in Values,
         NEW new, Stores(new, place, l, v)
  PROVE  /\ new \in Cells
         /\ \A pl \in Places, p \in Paths :
              new[pl][p] = IF pl = place /\ p = Out(l) THEN v ELSE store[pl][p]
<1> DEFINE o == Out(l)
<1>0. o \in Paths
  BY PathsApart
<1>1. new = [store EXCEPT ![place] = [store[place] EXCEPT ![o] = v]]
  BY DEF Stores
<1> HIDE DEF o
<1> DEFINE row == [store[place] EXCEPT ![o] = v]
<1>2. row \in [Paths -> Values] /\ \A p \in Paths : row[p] = IF p = o THEN v ELSE store[place][p]
  BY <1>0 DEF Cells
<1>3. new = [store EXCEPT ![place] = row]
  BY <1>1
<1> HIDE DEF row
<1>4. new \in Cells /\ new[place] = row /\ \A pl \in Places : pl # place => new[pl] = store[pl]
  BY <1>2, <1>3 DEF Cells
<1>5. \A pl \in Places, p \in Paths : new[pl][p] = IF pl = place /\ p = o THEN v ELSE store[pl][p]
  BY <1>2, <1>4
<1> QED
  BY <1>4, <1>5 DEF o

\* A step that writes ps at one place.
LEMMA StoreStays ==
  ASSUME StoreOK, cmd' = cmd, store' \in Cells, NEW to \in Places, NEW ps,
         \A pl \in Places, p \in Paths : ~(pl = to /\ p \in ps) => store'[pl][p] = store[pl][p],
         \A l \in LayerSet : In(l) \in ps =>
            /\ to # "storage" /\ (to = "compute" => ~cmd.sameNode)
            /\ store'[to][In(l)] \in InputValues
  PROVE  StoreOK'
<1>0. "storage" \in Places /\ "compute" \in Places
  BY DEF Places
<1>1. \A l \in LayerSet : In(l) \in Paths
  BY PathsApart
<1>2. \A pl \in Places : \A l \in LayerSet : store'[pl][In(l)] \in InputValues
  BY <1>1 DEF StoreOK
<1>3. \A l \in LayerSet : store'["storage"][In(l)] = "whole"
  BY <1>0, <1>1 DEF StoreOK
<1>4. cmd.sameNode => \A l \in LayerSet : store'["compute"][In(l)] = "none"
  BY <1>0, <1>1 DEF StoreOK
<1> QED
  BY <1>2, <1>3, <1>4 DEF StoreOK, Cells

-----------------------------------------------------------------------------
(* What a job is after a step. *)

PcOK(j, pc) ==
    /\ IsRelay(j) => pc \in RelayPcs
    /\ IsRm(j)    => pc \in RmPcs
    /\ IsTrain(j) => /\ pc \in TrainPcs
                     /\ pc \in AtUnit => j.rest # <<>>
                     /\ pc = "ok" => j.rest = <<>>
                     /\ ~Training => pc \notin {"fit", "checkpoint"}

\* k is job j at position pc, with rest still to do.
IsNow(j, k, pc, rest) ==
    /\ k.owner = j.owner /\ k.kind = j.kind /\ k.from = j.from /\ k.to = j.to /\ k.paths = j.paths
    /\ k.pc = pc /\ k.rest = rest

LEMMA JobFields ==
  ASSUME NEW j, JobOK(j)
  PROVE  /\ j \in Job /\ j.owner \in 1..MaxRuns /\ j.owner <= run
         /\ j.kind \in {"relay", "train", "rm"}
         /\ j.from \in Places /\ j.to \in Places /\ j.paths \in SUBSET Paths /\ j.rest \in Seq(LayerSet)
         /\ j.pc \in JobPcs
  BY DEF JobOK, Job

LEMMA NowOK ==
  ASSUME NEW j, JobOK(j), NEW k \in Job, NEW pc, PcOK(j, pc), IsNow(j, k, pc, j.rest)
  PROVE  JobOK(k)
<1>1. FeedOK(j) => FeedOK(k)
  BY DEF FeedOK, IsFeed, IsNow, PcOK, IsRelay
<1>2. ReturnOK(j) => ReturnOK(k)
  BY DEF ReturnOK, IsReturn, IsNow, PcOK, IsRelay
<1>3. RmOK(j) => RmOK(k)
  BY DEF RmOK, IsRm, IsNow, PcOK
<1>4. TrainOK(j) => TrainOK(k)
  BY DEF TrainOK, IsTrain, IsNow, PcOK
<1>5. k.owner <= run /\ (~IsTrain(k) => k.rest = <<>>)
  BY DEF JobOK, IsNow, IsTrain
<1> QED
  BY <1>1, <1>2, <1>3, <1>4, <1>5 DEF JobOK

LEMMA PcType ==
  \A j, pc : j.kind \in {"relay", "train", "rm"} /\ PcOK(j, pc) => pc \in JobPcs
  BY DEF PcOK, JobPcs, IsRelay, IsRm, IsTrain

LEMMA Onward ==
  ASSUME NEW j, JobOK(j), NEW pc, PcOK(j, pc), NEW k, k = [j EXCEPT !.pc = pc]
  PROVE  JobOK(k) /\ IsNow(j, k, pc, j.rest)
<1>0. j \in Job /\ pc \in JobPcs
  BY JobFields, PcType
<1>1. k \in Job /\ IsNow(j, k, pc, j.rest)
  BY <1>0 DEF Job, IsNow
<1> QED
  BY <1>1, NowOK

LEMMA Shorter ==
  ASSUME NEW j, JobOK(j), IsTrain(j), j.rest # <<>>, NEW k,
         \/ j.pc = "next" /\ k = [j EXCEPT !.rest = Tail(j.rest)]
         \/ k = [j EXCEPT !.pc = "next", !.rest = Tail(j.rest)]
  PROVE  JobOK(k) /\ IsNow(j, k, "next", Tail(j.rest))
<1>0. j \in Job /\ Tail(j.rest) \in Seq(LayerSet) /\ "next" \in JobPcs
  BY JobFields, Popped DEF JobPcs, TrainPcs
<1> DEFINE t == Tail(j.rest)
<1> HIDE DEF t
<1>1. k = [j EXCEPT !.rest = t] \/ k = [j EXCEPT !.pc = "next", !.rest = t]
  BY DEF t
<1>2. k \in Job /\ IsNow(j, k, "next", t)
  BY <1>0, <1>1 DEF Job, IsNow, t
<1>3. TrainOK(k)
  <2>1. k.pc = "next" /\ k.kind = "train"
    BY <1>2 DEF IsNow, IsTrain
  <2> QED
    BY <2>1 DEF TrainOK, IsTrain, TrainPcs, AtUnit
<1>4. k.owner <= run /\ IsTrain(k)
  BY <1>2 DEF IsNow, JobOK, IsTrain
<1> QED
  BY <1>2, <1>3, <1>4 DEF JobOK, t

\* The jobs after job i has gone on to pc: the others, and i unless it has ended unasked.
LEMMA AfterJobs ==
  ASSUME NEW j, NEW pc
  PROVE  /\ \A k \in Jobs(j, pc) : (k \in jobs /\ k # j) \/ k = [j EXCEPT !.pc = pc]
         /\ \A k \in jobs : k # j => k \in Jobs(j, pc)
  BY DEF Jobs

\* k is a copy of js whose files have gone, before that i.
IsTorn(i, k) ==
    /\ i.kind = "relay" /\ i.pc \in {"up", "down"}
    /\ k = [i EXCEPT !.pc = IF i.pc = "up" THEN "upTorn" ELSE "downTorn"]

TearsAt(place, paths, i) ==
    /\ i.kind = "relay" /\ i.paths \cap paths # {}
    /\ \/ i.pc = "up" /\ place \in {i.from, "staging"}
       \/ i.pc = "down" /\ place \in {i.to, "staging"}

LEMMA Teared ==
  ASSUME NEW js, NEW place, NEW paths
  PROVE  /\ \A k \in Tear(js, place, paths) :
              \E i \in js : IF TearsAt(place, paths, i) THEN IsTorn(i, k) ELSE k = i
         /\ \A i \in js : \E k \in Tear(js, place, paths) :
              IF TearsAt(place, paths, i) THEN IsTorn(i, k) ELSE k = i
  BY DEF Tear, TearsAt, IsTorn

LEMMA TornJob ==
  ASSUME NEW i, JobOK(i), NEW k, IsTorn(i, k)
  PROVE  JobOK(k) /\ IsRelay(i)
         /\ IsNow(i, k, IF i.pc = "up" THEN "upTorn" ELSE "downTorn", i.rest)
<1> DEFINE pc == IF i.pc = "up" THEN "upTorn" ELSE "downTorn"
<1>1. PcOK(i, pc) /\ IsRelay(i)
  BY DEF IsTorn, PcOK, RelayPcs, IsRelay, IsTrain, IsRm
<1>2. k = [i EXCEPT !.pc = pc]
  BY DEF IsTorn
<1> HIDE DEF pc
<1>3. JobOK(k) /\ IsNow(i, k, pc, i.rest)
  BY <1>1, <1>2, Onward
<1> QED
  BY <1>1, <1>3 DEF pc

LEMMA AllStayOK ==
  ASSUME JobsOK, NEW j \in jobs
  PROVE  /\ \A pc : PcOK(j, pc) => AllOK(Jobs(j, pc))
         /\ \A k : JobOK(k) => AllOK((jobs \ {j}) \union {k})
         /\ \A js, place, paths : AllOK(js) => AllOK(Tear(js, place, paths))
<1>1. ASSUME NEW pc, PcOK(j, pc)
      PROVE  AllOK(Jobs(j, pc))
  <2>1. JobOK(j) /\ \A k \in jobs : JobOK(k)
    BY DEF JobsOK, AllOK
  <2>2. \A k : k = [j EXCEPT !.pc = pc] => JobOK(k)
    BY <1>1, <2>1, Onward
  <2> QED
    BY <2>1, <2>2, AfterJobs DEF AllOK
<1>2. ASSUME NEW js, NEW place, NEW paths, AllOK(js)
      PROVE  AllOK(Tear(js, place, paths))
  <2> SUFFICES ASSUME NEW k \in Tear(js, place, paths)
               PROVE  JobOK(k)
    BY DEF AllOK
  <2>1. PICK i \in js : k = i \/ IsTorn(i, k)
    BY Teared
  <2>2. JobOK(i)
    BY <1>2 DEF AllOK
  <2> QED
    BY <2>1, <2>2, TornJob
<1> QED
  BY <1>1, <1>2 DEF JobsOK, AllOK

\* The shape of a job depends on the command line and the number of the run alone.
LEMMA SameJobs ==
  ASSUME cmd' = cmd, run' \in Nat, run \in Nat, run <= run', JobsOK, NEW js, AllOK(js), jobs' = js
  PROVE  JobsOK'
<1>1. Training' = Training /\ LayerSet' = LayerSet /\ Job' = Job /\ OutPaths' = OutPaths
  BY DEF Training, LayerSet, Job, Places, Paths, JobPcs, OutPaths, RelayPcs, RmPcs, TrainPcs, In, Out
<1>2. \A j : /\ FeedOK(j) => FeedOK(j)'
             /\ ReturnOK(j) => ReturnOK(j)'
             /\ RmOK(j) => RmOK(j)'
             /\ TrainOK(j) => TrainOK(j)'
  BY <1>1 DEF FeedOK, ReturnOK, RmOK, TrainOK, IsFeed, IsReturn, IsRm, IsTrain, RelayPcs, RmPcs, TrainPcs,
              AtUnit, In
<1>3. ASSUME NEW j \in js
      PROVE  JobOK(j)'
  <2>1. JobOK(j)
    BY DEF AllOK
  <2>2. j.owner <= run'
    BY <2>1, JobFields
  <2> QED
    BY <1>1, <1>2, <2>1, <2>2 DEF JobOK, IsTrain
<1> QED
  BY <1>3 DEF JobsOK, AllOK

\* Where the driver goes.
DriverAt(pc, batch, todo) ==
    /\ driver' \in DriverType
    /\ driver'.pc = pc /\ driver'.batch = batch /\ driver'.todo = todo
Advance ==
    IF driver.batch = LastBatch
    THEN DriverAt("done", driver.batch, driver.todo)
    ELSE DriverAt("check", driver.batch + 1, driver.todo)

LEMMA GoneTo ==
  ASSUME DriverOK, NEW pc \in DriverPcs, Goto(pc)
  PROVE  DriverAt(pc, driver.batch, driver.todo)
  BY DEF DriverOK, DriverType, Goto, DriverAt

LEMMA Advances ==
  ASSUME DriverOK, NextBatch
  PROVE  Advance
<1> DEFINE b == driver.batch + 1
<1>1. b \in Nat
  BY DEF DriverOK, DriverType
<1>2. IF driver.batch = LastBatch THEN driver' = [driver EXCEPT !.pc = "done"]
      ELSE driver' = [driver EXCEPT !.pc = "check", !.batch = b]
  BY DEF NextBatch
<1> HIDE DEF b
<1>3. IF driver.batch = LastBatch THEN DriverAt("done", driver.batch, driver.todo)
      ELSE DriverAt("check", b, driver.todo)
  BY <1>1, <1>2 DEF DriverOK, DriverType, DriverAt, DriverPcs
<1> QED
  BY <1>3 DEF Advance, b

LEMMA ToDo ==
  ASSUME DriverOK, NEW pc \in DriverPcs, NEW todo \in Seq(LayerSet),
         \/ driver' = [driver EXCEPT !.pc = pc, !.todo = todo]
         \/ pc = driver.pc /\ driver' = [driver EXCEPT !.todo = todo]
  PROVE  DriverAt(pc, driver.batch, todo)
  BY DEF DriverOK, DriverType, DriverAt

\* The same, as facts that an action's own lemma cites.
LEMMA DriverFields ==
  ASSUME DriverOK
  PROVE  driver.pc \in DriverPcs /\ driver.batch \in Nat /\ driver.todo \in Seq(LayerSet)
  BY DEF DriverOK, DriverType

LEMMA ToRunAgain ==
  ASSUME Typed
  PROVE  driver.pc # "off" => run > 0 /\ run \in 1..MaxRuns /\ driver.batch \in 1..LastBatch
  BY LayersAssumption DEF Typed, DriverOK, HistoryOK, LayersAssumption

-----------------------------------------------------------------------------
(* The driver's steps. *)

\* A batch that is gone past, or that has to be done.
CheckStep ==
    /\ driver.pc = "check"
    /\ UNCHANGED <<cmd, store, jobs, run, alone, left, cut>>
    /\ \/ /\ ToRun(driver.batch) = {} \/ Complete(driver.batch)
          /\ Advance /\ UNCHANGED <<faults, clean>>
       \/ /\ DriverAt("measure", driver.batch, driver.todo)
          /\ \/ ToRun(driver.batch) # {} /\ ~Complete(driver.batch) /\ UNCHANGED <<faults, clean>>
             \/ Training /\ faults < MaxFaults /\ faults' = faults + 1 /\ clean' = FALSE

LEMMA CheckSteps == ASSUME DriverOK, CheckBatch PROVE CheckStep
<1> USE DEF CheckBatch, CheckStep
<1>1. "measure" \in DriverPcs
  BY DEF DriverPcs
<1>2. CASE /\ ToRun(driver.batch) = {} \/ Complete(driver.batch)
           /\ NextBatch
           /\ UNCHANGED <<faults, clean>>
  BY <1>2, Advances
<1>3. CASE /\ ToRun(driver.batch) # {} /\ ~Complete(driver.batch)
           /\ Goto("measure")
           /\ UNCHANGED <<faults, clean>>
  BY <1>1, <1>3, GoneTo
<1>4. CASE /\ Training /\ faults < MaxFaults
           /\ faults' = faults + 1 /\ clean' = FALSE
           /\ Goto("measure")
  BY <1>1, <1>4, GoneTo
<1> QED
  BY <1>2, <1>3, <1>4

MeasureStep ==
    /\ driver.pc = "measure"
    /\ UNCHANGED <<cmd, store, jobs, run, faults, clean, alone, left, cut>>
    /\ \E todo \in Seq(LayerSet) :
          /\ DriverAt("relayIn", driver.batch, todo)
          /\ ToSet(todo) = {l \in BatchLayers(driver.batch) : NeedsRelay(l)}
          /\ IsInjective(todo)

LEMMA MeasureSteps == ASSUME Typed, Measure PROVE MeasureStep
<1> DEFINE ls == {l \in BatchLayers(driver.batch) : NeedsRelay(l)}
<1>1. driver.pc = "measure" /\ driver.batch \in 1..LastBatch
  BY ToRunAgain DEF Measure
<1>2. ls \in SUBSET LayerSet
  BY <1>1, BatchType DEF Typed
<1>3. /\ driver' = [driver EXCEPT !.pc = "relayIn", !.todo = InOrder(ls)]
      /\ UNCHANGED <<cmd, store, jobs, run, faults, clean, alone, left, cut>>
  BY DEF Measure
<1> HIDE DEF ls
<1>4. InOrder(ls) \in Seq(LayerSet) /\ ToSet(InOrder(ls)) = ls /\ IsInjective(InOrder(ls))
  BY <1>2, InOrderOf
<1>5. "relayIn" \in DriverPcs
  BY DEF DriverPcs
<1>6. DriverAt("relayIn", driver.batch, InOrder(ls))
  BY <1>3, <1>4, <1>5, ToDo DEF Typed
<1> QED
  BY <1>1, <1>3, <1>4, <1>6 DEF MeasureStep, ls

SubmitRelayInStep ==
    /\ driver.pc = "relayIn" /\ driver.todo # <<>>
    /\ UNCHANGED <<cmd, store, run, faults, clean, alone, left, cut>>
    /\ DriverAt("relayIn", driver.batch, Tail(driver.todo))
    /\ jobs' = jobs \union {Relay("storage", Compute, {In(Head(driver.todo))})}

LEMMA SubmitRelayInSteps == ASSUME Typed, SubmitRelayIn PROVE SubmitRelayInStep
<1> DEFINE t == Tail(driver.todo)
<1>1. driver' = [driver EXCEPT !.todo = t]
  BY DEF SubmitRelayIn
<1>2. t \in Seq(LayerSet)
  BY DriverFields, Popped DEF SubmitRelayIn, Typed
<1> HIDE DEF t
<1>3. DriverAt("relayIn", driver.batch, t)
  BY <1>1, <1>2, ToDo, DriverFields DEF Typed, SubmitRelayIn
<1> QED
  BY <1>3 DEF SubmitRelayIn, SubmitRelayInStep, t

\* The driver has waited for its jobs: it raises, or goes on.
Raises ==
    /\ ~Succeeded
    /\ DriverAt("raised", driver.batch, driver.todo)
    /\ jobs' = jobs \ Mine
AfterStep(pc, next) ==
    /\ driver.pc = pc /\ driver.todo = <<>> /\ Waited
    /\ UNCHANGED <<cmd, store, run, faults, clean, alone, left, cut>>
    /\ Raises \/ (Succeeded /\ next)

LEMMA AfterWaits ==
  ASSUME DriverOK, NEW pc, NEW ACTION next, AfterWait(pc, next)
  PROVE  AfterStep(pc, next)
<1>1. "raised" \in DriverPcs
  BY DEF DriverPcs
<1>2. CASE ~Succeeded
  BY <1>1, <1>2, GoneTo DEF AfterWait, AfterStep, Raises
<1>3. CASE Succeeded
  BY <1>3 DEF AfterWait, AfterStep
<1> QED
  BY <1>2, <1>3

TrainJob == CASE Training -> TrainingJob(Batch(driver.batch))
              [] Pairs    -> SweepJob(Batch(driver.batch))
              [] OTHER    -> GenerationJob(Batch(driver.batch))
SubmitTrainStep ==
    AfterStep("relayIn", /\ DriverAt("train", driver.batch, driver.todo)
                         /\ jobs' = (jobs \ Mine) \union {TrainJob})

LEMMA SubmitTrainSteps == ASSUME DriverOK, SubmitTrain PROVE SubmitTrainStep
<1>1. "train" \in DriverPcs
  BY DEF DriverPcs
<1>2. AfterStep("relayIn", Goto("train") /\ jobs' = (jobs \ Mine) \union {TrainJob})
  BY AfterWaits DEF SubmitTrain, TrainJob
<1> QED
  BY <1>1, <1>2, GoneTo DEF SubmitTrainStep, AfterStep

\* The batch's job is over and its output is where it is to be kept.
Leaves ==
    IF cmd.skipReclaim \/ cmd.sameNode THEN Advance
    ELSE \E todo \in Seq(LayerSet) :
            /\ DriverAt("reclaim", driver.batch, todo)
            /\ ToSet(todo) = {l \in BatchLayers(driver.batch) : ~NeededLater(l)}

LEMMA Leaving == ASSUME Typed, driver.pc # "off", EnterReclaim PROVE Leaves
<1>1. CASE cmd.skipReclaim \/ cmd.sameNode
  BY <1>1, Advances DEF EnterReclaim, Leaves, Typed
<1>2. CASE ~(cmd.skipReclaim \/ cmd.sameNode)
  <2> DEFINE ls == {l \in BatchLayers(driver.batch) : ~NeededLater(l)}
  <2>1. driver' = [driver EXCEPT !.pc = "reclaim", !.todo = InOrder(ls)]
    BY <1>2 DEF EnterReclaim, ToReclaim
  <2>2. ls \in SUBSET LayerSet
    BY ToRunAgain, BatchType DEF Typed
  <2> HIDE DEF ls
  <2>3. InOrder(ls) \in Seq(LayerSet) /\ ToSet(InOrder(ls)) = ls
    BY <2>2, InOrderOf
  <2>4. "reclaim" \in DriverPcs
    BY DEF DriverPcs
  <2>5. DriverAt("reclaim", driver.batch, InOrder(ls))
    BY <2>1, <2>3, <2>4, ToDo DEF Typed
  <2> QED
    BY <1>2, <2>3, <2>5 DEF Leaves, ls
<1> QED
  BY <1>1, <1>2

SubmitRelayOutStep ==
    AfterStep("train",
        \/ /\ Training /\ ~cmd.sameNode
           /\ DriverAt("relayOut", driver.batch, driver.todo)
           /\ jobs' = (jobs \ Mine) \union {Relay(Compute, "storage", OutPaths)}
        \/ /\ ~(Training /\ ~cmd.sameNode)
           /\ Leaves
           /\ jobs' = jobs \ Mine)
RelayedOutStep == AfterStep("relayOut", Leaves /\ jobs' = jobs \ Mine)

LEMMA SubmitRelayOutSteps == ASSUME Typed, SubmitRelayOut PROVE SubmitRelayOutStep
<1>1. "relayOut" \in DriverPcs
  BY DEF DriverPcs
<1>2. AfterStep("train", IF Training /\ ~cmd.sameNode
        THEN /\ Goto("relayOut")
             /\ jobs' = (jobs \ Mine) \union {Relay(Compute, "storage", OutPaths)}
        ELSE /\ EnterReclaim
             /\ jobs' = jobs \ Mine)
  BY AfterWaits DEF SubmitRelayOut, Typed
<1> QED
  BY <1>1, <1>2, GoneTo, Leaving DEF SubmitRelayOutStep, AfterStep, Typed

LEMMA RelayedOutSteps == ASSUME Typed, RelayedOut PROVE RelayedOutStep
<1>1. AfterStep("relayOut", EnterReclaim /\ jobs' = jobs \ Mine)
  BY AfterWaits DEF RelayedOut, Typed
<1> QED
  BY <1>1, Leaving DEF RelayedOutStep, AfterStep, Typed

ReclaimStep ==
    /\ driver.pc = "reclaim" /\ Waited
    /\ UNCHANGED <<cmd, store, run, faults, clean, alone, left, cut>>
    /\ \/ Raises
       \/ /\ Succeeded /\ driver.todo = <<>>
          /\ Advance /\ jobs' = jobs \ Mine
       \/ /\ Succeeded /\ driver.todo # <<>>
          /\ DriverAt("reclaim", driver.batch, Tail(driver.todo))
          /\ jobs' = (jobs \ Mine) \union {Rm(Compute, {In(Head(driver.todo))})}

LEMMA ReclaimSteps == ASSUME Typed, Reclaim PROVE ReclaimStep
<1>1. CASE ~Succeeded
  <2>1. "raised" \in DriverPcs
    BY DEF DriverPcs
  <2> QED
    BY <1>1, <2>1, GoneTo DEF Reclaim, ReclaimStep, Raises, Typed
<1>2. CASE Succeeded /\ driver.todo = <<>>
  BY <1>2, Advances DEF Reclaim, ReclaimStep, Typed
<1>3. CASE Succeeded /\ driver.todo # <<>>
  <2> DEFINE t == Tail(driver.todo)
  <2>1. driver' = [driver EXCEPT !.todo = t] /\ driver.pc = "reclaim"
    BY <1>3 DEF Reclaim
  <2>2. t \in Seq(LayerSet)
    BY <1>3, DriverFields, Popped DEF Typed
  <2> HIDE DEF t
  <2>3. DriverAt("reclaim", driver.batch, t)
    BY <2>1, <2>2, ToDo, DriverFields DEF Typed
  <2> QED
    BY <1>3, <2>3 DEF Reclaim, ReclaimStep, t
<1> QED
  BY <1>1, <1>2, <1>3

-----------------------------------------------------------------------------
(* What the jobs' steps keep of Typed. *)

\* What a step leaves in the store.
BegunAt(from, to, ps) ==
    /\ store' \in Cells
    /\ \A pl \in Places, p \in Paths :
         store'[pl][p] = IF pl = to /\ p \in ps /\ store[to][p] = "none" /\ store[from][p] # "none"
                         THEN "part" ELSE store[pl][p]
RsyncedAt(from, to, ps) ==
    /\ store' \in Cells
    /\ \A pl \in Places, p \in Paths :
         store'[pl][p] = IF pl = to /\ p \in ps THEN Copied(store[from][p], store[to][p])
                         ELSE store[pl][p]
RemovedAt(place, ps, v) ==
    /\ store' \in Cells
    /\ \A pl \in Places, p \in Paths :
         store'[pl][p] = IF pl = place /\ p \in ps /\ store[place][p] # "none"
                         THEN v ELSE store[pl][p]
SavedAt(l, v) ==
    /\ store' \in Cells
    /\ \A pl \in Places, p \in Paths :
         store'[pl][p] = IF pl = Written /\ p = Out(l) THEN v ELSE store[pl][p]

LEMMA WhatIsStored ==
  ASSUME StoreOK
  PROVE  /\ store \in Cells
         /\ \A from \in Places, to \in Places : \A ps :
              /\ store' = Begun(from, to, ps) => BegunAt(from, to, ps)
              /\ store' = Rsynced(from, to, ps) => RsyncedAt(from, to, ps)
         /\ \A place \in Places, v \in Values : \A ps :
              store' = Removed(place, ps, v) => RemovedAt(place, ps, v)
         /\ \A l \in LayerSet, v \in Values :
              store' = [store EXCEPT ![Written][Out(l)] = v] => SavedAt(l, v)
<1>0. store \in Cells
  BY DEF StoreOK, Cells
<1>1. ASSUME NEW from \in Places, NEW to \in Places, NEW ps
      PROVE  /\ store' = Begun(from, to, ps) => BegunAt(from, to, ps)
             /\ store' = Rsynced(from, to, ps) => RsyncedAt(from, to, ps)
  BY <1>0, BegunCells, RsyncedCells DEF BegunAt, RsyncedAt
<1>2. ASSUME NEW place \in Places, NEW ps, NEW v \in Values
      PROVE  store' = Removed(place, ps, v) => RemovedAt(place, ps, v)
  BY <1>0, RemovedCells DEF RemovedAt
<1>3. ASSUME NEW l \in LayerSet, NEW v \in Values
      PROVE  store' = [store EXCEPT ![Written][Out(l)] = v] => SavedAt(l, v)
  <2> SUFFICES ASSUME store' = [store EXCEPT ![Written][Out(l)] = v]
               PROVE  SavedAt(l, v)
    OBVIOUS
  <2> DEFINE new == store'
  <2>1. Stores(new, Written, l, v)
    BY DEF Stores
  <2> HIDE DEF new
  <2>2. /\ new \in Cells
        /\ \A pl \in Places, p \in Paths :
             new[pl][p] = IF pl = Written /\ p = Out(l) THEN v ELSE store[pl][p]
    BY <1>0, <2>1, NodeType, SavedCells
  <2> QED
    BY <2>2 DEF SavedAt, new
<1> QED
  BY <1>0, <1>1, <1>2, <1>3

\* Where a job's paths lead.
LEMMA Ends ==
  ASSUME NEW j, JobOK(j)
  PROVE  /\ IsFeed(j) => j.from = "storage" /\ j.to = "compute" /\ ~cmd.sameNode
         /\ IsFeed(j) => \E l \in LayerSet : j.paths = {In(l)}
         /\ IsReturn(j) => j.from = "compute" /\ j.to = "storage" /\ ~cmd.sameNode /\ Training
         /\ IsReturn(j) => j.paths = OutPaths
         /\ IsRm(j) => j.from = "compute" /\ ~cmd.sameNode /\ ~cmd.skipReclaim
         /\ IsRm(j) => \E l \in LayerSet : j.paths = {In(l)}
         /\ IsRelay(j) => IsFeed(j) \/ IsReturn(j)
         /\ j.pc \in {"up", "upTorn", "staged", "down", "downTorn", "clean"} => IsRelay(j)
         /\ j.pc \in AtUnit => IsTrain(j) /\ j.rest # <<>> /\ Head(j.rest) \in LayerSet
         /\ j.from \in Places /\ j.to \in Places
<1>1. j.from \in Places /\ j.to \in Places /\ j.rest \in Seq(LayerSet)
  BY JobFields
<1>2. j.rest # <<>> => Head(j.rest) \in LayerSet
  BY <1>1, Popped
<1> QED
  BY <1>1, <1>2 DEF JobOK, FeedOK, ReturnOK, RmOK, TrainOK, IsFeed, IsReturn, IsRm, IsTrain, IsRelay,
        RelayPcs, RmPcs, TrainPcs, AtUnit

LEMMA BegunOK ==
  ASSUME StoreOK, cmd' = cmd, NEW from \in Places, NEW to \in Places, NEW ps, BegunAt(from, to, ps),
         \A l \in LayerSet : In(l) \in ps => to # "storage" /\ (to = "compute" => ~cmd.sameNode)
  PROVE  StoreOK'
<1>1. \A l \in LayerSet : In(l) \in Paths /\ store[to][In(l)] \in InputValues
  BY PathsApart DEF StoreOK
<1>2. \A l \in LayerSet : store'[to][In(l)] \in InputValues
  BY <1>1 DEF BegunAt, InputValues
<1>3. \A pl \in Places, p \in Paths : ~(pl = to /\ p \in ps) => store'[pl][p] = store[pl][p]
  BY DEF BegunAt
<1> QED
  BY <1>2, <1>3, StoreStays DEF BegunAt

LEMMA RsyncedOK ==
  ASSUME StoreOK, cmd' = cmd, NEW from \in Places, NEW to \in Places, NEW ps, RsyncedAt(from, to, ps),
         \A l \in LayerSet : In(l) \in ps => to # "storage" /\ (to = "compute" => ~cmd.sameNode)
  PROVE  StoreOK'
<1>1. \A l \in LayerSet : In(l) \in Paths /\ store[to][In(l)] \in InputValues /\ store[from][In(l)] \in InputValues
  BY PathsApart DEF StoreOK
<1>2. \A l \in LayerSet : store'[to][In(l)] \in InputValues
  BY <1>1 DEF RsyncedAt, Copied
<1>3. \A pl \in Places, p \in Paths : ~(pl = to /\ p \in ps) => store'[pl][p] = store[pl][p]
  BY DEF RsyncedAt
<1> QED
  BY <1>2, <1>3, StoreStays DEF RsyncedAt

LEMMA RemovedOK ==
  ASSUME StoreOK, cmd' = cmd, NEW place \in Places, NEW ps, NEW v \in {"none", "part"}, RemovedAt(place, ps, v),
         \A l \in LayerSet : In(l) \in ps => place # "storage" /\ (place = "compute" => ~cmd.sameNode)
  PROVE  StoreOK'
<1>1. \A l \in LayerSet : In(l) \in Paths /\ store[place][In(l)] \in InputValues
  BY PathsApart DEF StoreOK
<1>2. \A l \in LayerSet : store'[place][In(l)] \in InputValues
  BY <1>1 DEF RemovedAt, InputValues
<1>3. \A pl \in Places, p \in Paths : ~(pl = place /\ p \in ps) => store'[pl][p] = store[pl][p]
  BY DEF RemovedAt
<1> QED
  BY <1>2, <1>3, StoreStays DEF RemovedAt

LEMMA SavedAtOK ==
  ASSUME StoreOK, cmd' = cmd, NEW l \in LayerSet, NEW v, SavedAt(l, v)
  PROVE  StoreOK'
<1>1. \A pl \in Places, p \in Paths : ~(pl = Written /\ p \in {Out(l)}) => store'[pl][p] = store[pl][p]
  BY DEF SavedAt
<1>2. \A m \in LayerSet : In(m) \notin {Out(l)}
  BY PathsApart
<1> QED
  BY <1>1, <1>2, StoreStays, NodeType DEF SavedAt

LEMMA StoreSame == ASSUME StoreOK, cmd' = cmd, store' = store PROVE StoreOK'
  BY DEF StoreOK

\* An input is relayed to, and removed from, another node than the storage node's.
LEMMA InputsAway ==
  ASSUME NEW j, JobOK(j), NEW l \in LayerSet, In(l) \in j.paths, ~IsTrain(j)
  PROVE  /\ ~cmd.sameNode
         /\ IsRelay(j) => j.to = "compute"
         /\ IsRm(j) => j.from = "compute"
  BY Ends, PathsApart DEF JobOK, FeedOK, ReturnOK, RmOK, TrainOK, IsFeed, IsReturn

HalfValues == {"part", "torn", "whole"}
LEMMA HalfSavedValue == \A l : HistoryOK => HalfSaved(l) \in HalfValues
  BY CommandType DEF HalfSaved, HalfValues

\* A step of a job keeps the store well formed, and the jobs.
StepTyped == StoreOK' /\ \E js : jobs' = js /\ AllOK(js)

LEMMA CopiesTyped ==
  ASSUME Typed, cmd' = cmd, NEW j \in jobs,
         UpBegin(j) \/ UpEnd(j) \/ DownBegin(j) \/ DownEnd(j) \/ CleanStaging(j) \/ TornCopyEnds(j)
  PROVE  StepTyped
<1>0. /\ StoreOK /\ JobsOK /\ JobOK(j) /\ IsRelay(j)
      /\ j.from \in Places /\ j.to \in Places /\ "staging" \in Places
      /\ \A pc \in RelayPcs : PcOK(j, pc)
      /\ j.kind = "relay"
  BY JobFields DEF Typed, JobsOK, AllOK, UpBegin, UpEnd, DownBegin, DownEnd, CleanStaging, TornCopyEnds,
                   IsRelay, PcOK, IsRm, IsTrain, Places
<1>1. \A pc \in RelayPcs : AllOK(Jobs(j, pc))
  BY <1>0, AllStayOK
<1>2. \A l \in LayerSet : In(l) \in j.paths => j.to # "storage" /\ (j.to = "compute" => ~cmd.sameNode)
  BY <1>0, InputsAway DEF IsTrain
<1>3. CASE UpBegin(j)
  <2>1. CASE Exists(j.from, j.paths)
    <3>1. BegunAt(j.from, "staging", j.paths)
      BY <1>0, <1>3, <2>1, WhatIsStored DEF UpBegin
    <3>2. StoreOK'
      BY <1>0, <3>1, BegunOK
    <3> QED
      BY <1>1, <1>3, <2>1, <3>2 DEF UpBegin, StepTyped, RelayPcs
  <2>2. CASE ~Exists(j.from, j.paths)
    BY <1>0, <1>1, <1>3, <2>2, StoreSame DEF UpBegin, StepTyped, RelayPcs
  <2> QED
    BY <2>1, <2>2
<1>4. CASE UpEnd(j)
  <2>1. RsyncedAt(j.from, "staging", j.paths)
    BY <1>0, <1>4, WhatIsStored DEF UpEnd
  <2>2. StoreOK'
    BY <1>0, <2>1, RsyncedOK
  <2> QED
    BY <1>1, <1>4, <2>2 DEF UpEnd, StepTyped, RelayPcs
<1>5. CASE DownBegin(j)
  <2>1. CASE Exists("staging", j.paths)
    <3>1. BegunAt("staging", j.to, j.paths)
      BY <1>0, <1>5, <2>1, WhatIsStored DEF DownBegin
    <3>2. StoreOK'
      BY <1>0, <1>2, <3>1, BegunOK
    <3> QED
      BY <1>1, <1>5, <2>1, <3>2 DEF DownBegin, StepTyped, RelayPcs
  <2>2. CASE ~Exists("staging", j.paths)
    BY <1>0, <1>1, <1>5, <2>2, StoreSame DEF DownBegin, StepTyped, RelayPcs
  <2> QED
    BY <2>1, <2>2
<1>6. CASE DownEnd(j)
  <2>1. RsyncedAt("staging", j.to, j.paths)
    BY <1>0, <1>6, WhatIsStored DEF DownEnd
  <2>2. StoreOK'
    BY <1>0, <1>2, <2>1, RsyncedOK
  <2> QED
    BY <1>1, <1>6, <2>2 DEF DownEnd, StepTyped, RelayPcs
<1>7. CASE CleanStaging(j)
  <2>1. RemovedAt("staging", j.paths, "none")
    BY <1>0, <1>7, WhatIsStored DEF CleanStaging, Values
  <2>2. StoreOK'
    BY <1>0, <2>1, RemovedOK
  <2>3. AllOK(Tear(Jobs(j, "ok"), "staging", j.paths))
    BY <1>0, <1>1, AllStayOK DEF RelayPcs
  <2> QED
    BY <1>7, <2>2, <2>3 DEF CleanStaging, StepTyped
<1>8. CASE TornCopyEnds(j)
  BY <1>0, <1>1, <1>8, StoreSame DEF TornCopyEnds, StepTyped, RelayPcs
<1> QED
  BY <1>3, <1>4, <1>5, <1>6, <1>7, <1>8

LEMMA RmTyped ==
  ASSUME Typed, cmd' = cmd, NEW j \in jobs, RmBegin(j) \/ RmEnd(j)
  PROVE  StepTyped
<1>0. /\ StoreOK /\ JobsOK /\ JobOK(j) /\ IsRm(j) /\ j.from \in Places
      /\ \A pc \in RmPcs : PcOK(j, pc)
  BY JobFields DEF Typed, JobsOK, AllOK, RmBegin, RmEnd, IsRelay, PcOK, IsRm, IsTrain
<1>1. \A pc \in RmPcs : AllOK(Tear(Jobs(j, pc), j.from, j.paths))
  BY <1>0, AllStayOK
<1>2. \A l \in LayerSet : In(l) \in j.paths => j.from # "storage" /\ (j.from = "compute" => ~cmd.sameNode)
  BY <1>0, InputsAway DEF IsTrain, IsRm
<1>3. \E v \in {"none", "part"} : RemovedAt(j.from, j.paths, v)
  BY <1>0, WhatIsStored DEF RmBegin, RmEnd, Values
<1>4. StoreOK'
  BY <1>0, <1>2, <1>3, RemovedOK
<1> QED
  BY <1>1, <1>4 DEF RmBegin, RmEnd, RmPcs, StepTyped

LEMMA TrainingTyped ==
  ASSUME Typed, cmd' = cmd, NEW j \in jobs,
         \/ LoadTraining(j) \/ NextChunk(j) \/ SkipPair(j) \/ LoadLayer(j) \/ SaveBegin(j)
         \/ LosesInput(j) \/ CheckpointEnd(j) \/ SaveEnd(j) \/ TrainDone(j)
  PROVE  StepTyped
<1>0. /\ StoreOK /\ JobsOK /\ JobOK(j) /\ IsTrain(j) /\ HistoryOK
  BY DEF Typed, JobsOK, AllOK, LoadTraining, NextChunk, SkipPair, LoadLayer, SaveBegin, LosesInput,
         CheckpointEnd, SaveEnd, TrainDone, IsTrain
<1>1. \A pc : PcOK(j, pc) => AllOK(Jobs(j, pc))
  BY <1>0, AllStayOK
<1>2. \A k : JobOK(k) => AllOK((jobs \ {j}) \union {k})
  BY <1>0, AllStayOK
<1>3. /\ PcOK(j, "failed") /\ PcOK(j, "next")
      /\ Training /\ j.rest # <<>> => PcOK(j, "fit") /\ PcOK(j, "checkpoint")
      /\ j.rest # <<>> => PcOK(j, "fitted") /\ PcOK(j, "save")
      /\ j.rest = <<>> => PcOK(j, "ok")
  BY <1>0 DEF PcOK, IsTrain, IsRelay, IsRm, TrainPcs, AtUnit
<1>4. CASE LoadTraining(j)
  BY <1>0, <1>1, <1>3, <1>4, StoreSame DEF LoadTraining, StepTyped
<1>5. CASE NextChunk(j)
  <2>1. CASE Present(Written, Head(j.rest))
    BY <1>0, <1>2, <1>5, <2>1, StoreSame, Shorter DEF NextChunk, StepTyped
  <2>2. CASE ~Present(Written, Head(j.rest))
    BY <1>0, <1>1, <1>3, <1>5, <2>2, StoreSame DEF NextChunk, StepTyped
  <2> QED
    BY <2>1, <2>2
<1>6. CASE SkipPair(j)
  BY <1>0, <1>2, <1>6, StoreSame, Shorter DEF SkipPair, StepTyped
<1>7. CASE LoadLayer(j)
  BY <1>0, <1>1, <1>3, <1>7, StoreSame DEF LoadLayer, StepTyped
<1>8. CASE SaveBegin(j)
  <2>1. j.pc \in AtUnit
    BY <1>8 DEF SaveBegin, AtUnit
  <2>2. j.rest # <<>> /\ Head(j.rest) \in LayerSet
    BY <1>0, <2>1, Ends
  <2>3. HalfSaved(Head(j.rest)) \in Values
    BY <1>0, HalfSavedValue DEF HalfValues, Values
  <2>4. SavedAt(Head(j.rest), HalfSaved(Head(j.rest)))
    BY <1>0, <1>8, <2>2, <2>3, WhatIsStored DEF SaveBegin
  <2>5. StoreOK'
    BY <1>0, <2>2, <2>4, SavedAtOK
  <2>6. j.pc = "fit" => Training
    BY <1>0 DEF JobOK, TrainOK, FeedOK, ReturnOK, RmOK, IsTrain, IsFeed, IsReturn, IsRm
  <2> QED
    BY <1>1, <1>3, <1>8, <2>2, <2>5, <2>6 DEF SaveBegin, StepTyped
<1>9. CASE LosesInput(j)
  BY <1>0, <1>1, <1>3, <1>9, StoreSame DEF LosesInput, StepTyped
<1>10. CASE CheckpointEnd(j)
  <2>1. j.pc \in AtUnit
    BY <1>10 DEF CheckpointEnd, AtUnit
  <2>2. j.rest # <<>> /\ Head(j.rest) \in LayerSet
    BY <1>0, <2>1, Ends
  <2>3. SavedAt(Head(j.rest), "periodic")
    BY <1>0, <1>10, <2>2, WhatIsStored DEF CheckpointEnd, Values
  <2>4. StoreOK'
    BY <1>0, <2>2, <2>3, SavedAtOK
  <2> QED
    BY <1>1, <1>3, <1>10, <2>2, <2>4 DEF CheckpointEnd, StepTyped
<1>11. CASE SaveEnd(j)
  <2>1. j.pc \in AtUnit
    BY <1>11 DEF SaveEnd, AtUnit
  <2>2. j.rest # <<>> /\ Head(j.rest) \in LayerSet
    BY <1>0, <2>1, Ends
  <2>3. SavedAt(Head(j.rest), "whole")
    BY <1>0, <1>11, <2>2, WhatIsStored DEF SaveEnd, Values
  <2>4. StoreOK'
    BY <1>0, <2>2, <2>3, SavedAtOK
  <2> QED
    BY <1>0, <1>2, <1>11, <2>2, <2>4, Shorter DEF SaveEnd, StepTyped
<1>12. CASE TrainDone(j)
  BY <1>0, <1>1, <1>3, <1>12, StoreSame DEF TrainDone, StepTyped
<1> QED
  BY <1>4, <1>5, <1>6, <1>7, <1>8, <1>9, <1>10, <1>11, <1>12

\* Why a job fails, and what a failed copy has moved.
FailStep(j) ==
    \/ j.pc = "up" /\ \E ps \in SUBSET j.paths : RsyncedAt(j.from, "staging", ps)
    \/ j.pc = "down" /\ \E ps \in SUBSET j.paths : RsyncedAt("staging", j.to, ps)
    \/ j.pc \notin {"up", "down"} /\ store' = store

LEMMA Failing == ASSUME Typed, NEW j \in jobs, JobFails(j) PROVE FailStep(j)
<1>0. StoreOK /\ JobOK(j) /\ j.from \in Places /\ j.to \in Places /\ "staging" \in Places
  BY JobFields DEF Typed, JobsOK, AllOK, Places
<1>1. CASE j.pc = "up"
  <2>1. \E ps \in SUBSET j.paths : store' = Rsynced(j.from, "staging", ps)
    BY <1>1 DEF JobFails
  <2> QED
    BY <1>0, <1>1, <2>1, WhatIsStored DEF FailStep
<1>2. CASE j.pc = "down"
  <2>1. \E ps \in SUBSET j.paths : store' = Rsynced("staging", j.to, ps)
    BY <1>2 DEF JobFails
  <2> QED
    BY <1>0, <1>2, <2>1, WhatIsStored DEF FailStep
<1>3. CASE j.pc \notin {"up", "down"}
  BY <1>3 DEF JobFails, FailStep
<1> QED
  BY <1>1, <1>2, <1>3

LEMMA FailureTyped ==
  ASSUME Typed, NEW j \in jobs, JobFails(j)
  PROVE  StepTyped
<1>0. /\ StoreOK /\ JobsOK /\ JobOK(j) /\ j.from \in Places /\ j.to \in Places /\ "staging" \in Places
      /\ cmd' = cmd
  BY JobFields DEF Typed, JobsOK, AllOK, JobFails, Places
<1>1. StoreOK'
  <2>1. CASE j.pc = "up" /\ \E ps \in SUBSET j.paths : RsyncedAt(j.from, "staging", ps)
    BY <1>0, <2>1, RsyncedOK
  <2>2. CASE j.pc = "down" /\ \E ps \in SUBSET j.paths : RsyncedAt("staging", j.to, ps)
    <3>1. IsRelay(j) /\ ~IsTrain(j)
      BY <1>0, <2>2, Ends DEF IsRelay, IsTrain
    <3>2. \A l \in LayerSet : In(l) \in j.paths => j.to # "storage" /\ (j.to = "compute" => ~cmd.sameNode)
      BY <1>0, <3>1, InputsAway
    <3> QED
      BY <1>0, <2>2, <3>2, RsyncedOK
  <2>3. CASE store' = store
    BY <1>0, <2>3, StoreSame
  <2> QED
    BY <2>1, <2>2, <2>3, Failing DEF FailStep
<1> DEFINE pc == IF j.kind = "relay" /\ j.pc \in {"queued", "up", "upTorn"} THEN "stuck" ELSE "failed"
<1>2. jobs' = Jobs(j, pc)
  BY DEF JobFails
<1>3. PcOK(j, pc)
  BY DEF PcOK, IsRelay, IsRm, IsTrain, RelayPcs, RmPcs, TrainPcs, AtUnit
<1> HIDE DEF pc
<1> QED
  BY <1>0, <1>1, <1>2, <1>3, AllStayOK DEF StepTyped

-----------------------------------------------------------------------------
(* What the driver's steps keep of Typed. *)

\* What is read off the command line stays.
LEMMA SameCommand ==
  ASSUME cmd' = cmd
  PROVE  /\ Training' = Training /\ Pairs' = Pairs
         /\ Compute' = Compute /\ Saved' = Saved /\ Written' = Written
         /\ Batches' = Batches /\ LastBatch' = LastBatch
         /\ \A i : Batch(i)' = Batch(i) /\ BatchLayers(i)' = BatchLayers(i) /\ ToRun(i)' = ToRun(i)
<1>1. Batches' = Batches /\ LastBatch' = LastBatch
  BY DEF Batches, LastBatch
<1>2. \A i : Batch(i)' = Batch(i)
  BY DEF Batch, Batches
<1>3. \A i : BatchLayers(i)' = BatchLayers(i) /\ ToRun(i)' = ToRun(i)
  BY <1>2 DEF BatchLayers, ToRun, Needs
<1> QED
  BY <1>1, <1>2, <1>3 DEF Training, Pairs, Compute, Saved, Written

LEMMA DriverStays ==
  ASSUME DriverOK, UNCHANGED <<cmd, run, driver>>
  PROVE  DriverOK'
<1>1. LastBatch' = LastBatch
  BY SameCommand
<1> QED
  BY <1>1 DEF DriverOK, DriverType, DriverPcs, LayerSet

LEMMA DriverMoves ==
  ASSUME UNCHANGED <<cmd, run>>, run > 0, NEW pc, NEW b \in 1..LastBatch, NEW todo, DriverAt(pc, b, todo),
         pc = "relayIn" /\ cmd.sameNode => todo = <<>>,
         pc = "reclaim" => ~cmd.sameNode /\ ~cmd.skipReclaim
  PROVE  DriverOK'
<1>1. LastBatch' = LastBatch
  BY SameCommand
<1> QED
  BY <1>1 DEF DriverOK, DriverType, DriverPcs, LayerSet, DriverAt

LEMMA Advancing ==
  ASSUME Typed, run > 0, UNCHANGED <<cmd, run>>, Advance
  PROVE  DriverOK'
<1>1. driver.batch \in 1..LastBatch /\ LastBatch \in Nat
  BY BatchType DEF Typed, DriverOK
<1>2. CASE driver.batch = LastBatch
  BY <1>1, <1>2, DriverMoves DEF Advance
<1>3. CASE driver.batch # LastBatch
  <2>1. driver.batch + 1 \in 1..LastBatch
    BY <1>1, <1>3
  <2> QED
    BY <1>3, <2>1, DriverMoves DEF Advance
<1> QED
  BY <1>2, <1>3

\* The jobs the driver submits.
LEMMA NewFeed ==
  ASSUME Typed, run > 0, ~cmd.sameNode, NEW l \in LayerSet
  PROVE  JobOK(Relay("storage", Compute, {In(l)})) /\ IsFeed(Relay("storage", Compute, {In(l)}))
<1> DEFINE ps == {In(l)}
<1> DEFINE j == Relay("storage", Compute, ps)
<1>1. ps \in SUBSET Paths /\ (\E m \in LayerSet : ps = {In(m)})
  BY PathsApart
<1>2. Compute = "compute" /\ run \in 1..MaxRuns
  BY LayersAssumption DEF Compute, Typed, HistoryOK, LayersAssumption
<1> HIDE DEF ps
<1>3. j \in Job
  BY <1>1, <1>2 DEF Job, Relay, Places, JobPcs, RelayPcs
<1>4. j.owner = run /\ j.kind = "relay" /\ j.from = "storage" /\ j.to = "compute" /\ j.paths = ps
      /\ j.pc = "queued" /\ j.rest = <<>>
  BY <1>2 DEF Relay
<1> HIDE DEF j
<1>5. run <= run
  BY <1>2
<1>6. JobOK(j) /\ IsFeed(j)
  BY <1>1, <1>3, <1>4, <1>5 DEF JobOK, FeedOK, IsFeed, RelayPcs
<1> QED
  BY <1>6 DEF j, ps

LEMMA NewReturn ==
  ASSUME Typed, run > 0, Training, ~cmd.sameNode
  PROVE  JobOK(Relay(Compute, "storage", OutPaths)) /\ IsReturn(Relay(Compute, "storage", OutPaths))
<1> DEFINE j == Relay(Compute, "storage", OutPaths)
<1>2. Compute = "compute" /\ run \in 1..MaxRuns
  BY LayersAssumption DEF Compute, Typed, HistoryOK, LayersAssumption
<1>1. OutPaths \in SUBSET Paths
  BY PathsApart
<1>3. j \in Job
  BY <1>1, <1>2 DEF Job, Relay, Places, JobPcs, RelayPcs
<1>4. j.owner = run /\ j.kind = "relay" /\ j.from = "compute" /\ j.to = "storage" /\ j.paths = OutPaths
      /\ j.pc = "queued" /\ j.rest = <<>>
  BY <1>2 DEF Relay
<1> HIDE DEF j
<1>5. run <= run
  BY <1>2
<1>6. JobOK(j) /\ IsReturn(j)
  BY <1>3, <1>4, <1>5 DEF JobOK, ReturnOK, IsReturn, RelayPcs
<1> QED
  BY <1>6 DEF j

LEMMA NewRm ==
  ASSUME Typed, run > 0, ~cmd.sameNode, ~cmd.skipReclaim, NEW l \in LayerSet
  PROVE  JobOK(Rm(Compute, {In(l)})) /\ IsRm(Rm(Compute, {In(l)}))
<1> DEFINE ps == {In(l)}
<1> DEFINE j == Rm(Compute, ps)
<1>1. ps \in SUBSET Paths /\ (\E m \in LayerSet : ps = {In(m)})
  BY PathsApart
<1>2. Compute = "compute" /\ run \in 1..MaxRuns
  BY LayersAssumption DEF Compute, Typed, HistoryOK, LayersAssumption
<1> HIDE DEF ps
<1>3. j \in Job
  BY <1>1, <1>2 DEF Job, Rm, Places, JobPcs, RmPcs
<1>4. j.owner = run /\ j.kind = "rm" /\ j.from = "compute" /\ j.to = "compute" /\ j.paths = ps
      /\ j.pc = "queued" /\ j.rest = <<>>
  BY <1>2 DEF Rm
<1> HIDE DEF j
<1>5. run <= run
  BY <1>2
<1>6. JobOK(j) /\ IsRm(j)
  BY <1>1, <1>3, <1>4, <1>5 DEF JobOK, RmOK, IsRm, RmPcs
<1> QED
  BY <1>6 DEF j, ps

\* The training or generation job of the batch, for the units of rest.
LEMMA NewTrain ==
  ASSUME Typed, run > 0, driver.batch \in 1..LastBatch
  PROVE  /\ JobOK(TrainJob) /\ IsTrain(TrainJob)
         /\ TrainJob.owner = run /\ TrainJob.pc = "queued"
         /\ TrainJob.paths = Inputs(Batch(driver.batch))
         /\ ToSet(TrainJob.rest) = IF Training \/ Pairs THEN Batch(driver.batch) ELSE ToRun(driver.batch)
         /\ IsInjective(TrainJob.rest)
<1> DEFINE units == Batch(driver.batch)
<1> DEFINE some == IF Training \/ Pairs THEN units ELSE ToRun(driver.batch)
<1>1. units \in SUBSET LayerSet /\ some \in SUBSET LayerSet /\ BatchLayers(driver.batch) \in SUBSET LayerSet
  BY BatchType DEF Typed
<1>2. Inputs(units) \in SUBSET Paths
  BY <1>1, PathsApart DEF Inputs, BatchLayers
<1>3. TrainJob = [owner |-> run, kind |-> "train", from |-> Compute, to |-> Compute,
                  paths |-> Inputs(units), rest |-> InOrder(some), pc |-> "queued"]
  <2>1. CASE Training
    <3>1. ~Pairs
      BY <2>1 DEF Training, Pairs
    <3> QED
      BY <2>1, <3>1 DEF TrainJob, TrainingJob
  <2>2. CASE ~Training /\ Pairs
    BY <2>2 DEF TrainJob, TrainingJob, SweepJob
  <2>3. CASE ~Training /\ ~Pairs
    <3> DEFINE ran == InOrder(Batch(driver.batch) \cap cmd.wanted)
    <3>1. ran = InOrder(some)
      BY <2>3 DEF ToRun
    <3>2. TrainJob = [TrainingJob(Batch(driver.batch)) EXCEPT !.rest = ran]
      BY <2>3 DEF TrainJob, GenerationJob
    <3> HIDE DEF ran, some
    <3> QED
      BY <3>1, <3>2 DEF TrainingJob
  <2> QED
    BY <2>1, <2>2, <2>3
<1> HIDE DEF units, some
<1>4. /\ InOrder(some) \in Seq(LayerSet) /\ ToSet(InOrder(some)) = some /\ IsInjective(InOrder(some))
  BY <1>1, InOrderOf
<1>5. run \in 1..MaxRuns /\ run <= run
  BY LayersAssumption DEF Typed, HistoryOK, LayersAssumption
<1> DEFINE j == TrainJob
<1> HIDE DEF j
<1>6. j \in Job
  BY <1>2, <1>3, <1>4, <1>5, NodeType DEF Job, JobPcs, TrainPcs, j
<1>7. j.owner = run /\ j.kind = "train" /\ j.paths = Inputs(units) /\ j.rest = InOrder(some) /\ j.pc = "queued"
  BY <1>3 DEF j
<1>8. JobOK(j) /\ IsTrain(j)
  BY <1>5, <1>6, <1>7 DEF JobOK, TrainOK, IsTrain, TrainPcs, AtUnit
<1> QED
  BY <1>4, <1>7, <1>8 DEF j, units, some

LEMMA MineType == Mine \subseteq jobs /\ \A j \in Mine : j.owner = run
  BY DEF Mine

\* On one node nothing is relayed.
LEMMA OneNode ==
  ASSUME Typed, cmd.sameNode
  PROVE  \A l \in LayerSet : ~NeedsRelay(l)
  BY DEF Typed, StoreOK, NeedsRelay, Compute

\* What holds of the history however a job or the driver goes on.
LEMMA HistoryStays ==
  ASSUME Typed, UNCHANGED <<cmd, run, alone, left>>,
         \/ UNCHANGED <<faults, clean>>
         \/ faults < MaxFaults /\ faults' = faults + 1 /\ clean' = FALSE,
         cut' \subseteq LayerSet
  PROVE  HistoryOK'
<1>1. faults' \in 0..MaxFaults
  BY LayersAssumption DEF Typed, HistoryOK, LayersAssumption
<1> QED
  BY <1>1 DEF Typed, HistoryOK, LayerSet

LEMMA TypedInit == ASSUME Init PROVE Typed
<1>0. \A l \in LayerSet : /\ In(l)[1] = "in" /\ In(l)[2] = l /\ In(l) \in Paths
                          /\ Out(l)[1] = "out" /\ Out(l)[2] = l
  BY PathsApart DEF In, Out
<1> DEFINE Value(pl, p) == IF \/ pl = "storage" /\ p[1] = "in"
                              \/ pl = Saved /\ p[1] = "out" /\ p[2] \in cmd.saved
                           THEN "whole" ELSE "none"
<1>1. store = [pl \in Places |-> [p \in Paths |-> Value(pl, p)]]
  BY DEF Init
<1>2. \A pl, p : Value(pl, p) \in Values /\ Value(pl, p) \in InputValues
  BY DEF Values, InputValues
<1>3. \A l \in LayerSet : Value("storage", In(l)) = "whole" /\ Value("compute", In(l)) = "none"
  BY <1>0
<1> HIDE DEF Value
<1>4. store \in Cells
  BY <1>1, <1>2 DEF Cells
<1>5. \A pl \in Places, p \in Paths : store[pl][p] = Value(pl, p)
  BY <1>1
<1>6. StoreOK
  BY <1>0, <1>2, <1>3, <1>4, <1>5 DEF StoreOK, Cells, Places
<1>7. HistoryOK
  BY LayersAssumption DEF Init, HistoryOK, LayersAssumption
<1>8. DriverOK
  BY NoLayers DEF Init, DriverOK, DriverType, DriverPcs
<1>9. JobsOK
  BY DEF Init, JobsOK, AllOK
<1> QED
  BY <1>6, <1>7, <1>8, <1>9 DEF Typed

LEMMA JobsStay ==
  ASSUME Typed, UNCHANGED <<cmd, run>>, NEW js, jobs' = js, AllOK(js)
  PROVE  JobsOK'
<1>1. run \in Nat /\ run' \in Nat /\ run <= run'
  BY DEF Typed, HistoryOK
<1> QED
  BY <1>1, SameJobs DEF Typed

LEMMA TypedJob ==
  ASSUME Typed, NEW j \in jobs, JobStep(j) \/ JobFails(j)
  PROVE  Typed'
<1>1. /\ UNCHANGED <<cmd, driver, run, alone, left>>
      /\ \/ UNCHANGED <<faults, clean>>
         \/ faults < MaxFaults /\ faults' = faults + 1 /\ clean' = FALSE
  BY DEF JobStep, JobFails
<1>2. cut' \subseteq LayerSet
  <2>1. CASE JobStep(j)
    BY <2>1 DEF JobStep, Typed, HistoryOK
  <2>2. CASE JobFails(j)
    <3>1. ToSet(j.rest) \subseteq LayerSet
      <4>1. j.rest \in Seq(LayerSet)
        BY JobFields DEF Typed, JobsOK, AllOK
      <4> QED
        BY <4>1, LenProperties DEF ToSet
    <3>2. cut' = cut \/ cut' = cut \union ToSet(j.rest)
      BY <2>2 DEF JobFails
    <3> QED
      BY <3>1, <3>2 DEF Typed, HistoryOK
  <2> QED
    BY <2>1, <2>2
<1>3. StepTyped
  BY <1>1, CopiesTyped, RmTyped, TrainingTyped, FailureTyped DEF JobStep
<1>4. JobsOK' /\ StoreOK'
  BY <1>1, <1>3, JobsStay DEF StepTyped
<1>5. HistoryOK'
  BY <1>1, <1>2, HistoryStays
<1>6. DriverOK'
  BY <1>1, DriverStays DEF Typed
<1> QED
  BY <1>4, <1>5, <1>6 DEF Typed

LEMMA TypedStart == ASSUME Typed, StartDriver PROVE Typed'
<1>1. /\ cmd' = cmd /\ store' = store /\ faults' = faults /\ run' = run + 1 /\ run < MaxRuns
      /\ clean' = TRUE /\ alone' \in BOOLEAN
      /\ left' \subseteq LayerSet /\ jobs' = {j \in jobs : Live(j)}
      /\ LastBatch > 0 /\ driver' = [pc |-> "check", batch |-> 1, todo |-> <<>>]
  BY DEF StartDriver
<1>2. cut' \subseteq LayerSet
  BY DEF StartDriver, Typed, HistoryOK
<1>3. run \in Nat /\ run' \in 1..MaxRuns /\ run' \in Nat /\ run <= run'
  BY <1>1, LayersAssumption DEF Typed, HistoryOK, LayersAssumption
<1>4. HistoryOK'
  BY <1>1, <1>2, <1>3 DEF HistoryOK, LayerSet, Typed
<1>5. 1 \in 1..LastBatch /\ LastBatch' = LastBatch
  BY <1>1, BatchType, SameCommand DEF Typed
<1>6. driver' \in DriverType
  BY <1>1, NoLayers DEF DriverType, DriverPcs
<1>7. DriverOK'
  BY <1>1, <1>3, <1>5, <1>6 DEF DriverOK, DriverType, DriverPcs, LayerSet
<1>8. AllOK({j \in jobs : Live(j)})
  BY DEF Typed, JobsOK, AllOK
<1>9. JobsOK'
  BY <1>1, <1>3, <1>8, SameJobs DEF Typed
<1> QED
  BY <1>1, <1>4, <1>7, <1>9, StoreSame DEF Typed

LEMMA Running ==
  ASSUME Typed, driver.pc # "off"
  PROVE  run > 0 /\ run \in 1..MaxRuns /\ driver.batch \in 1..LastBatch
  BY ToRunAgain

\* A driver's step: what is left to show of it is where it goes, and its jobs.
LEMMA TypedDriver ==
  ASSUME Typed, UNCHANGED <<cmd, store, run, alone, left, cut>>,
         \/ UNCHANGED <<faults, clean>>
         \/ faults < MaxFaults /\ faults' = faults + 1 /\ clean' = FALSE,
         DriverOK', NEW js, jobs' = js, AllOK(js)
  PROVE  Typed'
<1>1. cut' \subseteq LayerSet
  BY DEF Typed, HistoryOK
<1> QED
  BY <1>1, HistoryStays, StoreSame, JobsStay DEF Typed

LEMMA TypedCheck == ASSUME Typed, CheckBatch PROVE Typed'
<1>1. CheckStep
  BY CheckSteps DEF Typed
<1>2. run > 0 /\ driver.batch \in 1..LastBatch /\ UNCHANGED <<cmd, run>>
  BY <1>1, Running DEF CheckStep
<1>3. DriverOK'
  BY <1>1, <1>2, Advancing, DriverMoves DEF CheckStep
<1>4. AllOK(jobs) /\ jobs' = jobs
  BY <1>1 DEF Typed, JobsOK, CheckStep
<1> QED
  BY <1>1, <1>3, <1>4, TypedDriver DEF CheckStep

LEMMA TypedMeasure == ASSUME Typed, Measure PROVE Typed'
<1>1. MeasureStep
  BY MeasureSteps
<1>2. PICK todo \in Seq(LayerSet) :
          /\ DriverAt("relayIn", driver.batch, todo)
          /\ ToSet(todo) = {l \in BatchLayers(driver.batch) : NeedsRelay(l)}
  BY <1>1 DEF MeasureStep
<1>3. run > 0 /\ driver.batch \in 1..LastBatch /\ UNCHANGED <<cmd, run>>
  BY <1>1, Running DEF MeasureStep
<1>4. cmd.sameNode => todo = <<>>
  BY <1>2, <1>3, OneNode, NoLayers, BatchType DEF Typed
<1>5. DriverOK'
  BY <1>2, <1>3, <1>4, DriverMoves
<1>6. AllOK(jobs) /\ jobs' = jobs
  BY <1>1 DEF Typed, JobsOK, MeasureStep
<1> QED
  BY <1>1, <1>5, <1>6, TypedDriver DEF MeasureStep

LEMMA TypedSubmitRelayIn == ASSUME Typed, SubmitRelayIn PROVE Typed'
<1>1. SubmitRelayInStep
  BY SubmitRelayInSteps
<1>2. run > 0 /\ driver.batch \in 1..LastBatch /\ UNCHANGED <<cmd, run>> /\ ~cmd.sameNode
  BY <1>1, Running DEF SubmitRelayInStep, Typed, DriverOK
<1>3. Head(driver.todo) \in LayerSet
  BY <1>1, DriverFields, Popped DEF SubmitRelayInStep, Typed
<1>4. DriverOK'
  BY <1>1, <1>2, DriverMoves DEF SubmitRelayInStep
<1> DEFINE js == jobs \union {Relay("storage", Compute, {In(Head(driver.todo))})}
<1>5. AllOK(js)
  BY <1>2, <1>3, NewFeed DEF Typed, JobsOK, AllOK
<1>6. jobs' = js
  BY <1>1 DEF SubmitRelayInStep
<1> HIDE DEF js
<1> QED
  BY <1>1, <1>4, <1>5, <1>6, TypedDriver DEF SubmitRelayInStep

LEMMA WithoutMine == Typed => AllOK(jobs \ Mine)
  BY DEF Typed, JobsOK, AllOK

LEMMA RaisingTyped == ASSUME Typed, driver.pc # "off", UNCHANGED <<cmd, store, run, faults, clean, alone, left, cut>>,
                       Raises
                PROVE  Typed'
<1>1. DriverOK'
  BY Running, DriverMoves DEF Raises
<1> QED
  BY <1>1, WithoutMine, TypedDriver DEF Raises

LEMMA LeavingTyped ==
  ASSUME Typed, driver.pc # "off", UNCHANGED <<cmd, store, run, faults, clean, alone, left, cut>>,
         Leaves \/ Advance, jobs' = jobs \ Mine
  PROVE  Typed'
<1>1. DriverOK'
  BY Running, Advancing, DriverMoves DEF Leaves
<1> QED
  BY <1>1, WithoutMine, TypedDriver

LEMMA TypedSubmitTrain == ASSUME Typed, SubmitTrain PROVE Typed'
<1>1. SubmitTrainStep
  BY SubmitTrainSteps DEF Typed
<1>2. driver.pc = "relayIn" /\ UNCHANGED <<cmd, store, run, faults, clean, alone, left, cut>>
  BY <1>1 DEF SubmitTrainStep, AfterStep
<1>3. CASE Raises
  BY <1>2, <1>3, RaisingTyped
<1>4. CASE DriverAt("train", driver.batch, driver.todo) /\ jobs' = (jobs \ Mine) \union {TrainJob}
  <2>1. DriverOK'
    BY <1>2, <1>4, Running, DriverMoves
  <2>2. AllOK((jobs \ Mine) \union {TrainJob})
    BY <1>2, Running, NewTrain, WithoutMine DEF AllOK
  <2> QED
    BY <1>2, <1>4, <2>1, <2>2, TypedDriver
<1> QED
  BY <1>1, <1>3, <1>4 DEF SubmitTrainStep, AfterStep

LEMMA TypedSubmitRelayOut == ASSUME Typed, SubmitRelayOut PROVE Typed'
<1>1. SubmitRelayOutStep
  BY SubmitRelayOutSteps
<1>2. driver.pc = "train" /\ UNCHANGED <<cmd, store, run, faults, clean, alone, left, cut>>
  BY <1>1 DEF SubmitRelayOutStep, AfterStep
<1>3. CASE Raises
  BY <1>2, <1>3, RaisingTyped
<1>4. CASE /\ Training /\ ~cmd.sameNode
           /\ DriverAt("relayOut", driver.batch, driver.todo)
           /\ jobs' = (jobs \ Mine) \union {Relay(Compute, "storage", OutPaths)}
  <2>1. DriverOK'
    BY <1>2, <1>4, Running, DriverMoves
  <2>2. AllOK((jobs \ Mine) \union {Relay(Compute, "storage", OutPaths)})
    BY <1>2, <1>4, Running, NewReturn, WithoutMine DEF AllOK
  <2> QED
    BY <1>2, <1>4, <2>1, <2>2, TypedDriver
<1>5. CASE Leaves /\ jobs' = jobs \ Mine
  BY <1>2, <1>5, LeavingTyped
<1> QED
  BY <1>1, <1>3, <1>4, <1>5 DEF SubmitRelayOutStep, AfterStep

LEMMA TypedRelayedOut == ASSUME Typed, RelayedOut PROVE Typed'
<1>1. RelayedOutStep
  BY RelayedOutSteps
<1> QED
  BY <1>1, RaisingTyped, LeavingTyped DEF RelayedOutStep, AfterStep

LEMMA TypedReclaim == ASSUME Typed, Reclaim PROVE Typed'
<1>1. ReclaimStep
  BY ReclaimSteps
<1>2. driver.pc = "reclaim" /\ UNCHANGED <<cmd, store, run, faults, clean, alone, left, cut>>
  BY <1>1 DEF ReclaimStep
<1>3. CASE Raises
  BY <1>2, <1>3, RaisingTyped
<1>4. CASE Advance /\ jobs' = jobs \ Mine
  BY <1>2, <1>4, LeavingTyped
<1>5. CASE /\ driver.todo # <<>>
           /\ DriverAt("reclaim", driver.batch, Tail(driver.todo))
           /\ jobs' = (jobs \ Mine) \union {Rm(Compute, {In(Head(driver.todo))})}
  <2>1. DriverOK'
    BY <1>2, <1>5, Running, DriverMoves DEF Typed, DriverOK
  <2>2. Head(driver.todo) \in LayerSet
    BY <1>5, DriverFields, Popped DEF Typed
  <2> DEFINE js == (jobs \ Mine) \union {Rm(Compute, {In(Head(driver.todo))})}
  <2>3. AllOK(js)
    BY <1>2, <2>2, Running, NewRm, WithoutMine DEF AllOK, Typed, DriverOK
  <2>4. jobs' = js
    BY <1>5
  <2> HIDE DEF js
  <2> QED
    BY <1>2, <2>1, <2>3, <2>4, TypedDriver
<1> QED
  BY <1>1, <1>3, <1>4, <1>5 DEF ReclaimStep

LEMMA KillStep ==
  ASSUME DriverOK, KillDriver
  PROVE  /\ driver.pc # "off" /\ Active
         /\ UNCHANGED <<cmd, store, run, alone, left, cut>>
         /\ faults < MaxFaults /\ faults' = faults + 1 /\ clean' = FALSE
         /\ DriverAt("off", driver.batch, driver.todo)
         /\ jobs' = {j \in jobs : Live(j)}
<1>1. Goto("off") /\ "off" \in DriverPcs
  BY DEF KillDriver, Goto, DriverPcs
<1> QED
  BY <1>1, GoneTo DEF KillDriver, Active

LEMMA TypedKill == ASSUME Typed, KillDriver PROVE Typed'
<1>1. DriverOK'
  BY KillStep, Running, DriverMoves DEF Typed
<1>2. AllOK({j \in jobs : Live(j)})
  BY DEF Typed, JobsOK, AllOK
<1> QED
  BY <1>1, <1>2, KillStep, TypedDriver DEF Typed

LEMMA TypedSame == ASSUME Typed, UNCHANGED vars PROVE Typed'
<1>1. DriverOK' /\ AllOK(jobs) /\ jobs' = jobs
  BY DriverStays DEF vars, Typed, JobsOK
<1> QED
  BY <1>1, TypedDriver DEF vars

LEMMA TypedNext == ASSUME Typed, [Next]_vars PROVE Typed'
<1>1. CASE StartDriver
  BY <1>1, TypedStart
<1>2. CASE DriverStep
  BY <1>2, TypedCheck, TypedMeasure, TypedSubmitRelayIn, TypedSubmitTrain, TypedSubmitRelayOut,
     TypedRelayedOut, TypedReclaim DEF DriverStep
<1>3. CASE KillDriver
  BY <1>3, TypedKill
<1>4. CASE \E j \in jobs : JobStep(j) \/ JobFails(j)
  BY <1>4, TypedJob
<1>5. CASE Settled \/ UNCHANGED vars
  BY <1>5, TypedSame DEF Settled
<1> QED
  BY <1>1, <1>2, <1>3, <1>4, <1>5 DEF Next

LEMMA TypedOK == Typed => TypeOK /\ InputNeverLost
<1> SUFFICES ASSUME Typed PROVE TypeOK /\ InputNeverLost
  OBVIOUS
<1>1. \A j \in jobs :
          /\ j.owner \in 1..MaxRuns /\ j.kind \in {"relay", "train", "rm"}
          /\ j.from \in Places /\ j.to \in Places
          /\ j.paths \subseteq Paths /\ j.rest \in Seq(LayerSet)
  BY JobFields DEF Typed, JobsOK, AllOK
<1>2. (run = 0 /\ driver.batch = 1) \/ driver.batch \in 1..LastBatch
  BY DEF Typed, DriverOK, HistoryOK
<1>3. InputNeverLost
  BY DEF Typed, StoreOK, InputNeverLost
<1>4. driver.pc \in DriverPcs /\ driver.todo \in Seq(LayerSet)
  BY DriverFields DEF Typed
<1> QED
  BY <1>1, <1>2, <1>3, <1>4 DEF Typed, HistoryOK, StoreOK, DriverPcs, TypeOK

LEMMA AlwaysTyped == Spec => []Typed
  BY TypedInit, TypedNext, PTL DEF Spec

\* The store, the jobs and the driver stay well formed: a driver that runs is at one of its
\* batches, whatever jobs fail and however often it is killed and started again.
THEOREM TypeCorrect == Spec => []TypeOK
  BY AlwaysTyped, TypedOK, PTL

\* The sweep on the storage node stays whole: no relay writes there and _rm_rf_on_node
\* is never called for the storage node, also when it is the compute node.
THEOREM NeverLost == Spec => []InputNeverLost
  BY AlwaysTyped, TypedOK, PTL

(* What a step of job j does to the store and to the job, which is k then. *)

UpBeginEffect(j, k) ==
    /\ IsRelay(j) /\ j.pc = "queued"
    /\ \/ Exists(j.from, j.paths) /\ BegunAt(j.from, "staging", j.paths) /\ IsNow(j, k, "up", j.rest)
       \/ ~Exists(j.from, j.paths) /\ store' = store /\ IsNow(j, k, "stuck", j.rest)
UpEndEffect(j, k) ==
    /\ IsRelay(j) /\ j.pc = "up"
    /\ RsyncedAt(j.from, "staging", j.paths) /\ IsNow(j, k, "staged", j.rest)
DownBeginEffect(j, k) ==
    /\ IsRelay(j) /\ j.pc = "staged"
    /\ \/ Exists("staging", j.paths) /\ BegunAt("staging", j.to, j.paths) /\ IsNow(j, k, "down", j.rest)
       \/ ~Exists("staging", j.paths) /\ store' = store /\ IsNow(j, k, "failed", j.rest)
DownEndEffect(j, k) ==
    /\ IsRelay(j) /\ j.pc = "down"
    /\ RsyncedAt("staging", j.to, j.paths) /\ IsNow(j, k, "clean", j.rest)
CleanEffect(j, k) ==
    /\ IsRelay(j) /\ j.pc = "clean"
    /\ RemovedAt("staging", j.paths, "none") /\ IsNow(j, k, "ok", j.rest)
TornEffect(j, k) ==
    /\ IsRelay(j) /\ store' = store
    /\ \/ j.pc = "upTorn" /\ (IsNow(j, k, "staged", j.rest) \/ IsNow(j, k, "stuck", j.rest))
       \/ j.pc = "downTorn" /\ (IsNow(j, k, "clean", j.rest) \/ IsNow(j, k, "failed", j.rest))
RmEffect(j, k) ==
    /\ IsRm(j)
    /\ \/ j.pc = "queued" /\ RemovedAt("compute", j.paths, "part") /\ IsNow(j, k, "rm", j.rest)
       \/ j.pc = "rm" /\ RemovedAt("compute", j.paths, "none") /\ IsNow(j, k, "ok", j.rest)
LoadTrainingEffect(j, k) ==
    /\ Training /\ IsTrain(j) /\ j.pc = "queued" /\ store' = store
    /\ \/ InputThere(j.paths) /\ IsNow(j, k, "next", j.rest)
       \/ ~InputThere(j.paths) /\ IsNow(j, k, "failed", j.rest)
\* Nothing to do for the head of rest.
SkipEffect(j, k) ==
    /\ IsTrain(j) /\ j.rest # <<>> /\ store' = store
    /\ \/ Training /\ j.pc = "next"
       \/ Pairs /\ j.pc \in {"queued", "next"}
    /\ Present(Written, Head(j.rest)) /\ IsNow(j, k, "next", Tail(j.rest))
FitEffect(j, k) ==
    /\ Training /\ IsTrain(j) /\ j.pc = "next" /\ j.rest # <<>> /\ store' = store
    /\ ~Present(Written, Head(j.rest)) /\ IsNow(j, k, "fit", j.rest)
LoadLayerEffect(j, k) ==
    /\ ~Training /\ IsTrain(j) /\ j.pc \in {"queued", "next"} /\ j.rest # <<>> /\ store' = store
    /\ ~(Pairs /\ Present(Written, Head(j.rest)))
    /\ \/ /\ InputThere(Inputs({Head(j.rest)})) /\ ~Rejects(Head(j.rest))
          /\ IsNow(j, k, "fitted", j.rest)
       \/ /\ ~(InputThere(Inputs({Head(j.rest)})) /\ ~Rejects(Head(j.rest)))
          /\ IsNow(j, k, "failed", j.rest)
SaveBeginEffect(j, k) ==
    /\ IsTrain(j) /\ j.rest # <<>>
    /\ SavedAt(Head(j.rest), HalfSaved(Head(j.rest)))
    /\ \/ Training /\ j.pc = "fit" /\ IsNow(j, k, "checkpoint", j.rest)
       \/ j.pc = "fitted" /\ IsNow(j, k, "save", j.rest)
CheckpointEndEffect(j, k) ==
    /\ Training /\ IsTrain(j) /\ j.pc = "checkpoint" /\ j.rest # <<>>
    /\ SavedAt(Head(j.rest), "periodic") /\ IsNow(j, k, "fitted", j.rest)
LosesInputEffect(j, k) ==
    /\ Pairs /\ IsTrain(j) /\ j.pc = "save" /\ j.rest # <<>> /\ store' = store
    /\ ~InputThere(Inputs({Head(j.rest)})) /\ IsNow(j, k, "failed", j.rest)
SaveEndEffect(j, k) ==
    /\ IsTrain(j) /\ j.pc = "save" /\ j.rest # <<>>
    /\ Pairs => InputThere(Inputs({Head(j.rest)}))
    /\ SavedAt(Head(j.rest), "whole") /\ IsNow(j, k, "next", Tail(j.rest))
TrainDoneEffect(j, k) ==
    /\ IsTrain(j) /\ j.pc = "next" /\ j.rest = <<>> /\ store' = store
    /\ IsNow(j, k, "ok", j.rest)

RelayEffect(j, k) ==
    \/ UpBeginEffect(j, k) \/ UpEndEffect(j, k) \/ DownBeginEffect(j, k) \/ DownEndEffect(j, k)
    \/ CleanEffect(j, k) \/ TornEffect(j, k)
TrainEffect(j, k) ==
    \/ LoadTrainingEffect(j, k) \/ SkipEffect(j, k) \/ FitEffect(j, k) \/ LoadLayerEffect(j, k)
    \/ SaveBeginEffect(j, k) \/ CheckpointEndEffect(j, k) \/ LosesInputEffect(j, k)
    \/ SaveEndEffect(j, k) \/ TrainDoneEffect(j, k)
StepEffect(j, k) ==
    /\ RelayEffect(j, k) \/ RmEffect(j, k) \/ TrainEffect(j, k)
    /\ UNCHANGED <<cmd, driver, run, faults, clean, alone, left, cut>>
FailEffect(j, k) ==
    /\ Live(j) /\ FailStep(j)
    /\ IsNow(j, k, IF IsRelay(j) /\ j.pc \in {"queued", "up", "upTorn"} THEN "stuck" ELSE "failed", j.rest)
    /\ clean' = FALSE /\ cut' = IF IsTrain(j) THEN cut \union ToSet(j.rest) ELSE cut
    /\ UNCHANGED <<cmd, driver, run, alone, left>>

\* f maps the jobs to what they are after a step of job j.
Static(i, k) ==
    k.owner = i.owner /\ k.kind = i.kind /\ k.from = i.from /\ k.to = i.to /\ k.paths = i.paths
Torn(i, k) ==
    /\ IsRelay(i) /\ i.pc \in {"up", "down"}
    /\ IsNow(i, k, IF i.pc = "up" THEN "upTorn" ELSE "downTorn", i.rest)
Heirs(f, j) ==
    /\ \A i \in jobs : Static(i, f[i])
    /\ \A i \in jobs : i # j => f[i] = i \/ (Torn(i, f[i]) /\ i.paths \cap j.paths # {} /\ ~IsTrain(j))
    /\ \A k \in jobs' : \E i \in jobs : k = f[i]
    /\ \A i \in jobs : f[i] \in jobs' \/ (i = j /\ ~Live(f[j]) /\ ~(j.owner = run /\ Active))

LEMMA StaticNow == \A j, k, pc, rest : IsNow(j, k, pc, rest) => Static(j, k)
  BY DEF IsNow, Static

LEMMA HeirsMoved ==
  ASSUME Typed, NEW j \in jobs, NEW k, Static(j, k),
         jobs' = (jobs \ {j}) \union {k} \/
           (jobs' = jobs \ {j} /\ ~Live(k) /\ ~(j.owner = run /\ Active))
  PROVE  \E f : Heirs(f, j) /\ f[j] = k
<1> DEFINE f == [i \in jobs |-> IF i = j THEN k ELSE i]
<1>1. f[j] = k /\ \A i \in jobs : i # j => f[i] = i
  OBVIOUS
<1> HIDE DEF f
<1>2. \A i \in jobs : Static(i, f[i])
  BY <1>1 DEF Static
<1>3. \A m \in jobs' : \E i \in jobs : m = f[i]
  BY <1>1
<1>4. \A i \in jobs : f[i] \in jobs' \/ (i = j /\ ~Live(f[j]) /\ ~(j.owner = run /\ Active))
  BY <1>1
<1> QED
  BY <1>1, <1>2, <1>3, <1>4 DEF Heirs

LEMMA JobsHeirs ==
  ASSUME Typed, NEW j \in jobs, NEW pc, PcOK(j, pc), jobs' = Jobs(j, pc)
  PROVE  \E f : Heirs(f, j) /\ IsNow(j, f[j], pc, j.rest)
<1> DEFINE k == [j EXCEPT !.pc = pc]
<1>1. IsNow(j, k, pc, j.rest)
  BY Onward DEF Typed, JobsOK, AllOK
<1>2. jobs' = (jobs \ {j}) \union {k} \/
           (jobs' = jobs \ {j} /\ ~Live(k) /\ ~(j.owner = run /\ Active))
  BY DEF Jobs
<1> HIDE DEF k
<1> QED
  BY <1>1, <1>2, HeirsMoved, StaticNow

LEMMA PoppedHeirs ==
  ASSUME Typed, NEW j \in jobs, IsTrain(j), j.rest # <<>>, NEW k,
         \/ j.pc = "next" /\ k = [j EXCEPT !.rest = Tail(j.rest)]
         \/ k = [j EXCEPT !.pc = "next", !.rest = Tail(j.rest)],
         jobs' = (jobs \ {j}) \union {k}
  PROVE  \E f : Heirs(f, j) /\ IsNow(j, f[j], "next", Tail(j.rest))
<1>1. IsNow(j, k, "next", Tail(j.rest))
  BY Shorter DEF Typed, JobsOK, AllOK
<1> QED
  BY <1>1, HeirsMoved, StaticNow

LEMMA TearHeirs ==
  ASSUME Typed, NEW j \in jobs, NEW pc, pc \notin {"up", "down"}, PcOK(j, pc), ~IsTrain(j), NEW place,
         jobs' = Tear(Jobs(j, pc), place, j.paths)
  PROVE  \E f : Heirs(f, j) /\ IsNow(j, f[j], pc, j.rest)
<1> DEFINE k == [j EXCEPT !.pc = pc]
<1> DEFINE Image(i) == IF TearsAt(place, j.paths, i)
                       THEN [i EXCEPT !.pc = IF i.pc = "up" THEN "upTorn" ELSE "downTorn"] ELSE i
<1> DEFINE js == Jobs(j, pc)
<1> DEFINE f == [i \in jobs |-> IF i = j THEN k ELSE Image(i)]
<1>1. IsNow(j, k, pc, j.rest)
  BY Onward DEF Typed, JobsOK, AllOK
<1>2. js = (jobs \ {j}) \union {k} \/
           (js = jobs \ {j} /\ ~Live(k) /\ ~(j.owner = run /\ Active))
  BY DEF Jobs
<1>3. jobs' = {Image(i) : i \in js}
  BY DEF Tear, TearsAt
<1>4. Image(k) = k
  BY <1>1 DEF TearsAt, IsNow
<1>5. \A i \in jobs : Image(i) = i \/ (Torn(i, Image(i)) /\ i.paths \cap j.paths # {})
  <2> SUFFICES ASSUME NEW i \in jobs, TearsAt(place, j.paths, i)
               PROVE  Torn(i, Image(i)) /\ i.paths \cap j.paths # {}
    OBVIOUS
  <2>1. IsTorn(i, Image(i)) /\ i.paths \cap j.paths # {}
    BY DEF IsTorn, TearsAt
  <2>2. JobOK(i)
    BY DEF Typed, JobsOK, AllOK
  <2> HIDE DEF Image
  <2> QED
    BY <2>1, <2>2, TornJob DEF Torn, IsTorn
<1> HIDE DEF Image, k, js
<1>6. f[j] = k /\ \A i \in jobs : i # j => f[i] = Image(i)
  OBVIOUS
<1> HIDE DEF f
<1>7. \A i \in jobs : Static(i, f[i])
  BY <1>1, <1>5, <1>6, StaticNow DEF Torn, Static
<1>8. \A m \in jobs' : \E i \in jobs : m = f[i]
  BY <1>2, <1>3, <1>4, <1>6
<1>9. \A i \in jobs : f[i] \in jobs' \/ (i = j /\ ~Live(f[j]) /\ ~(j.owner = run /\ Active))
  BY <1>2, <1>3, <1>4, <1>6
<1>10. Heirs(f, j)
  BY <1>5, <1>6, <1>7, <1>8, <1>9 DEF Heirs
<1> QED
  BY <1>1, <1>6, <1>10

-----------------------------------------------------------------------------
LEMMA RelaySteps ==
  ASSUME Typed, NEW j \in jobs,
         UpBegin(j) \/ UpEnd(j) \/ DownBegin(j) \/ DownEnd(j) \/ CleanStaging(j) \/ TornCopyEnds(j)
  PROVE  \E f : Heirs(f, j) /\ RelayEffect(j, f[j])
<1>0. /\ StoreOK /\ JobOK(j) /\ IsRelay(j) /\ ~IsTrain(j)
      /\ j.from \in Places /\ j.to \in Places /\ "staging" \in Places
      /\ j.kind = "relay"
  BY JobFields DEF Typed, JobsOK, AllOK, UpBegin, UpEnd, DownBegin, DownEnd, CleanStaging, TornCopyEnds,
                   IsRelay, IsTrain, Places
<1>1. \A pc \in RelayPcs : PcOK(j, pc)
  BY <1>0 DEF IsRelay, PcOK, IsRm, IsTrain
<1>2. \A pc \in RelayPcs : jobs' = Jobs(j, pc) => \E f : Heirs(f, j) /\ IsNow(j, f[j], pc, j.rest)
  BY <1>1, JobsHeirs
<1>3. CASE UpBegin(j)
  <2>1. CASE Exists(j.from, j.paths)
    <3>1. BegunAt(j.from, "staging", j.paths)
      BY <1>0, <1>3, <2>1, WhatIsStored DEF UpBegin
    <3>2. \E f : Heirs(f, j) /\ IsNow(j, f[j], "up", j.rest)
      BY <1>2, <1>3, <2>1 DEF UpBegin, RelayPcs
    <3> QED
      BY <1>0, <1>3, <2>1, <3>1, <3>2 DEF UpBegin, UpBeginEffect, RelayEffect
  <2>2. CASE ~Exists(j.from, j.paths)
    <3>2. \E f : Heirs(f, j) /\ IsNow(j, f[j], "stuck", j.rest)
      BY <1>2, <1>3, <2>2 DEF UpBegin, RelayPcs
    <3> QED
      BY <1>0, <1>3, <2>2, <3>2 DEF UpBegin, UpBeginEffect, RelayEffect
  <2> QED
    BY <2>1, <2>2
<1>4. CASE UpEnd(j)
  <2>1. RsyncedAt(j.from, "staging", j.paths)
    BY <1>0, <1>4, WhatIsStored DEF UpEnd
  <2>2. \E f : Heirs(f, j) /\ IsNow(j, f[j], "staged", j.rest)
    BY <1>2, <1>4 DEF UpEnd, RelayPcs
  <2> QED
    BY <1>0, <1>4, <2>1, <2>2 DEF UpEnd, UpEndEffect, RelayEffect
<1>5. CASE DownBegin(j)
  <2>1. CASE Exists("staging", j.paths)
    <3>1. BegunAt("staging", j.to, j.paths)
      BY <1>0, <1>5, <2>1, WhatIsStored DEF DownBegin
    <3>2. \E f : Heirs(f, j) /\ IsNow(j, f[j], "down", j.rest)
      BY <1>2, <1>5, <2>1 DEF DownBegin, RelayPcs
    <3> QED
      BY <1>0, <1>5, <2>1, <3>1, <3>2 DEF DownBegin, DownBeginEffect, RelayEffect
  <2>2. CASE ~Exists("staging", j.paths)
    <3>2. \E f : Heirs(f, j) /\ IsNow(j, f[j], "failed", j.rest)
      BY <1>2, <1>5, <2>2 DEF DownBegin, RelayPcs
    <3> QED
      BY <1>0, <1>5, <2>2, <3>2 DEF DownBegin, DownBeginEffect, RelayEffect
  <2> QED
    BY <2>1, <2>2
<1>6. CASE DownEnd(j)
  <2>1. RsyncedAt("staging", j.to, j.paths)
    BY <1>0, <1>6, WhatIsStored DEF DownEnd
  <2>2. \E f : Heirs(f, j) /\ IsNow(j, f[j], "clean", j.rest)
    BY <1>2, <1>6 DEF DownEnd, RelayPcs
  <2> QED
    BY <1>0, <1>6, <2>1, <2>2 DEF DownEnd, DownEndEffect, RelayEffect
<1>7. CASE CleanStaging(j)
  <2>1. RemovedAt("staging", j.paths, "none")
    BY <1>0, <1>7, WhatIsStored DEF CleanStaging, Values
  <2>2. PcOK(j, "ok")
    BY <1>1 DEF RelayPcs
  <2>3. \E f : Heirs(f, j) /\ IsNow(j, f[j], "ok", j.rest)
    BY <1>0, <1>7, <2>2, TearHeirs DEF CleanStaging
  <2> QED
    BY <1>0, <1>7, <2>1, <2>3 DEF CleanStaging, CleanEffect, RelayEffect
<1>8. CASE TornCopyEnds(j)
  <2>1. PICK pc \in IF j.pc = "upTorn" THEN {"staged", "stuck"} ELSE {"clean", "failed"} : jobs' = Jobs(j, pc)
    BY <1>8 DEF TornCopyEnds
  <2>2. \E f : Heirs(f, j) /\ IsNow(j, f[j], pc, j.rest)
    BY <1>2, <2>1 DEF RelayPcs
  <2> QED
    BY <1>0, <1>8, <2>1, <2>2 DEF TornCopyEnds, TornEffect, RelayEffect
<1> QED
  BY <1>3, <1>4, <1>5, <1>6, <1>7, <1>8

LEMMA RmSteps ==
  ASSUME Typed, NEW j \in jobs, RmBegin(j) \/ RmEnd(j)
  PROVE  \E f : Heirs(f, j) /\ RmEffect(j, f[j])
<1>0. /\ StoreOK /\ JobOK(j) /\ IsRm(j) /\ ~IsTrain(j) /\ j.from = "compute" /\ "compute" \in Places
      /\ PcOK(j, "rm") /\ PcOK(j, "ok")
  BY Ends DEF Typed, JobsOK, AllOK, RmBegin, RmEnd, IsRelay, PcOK, IsRm, IsTrain, RmPcs, Places
<1>1. CASE RmBegin(j)
  <2>1. RemovedAt("compute", j.paths, "part")
    BY <1>0, <1>1, WhatIsStored DEF RmBegin, Values
  <2>2. \E f : Heirs(f, j) /\ IsNow(j, f[j], "rm", j.rest)
    BY <1>0, <1>1, TearHeirs DEF RmBegin
  <2> QED
    BY <1>0, <1>1, <2>1, <2>2 DEF RmBegin, RmEffect
<1>2. CASE RmEnd(j)
  <2>1. RemovedAt("compute", j.paths, "none")
    BY <1>0, <1>2, WhatIsStored DEF RmEnd, Values
  <2>2. \E f : Heirs(f, j) /\ IsNow(j, f[j], "ok", j.rest)
    BY <1>0, <1>2, TearHeirs DEF RmEnd
  <2> QED
    BY <1>0, <1>2, <2>1, <2>2 DEF RmEnd, RmEffect
<1> QED
  BY <1>1, <1>2

LEMMA TrainSteps ==
  ASSUME Typed, NEW j \in jobs,
         \/ LoadTraining(j) \/ NextChunk(j) \/ SkipPair(j) \/ LoadLayer(j) \/ SaveBegin(j)
         \/ LosesInput(j) \/ CheckpointEnd(j) \/ SaveEnd(j) \/ TrainDone(j)
  PROVE  \E f : Heirs(f, j) /\ TrainEffect(j, f[j])
<1>0. /\ StoreOK /\ JobOK(j) /\ IsTrain(j) /\ HistoryOK
      /\ j.pc \in {"fit", "checkpoint"} => Training
      /\ j.pc \in AtUnit => j.rest # <<>> /\ Head(j.rest) \in LayerSet
  BY Ends DEF Typed, JobsOK, AllOK, LoadTraining, NextChunk, SkipPair, LoadLayer, SaveBegin, LosesInput,
         CheckpointEnd, SaveEnd, TrainDone, IsTrain, JobOK, TrainOK, FeedOK, ReturnOK, RmOK, IsFeed, IsReturn, IsRm
<1>1. \A pc : PcOK(j, pc) /\ jobs' = Jobs(j, pc) => \E f : Heirs(f, j) /\ IsNow(j, f[j], pc, j.rest)
  BY JobsHeirs
<1>3. /\ PcOK(j, "failed") /\ PcOK(j, "next")
      /\ Training /\ j.rest # <<>> => PcOK(j, "fit") /\ PcOK(j, "checkpoint")
      /\ j.rest # <<>> => PcOK(j, "fitted") /\ PcOK(j, "save")
      /\ j.rest = <<>> => PcOK(j, "ok")
  BY <1>0 DEF PcOK, IsTrain, IsRelay, IsRm, TrainPcs, AtUnit
<1>4. CASE LoadTraining(j)
  <2>1. \E f : Heirs(f, j) /\ IsNow(j, f[j], IF InputThere(j.paths) THEN "next" ELSE "failed", j.rest)
    BY <1>1, <1>3, <1>4 DEF LoadTraining
  <2> QED
    BY <1>0, <1>4, <2>1 DEF LoadTraining, LoadTrainingEffect, TrainEffect
<1>5. CASE NextChunk(j)
  <2>1. CASE Present(Written, Head(j.rest))
    <3>1. \E f : Heirs(f, j) /\ IsNow(j, f[j], "next", Tail(j.rest))
      BY <1>0, <1>5, <2>1, PoppedHeirs DEF NextChunk
    <3> QED
      BY <1>0, <1>5, <2>1, <3>1 DEF NextChunk, SkipEffect, TrainEffect
  <2>2. CASE ~Present(Written, Head(j.rest))
    <3>1. \E f : Heirs(f, j) /\ IsNow(j, f[j], "fit", j.rest)
      BY <1>1, <1>3, <1>5, <2>2 DEF NextChunk
    <3> QED
      BY <1>0, <1>5, <2>2, <3>1 DEF NextChunk, FitEffect, TrainEffect
  <2> QED
    BY <2>1, <2>2
<1>6. CASE SkipPair(j)
  <2>1. \E f : Heirs(f, j) /\ IsNow(j, f[j], "next", Tail(j.rest))
    BY <1>0, <1>6, PoppedHeirs DEF SkipPair
  <2> QED
    BY <1>0, <1>6, <2>1 DEF SkipPair, SkipEffect, TrainEffect
<1>7. CASE LoadLayer(j)
  <2>1. \E f : Heirs(f, j) /\ IsNow(j, f[j], IF InputThere(Inputs({Head(j.rest)})) /\ ~Rejects(Head(j.rest))
                       THEN "fitted" ELSE "failed", j.rest)
    BY <1>1, <1>3, <1>7 DEF LoadLayer
  <2> QED
    BY <1>0, <1>7, <2>1 DEF LoadLayer, LoadLayerEffect, TrainEffect
<1>8. CASE SaveBegin(j)
  <2>1. j.rest # <<>> /\ Head(j.rest) \in LayerSet
    BY <1>0, <1>8 DEF SaveBegin, AtUnit
  <2>2. HalfSaved(Head(j.rest)) \in Values
    BY <1>0, HalfSavedValue DEF HalfValues, Values
  <2>3. SavedAt(Head(j.rest), HalfSaved(Head(j.rest)))
    BY <1>0, <1>8, <2>1, <2>2, WhatIsStored DEF SaveBegin
  <2>4. \E f : Heirs(f, j) /\ IsNow(j, f[j], IF j.pc = "fit" THEN "checkpoint" ELSE "save", j.rest)
    BY <1>0, <1>1, <1>3, <1>8, <2>1 DEF SaveBegin
  <2> QED
    BY <1>0, <1>8, <2>1, <2>3, <2>4 DEF SaveBegin, SaveBeginEffect, TrainEffect
<1>9. CASE LosesInput(j)
  <2>1. \E f : Heirs(f, j) /\ IsNow(j, f[j], "failed", j.rest)
    BY <1>1, <1>3, <1>9 DEF LosesInput
  <2> QED
    BY <1>0, <1>9, <2>1 DEF LosesInput, LosesInputEffect, TrainEffect, AtUnit
<1>10. CASE CheckpointEnd(j)
  <2>1. j.rest # <<>> /\ Head(j.rest) \in LayerSet
    BY <1>0, <1>10 DEF CheckpointEnd, AtUnit
  <2>2. SavedAt(Head(j.rest), "periodic")
    BY <1>0, <1>10, <2>1, WhatIsStored DEF CheckpointEnd, Values
  <2>3. \E f : Heirs(f, j) /\ IsNow(j, f[j], "fitted", j.rest)
    BY <1>1, <1>3, <1>10, <2>1 DEF CheckpointEnd
  <2> QED
    BY <1>0, <1>10, <2>1, <2>2, <2>3 DEF CheckpointEnd, CheckpointEndEffect, TrainEffect
<1>11. CASE SaveEnd(j)
  <2>1. j.rest # <<>> /\ Head(j.rest) \in LayerSet
    BY <1>0, <1>11 DEF SaveEnd, AtUnit
  <2>2. SavedAt(Head(j.rest), "whole")
    BY <1>0, <1>11, <2>1, WhatIsStored DEF SaveEnd, Values
  <2>3. \E f : Heirs(f, j) /\ IsNow(j, f[j], "next", Tail(j.rest))
    BY <1>0, <1>11, <2>1, PoppedHeirs DEF SaveEnd
  <2> QED
    BY <1>0, <1>11, <2>1, <2>2, <2>3 DEF SaveEnd, SaveEndEffect, TrainEffect
<1>12. CASE TrainDone(j)
  <2>1. \E f : Heirs(f, j) /\ IsNow(j, f[j], "ok", j.rest)
    BY <1>1, <1>3, <1>12 DEF TrainDone
  <2> QED
    BY <1>0, <1>12, <2>1 DEF TrainDone, TrainDoneEffect, TrainEffect
<1> QED
  BY <1>4, <1>5, <1>6, <1>7, <1>8, <1>9, <1>10, <1>11, <1>12

LEMMA JobSteps ==
  ASSUME Typed, NEW j \in jobs, JobStep(j)
  PROVE  \E f : Heirs(f, j) /\ StepEffect(j, f[j])
<1>1. \E f : Heirs(f, j) /\ (RelayEffect(j, f[j]) \/ RmEffect(j, f[j]) \/ TrainEffect(j, f[j]))
  BY RelaySteps, RmSteps, TrainSteps DEF JobStep
<1> QED
  BY <1>1 DEF JobStep, StepEffect

LEMMA FailSteps ==
  ASSUME Typed, NEW j \in jobs, JobFails(j)
  PROVE  \E f : Heirs(f, j) /\ FailEffect(j, f[j])
<1> DEFINE pc == IF IsRelay(j) /\ j.pc \in {"queued", "up", "upTorn"} THEN "stuck" ELSE "failed"
<1>1. jobs' = Jobs(j, pc)
  BY DEF JobFails, IsRelay
<1>2. PcOK(j, pc)
  BY DEF PcOK, IsRelay, IsRm, IsTrain, RelayPcs, RmPcs, TrainPcs, AtUnit
<1> HIDE DEF pc
<1>3. \E f : Heirs(f, j) /\ IsNow(j, f[j], pc, j.rest)
  BY <1>1, <1>2, JobsHeirs
<1> QED
  BY <1>3, Failing DEF JobFails, FailEffect, pc, IsTrain

-----------------------------------------------------------------------------
(* The second, Phased: what the jobs of this run are for, and which of them there
   are at each position of the driver. *)

\* What the jobs of this run are for.
MineOK(j) ==
    /\ IsFeed(j) => \E l \in BatchLayers(driver.batch) : j.paths = {In(l)}
    /\ IsRm(j)   => \E l \in BatchLayers(driver.batch) : j.paths = {In(l)} /\ ~NeededLater(l)
    /\ IsTrain(j) =>
          /\ ToSet(j.rest) \subseteq Batch(driver.batch)
          /\ ~Training => ToSet(j.rest) \subseteq ToRun(driver.batch)
          /\ j.paths = Inputs(Batch(driver.batch))
          /\ \A u \in ToRun(driver.batch) : u \in ToSet(j.rest) \/ Present(Written, u)
    /\ IsReturn(j) => \A u \in ToRun(driver.batch) : Present("compute", u)
Together(i, j) == i = j \/ (IsFeed(i) /\ IsFeed(j))
MinesOK ==
    /\ \A j \in Mine : MineOK(j)
    /\ \A i, j \in Mine : Together(i, j)

\* Which jobs the driver waits for, and what is still to do, at each position.
PhaseOK ==
    /\ driver.pc \in {"check", "measure", "raised", "done"} => Mine = {}
    /\ driver.pc = "relayIn" =>
          /\ \A j \in Mine : IsFeed(j)
          /\ ToSet(driver.todo) \subseteq BatchLayers(driver.batch)
    /\ driver.pc = "train"    => Mine # {} /\ \A j \in Mine : IsTrain(j)
    /\ driver.pc = "relayOut" => Mine # {} /\ \A j \in Mine : IsReturn(j)
    /\ driver.pc = "reclaim"  =>
          /\ \A j \in Mine : IsRm(j)
          /\ \A l \in ToSet(driver.todo) : l \in BatchLayers(driver.batch) /\ ~NeededLater(l)

Phased == Typed /\ PhaseOK /\ MinesOK

\* Outside staging, an output that is there stays there.
PresentStays ==
    \A pl \in Places \ {"staging"} : \A l \in LayerSet :
        Present(pl, l) => Present(pl, l)'

LEMMA StoredStays ==
  ASSUME Typed
  PROVE  /\ \A from, to \in Places : \A ps : BegunAt(from, to, ps) => PresentStays
         /\ \A from, to \in Places : \A ps : RsyncedAt(from, to, ps) => PresentStays
         /\ \A ps : RemovedAt("staging", ps, "none") => PresentStays
         /\ \A l \in LayerSet : \A v \in {"torn", "periodic", "whole"} : SavedAt(l, v) => PresentStays
         /\ store' = store => PresentStays
<1>0. \A l \in LayerSet : Out(l) \in Paths
  BY PathsApart
<1>1. ASSUME NEW from \in Places, NEW to \in Places, NEW ps, BegunAt(from, to, ps)
      PROVE  PresentStays
  BY <1>0, <1>1 DEF BegunAt, PresentStays, Present
<1>2. ASSUME NEW from \in Places, NEW to \in Places, NEW ps, RsyncedAt(from, to, ps)
      PROVE  PresentStays
  BY <1>0, <1>2 DEF RsyncedAt, PresentStays, Present, Copied
<1>3. ASSUME NEW ps, RemovedAt("staging", ps, "none")
      PROVE  PresentStays
  BY <1>0, <1>3 DEF RemovedAt, PresentStays, Present
<1>4. ASSUME NEW l \in LayerSet, NEW v \in {"torn", "periodic", "whole"}, SavedAt(l, v)
      PROVE  PresentStays
  BY <1>0, <1>4 DEF SavedAt, PresentStays, Present
<1>5. store' = store => PresentStays
  BY DEF PresentStays, Present
<1> QED
  BY <1>1, <1>2, <1>3, <1>4, <1>5

LEMMA PresentOnward ==
  ASSUME Typed, NEW j \in jobs, NEW k, StepEffect(j, k) \/ FailEffect(j, k)
  PROVE  PresentStays
<1>0. /\ JobOK(j) /\ StoreOK /\ HistoryOK /\ j.from \in Places /\ j.to \in Places /\ "staging" \in Places
      /\ j.rest # <<>> => Head(j.rest) \in LayerSet
  BY JobFields, Popped DEF Typed, JobsOK, AllOK, Places
<1>1. CASE RelayEffect(j, k)
  <2>1. CASE UpBeginEffect(j, k)
    BY <1>0, <2>1, StoredStays DEF UpBeginEffect
  <2>2. CASE UpEndEffect(j, k)
    BY <1>0, <2>2, StoredStays DEF UpEndEffect
  <2>3. CASE DownBeginEffect(j, k)
    BY <1>0, <2>3, StoredStays DEF DownBeginEffect
  <2>4. CASE DownEndEffect(j, k)
    BY <1>0, <2>4, StoredStays DEF DownEndEffect
  <2>5. CASE CleanEffect(j, k) \/ TornEffect(j, k)
    BY <1>0, <2>5, StoredStays DEF CleanEffect, TornEffect
  <2> QED
    BY <1>1, <2>1, <2>2, <2>3, <2>4, <2>5 DEF RelayEffect
<1>2. CASE RmEffect(j, k)
  <2>1. PICK l \in LayerSet : j.paths = {In(l)}
    BY <1>0, <1>2, Ends DEF RmEffect
  <2>2. \A m \in LayerSet : Out(m) \in Paths /\ Out(m) \notin j.paths
    BY <2>1, PathsApart
  <2> QED
    BY <1>2, <2>2 DEF RmEffect, RemovedAt, PresentStays, Present
<1>3. CASE SaveBeginEffect(j, k)
  <2>1. CASE Present(Written, Head(j.rest))
    <3>1. HalfSaved(Head(j.rest)) \in {"torn", "whole"}
      BY <2>1 DEF HalfSaved
    <3> QED
      BY <1>0, <1>3, <3>1, StoredStays DEF SaveBeginEffect
  <2>2. CASE ~Present(Written, Head(j.rest))
    <3>1. \A l \in LayerSet : Out(l) \in Paths /\ (Out(l) = Out(Head(j.rest)) => l = Head(j.rest))
      BY PathsApart
    <3> QED
      BY <1>3, <2>2, <3>1 DEF SaveBeginEffect, SavedAt, PresentStays, Present
  <2> QED
    BY <2>1, <2>2
<1>4. CASE CheckpointEndEffect(j, k) \/ SaveEndEffect(j, k)
  BY <1>0, <1>4, StoredStays DEF CheckpointEndEffect, SaveEndEffect
<1>5. CASE store' = store
  BY <1>5, StoredStays
<1>6. CASE TrainEffect(j, k)
  BY <1>3, <1>4, <1>5, <1>6 DEF TrainEffect, LoadTrainingEffect, SkipEffect, FitEffect, LoadLayerEffect,
     LosesInputEffect, TrainDoneEffect
<1>7. CASE FailEffect(j, k)
  BY <1>0, <1>7, StoredStays DEF FailEffect, FailStep
<1> QED
  BY <1>1, <1>2, <1>6, <1>7 DEF StepEffect

\* What a step leaves of a training job's units is there.
LEMMA RestOnward ==
  ASSUME Typed, NEW j \in jobs, NEW k, StepEffect(j, k) \/ FailEffect(j, k)
  PROVE  /\ ToSet(k.rest) \subseteq ToSet(j.rest)
         /\ \A u \in ToSet(j.rest) : u \in ToSet(k.rest) \/ Present(Written, u)'
<1>0. /\ j.rest \in Seq(LayerSet)
      /\ Written' = Written /\ Written \in Places \ {"staging"}
  <2>1. Written' = Written
    BY SameCommand DEF StepEffect, FailEffect
  <2> QED
    BY <2>1, JobFields, NodeType DEF Typed, JobsOK, AllOK, Places
<1>1. CASE k.rest = j.rest
  BY <1>1
<1>2. CASE j.rest # <<>> /\ k.rest = Tail(j.rest) /\ Present(Written, Head(j.rest))'
  <2>1. ToSet(j.rest) = {Head(j.rest)} \union ToSet(Tail(j.rest))
    BY <1>0, <1>2, Popped
  <2> QED
    BY <1>2, <2>1
<1>3. CASE SkipEffect(j, k)
  <2>1. Head(j.rest) \in LayerSet /\ j.rest # <<>> /\ Present(Written, Head(j.rest))
    BY <1>0, <1>3, Popped DEF SkipEffect
  <2>2. Present(Written, Head(j.rest))'
    BY <1>0, <1>3, <2>1 DEF SkipEffect, Present
  <2> QED
    BY <1>2, <1>3, <2>2 DEF SkipEffect, IsNow
<1>4. CASE SaveEndEffect(j, k)
  <2>1. Head(j.rest) \in LayerSet /\ j.rest # <<>>
    BY <1>0, <1>4, Popped DEF SaveEndEffect
  <2>2. Out(Head(j.rest)) \in Paths
    BY <2>1, PathsApart
  <2>3. Present(Written, Head(j.rest))'
    BY <1>0, <1>4, <2>2 DEF SaveEndEffect, SavedAt, Present
  <2> QED
    BY <1>2, <1>4, <2>3 DEF SaveEndEffect, IsNow
<1>5. CASE RelayEffect(j, k) \/ RmEffect(j, k)
  BY <1>1, <1>5 DEF RelayEffect, RmEffect, UpBeginEffect, UpEndEffect, DownBeginEffect, DownEndEffect,
     CleanEffect, TornEffect, IsNow
<1>6. CASE TrainEffect(j, k)
  BY <1>1, <1>3, <1>4, <1>6 DEF TrainEffect, LoadTrainingEffect, FitEffect, LoadLayerEffect,
     SaveBeginEffect, CheckpointEndEffect, LosesInputEffect, TrainDoneEffect, IsNow
<1>7. CASE FailEffect(j, k)
  BY <1>1, <1>7 DEF FailEffect, IsNow
<1> QED
  BY <1>5, <1>6, <1>7 DEF StepEffect

LEMMA EffectUnchanged ==
  ASSUME NEW j, NEW k, StepEffect(j, k) \/ FailEffect(j, k)
  PROVE  UNCHANGED <<cmd, driver, run, alone, left>>
  BY DEF StepEffect, FailEffect

LEMMA SameBatch ==
  ASSUME UNCHANGED cmd, driver'.batch = driver.batch
  PROVE  /\ Training' = Training /\ Written' = Written
         /\ Batch(driver.batch)' = Batch(driver.batch)
         /\ BatchLayers(driver.batch)' = BatchLayers(driver.batch)
         /\ ToRun(driver.batch)' = ToRun(driver.batch)
         /\ \A l : NeededLater(l)' = NeededLater(l)
<1>1. \A i : Batch(i)' = Batch(i) /\ BatchLayers(i)' = BatchLayers(i) /\ ToRun(i)' = ToRun(i)
  BY SameCommand
<1>2. LastBatch' = LastBatch /\ Training' = Training /\ Written' = Written
  BY SameCommand
<1>3. \A l : NeededLater(l)' = NeededLater(l)
  BY <1>1, <1>2 DEF NeededLater
<1>4. Batch(driver.batch)' = Batch(driver.batch)
  BY <1>1 DEF Batch, Batches
<1>5. ToRun(driver.batch)' = ToRun(driver.batch)
  BY <1>4 DEF ToRun
<1>6. BatchLayers(driver.batch)' = BatchLayers(driver.batch)
  BY <1>4 DEF BatchLayers, Needs
<1> QED
  BY <1>2, <1>3, <1>4, <1>5, <1>6

LEMMA HeirFields ==
  ASSUME NEW f, NEW j \in jobs, Heirs(f, j), run' = run
  PROVE  /\ \A k \in Mine' : \E i \in Mine : k = f[i]
         /\ \A i \in jobs : /\ f[i].owner = i.owner /\ f[i].kind = i.kind /\ f[i].from = i.from
                            /\ f[i].to = i.to /\ f[i].paths = i.paths
                            /\ IsFeed(f[i]) <=> IsFeed(i)
                            /\ IsReturn(f[i]) <=> IsReturn(i)
                            /\ IsTrain(f[i]) <=> IsTrain(i)
                            /\ IsRm(f[i]) <=> IsRm(i)
                            /\ IsTrain(i) /\ i # j => f[i] = i
         /\ Active => \A i \in Mine : f[i] \in Mine'
<1>1. \A i \in jobs : Static(i, f[i])
  BY DEF Heirs
<1>2. \A i \in jobs : /\ f[i].owner = i.owner /\ f[i].kind = i.kind /\ f[i].from = i.from
                      /\ f[i].to = i.to /\ f[i].paths = i.paths
  BY <1>1 DEF Static
<1>3. \A k \in Mine' : \E i \in Mine : k = f[i]
  BY <1>2 DEF Heirs, Mine
<1>4. \A i \in jobs : IsTrain(i) /\ i # j => f[i] = i
  BY DEF Heirs, Torn, IsRelay, IsTrain
<1>5. Active => \A i \in Mine : f[i] \in Mine'
  BY <1>2 DEF Heirs, Mine
<1> QED
  BY <1>2, <1>3, <1>4, <1>5 DEF IsFeed, IsReturn, IsTrain, IsRm

LEMMA MineOnward ==
  ASSUME Phased, NEW j \in jobs, NEW f, Heirs(f, j), StepEffect(j, f[j]) \/ FailEffect(j, f[j]),
         NEW i \in Mine
  PROVE  MineOK(f[i])'
<1>0. /\ UNCHANGED <<cmd, driver, run>> /\ driver'.batch = driver.batch
      /\ MineOK(i) /\ i \in jobs /\ JobOK(i) /\ i.owner = run
  BY EffectUnchanged DEF Phased, Typed, JobsOK, AllOK, MinesOK, Mine
<1>1. driver.batch \in 1..LastBatch
  BY <1>0, JobFields DEF Phased, Typed, DriverOK, HistoryOK
<1>2. /\ f[i].paths = i.paths
      /\ IsFeed(f[i]) <=> IsFeed(i)
      /\ IsReturn(f[i]) <=> IsReturn(i)
      /\ IsTrain(f[i]) <=> IsTrain(i)
      /\ IsRm(f[i]) <=> IsRm(i)
      /\ IsTrain(i) /\ i # j => f[i] = i
  BY <1>0, HeirFields
<1>3. PresentStays
  BY PresentOnward DEF Phased
<1>4. /\ ToSet(f[j].rest) \subseteq ToSet(j.rest)
      /\ \A u \in ToSet(j.rest) : u \in ToSet(f[j].rest) \/ Present(Written, u)'
  BY RestOnward DEF Phased
<1>5. ToRun(driver.batch) \subseteq LayerSet
  BY <1>1, BatchType DEF Phased, Typed
<1>6. /\ Training' = Training /\ Written' = Written
      /\ Batch(driver.batch)' = Batch(driver.batch)
      /\ BatchLayers(driver.batch)' = BatchLayers(driver.batch)
      /\ ToRun(driver.batch)' = ToRun(driver.batch)
      /\ \A l : NeededLater(l)' = NeededLater(l)
  BY <1>0, SameBatch
<1> DEFINE k == f[i]
<1>7. IsFeed(k) => \E l \in BatchLayers(driver.batch)' : k.paths = {In(l)}
  BY <1>0, <1>2, <1>6 DEF MineOK
<1>8. IsRm(k) => \E l \in BatchLayers(driver.batch)' : k.paths = {In(l)} /\ ~NeededLater(l)'
  BY <1>0, <1>2, <1>6 DEF MineOK
<1>9. IsReturn(k) => \A u \in ToRun(driver.batch)' : Present("compute", u)'
  <2>1. "compute" \in Places \ {"staging"}
    BY DEF Places
  <2> QED
    BY <1>0, <1>2, <1>3, <1>5, <1>6, <2>1 DEF MineOK, PresentStays
<1>10. ASSUME IsTrain(k)
       PROVE  /\ ToSet(k.rest) \subseteq Batch(driver.batch)'
              /\ ~Training' => ToSet(k.rest) \subseteq ToRun(driver.batch)'
              /\ k.paths = Inputs(Batch(driver.batch))'
              /\ \A u \in ToRun(driver.batch)' : u \in ToSet(k.rest) \/ Present(Written, u)'
  <2>1. /\ ToSet(i.rest) \subseteq Batch(driver.batch)
        /\ ~Training => ToSet(i.rest) \subseteq ToRun(driver.batch)
        /\ i.paths = Inputs(Batch(driver.batch))
        /\ \A u \in ToRun(driver.batch) : u \in ToSet(i.rest) \/ Present(Written, u)
    BY <1>0, <1>2, <1>10 DEF MineOK
  <2>2. /\ ToSet(k.rest) \subseteq ToSet(i.rest)
        /\ \A u \in ToSet(i.rest) : u \in ToSet(k.rest) \/ Present(Written, u)'
    BY <1>2, <1>4, <1>10
  <2>3. Inputs(Batch(driver.batch))' = Inputs(Batch(driver.batch))
    BY <1>0, <1>6 DEF Inputs, Needs
  <2>4. \A u \in ToRun(driver.batch) : Present(Written, u) => Present(Written, u)'
    <3>1. Written \in Places \ {"staging"}
      BY NodeType DEF Places
    <3>2. \A u \in LayerSet : Present(Written, u) => Present(Written, u)'
      BY <1>3, <1>6, <3>1 DEF PresentStays, Present
    <3> QED
      BY <1>5, <3>2
  <2> QED
    BY <1>2, <1>6, <2>1, <2>2, <2>3, <2>4
<1> HIDE DEF k
<1>11. MineOK(k)'
  BY <1>6, <1>7, <1>8, <1>9, <1>10 DEF MineOK, IsFeed, IsRm, IsReturn, IsTrain
<1> QED
  BY <1>11 DEF k

LEMMA PhasedJob ==
  ASSUME Phased, NEW j \in jobs, JobStep(j) \/ JobFails(j)
  PROVE  Phased'
<1>1. PICK f : Heirs(f, j) /\ (StepEffect(j, f[j]) \/ FailEffect(j, f[j]))
  BY JobSteps, FailSteps DEF Phased
<1>2. UNCHANGED <<cmd, driver, run>>
  BY <1>1, EffectUnchanged
<1>3. \A k \in Mine' : \E i \in Mine : k = f[i]
  BY <1>1, <1>2, HeirFields
<1>4. \A i \in jobs : /\ IsFeed(f[i]) <=> IsFeed(i)
                      /\ IsReturn(f[i]) <=> IsReturn(i)
                      /\ IsTrain(f[i]) <=> IsTrain(i)
                      /\ IsRm(f[i]) <=> IsRm(i)
  BY <1>1, <1>2, HeirFields
<1>5. Active => \A i \in Mine : f[i] \in Mine'
  BY <1>1, <1>2, HeirFields
<1>6. Mine \subseteq jobs
  BY MineType
<1>7. \A k \in Mine' : MineOK(k)'
  BY <1>1, <1>3, MineOnward
<1>8. \A i, k \in Mine' : Together(i, k)
  BY <1>3, <1>4, <1>6 DEF Phased, MinesOK, Together
<1>9. PhaseOK'
  <2>1. /\ BatchLayers(driver.batch)' = BatchLayers(driver.batch)
        /\ \A l : NeededLater(l)' = NeededLater(l)
    BY <1>2, SameBatch
  <2>2. /\ \A k \in Mine' : \E i \in Mine : (IsFeed(k) <=> IsFeed(i)) /\ (IsReturn(k) <=> IsReturn(i))
                                    /\ (IsTrain(k) <=> IsTrain(i)) /\ (IsRm(k) <=> IsRm(i))
        /\ Active /\ Mine # {} => Mine' # {}
    BY <1>3, <1>4, <1>5, <1>6
  <2>3. driver.pc \in {"train", "relayOut"} => Active
    BY DEF Active
  <2> QED
    BY <1>2, <2>1, <2>2, <2>3 DEF Phased, PhaseOK, IsFeed, IsReturn, IsTrain, IsRm
<1>10. Typed'
  BY TypedJob DEF Phased
<1> QED
  BY <1>7, <1>8, <1>9, <1>10 DEF Phased, MinesOK, Together, IsFeed

\* The jobs of this run, after a step of the driver.
LEMMA MineThen ==
  ASSUME run' = run
  PROVE  /\ jobs' = jobs => Mine' = Mine
         /\ jobs' = jobs \ Mine => Mine' = {}
         /\ \A k : k.owner = run /\ jobs' = (jobs \ Mine) \union {k} => Mine' = {k}
         /\ \A k : k.owner = run /\ jobs' = jobs \union {k} => Mine' = Mine \union {k}
  BY DEF Mine

LEMMA PhasedInit == ASSUME Init PROVE Phased
<1>1. jobs = {} /\ driver.pc = "off"
  BY DEF Init
<1>2. Mine = {}
  BY <1>1, MineType
<1> QED
  BY <1>1, <1>2, TypedInit DEF Phased, PhaseOK, MinesOK

LEMMA NoneOK == ASSUME Mine' = {} PROVE MinesOK'
  BY DEF MinesOK

\* The driver raises, or goes past the batch.
LEMMA EmptyHanded ==
  ASSUME Typed', Mine' = {}, driver'.pc \in {"check", "measure", "raised", "done"}
  PROVE  Phased'
  BY NoneOK DEF Phased, PhaseOK

LEMMA RaisingPhased ==
  ASSUME Phased, Typed', run' = run, Raises
  PROVE  Phased'
  BY EmptyHanded, MineThen DEF Raises, DriverAt

LEMMA LeavingPhased ==
  ASSUME Phased, Typed', UNCHANGED <<cmd, run>>, Leaves \/ Advance, jobs' = jobs \ Mine
  PROVE  Phased'
<1>1. Mine' = {}
  BY MineThen
<1>2. CASE Advance
  <2>1. driver'.pc \in {"check", "done"}
    BY <1>2 DEF Advance, DriverAt
  <2> QED
    BY <1>1, <2>1, EmptyHanded
<1>3. CASE ~Advance
  <2>1. PICK todo \in Seq(LayerSet) :
            /\ DriverAt("reclaim", driver.batch, todo)
            /\ ToSet(todo) = {l \in BatchLayers(driver.batch) : ~NeededLater(l)}
    BY <1>3 DEF Leaves
  <2>2. driver'.pc = "reclaim" /\ driver'.batch = driver.batch /\ driver'.todo = todo
    BY <2>1 DEF DriverAt
  <2>3. /\ BatchLayers(driver.batch)' = BatchLayers(driver.batch)
        /\ \A l : NeededLater(l)' = NeededLater(l)
    BY <2>2, SameBatch
  <2>4. PhaseOK'
    BY <1>1, <2>1, <2>2, <2>3 DEF PhaseOK
  <2> QED
    BY <1>1, <2>4, NoneOK DEF Phased
<1> QED
  BY <1>2, <1>3

LEMMA PhasedCheck == ASSUME Phased, CheckBatch PROVE Phased'
<1>1. CheckStep
  BY CheckSteps DEF Phased, Typed
<1>2. Mine' = {}
  BY <1>1, MineThen DEF CheckStep, Phased, PhaseOK
<1>3. driver'.pc \in {"check", "measure", "done"}
  BY <1>1 DEF CheckStep, Advance, DriverAt
<1> QED
  BY <1>2, <1>3, EmptyHanded, TypedCheck DEF Phased

LEMMA PhasedMeasure == ASSUME Phased, Measure PROVE Phased'
<1>1. MeasureStep
  BY MeasureSteps DEF Phased
<1>2. Mine' = {}
  BY <1>1, MineThen DEF MeasureStep, Phased, PhaseOK
<1>3. PICK todo \in Seq(LayerSet) :
          /\ DriverAt("relayIn", driver.batch, todo)
          /\ ToSet(todo) = {l \in BatchLayers(driver.batch) : NeedsRelay(l)}
  BY <1>1 DEF MeasureStep
<1>4. driver'.pc = "relayIn" /\ driver'.batch = driver.batch /\ driver'.todo = todo
  BY <1>3 DEF DriverAt
<1>5. BatchLayers(driver.batch)' = BatchLayers(driver.batch)
  BY <1>1, <1>4, SameBatch DEF MeasureStep
<1>6. PhaseOK'
  BY <1>2, <1>3, <1>4, <1>5 DEF PhaseOK
<1> QED
  BY <1>2, <1>6, NoneOK, TypedMeasure DEF Phased

\* A job that has been submitted is for the batch, as those before it.
LEMMA MinesGrow ==
  ASSUME Phased, UNCHANGED <<cmd, store, run>>, driver'.batch = driver.batch,
         \A j \in Mine' : MineOK(j), \A i, j \in Mine' : Together(i, j)
  PROVE  MinesOK'
<1>1. /\ Training' = Training /\ Written' = Written
      /\ Batch(driver.batch)' = Batch(driver.batch)
      /\ BatchLayers(driver.batch)' = BatchLayers(driver.batch)
      /\ ToRun(driver.batch)' = ToRun(driver.batch)
      /\ \A l : NeededLater(l)' = NeededLater(l)
  BY SameBatch
<1>2. Inputs(Batch(driver.batch))' = Inputs(Batch(driver.batch))
  BY <1>1 DEF Inputs, Needs
<1>3. \A pl, l : Present(pl, l)' = Present(pl, l)
  BY DEF Present
<1>4. \A u : Present(Written, u)' = Present(Written, u)
  BY <1>1 DEF Present
<1>5. \A j \in Mine' : MineOK(j)'
  BY <1>1, <1>2, <1>3, <1>4 DEF MineOK, IsFeed, IsRm, IsTrain, IsReturn
<1> QED
  BY <1>5 DEF MinesOK, Together, IsFeed

LEMMA PhasedSubmitRelayIn == ASSUME Phased, SubmitRelayIn PROVE Phased'
<1>1. SubmitRelayInStep /\ Typed
  BY SubmitRelayInSteps DEF Phased
<1>2. /\ driver.pc = "relayIn" /\ driver'.pc = "relayIn" /\ driver'.batch = driver.batch
      /\ driver'.todo = Tail(driver.todo) /\ UNCHANGED <<cmd, store, run>>
  BY <1>1 DEF SubmitRelayInStep, DriverAt
<1> DEFINE l == Head(driver.todo)
<1> DEFINE k == Relay("storage", Compute, {In(l)})
<1>3. run > 0 /\ ~cmd.sameNode
  BY <1>1, <1>2, Running DEF SubmitRelayInStep, Typed, DriverOK
<1>4. /\ l \in LayerSet /\ ToSet(driver.todo) = {l} \union ToSet(Tail(driver.todo))
  BY <1>1, DriverFields, Popped DEF SubmitRelayInStep, Typed
<1>5. l \in BatchLayers(driver.batch) /\ ToSet(Tail(driver.todo)) \subseteq BatchLayers(driver.batch)
  BY <1>2, <1>4 DEF Phased, PhaseOK
<1>6. IsFeed(k) /\ k.owner = run /\ k.paths = {In(l)}
  BY <1>1, <1>3, <1>4, NewFeed DEF Relay
<1>7. jobs' = jobs \union {k}
  BY <1>1 DEF SubmitRelayInStep
<1> HIDE DEF k, l
<1>8. Mine' = Mine \union {k}
  BY <1>2, <1>6, <1>7, MineThen
<1>9. MineOK(k)
  BY <1>5, <1>6 DEF MineOK, IsFeed, IsRm, IsReturn, IsTrain
<1>10. \A j \in Mine : IsFeed(j) /\ MineOK(j)
  BY <1>2 DEF Phased, PhaseOK, MinesOK
<1>11. MinesOK'
  BY <1>2, <1>6, <1>8, <1>9, <1>10, MinesGrow DEF Together
<1>12. BatchLayers(driver.batch)' = BatchLayers(driver.batch)
  BY <1>2, SameBatch
<1>13. PhaseOK'
  BY <1>2, <1>5, <1>6, <1>8, <1>10, <1>12 DEF PhaseOK, IsFeed
<1> QED
  BY <1>11, <1>13, TypedSubmitRelayIn DEF Phased

LEMMA PhasedSubmitTrain == ASSUME Phased, SubmitTrain PROVE Phased'
<1>1. SubmitTrainStep /\ Typed'
  BY SubmitTrainSteps, TypedSubmitTrain DEF Phased, Typed
<1>2. driver.pc = "relayIn" /\ UNCHANGED <<cmd, store, run>>
  BY <1>1 DEF SubmitTrainStep, AfterStep
<1>3. CASE Raises
  BY <1>1, <1>2, <1>3, RaisingPhased
<1>4. CASE DriverAt("train", driver.batch, driver.todo) /\ jobs' = (jobs \ Mine) \union {TrainJob}
  <2>1. driver'.pc = "train" /\ driver'.batch = driver.batch
    BY <1>4 DEF DriverAt
  <2>2. run > 0 /\ driver.batch \in 1..LastBatch
    BY <1>2, Running DEF Phased
  <2>3. /\ IsTrain(TrainJob) /\ TrainJob.owner = run
        /\ TrainJob.paths = Inputs(Batch(driver.batch))
        /\ ToSet(TrainJob.rest) = IF Training \/ Pairs THEN Batch(driver.batch) ELSE ToRun(driver.batch)
    BY <2>2, NewTrain DEF Phased
  <2> DEFINE k == TrainJob
  <2> HIDE DEF k
  <2>4. Mine' = {k}
    BY <1>2, <1>4, <2>3, MineThen DEF k
  <2>5. Pairs => ToRun(driver.batch) = Batch(driver.batch)
    BY <2>2, BatchType DEF Phased, Typed, Pairs, Units, ToRun
  <2>6. ToRun(driver.batch) \subseteq Batch(driver.batch)
    BY DEF ToRun
  <2>7. MineOK(k)
    BY <2>3, <2>5, <2>6 DEF MineOK, IsTrain, IsFeed, IsRm, IsReturn, k
  <2>8. MinesOK'
    BY <1>2, <2>1, <2>4, <2>7, MinesGrow DEF Together
  <2>9. PhaseOK'
    BY <2>1, <2>3, <2>4 DEF PhaseOK, IsTrain, k
  <2> QED
    BY <1>1, <2>8, <2>9 DEF Phased
<1> QED
  BY <1>1, <1>3, <1>4 DEF SubmitTrainStep, AfterStep

\* When the driver goes on, its job has done what it was for.
LEMMA TrainedAll ==
  ASSUME Phased, driver.pc = "train", Succeeded
  PROVE  \A u \in ToRun(driver.batch) : Present(Written, u)
<1>1. PICK j \in Mine : IsTrain(j) /\ MineOK(j) /\ JobOK(j) /\ j.pc = "ok"
  BY MineType DEF Phased, PhaseOK, MinesOK, Typed, JobsOK, AllOK, Succeeded
<1>2. j.rest = <<>>
  BY <1>1 DEF JobOK, TrainOK, IsTrain, FeedOK, ReturnOK, RmOK, IsFeed, IsReturn, IsRm
<1>3. ToSet(j.rest) = {}
  BY <1>2, NoLayers
<1> QED
  BY <1>1, <1>3 DEF MineOK

LEMMA PhasedSubmitRelayOut == ASSUME Phased, SubmitRelayOut PROVE Phased'
<1>1. SubmitRelayOutStep /\ Typed'
  BY SubmitRelayOutSteps, TypedSubmitRelayOut DEF Phased
<1>2. driver.pc = "train" /\ UNCHANGED <<cmd, store, run>>
  BY <1>1 DEF SubmitRelayOutStep, AfterStep
<1>3. CASE Raises
  BY <1>1, <1>2, <1>3, RaisingPhased
<1>4. CASE /\ Succeeded /\ Training /\ ~cmd.sameNode
           /\ DriverAt("relayOut", driver.batch, driver.todo)
           /\ jobs' = (jobs \ Mine) \union {Relay(Compute, "storage", OutPaths)}
  <2>1. driver'.pc = "relayOut" /\ driver'.batch = driver.batch
    BY <1>4 DEF DriverAt
  <2>2. run > 0
    BY <1>2, Running DEF Phased
  <2> DEFINE k == Relay(Compute, "storage", OutPaths)
  <2>3. IsReturn(k) /\ k.owner = run
    BY <1>4, <2>2, NewReturn DEF Phased, Relay
  <2>4. jobs' = (jobs \ Mine) \union {k}
    BY <1>4
  <2> HIDE DEF k
  <2>5. Mine' = {k}
    BY <1>2, <2>3, <2>4, MineThen
  <2>6. Written = "compute"
    BY <1>4 DEF Written, Compute
  <2>7. MineOK(k)
    BY <1>2, <1>4, <2>3, <2>6, TrainedAll DEF MineOK, IsTrain, IsFeed, IsRm, IsReturn
  <2>8. MinesOK'
    BY <1>2, <2>1, <2>5, <2>7, MinesGrow DEF Together
  <2>9. PhaseOK'
    BY <2>1, <2>3, <2>5 DEF PhaseOK, IsReturn
  <2> QED
    BY <1>1, <2>8, <2>9 DEF Phased
<1>5. CASE Leaves /\ jobs' = jobs \ Mine
  BY <1>1, <1>2, <1>5, LeavingPhased
<1> QED
  BY <1>1, <1>3, <1>4, <1>5 DEF SubmitRelayOutStep, AfterStep

LEMMA PhasedRelayedOut == ASSUME Phased, RelayedOut PROVE Phased'
<1>1. RelayedOutStep /\ Typed'
  BY RelayedOutSteps, TypedRelayedOut DEF Phased
<1> QED
  BY <1>1, RaisingPhased, LeavingPhased DEF RelayedOutStep, AfterStep

LEMMA PhasedReclaim == ASSUME Phased, Reclaim PROVE Phased'
<1>1. ReclaimStep /\ Typed' /\ Typed
  BY ReclaimSteps, TypedReclaim DEF Phased
<1>2. driver.pc = "reclaim" /\ UNCHANGED <<cmd, store, run>>
  BY <1>1 DEF ReclaimStep
<1>3. CASE Raises
  BY <1>1, <1>2, <1>3, RaisingPhased
<1>4. CASE Advance /\ jobs' = jobs \ Mine
  BY <1>1, <1>2, <1>4, LeavingPhased
<1>5. CASE /\ driver.todo # <<>>
           /\ DriverAt("reclaim", driver.batch, Tail(driver.todo))
           /\ jobs' = (jobs \ Mine) \union {Rm(Compute, {In(Head(driver.todo))})}
  <2> DEFINE l == Head(driver.todo)
  <2> DEFINE k == Rm(Compute, {In(l)})
  <2>1. driver'.pc = "reclaim" /\ driver'.batch = driver.batch /\ driver'.todo = Tail(driver.todo)
    BY <1>5 DEF DriverAt
  <2>2. run > 0 /\ ~cmd.sameNode /\ ~cmd.skipReclaim
    BY <1>1, <1>2, Running DEF Typed, DriverOK
  <2>3. l \in LayerSet /\ ToSet(driver.todo) = {l} \union ToSet(Tail(driver.todo))
    BY <1>1, <1>5, DriverFields, Popped DEF Typed
  <2>4. /\ l \in BatchLayers(driver.batch) /\ ~NeededLater(l)
        /\ \A m \in ToSet(Tail(driver.todo)) : m \in BatchLayers(driver.batch) /\ ~NeededLater(m)
    BY <1>2, <2>3 DEF Phased, PhaseOK
  <2>5. IsRm(k) /\ k.owner = run /\ k.paths = {In(l)}
    BY <1>1, <2>2, <2>3, NewRm DEF Rm
  <2>6. jobs' = (jobs \ Mine) \union {k}
    BY <1>5
  <2> HIDE DEF k, l
  <2>7. Mine' = {k}
    BY <1>2, <2>5, <2>6, MineThen
  <2>8. MineOK(k)
    BY <2>4, <2>5 DEF MineOK, IsTrain, IsFeed, IsRm, IsReturn
  <2>9. MinesOK'
    BY <1>2, <2>1, <2>7, <2>8, MinesGrow DEF Together
  <2>10. /\ BatchLayers(driver.batch)' = BatchLayers(driver.batch)
         /\ \A m : NeededLater(m)' = NeededLater(m)
    BY <1>2, <2>1, SameBatch
  <2>11. PhaseOK'
    BY <2>1, <2>4, <2>5, <2>7, <2>10 DEF PhaseOK, IsRm
  <2> QED
    BY <1>1, <2>9, <2>11 DEF Phased
<1> QED
  BY <1>1, <1>3, <1>4, <1>5 DEF ReclaimStep

LEMMA PhasedKill == ASSUME Phased, KillDriver PROVE Phased'
<1>1. /\ UNCHANGED <<cmd, store, run>> /\ jobs' = {j \in jobs : Live(j)}
      /\ driver'.pc = "off" /\ driver'.batch = driver.batch
  BY KillStep DEF Phased, Typed, DriverAt
<1>2. Mine' \subseteq Mine
  BY <1>1 DEF Mine
<1>3. MinesOK'
  BY <1>1, <1>2, MinesGrow DEF Phased, MinesOK
<1>4. PhaseOK'
  BY <1>1 DEF PhaseOK
<1> QED
  BY <1>3, <1>4, TypedKill DEF Phased

LEMMA OldOnes == Typed => \A j \in jobs : j.owner # run + 1
  BY JobFields DEF Typed, JobsOK, AllOK, HistoryOK

LEMMA PhasedStart == ASSUME Phased, StartDriver PROVE Phased'
<1>1. run' = run + 1 /\ jobs' = {j \in jobs : Live(j)} /\ driver'.pc = "check"
  BY DEF StartDriver
<1>2. Mine' = {}
  BY <1>1, OldOnes DEF Mine, Phased
<1> QED
  BY <1>1, <1>2, EmptyHanded, TypedStart DEF Phased

LEMMA PhasedNext == ASSUME Phased, [Next]_vars PROVE Phased'
<1>1. CASE StartDriver
  BY <1>1, PhasedStart
<1>2. CASE DriverStep
  BY <1>2, PhasedCheck, PhasedMeasure, PhasedSubmitRelayIn, PhasedSubmitTrain, PhasedSubmitRelayOut,
     PhasedRelayedOut, PhasedReclaim DEF DriverStep
<1>3. CASE KillDriver
  BY <1>3, PhasedKill
<1>4. CASE \E j \in jobs : JobStep(j) \/ JobFails(j)
  BY <1>4, PhasedJob
<1>5. CASE Settled \/ UNCHANGED vars
  <2>1. UNCHANGED vars
    BY <1>5 DEF Settled
  <2>2. /\ UNCHANGED <<cmd, store, run>> /\ jobs' = jobs /\ driver' = driver
    BY <2>1 DEF vars
  <2>3. Mine' = Mine
    BY <2>2, MineThen
  <2>4. MinesOK'
    BY <2>2, <2>3, MinesGrow DEF Phased, MinesOK
  <2>5. /\ BatchLayers(driver.batch)' = BatchLayers(driver.batch)
        /\ \A m : NeededLater(m)' = NeededLater(m)
    BY <2>2, SameBatch
  <2>6. PhaseOK'
    BY <2>2, <2>3, <2>5 DEF Phased, PhaseOK, IsFeed, IsRm, IsTrain, IsReturn
  <2> QED
    BY <2>1, <2>4, <2>6, TypedSame DEF Phased
<1> QED
  BY <1>1, <1>2, <1>3, <1>4, <1>5 DEF Next

-----------------------------------------------------------------------------
(* The third, Sound: what the driver has behind it is saved. *)

\* The outputs of the batches that this run has behind it are where they are to be kept.
BatchSaved(i) == \A u \in ToRun(i) : Present(Saved, u)
Behind(i) ==
    \/ driver.pc = "done" \/ (Active /\ i < driver.batch)
    \/ i <= driver.batch /\ (driver.pc = "reclaim" \/ \E j \in Mine : IsRm(j))
SavedOK == (alone \/ ~Training) => \A i \in 1..LastBatch : Behind(i) => BatchSaved(i)

\* Without older jobs, nothing disturbs the return of the checkpoints.
ReturnSound(j) ==
    /\ j.pc \notin {"upTorn", "downTorn"}
    /\ j.pc \in {"staged", "down"} => \A u \in ToRun(driver.batch) : Present("staging", u)
    /\ j.pc \in {"clean", "ok"}    => \A u \in ToRun(driver.batch) : Present("storage", u)
AloneOK ==
    alone => /\ \A j \in jobs : j.owner = run
             /\ \A j \in jobs : IsReturn(j) => ReturnSound(j)

Sound == Phased /\ AloneOK /\ SavedOK

LEMMA SoundInit == ASSUME Init PROVE Sound
<1>1. jobs = {} /\ driver.pc = "off" /\ Mine = {}
  BY MineType DEF Init
<1>2. \A i : ~Behind(i)
  BY <1>1 DEF Behind, Active
<1> QED
  BY <1>1, <1>2, PhasedInit DEF Sound, AloneOK, SavedOK

LEMMA SavedStays ==
  ASSUME Typed, PresentStays, cmd' = cmd, NEW i \in 1..LastBatch, BatchSaved(i)
  PROVE  BatchSaved(i)'
<1>1. ToRun(i)' = ToRun(i) /\ Saved' = Saved
  BY SameCommand
<1>2. ToRun(i) \subseteq LayerSet /\ Saved \in Places \ {"staging"}
  BY BatchType DEF Typed, Saved, Places
<1>4. \A u \in LayerSet : Present(Saved, u) => Present(Saved, u)'
  BY <1>1, <1>2 DEF PresentStays, Present
<1> QED
  BY <1>1, <1>2, <1>4 DEF BatchSaved

LEMMA AloneMine ==
  ASSUME AloneOK, alone
  PROVE  jobs = Mine
  BY DEF AloneOK, Mine

\* Alone, a step concerns the checkpoints' return only if it is the return's own.
LEMMA ReturnsAlone ==
  ASSUME Sound, alone, NEW j \in jobs, NEW i \in jobs, IsReturn(i)
  PROVE  i = j
  BY AloneMine DEF Sound, Phased, MinesOK, Together, IsFeed, IsReturn

LEMMA CopiedPresent ==
  \A src, dst : src \notin {"none", "part"} => Copied(src, dst) \notin {"none", "part"}
  BY DEF Copied

LEMMA JobRuns ==
  ASSUME Typed, NEW j \in jobs
  PROVE  run > 0 /\ driver.batch \in 1..LastBatch
<1>1. j.owner \in 1..MaxRuns /\ j.owner <= run
  BY JobFields DEF Typed, JobsOK, AllOK
<1>2. run > 0
  BY <1>1, LayersAssumption DEF Typed, HistoryOK, LayersAssumption
<1> QED
  BY <1>2 DEF Typed, DriverOK

LEMMA ReturnOnward ==
  ASSUME Sound, alone, NEW j \in jobs, NEW k, StepEffect(j, k) \/ FailEffect(j, k), IsReturn(j)
  PROVE  ReturnSound(k)'
<1>0. /\ JobOK(j) /\ j.from = "compute" /\ j.to = "storage" /\ j.paths = OutPaths /\ IsRelay(j)
      /\ ReturnSound(j) /\ j \in Mine /\ MineOK(j) /\ ~IsTrain(j) /\ ~IsRm(j)
      /\ {"compute", "storage", "staging"} \subseteq Places
  BY Ends, AloneMine DEF Sound, Phased, Typed, JobsOK, AllOK, AloneOK, MinesOK, IsRelay, IsReturn, IsTrain, IsRm,
     Places
<1>1. UNCHANGED <<cmd, driver, run>> /\ driver.batch \in 1..LastBatch /\ driver'.batch = driver.batch
  BY <1>0, EffectUnchanged, JobRuns DEF Sound, Phased
<1>2. ToRun(driver.batch)' = ToRun(driver.batch)
  BY <1>1, SameBatch
<1>3. \A u \in ToRun(driver.batch) : Out(u) \in OutPaths /\ Out(u) \in Paths
  BY <1>1, BatchType, PathsApart DEF Sound, Phased, Typed
<1>4. \A u \in ToRun(driver.batch) : Present("compute", u)
  BY <1>0 DEF MineOK
<1>5. PresentStays
  BY PresentOnward DEF Sound, Phased
<1>6. CASE k.pc \in {"up", "stuck", "failed"}
  BY <1>6 DEF ReturnSound
<1>7. CASE k.pc = "staged" /\ RsyncedAt("compute", "staging", OutPaths)
  <2>1. \A u \in ToRun(driver.batch) : Present("staging", u)'
    BY <1>0, <1>3, <1>4, <1>7, CopiedPresent DEF RsyncedAt, Present
  <2> QED
    BY <1>2, <1>7, <2>1 DEF ReturnSound
<1>8. CASE k.pc = "down" /\ j.pc = "staged" /\ BegunAt("staging", "storage", OutPaths)
  <2>1. \A u \in ToRun(driver.batch) : Present("staging", u)'
    BY <1>0, <1>3, <1>8 DEF BegunAt, Present, ReturnSound
  <2> QED
    BY <1>2, <1>8, <2>1 DEF ReturnSound
<1>9. CASE k.pc = "clean" /\ j.pc = "down" /\ RsyncedAt("staging", "storage", OutPaths)
  <2>1. \A u \in ToRun(driver.batch) : Present("staging", u)
    BY <1>0, <1>9 DEF ReturnSound
  <2>2. \A u \in ToRun(driver.batch) : Present("storage", u)'
    BY <1>0, <1>3, <1>9, <2>1, CopiedPresent DEF RsyncedAt, Present
  <2> QED
    BY <1>2, <1>9, <2>2 DEF ReturnSound
<1>10. CASE k.pc = "ok" /\ j.pc = "clean" /\ RemovedAt("staging", OutPaths, "none")
  <2>1. \A u \in ToRun(driver.batch) : Present("storage", u)'
    BY <1>0, <1>3, <1>10 DEF RemovedAt, Present, ReturnSound
  <2> QED
    BY <1>2, <1>10, <2>1 DEF ReturnSound
<1>11. CASE RelayEffect(j, k)
  BY <1>0, <1>6, <1>7, <1>8, <1>9, <1>10, <1>11 DEF RelayEffect, UpBeginEffect, UpEndEffect, DownBeginEffect,
     DownEndEffect, CleanEffect, TornEffect, IsNow, ReturnSound
<1>12. CASE FailEffect(j, k)
  BY <1>6, <1>12 DEF FailEffect, IsNow
<1>13. CASE RmEffect(j, k) \/ TrainEffect(j, k)
  BY <1>0, <1>13 DEF RmEffect, TrainEffect, LoadTrainingEffect, SkipEffect, FitEffect, LoadLayerEffect,
     SaveBeginEffect, CheckpointEndEffect, LosesInputEffect, SaveEndEffect, TrainDoneEffect
<1> QED
  BY <1>11, <1>12, <1>13 DEF StepEffect

LEMMA SoundJob ==
  ASSUME Sound, NEW j \in jobs, JobStep(j) \/ JobFails(j)
  PROVE  Sound'
<1>1. PICK f : Heirs(f, j) /\ (StepEffect(j, f[j]) \/ FailEffect(j, f[j]))
  BY JobSteps, FailSteps DEF Sound, Phased
<1>2. UNCHANGED <<cmd, driver, run, alone>>
  BY <1>1, EffectUnchanged
<1>3. /\ \A k \in Mine' : \E i \in Mine : k = f[i]
      /\ \A k \in jobs' : \E i \in jobs : k = f[i]
      /\ \A i \in jobs : /\ f[i].owner = i.owner
                         /\ IsReturn(f[i]) <=> IsReturn(i)
                         /\ IsRm(f[i]) <=> IsRm(i)
  <2>1. \A k \in jobs' : \E i \in jobs : k = f[i]
    BY <1>1 DEF Heirs
  <2> QED
    BY <1>1, <1>2, <2>1, HeirFields
<1>4. PresentStays
  BY <1>1, PresentOnward DEF Sound, Phased
<1>5. SavedOK'
  <2>1. LastBatch' = LastBatch /\ Training' = Training
    BY <1>2, SameCommand
  <2>2. \A i : Behind(i)' => Behind(i)
    <3>1. (\E k \in Mine' : IsRm(k)) => \E i \in Mine : IsRm(i)
      BY <1>3, MineType
    <3> QED
      BY <1>2, <3>1 DEF Behind, Active, IsRm
  <2>3. \A i \in 1..LastBatch : BatchSaved(i) => BatchSaved(i)'
    BY <1>2, <1>4, SavedStays DEF Sound, Phased
  <2> QED
    BY <1>2, <2>1, <2>2, <2>3 DEF Sound, SavedOK
<1>6. AloneOK'
  <2> SUFFICES ASSUME alone
               PROVE  (\A k \in jobs' : k.owner = run) /\ (\A k \in jobs' : IsReturn(k) => ReturnSound(k)')
    BY <1>2 DEF AloneOK, IsReturn
  <2>1. \A k \in jobs' : k.owner = run
    BY <1>3 DEF Sound, AloneOK
  <2>2. ASSUME NEW k \in jobs', IsReturn(k)
        PROVE  ReturnSound(k)'
    <3>1. PICK i \in jobs : k = f[i] /\ IsReturn(i)
      BY <1>3, <2>2
    <3>2. i = j
      BY <3>1, ReturnsAlone
    <3> QED
      BY <1>1, <3>1, <3>2, ReturnOnward
  <2> QED
    BY <2>1, <2>2
<1>7. Phased'
  BY PhasedJob DEF Sound
<1> QED
  BY <1>5, <1>6, <1>7 DEF Sound

LEMMA SavedSame ==
  ASSUME UNCHANGED <<cmd, store>>
  PROVE  /\ LastBatch' = LastBatch /\ Training' = Training
         /\ \A i : BatchSaved(i)' = BatchSaved(i)
<1>1. \A i : ToRun(i)' = ToRun(i)
  BY SameCommand
<1>2. Saved' = Saved /\ LastBatch' = LastBatch /\ Training' = Training
  BY SameCommand
<1>3. \A u : Present(Saved, u)' = Present(Saved, u)
  BY <1>2 DEF Present
<1>4. \A i : BatchSaved(i)' = BatchSaved(i)
  BY <1>1, <1>3 DEF BatchSaved
<1> QED
  BY <1>2, <1>4

\* A step that leaves the store, and puts nothing behind the driver that is not saved.
LEMMA SoundBehind ==
  ASSUME Sound, UNCHANGED <<cmd, store, alone>>,
         alone \/ ~Training => \A i \in 1..LastBatch : Behind(i)' => Behind(i) \/ BatchSaved(i)
  PROVE  SavedOK'
  BY SavedSame DEF Sound, SavedOK

LEMMA SoundAlone ==
  ASSUME Sound, UNCHANGED <<cmd, store, run, alone>>,
         alone => \A k \in jobs' : k.owner = run /\ (IsReturn(k) =>
                      k.pc = "queued" \/ (k \in jobs /\ driver'.batch = driver.batch))
  PROVE  AloneOK'
<1> SUFFICES ASSUME alone
             PROVE  (\A k \in jobs' : k.owner = run) /\ (\A k \in jobs' : IsReturn(k) => ReturnSound(k)')
  BY DEF AloneOK, IsReturn
<1>1. \A k \in jobs' : k.owner = run
  OBVIOUS
<1>2. ASSUME NEW k \in jobs', IsReturn(k)
      PROVE  ReturnSound(k)'
  <2>1. CASE k.pc = "queued"
    BY <2>1 DEF ReturnSound
  <2>2. CASE k \in jobs /\ driver'.batch = driver.batch
    <3>1. ToRun(driver.batch)' = ToRun(driver.batch)
      BY <2>2, SameBatch
    <3>2. ReturnSound(k)
      BY <1>2, <2>2 DEF Sound, AloneOK
    <3> QED
      BY <3>1, <3>2 DEF ReturnSound, Present
  <2> QED
    BY <1>2, <2>1, <2>2
<1> QED
  BY <1>1, <1>2

LEMMA NoJobsAlone ==
  ASSUME Sound, UNCHANGED <<cmd, store, run, alone>>, jobs' = jobs \ Mine
  PROVE  AloneOK' /\ Mine' = {}
<1>1. alone => jobs' = {}
  BY AloneMine DEF Sound
<1> QED
  BY <1>1, SoundAlone, MineThen

LEMMA BatchNumber ==
  ASSUME Sound, driver.pc # "off"
  PROVE  driver.batch \in 1..LastBatch /\ LastBatch \in Nat
  BY Running, BatchType DEF Sound, Phased, Typed

\* What is behind the driver after it has gone past the batch.
LEMMA BehindAdvance ==
  ASSUME Sound, driver.pc # "off", Advance, Mine' = {}, NEW i \in 1..LastBatch, Behind(i)'
  PROVE  i <= driver.batch
<1>1. driver.batch \in 1..LastBatch /\ LastBatch \in Nat
  BY BatchNumber
<1>2. CASE driver.batch = LastBatch
  BY <1>1, <1>2
<1>3. CASE driver.batch # LastBatch
  <2>1. driver'.pc = "check" /\ driver'.batch = driver.batch + 1
    BY <1>3 DEF Advance, DriverAt
  <2>2. i < driver.batch + 1
    BY <2>1 DEF Behind
  <2> QED
    BY <1>1, <2>2
<1> QED
  BY <1>2, <1>3

LEMMA BehindEarlier ==
  ASSUME Sound, Active, driver.pc # "done", NEW i \in 1..LastBatch, i <= driver.batch
  PROVE  i = driver.batch \/ Behind(i)
<1>1. driver.batch \in 1..LastBatch
  BY BatchNumber DEF Active
<1>2. i = driver.batch \/ i < driver.batch
  BY <1>1
<1> QED
  BY <1>2 DEF Behind

LEMMA SoundCheck == ASSUME Sound, CheckBatch PROVE Sound'
<1>1. CheckStep /\ Phased'
  BY CheckSteps, PhasedCheck DEF Sound, Phased, Typed
<1>2. /\ driver.pc = "check" /\ jobs' = jobs /\ UNCHANGED <<cmd, store, run, alone>>
      /\ Active /\ driver.pc # "off" /\ driver.pc # "done"
  BY <1>1 DEF CheckStep, Active
<1>3. Mine = {} /\ Mine' = {}
  BY <1>2, MineThen DEF Sound, Phased, PhaseOK
<1>4. AloneOK'
  <2>1. alone => jobs = {}
    BY <1>3, AloneMine DEF Sound
  <2> QED
    BY <1>2, <2>1, SoundAlone
<1>5. ASSUME alone \/ ~Training, NEW i \in 1..LastBatch, Behind(i)'
      PROVE  Behind(i) \/ BatchSaved(i)
  <2>1. CASE /\ ToRun(driver.batch) = {} \/ Complete(driver.batch)
             /\ Advance
    <3>1. BatchSaved(driver.batch)
      BY <2>1 DEF BatchSaved, Complete, CheckpointsExist, ManifestsComplete, SamplesExist, Saved, Training, Pairs
    <3> QED
      BY <1>2, <1>3, <1>5, <2>1, <3>1, BehindAdvance, BehindEarlier
  <2>2. CASE DriverAt("measure", driver.batch, driver.todo)
    BY <1>2, <1>3, <1>5, <2>2 DEF DriverAt, Behind, Active
  <2> QED
    BY <1>1, <2>1, <2>2 DEF CheckStep
<1>6. SavedOK'
  BY <1>2, <1>5, SoundBehind
<1> QED
  BY <1>1, <1>4, <1>6 DEF Sound

LEMMA SoundMeasure == ASSUME Sound, Measure PROVE Sound'
<1>1. MeasureStep /\ Phased'
  BY MeasureSteps, PhasedMeasure DEF Sound, Phased
<1>2. /\ driver.pc = "measure" /\ jobs' = jobs /\ UNCHANGED <<cmd, store, run, alone>>
      /\ driver'.pc = "relayIn" /\ driver'.batch = driver.batch
  BY <1>1 DEF MeasureStep, DriverAt
<1>3. Mine = {} /\ Mine' = {}
  BY <1>2, MineThen DEF Sound, Phased, PhaseOK
<1>4. AloneOK'
  <2>1. alone => jobs = {}
    BY <1>3, AloneMine DEF Sound
  <2> QED
    BY <1>2, <2>1, SoundAlone
<1>5. \A i : Behind(i)' => Behind(i)
  BY <1>2, <1>3 DEF Behind, Active
<1> QED
  BY <1>1, <1>2, <1>4, <1>5, SoundBehind DEF Sound

LEMMA SoundSubmitRelayIn == ASSUME Sound, SubmitRelayIn PROVE Sound'
<1>1. SubmitRelayInStep /\ Phased'
  BY SubmitRelayInSteps, PhasedSubmitRelayIn DEF Sound, Phased
<1> DEFINE k == Relay("storage", Compute, {In(Head(driver.todo))})
<1>2. /\ driver.pc = "relayIn" /\ jobs' = jobs \union {k} /\ UNCHANGED <<cmd, store, run, alone>>
      /\ driver'.pc = "relayIn" /\ driver'.batch = driver.batch
  BY <1>1 DEF SubmitRelayInStep, DriverAt
<1>3. k.owner = run /\ k.pc = "queued"
  BY DEF Relay
<1> HIDE DEF k
<1>4. AloneOK'
  BY <1>2, <1>3, SoundAlone DEF Sound, AloneOK
<1>5. \A m \in Mine' : IsFeed(m) /\ ~IsRm(m)
  BY <1>1, <1>2 DEF Phased, PhaseOK, IsFeed, IsRm
<1>6. \A i : Behind(i)' => Behind(i)
  BY <1>2, <1>5 DEF Behind, Active, IsRm
<1> QED
  BY <1>1, <1>2, <1>4, <1>6, SoundBehind DEF Sound

LEMMA RaisingSound ==
  ASSUME Sound, Phased', UNCHANGED <<cmd, store, run, alone>>, Raises
  PROVE  Sound'
<1>1. AloneOK' /\ Mine' = {}
  BY NoJobsAlone DEF Raises
<1>2. \A i : ~Behind(i)'
  BY <1>1 DEF Raises, DriverAt, Behind, Active
<1> QED
  BY <1>1, <1>2, SoundBehind DEF Sound

LEMMA LeavingSound ==
  ASSUME Sound, Phased', UNCHANGED <<cmd, store, run, alone>>, Leaves \/ Advance, jobs' = jobs \ Mine,
         Active, driver.pc # "done",
         alone \/ ~Training => BatchSaved(driver.batch)
  PROVE  Sound'
<1>1. AloneOK' /\ Mine' = {}
  BY NoJobsAlone
<1>2. driver.pc # "off"
  BY DEF Active
<1>3. ASSUME NEW i \in 1..LastBatch, Behind(i)'
      PROVE  i <= driver.batch
  <2>1. CASE Advance
    BY <1>1, <1>2, <1>3, <2>1, BehindAdvance
  <2>2. CASE ~Advance
    <3>1. driver'.pc = "reclaim" /\ driver'.batch = driver.batch
      BY <2>2 DEF Leaves, DriverAt
    <3>2. i < driver.batch \/ i <= driver.batch
      BY <1>3, <3>1 DEF Behind
    <3>3. driver.batch \in 1..LastBatch
      BY <1>2, BatchNumber
    <3> QED
      BY <3>2, <3>3
  <2> QED
    BY <2>1, <2>2
<1>4. alone \/ ~Training => \A i \in 1..LastBatch : Behind(i)' => Behind(i) \/ BatchSaved(i)
  BY <1>3, BehindEarlier
<1> QED
  BY <1>1, <1>4, SoundBehind DEF Sound

LEMMA SoundSubmitTrain == ASSUME Sound, SubmitTrain PROVE Sound'
<1>1. SubmitTrainStep /\ Phased'
  BY SubmitTrainSteps, PhasedSubmitTrain DEF Sound, Phased, Typed
<1>2. driver.pc = "relayIn" /\ UNCHANGED <<cmd, store, run, alone>>
  BY <1>1 DEF SubmitTrainStep, AfterStep
<1>3. CASE Raises
  BY <1>1, <1>2, <1>3, RaisingSound
<1>4. CASE DriverAt("train", driver.batch, driver.todo) /\ jobs' = (jobs \ Mine) \union {TrainJob}
  <2>1. driver'.pc = "train" /\ driver'.batch = driver.batch
    BY <1>4 DEF DriverAt
  <2>2. IsTrain(TrainJob) /\ TrainJob.owner = run
    BY <1>2, Running, NewTrain DEF Sound, Phased
  <2>3. AloneOK'
    BY <1>2, <1>4, <2>2, AloneMine, SoundAlone DEF Sound, IsTrain, IsReturn
  <2>4. \A m \in Mine' : IsTrain(m) /\ ~IsRm(m)
    BY <1>1, <2>1 DEF Phased, PhaseOK, IsTrain, IsRm
  <2>5. \A i : Behind(i)' => Behind(i)
    BY <1>2, <2>1, <2>4 DEF Behind, Active, IsRm
  <2> QED
    BY <1>1, <1>2, <2>3, <2>5, SoundBehind DEF Sound
<1> QED
  BY <1>1, <1>3, <1>4 DEF SubmitTrainStep, AfterStep

LEMMA SoundSubmitRelayOut == ASSUME Sound, SubmitRelayOut PROVE Sound'
<1>1. SubmitRelayOutStep /\ Phased'
  BY SubmitRelayOutSteps, PhasedSubmitRelayOut DEF Sound, Phased
<1>2. driver.pc = "train" /\ UNCHANGED <<cmd, store, run, alone>> /\ Active /\ driver.pc # "done"
  BY <1>1 DEF SubmitRelayOutStep, AfterStep, Active
<1>3. CASE Raises
  BY <1>1, <1>2, <1>3, RaisingSound
<1>4. CASE /\ Training /\ ~cmd.sameNode
           /\ DriverAt("relayOut", driver.batch, driver.todo)
           /\ jobs' = (jobs \ Mine) \union {Relay(Compute, "storage", OutPaths)}
  <2>1. driver'.pc = "relayOut" /\ driver'.batch = driver.batch
    BY <1>4 DEF DriverAt
  <2> DEFINE k == Relay(Compute, "storage", OutPaths)
  <2>2. k.owner = run /\ k.pc = "queued" /\ jobs' = (jobs \ Mine) \union {k}
    BY <1>4 DEF Relay
  <2> HIDE DEF k
  <2>3. AloneOK'
    BY <1>2, <2>2, AloneMine, SoundAlone DEF Sound
  <2>4. \A m \in Mine' : IsReturn(m) /\ ~IsRm(m)
    BY <1>1, <2>1 DEF Phased, PhaseOK, IsReturn, IsRm
  <2>5. \A i : Behind(i)' => Behind(i)
    BY <1>2, <2>1, <2>4 DEF Behind, Active, IsRm
  <2> QED
    BY <1>1, <1>2, <2>3, <2>5, SoundBehind DEF Sound
<1>5. CASE ~(Training /\ ~cmd.sameNode) /\ Succeeded /\ Leaves /\ jobs' = jobs \ Mine
  <2>1. Saved = Written
    BY <1>5 DEF Saved, Written, Compute
  <2>2. BatchSaved(driver.batch)
    BY <1>2, <1>5, <2>1, TrainedAll DEF Sound, BatchSaved
  <2> QED
    BY <1>1, <1>2, <1>5, <2>2, LeavingSound
<1> QED
  BY <1>1, <1>3, <1>4, <1>5 DEF SubmitRelayOutStep, AfterStep

LEMMA SoundRelayedOut == ASSUME Sound, RelayedOut PROVE Sound'
<1>1. RelayedOutStep /\ Phased'
  BY RelayedOutSteps, PhasedRelayedOut DEF Sound, Phased
<1>2. driver.pc = "relayOut" /\ UNCHANGED <<cmd, store, run, alone>> /\ Active /\ driver.pc # "done"
  BY <1>1 DEF RelayedOutStep, AfterStep, Active
<1>3. CASE Raises
  BY <1>1, <1>2, <1>3, RaisingSound
<1>4. CASE Succeeded /\ Leaves /\ jobs' = jobs \ Mine
  <2>1. PICK j \in Mine : IsReturn(j) /\ j.pc = "ok" /\ j \in jobs
    BY <1>2, <1>4, MineType DEF Sound, Phased, PhaseOK, Succeeded
  <2>2. Training
    BY <2>1, Ends DEF Sound, Phased, Typed, JobsOK, AllOK
  <2>3. alone => BatchSaved(driver.batch)
    BY <2>1, <2>2 DEF Sound, AloneOK, ReturnSound, BatchSaved, Saved
  <2> QED
    BY <1>1, <1>2, <1>4, <2>2, <2>3, LeavingSound
<1> QED
  BY <1>1, <1>3, <1>4 DEF RelayedOutStep, AfterStep

LEMMA SoundReclaim == ASSUME Sound, Reclaim PROVE Sound'
<1>1. ReclaimStep /\ Phased'
  BY ReclaimSteps, PhasedReclaim DEF Sound, Phased
<1>2. driver.pc = "reclaim" /\ UNCHANGED <<cmd, store, run, alone>> /\ Active /\ driver.pc # "done"
  BY <1>1 DEF ReclaimStep, Active
<1>3. CASE Raises
  BY <1>1, <1>2, <1>3, RaisingSound
<1>0. driver.batch \in 1..LastBatch
  BY <1>2, BatchNumber
<1>b. \A i \in 1..LastBatch : i <= driver.batch => Behind(i)
  BY <1>2 DEF Behind
<1>4. CASE Advance /\ jobs' = jobs \ Mine
  <2>1. alone \/ ~Training => BatchSaved(driver.batch)
    BY <1>0, <1>b DEF Sound, SavedOK
  <2> QED
    BY <1>1, <1>2, <1>4, <2>1, LeavingSound
<1>5. CASE /\ DriverAt("reclaim", driver.batch, Tail(driver.todo))
           /\ jobs' = (jobs \ Mine) \union {Rm(Compute, {In(Head(driver.todo))})}
  <2> DEFINE k == Rm(Compute, {In(Head(driver.todo))})
  <2>1. k.owner = run /\ k.kind = "rm" /\ jobs' = (jobs \ Mine) \union {k}
    BY <1>5 DEF Rm
  <2> HIDE DEF k
  <2>2. AloneOK'
    BY <1>2, <2>1, AloneMine, SoundAlone DEF Sound, IsReturn
  <2>3. driver'.batch = driver.batch /\ driver'.pc = "reclaim"
    BY <1>5 DEF DriverAt
  <2>4. \A i \in 1..LastBatch : Behind(i)' => i <= driver.batch
    BY <1>0, <2>3 DEF Behind, Active
  <2>5. \A i \in 1..LastBatch : Behind(i)' => Behind(i)
    BY <1>b, <2>4
  <2> QED
    BY <1>1, <1>2, <2>2, <2>5, SoundBehind DEF Sound
<1> QED
  BY <1>1, <1>3, <1>4, <1>5 DEF ReclaimStep

LEMMA SoundKill == ASSUME Sound, KillDriver PROVE Sound'
<1>1. /\ UNCHANGED <<cmd, store, run, alone>> /\ jobs' = {j \in jobs : Live(j)}
      /\ driver'.pc = "off" /\ driver'.batch = driver.batch /\ Phased'
  BY KillStep, PhasedKill DEF Sound, Phased, Typed, DriverAt
<1>2. Mine' \subseteq Mine /\ jobs' \subseteq jobs
  BY <1>1 DEF Mine
<1>3. \A i : Behind(i)' => Behind(i)
  BY <1>1, <1>2 DEF Behind, Active, IsRm
<1>4. AloneOK'
  BY <1>1, <1>2, SoundAlone DEF Sound, AloneOK
<1> QED
  BY <1>1, <1>3, <1>4, SoundBehind DEF Sound

LEMMA SoundStart == ASSUME Sound, StartDriver PROVE Sound'
<1>1. /\ UNCHANGED <<cmd, store>> /\ run' = run + 1 /\ jobs' = {j \in jobs : Live(j)}
      /\ driver'.pc = "check" /\ driver'.batch = 1 /\ alone' = ({j \in jobs : Live(j)} = {})
  BY DEF StartDriver
<1>2. Phased' /\ Mine' = {}
  BY <1>1, PhasedStart, OldOnes DEF Sound, Phased, Mine
<1>3. \A i \in 1..LastBatch : ~Behind(i)'
  BY <1>1, <1>2 DEF Behind
<1>4. SavedOK'
  BY <1>1, <1>3, SavedSame DEF SavedOK
<1>5. AloneOK'
  BY <1>1 DEF AloneOK
<1> QED
  BY <1>2, <1>4, <1>5 DEF Sound

LEMMA SoundSame == ASSUME Sound, UNCHANGED vars PROVE Sound'
<1>1. /\ UNCHANGED <<cmd, store, run, alone>> /\ jobs' = jobs /\ driver' = driver /\ Mine' = Mine
  BY MineThen DEF vars
<1>2. \A i : Behind(i)' => Behind(i)
  BY <1>1 DEF Behind, Active, IsRm
<1>3. AloneOK'
  BY <1>1, SoundAlone DEF Sound, AloneOK
<1>4. Phased'
  BY PhasedNext DEF Sound
<1> QED
  BY <1>1, <1>2, <1>3, <1>4, SoundBehind DEF Sound

LEMMA SoundNext == ASSUME Sound, [Next]_vars PROVE Sound'
<1>1. CASE StartDriver
  BY <1>1, SoundStart
<1>2. CASE DriverStep
  BY <1>2, SoundCheck, SoundMeasure, SoundSubmitRelayIn, SoundSubmitTrain, SoundSubmitRelayOut,
     SoundRelayedOut, SoundReclaim DEF DriverStep
<1>3. CASE KillDriver
  BY <1>3, SoundKill
<1>4. CASE \E j \in jobs : JobStep(j) \/ JobFails(j)
  BY <1>4, SoundJob
<1>5. CASE Settled \/ UNCHANGED vars
  BY <1>5, SoundSame DEF Settled
<1> QED
  BY <1>1, <1>2, <1>3, <1>4, <1>5 DEF Next

LEMMA AlwaysSound == Spec => []Sound
  BY SoundInit, SoundNext, PTL DEF Spec

-----------------------------------------------------------------------------
\* Every unit is in a batch, and the layers it needs are that batch's.
LEMMA UnitBatched ==
  ASSUME HistoryOK, NEW u \in LayerSet, u \in Units(cmd)
  PROVE  \E i \in 1..LastBatch : u \in Batch(i) /\ Needs(cmd, {u}) \subseteq BatchLayers(i)
<1>1. Batches[cmd] = MakeBatches(cmd)
  BY CommandType DEF Batches
<1>2. Made(cmd, N, Batches[cmd])
  BY <1>1, BatchesMade
<1>3. PICK m \in 1..N : Layers[m] = u
  BY LayersInjective
<1>4. PICK i \in 1..LastBatch : u \in Batch(i)
  BY <1>2, <1>3 DEF Made, LastBatch, Batch
<1>5. Needs(cmd, {u}) \subseteq BatchLayers(i)
  BY <1>4 DEF Needs, BatchLayers
<1> QED
  BY <1>4, <1>5

\* The only step that takes a layer from the compute node is the reclaiming job's.
LEMMA OnlyRmTakes ==
  ASSUME Typed, NEW j \in jobs, NEW k, StepEffect(j, k) \/ FailEffect(j, k), NEW l \in LayerSet,
         store["compute"][In(l)] = "whole", store'["compute"][In(l)] # "whole"
  PROVE  IsRm(j) /\ In(l) \in j.paths
<1>0. /\ "compute" \in Places /\ In(l) \in Paths /\ \A m : In(l) # Out(m)
      /\ \A pl \in Places : store[pl][In(l)] \in InputValues
      /\ JobOK(j) /\ j.from \in Places /\ j.to \in Places /\ "staging" \in Places
  BY PathsApart, JobFields DEF Typed, StoreOK, JobsOK, AllOK, Places
<1>1. \A from, to, ps : ~BegunAt(from, to, ps)
  BY <1>0 DEF BegunAt
<1>2. \A from \in Places : \A to, ps : ~RsyncedAt(from, to, ps)
  BY <1>0 DEF RsyncedAt, Copied, InputValues
<1>3. \A m, v : ~SavedAt(m, v)
  BY <1>0 DEF SavedAt
<1>4. \A ps, v : ~RemovedAt("staging", ps, v)
  BY <1>0 DEF RemovedAt
<1>5. store' # store
  OBVIOUS
<1>6. \A ps, v : RemovedAt("compute", ps, v) => In(l) \in ps
  BY <1>0 DEF RemovedAt
<1>7. ~RelayEffect(j, k)
  BY <1>0, <1>1, <1>2, <1>4, <1>5 DEF RelayEffect, UpBeginEffect, UpEndEffect, DownBeginEffect,
     DownEndEffect, CleanEffect, TornEffect
<1>8. ~TrainEffect(j, k)
  BY <1>3, <1>5 DEF TrainEffect, LoadTrainingEffect, SkipEffect, FitEffect, LoadLayerEffect,
     SaveBeginEffect, CheckpointEndEffect, LosesInputEffect, SaveEndEffect, TrainDoneEffect
<1>9. ~FailEffect(j, k)
  BY <1>0, <1>2, <1>5 DEF FailEffect, FailStep
<1>10. RmEffect(j, k) => IsRm(j) /\ In(l) \in j.paths
  BY <1>6 DEF RmEffect
<1> QED
  BY <1>7, <1>8, <1>9, <1>10 DEF StepEffect

LEMMA OnlyJobsStore ==
  ASSUME [Next]_vars, store' # store
  PROVE  \E j \in jobs : JobStep(j) \/ JobFails(j)
  BY DEF Next, vars, StartDriver, DriverStep, CheckBatch, Measure, SubmitRelayIn, SubmitTrain, SubmitRelayOut,
     RelayedOut, Reclaim, AfterWait, KillDriver, Settled

ReclaimsSaved ==
    \A u \in cmd.wanted \cap Units(cmd) : \A l \in Needs(cmd, {u}) :
         (alone /\ store["compute"][In(l)] = "whole" /\ store'["compute"][In(l)] # "whole")
            => Present(Saved, u)

LEMMA ReclaimingSaved == ASSUME Sound, [Next]_vars PROVE ReclaimsSaved
<1> SUFFICES ASSUME NEW u \in cmd.wanted \cap Units(cmd), NEW l \in Needs(cmd, {u}), alone,
                    store["compute"][In(l)] = "whole", store'["compute"][In(l)] # "whole"
             PROVE  Present(Saved, u)
  BY DEF ReclaimsSaved
<1>0. Typed /\ HistoryOK
  BY DEF Sound, Phased, Typed
<1>1. u \in LayerSet /\ l \in LayerSet
  <2>1. u \in LayerSet
    BY <1>0, CommandType
  <2> QED
    BY <2>1, NeedsType
<1>2. PICK i \in 1..LastBatch : u \in Batch(i) /\ Needs(cmd, {u}) \subseteq BatchLayers(i)
  BY <1>0, <1>1, UnitBatched
<1>3. PICK j \in jobs : JobStep(j) \/ JobFails(j)
  BY OnlyJobsStore
<1>4. IsRm(j) /\ In(l) \in j.paths
  BY <1>0, <1>1, <1>3, JobSteps, FailSteps, OnlyRmTakes
<1>5. j \in Mine /\ MineOK(j)
  BY AloneMine DEF Sound, Phased, MinesOK
<1>6. ~NeededLater(l)
  BY <1>4, <1>5, PathsApart DEF MineOK
<1>7. driver.batch \in 1..LastBatch /\ LastBatch \in Nat
  BY <1>0, JobRuns, BatchType
<1>8. i <= driver.batch
  <2>1. i \notin (driver.batch + 1)..LastBatch
    BY <1>2, <1>6 DEF NeededLater
  <2> QED
    BY <1>7, <2>1
<1>9. Behind(i)
  BY <1>4, <1>5, <1>8 DEF Behind
<1>10. BatchSaved(i)
  BY <1>9 DEF Sound, SavedOK
<1> QED
  BY <1>2, <1>10 DEF BatchSaved, ToRun

\* When no older run's job is left, what the reclaiming takes from the compute node is
\* input of outputs that are all kept already.
THEOREM ReclaimsSavedOnly == Spec => ReclaimsOnlySaved
<1>1. Sound /\ [Next]_vars => [ReclaimsSaved]_vars
  BY ReclaimingSaved
<1> QED
  BY <1>1, AlwaysSound, PTL DEF Spec, ReclaimsOnlySaved, ReclaimsSaved

-----------------------------------------------------------------------------
(* Finished: what the checkpoints that are there are worth. *)

\* Checkpoints that are not those of finished training, and a job that makes them.
Unfinished == {"torn", "periodic"}
AtWork(j, l) == IsTrain(j) /\ j.pc \in AtUnit /\ Head(j.rest) = l

\* Unless its training has been broken off, a layer's checkpoints are unfinished only
\* where, and while, a job of this run trains it; older jobs keep away from it.
WholeOK(l) ==
    /\ \A pl \in Places : store[pl][Out(l)] \in Unfinished =>
          pl = Written /\ \E j \in Mine : AtWork(j, l)
    /\ \A j \in jobs : j.owner # run =>
          /\ l \notin ToSet(j.rest)
          /\ IsReturn(j) => store["compute"][Out(l)] = "whole"
    /\ \A j \in Mine : AtWork(j, l) => store[Written][Out(l)] # "whole"
FinishedOK == \A pl \in Places : \A l \in LayerSet : store[pl][Out(l)] \notin Unfinished
CutOK ==
    /\ Training  => \A l \in LayerSet \ cut : WholeOK(l)
    /\ ~Training => FinishedOK

Finished == Sound /\ CutOK

LEMMA OutCells ==
  ASSUME Typed, NEW l \in LayerSet
  PROVE  /\ Out(l) \in Paths /\ Out(l) \in OutPaths
         /\ \A m : In(m) # Out(l)
         /\ \A m : Out(m) = Out(l) => m = l
         /\ \A pl \in Places : store[pl][Out(l)] \in Values
  BY PathsApart DEF Typed, StoreOK

\* What a step of job j, k after it, does to the checkpoints of layer l.
OutKept(l) == \A pl \in Places : store'[pl][Out(l)] = store[pl][Out(l)]
\* A copy into place to, from place from, or from nowhere.
OutCopied(l, from, to) ==
    /\ \A pl \in Places : pl # to => store'[pl][Out(l)] = store[pl][Out(l)]
    /\ store'[to][Out(l)] \in {"none", "part", store[from][Out(l)], store[to][Out(l)]}
OutSaved(l, v) ==
    \A pl \in Places : store'[pl][Out(l)] = IF pl = Written THEN v ELSE store[pl][Out(l)]
OutStep(j, k, l) ==
    \/ OutKept(l)
    \/ IsReturn(j) /\ (OutCopied(l, "compute", "staging") \/ OutCopied(l, "staging", "storage"))
    \/ AtWork(j, l) /\ (OutSaved(l, "part") \/ (Training /\ (OutSaved(l, "torn") \/ OutSaved(l, "periodic"))))
         /\ AtWork(k, l)
    \/ AtWork(j, l) /\ OutSaved(l, "whole") /\ (~Training \/ k.pc = "next")

LEMMA OutCopies ==
  ASSUME Typed, NEW l \in LayerSet
  PROVE  /\ \A from, to \in Places : \A ps : BegunAt(from, to, ps) => OutCopied(l, from, to)
         /\ \A from, to \in Places : \A ps : RsyncedAt(from, to, ps) => OutCopied(l, from, to)
         /\ \A from, to \in Places : \A ps : Out(l) \notin ps =>
              (BegunAt(from, to, ps) \/ RsyncedAt(from, to, ps) => OutKept(l))
         /\ \A place \in Places : \A ps : \A v : Out(l) \notin ps /\ RemovedAt(place, ps, v) => OutKept(l)
         /\ \A ps : RemovedAt("staging", ps, "none") => OutCopied(l, "compute", "staging")
         /\ \A v : SavedAt(l, v) => OutSaved(l, v)
         /\ \A m \in LayerSet : \A v : m # l /\ SavedAt(m, v) => OutKept(l)
         /\ store' = store => OutKept(l)
<1>0. /\ Out(l) \in Paths /\ \A m : Out(m) = Out(l) => m = l
      /\ "staging" \in Places /\ "compute" \in Places
  BY OutCells DEF Places
<1>1. \A from, to \in Places : \A ps : BegunAt(from, to, ps) => OutCopied(l, from, to)
  BY <1>0 DEF BegunAt, OutCopied
<1>2. \A from, to \in Places : \A ps : RsyncedAt(from, to, ps) => OutCopied(l, from, to)
  BY <1>0 DEF RsyncedAt, OutCopied, Copied
<1>3. \A from, to \in Places : \A ps : Out(l) \notin ps =>
              (BegunAt(from, to, ps) \/ RsyncedAt(from, to, ps) => OutKept(l))
  BY <1>0 DEF BegunAt, RsyncedAt, OutKept
<1>4. \A place \in Places : \A ps : \A v : Out(l) \notin ps /\ RemovedAt(place, ps, v) => OutKept(l)
  BY <1>0 DEF RemovedAt, OutKept
<1>5. \A ps : RemovedAt("staging", ps, "none") => OutCopied(l, "compute", "staging")
  BY <1>0 DEF RemovedAt, OutCopied
<1>6. \A v : SavedAt(l, v) => OutSaved(l, v)
  BY <1>0 DEF SavedAt, OutSaved
<1>7. \A m \in LayerSet : \A v : m # l /\ SavedAt(m, v) => OutKept(l)
  BY <1>0 DEF SavedAt, OutKept
<1> QED
  BY <1>1, <1>2, <1>3, <1>4, <1>5, <1>6, <1>7 DEF OutKept

LEMMA OutSteps ==
  ASSUME Typed, NEW j \in jobs, NEW k, StepEffect(j, k) \/ FailEffect(j, k), NEW l \in LayerSet
  PROVE  OutStep(j, k, l)
<1>0. /\ JobOK(j) /\ HistoryOK /\ j.from \in Places /\ j.to \in Places
      /\ {"staging", "compute", "storage"} \subseteq Places
      /\ \A m : In(m) # Out(l)
      /\ j.rest # <<>> => Head(j.rest) \in LayerSet
  BY JobFields, OutCells, Popped DEF Typed, JobsOK, AllOK, Places
<1>1. CASE IsRelay(j)
  <2>1. IsFeed(j) => Out(l) \notin j.paths
    BY <1>0, Ends
  <2>2. IsReturn(j) => j.from = "compute" /\ j.to = "storage"
    BY <1>0, Ends
  <2>3. IsFeed(j) \/ IsReturn(j)
    BY <1>0, <1>1, Ends
  <2>4. CASE store' = store
    BY <2>4, OutCopies DEF OutStep
  <2>5. CASE \E ps \in SUBSET j.paths : BegunAt(j.from, "staging", ps) \/ RsyncedAt(j.from, "staging", ps)
    BY <1>0, <2>1, <2>2, <2>3, <2>5, OutCopies DEF OutStep
  <2>6. CASE \E ps \in SUBSET j.paths : BegunAt("staging", j.to, ps) \/ RsyncedAt("staging", j.to, ps)
    BY <1>0, <2>1, <2>2, <2>3, <2>6, OutCopies DEF OutStep
  <2>7. CASE RemovedAt("staging", j.paths, "none")
    BY <1>0, <2>1, <2>3, <2>7, OutCopies DEF OutStep
  <2>8. CASE RelayEffect(j, k)
    BY <2>4, <2>5, <2>6, <2>7, <2>8 DEF RelayEffect, UpBeginEffect, UpEndEffect, DownBeginEffect,
     DownEndEffect, CleanEffect, TornEffect
  <2>9. CASE FailEffect(j, k)
    BY <2>4, <2>5, <2>6, <2>9 DEF FailEffect, FailStep
  <2>10. ~RmEffect(j, k) /\ ~TrainEffect(j, k)
    BY <1>1 DEF IsRelay, IsRm, IsTrain, RmEffect, TrainEffect, LoadTrainingEffect, SkipEffect, FitEffect,
     LoadLayerEffect, SaveBeginEffect, CheckpointEndEffect, LosesInputEffect, SaveEndEffect, TrainDoneEffect
  <2> QED
    BY <2>8, <2>9, <2>10 DEF StepEffect
<1>2. CASE IsRm(j)
  <2>1. Out(l) \notin j.paths
    BY <1>0, <1>2, Ends
  <2>2. CASE RmEffect(j, k)
    BY <1>0, <2>1, <2>2, OutCopies DEF RmEffect, OutStep
  <2>3. CASE FailEffect(j, k)
    <3>1. store' = store
      BY <1>0, <1>2, <2>3, Ends DEF FailEffect, FailStep, IsRm, IsRelay
    <3> QED
      BY <3>1, OutCopies DEF OutStep
  <2>4. ~RelayEffect(j, k) /\ ~TrainEffect(j, k)
    BY <1>2 DEF IsRelay, IsRm, IsTrain, RelayEffect, UpBeginEffect, UpEndEffect, DownBeginEffect,
     DownEndEffect, CleanEffect, TornEffect, TrainEffect, LoadTrainingEffect, SkipEffect, FitEffect,
     LoadLayerEffect, SaveBeginEffect, CheckpointEndEffect, LosesInputEffect, SaveEndEffect, TrainDoneEffect
  <2> QED
    BY <2>2, <2>3, <2>4 DEF StepEffect
<1>3. CASE IsTrain(j)
  <2>1. CASE store' = store
    BY <2>1, OutCopies DEF OutStep
  <2>2. CASE \E v : SavedAt(Head(j.rest), v) /\ j.rest # <<>> /\ Head(j.rest) # l
    BY <1>0, <2>2, OutCopies DEF OutStep
  <2>3. CASE SaveBeginEffect(j, k) /\ Head(j.rest) = l
    <3>1. AtWork(j, l) /\ AtWork(k, l)
      BY <1>3, <2>3 DEF SaveBeginEffect, AtWork, AtUnit, IsNow, IsTrain
    <3>2. HalfSaved(l) = "part" \/ (Training /\ HalfSaved(l) = "torn") \/ (~Training /\ HalfSaved(l) = "whole")
      BY DEF HalfSaved
    <3>3. OutSaved(l, HalfSaved(l))
      BY <2>3, OutCopies DEF SaveBeginEffect
    <3> QED
      BY <3>1, <3>2, <3>3 DEF OutStep
  <2>4. CASE CheckpointEndEffect(j, k) /\ Head(j.rest) = l
    <3>1. AtWork(j, l) /\ AtWork(k, l)
      BY <1>3, <2>4 DEF CheckpointEndEffect, AtWork, AtUnit, IsNow, IsTrain
    <3> QED
      BY <2>4, <3>1, OutCopies DEF CheckpointEndEffect, OutStep
  <2>5. CASE SaveEndEffect(j, k) /\ Head(j.rest) = l
    <3>1. AtWork(j, l) /\ k.pc = "next"
      BY <1>3, <2>5 DEF SaveEndEffect, AtWork, AtUnit, IsNow
    <3> QED
      BY <2>5, <3>1, OutCopies DEF SaveEndEffect, OutStep
  <2>6. CASE TrainEffect(j, k)
    BY <2>1, <2>2, <2>3, <2>4, <2>5, <2>6 DEF TrainEffect, LoadTrainingEffect, SkipEffect, FitEffect,
     LoadLayerEffect, SaveBeginEffect, CheckpointEndEffect, LosesInputEffect, SaveEndEffect, TrainDoneEffect
  <2>7. CASE FailEffect(j, k)
    <3>1. store' = store
      BY <1>0, <1>3, <2>7, Ends DEF FailEffect, FailStep, IsTrain, IsRelay
    <3> QED
      BY <2>1, <3>1
  <2>8. ~RelayEffect(j, k) /\ ~RmEffect(j, k)
    BY <1>3 DEF IsRelay, IsRm, IsTrain, RelayEffect, UpBeginEffect, UpEndEffect, DownBeginEffect,
     DownEndEffect, CleanEffect, TornEffect, RmEffect
  <2> QED
    BY <2>6, <2>7, <2>8 DEF StepEffect
<1> QED
  BY <1>0, <1>1, <1>2, <1>3, JobFields DEF IsRelay, IsTrain, IsRm

\* A job trains a layer until it has saved it, or is broken off; it begins with one
\* that has no checkpoints.
LEMMA WorkSteps ==
  ASSUME Typed, Training, NEW j \in jobs, NEW k, StepEffect(j, k) \/ FailEffect(j, k), NEW l \in LayerSet
  PROVE  /\ AtWork(j, l) => AtWork(k, l) \/ l \in cut' \/ OutSaved(l, "whole")
         /\ AtWork(k, l) /\ ~AtWork(j, l) => store[Written][Out(l)] # "whole" /\ store' = store
<1>0. /\ JobOK(j) /\ j.rest \in Seq(LayerSet)
      /\ AtWork(j, l) => IsTrain(j) /\ j.rest # <<>> /\ l \in ToSet(j.rest)
      /\ ~Pairs
  <2>1. JobOK(j) /\ j.rest \in Seq(LayerSet)
    BY JobFields DEF Typed, JobsOK, AllOK
  <2>2. AtWork(j, l) => IsTrain(j) /\ j.rest # <<>>
    BY <2>1, Ends DEF AtWork
  <2>3. AtWork(j, l) => l \in ToSet(j.rest)
    BY <2>1, <2>2, Popped DEF AtWork
  <2> QED
    BY <2>1, <2>2, <2>3 DEF Training, Pairs
<1>1. ASSUME AtWork(j, l)
      PROVE  AtWork(k, l) \/ l \in cut' \/ OutSaved(l, "whole")
  <2>1. CASE FailEffect(j, k)
    BY <1>0, <1>1, <2>1 DEF FailEffect
  <2>2. CASE SaveBeginEffect(j, k) \/ CheckpointEndEffect(j, k)
    BY <1>1, <2>2 DEF SaveBeginEffect, CheckpointEndEffect, AtWork, AtUnit, IsNow, IsTrain
  <2>3. CASE SaveEndEffect(j, k)
    BY <1>1, <2>3, OutCopies DEF SaveEndEffect, AtWork
  <2>4. /\ ~LoadTrainingEffect(j, k) /\ ~SkipEffect(j, k) /\ ~FitEffect(j, k) /\ ~LoadLayerEffect(j, k)
        /\ ~LosesInputEffect(j, k) /\ ~TrainDoneEffect(j, k)
    BY <1>0, <1>1 DEF LoadTrainingEffect, SkipEffect, FitEffect, LoadLayerEffect,
       LosesInputEffect, TrainDoneEffect, AtWork, AtUnit
  <2>5. ~RelayEffect(j, k) /\ ~RmEffect(j, k)
    BY <1>0, <1>1 DEF IsRelay, IsRm, IsTrain, RelayEffect, UpBeginEffect, UpEndEffect, DownBeginEffect,
       DownEndEffect, CleanEffect, TornEffect, RmEffect
  <2> QED
    BY <2>1, <2>2, <2>3, <2>4, <2>5 DEF StepEffect, TrainEffect
<1>2. ASSUME AtWork(k, l), ~AtWork(j, l)
      PROVE  store[Written][Out(l)] # "whole" /\ store' = store
  <2>1. CASE FitEffect(j, k)
    BY <1>2, <2>1 DEF FitEffect, Present, AtWork, IsNow
  <2>2. /\ ~FailEffect(j, k) /\ ~SaveEndEffect(j, k) /\ ~SkipEffect(j, k) /\ ~LoadTrainingEffect(j, k)
        /\ ~LosesInputEffect(j, k) /\ ~TrainDoneEffect(j, k) /\ ~LoadLayerEffect(j, k)
    BY <1>2 DEF FailEffect, SaveEndEffect, SkipEffect, LoadTrainingEffect, LosesInputEffect, TrainDoneEffect,
       LoadLayerEffect, AtWork, AtUnit, IsNow
  <2>3. ~SaveBeginEffect(j, k) /\ ~CheckpointEndEffect(j, k)
    BY <1>2 DEF SaveBeginEffect, CheckpointEndEffect, AtWork, AtUnit, IsNow
  <2>4. ~RelayEffect(j, k) /\ ~RmEffect(j, k)
    BY <1>2 DEF RelayEffect, UpBeginEffect, UpEndEffect, DownBeginEffect,
       DownEndEffect, CleanEffect, TornEffect, RmEffect, AtWork, AtUnit, IsNow
  <2> QED
    BY <2>1, <2>2, <2>3, <2>4 DEF StepEffect, TrainEffect
<1> QED
  BY <1>1, <1>2

LEMMA WholeJob ==
  ASSUME Phased, Training, NEW j \in jobs, NEW f, Heirs(f, j), StepEffect(j, f[j]) \/ FailEffect(j, f[j]),
         NEW l \in LayerSet, l \notin cut', WholeOK(l)
  PROVE  WholeOK(l)'
<1> DEFINE k == f[j]
<1>0. /\ UNCHANGED <<cmd, driver, run>> /\ Written' = Written /\ Written \in Places /\ Written # "staging"
      /\ Typed /\ JobOK(j) /\ "staging" \in Places /\ "storage" \in Places /\ "compute" \in Places
      /\ IsReturn(j) => Written = "compute" /\ ~IsTrain(j) /\ ~IsFeed(j)
      /\ AtWork(j, l) => ~IsReturn(j)
  <2>1. UNCHANGED <<cmd, driver, run>> /\ Typed /\ JobOK(j)
    BY EffectUnchanged DEF Phased, Typed, JobsOK, AllOK
  <2>2. Written' = Written
    BY <2>1, SameCommand
  <2>3. IsReturn(j) => Written = "compute" /\ ~IsTrain(j) /\ ~IsFeed(j)
    BY <2>1, Ends DEF Written, Compute, IsReturn, IsTrain, IsFeed
  <2> QED
    BY <2>1, <2>2, <2>3, NodeType DEF Places, AtWork
<1>1. OutStep(j, k, l)
  BY <1>0, OutSteps
<1>2. /\ AtWork(j, l) => AtWork(k, l) \/ OutSaved(l, "whole")
      /\ AtWork(k, l) /\ ~AtWork(j, l) => store[Written][Out(l)] # "whole" /\ store' = store
  BY <1>0, WorkSteps
<1>3. /\ \A i \in Mine : \A m \in Mine : i = m \/ (IsFeed(i) /\ IsFeed(m))
      /\ \A i \in Mine : i \in jobs /\ i.owner = run
  BY MineType DEF Phased, MinesOK, Together
<1>4. /\ \A m \in Mine' : \E i \in Mine : m = f[i]
      /\ \A m \in jobs' : \E i \in jobs : m = f[i]
      /\ \A i \in jobs : /\ f[i].owner = i.owner
                         /\ IsReturn(f[i]) <=> IsReturn(i)
                         /\ IsTrain(f[i]) <=> IsTrain(i)
                         /\ IsTrain(i) /\ i # j => f[i] = i
      /\ \A i \in jobs : f[i] \in jobs' \/ (i = j /\ ~Live(f[j]))
  <2>1. /\ \A m \in jobs' : \E i \in jobs : m = f[i]
        /\ \A i \in jobs : f[i] \in jobs' \/ (i = j /\ ~Live(f[j]))
    BY DEF Heirs
  <2> QED
    BY <1>0, <2>1, HeirFields
<1>5. /\ ToSet(k.rest) \subseteq ToSet(j.rest)
      /\ \A i \in jobs : i # j => f[i].rest = i.rest
  <2>1. ToSet(k.rest) \subseteq ToSet(j.rest)
    BY <1>0, RestOnward
  <2>2. \A i \in jobs : i # j => f[i].rest = i.rest
    BY DEF Heirs, Torn, IsNow
  <2> QED
    BY <2>1, <2>2
<1>6. /\ j.owner # run => l \notin ToSet(j.rest)
      /\ AtWork(j, l) => j \in Mine
  <2>1. j.owner # run => l \notin ToSet(j.rest)
    BY DEF WholeOK
  <2>2. AtWork(j, l) => l \in ToSet(j.rest)
    <3>1. j.rest \in Seq(LayerSet) /\ (AtWork(j, l) => j.rest # <<>>)
      BY <1>0, JobFields, Ends DEF AtWork
    <3> QED
      BY <3>1, Popped DEF AtWork
  <2> QED
    BY <2>1, <2>2 DEF Mine
<1>7. \A pl \in Places : store[pl][Out(l)] \in Unfinished => pl = Written /\ \E i \in Mine : AtWork(i, l)
  BY DEF WholeOK
<1> HIDE DEF k
<1>8. \A i \in Mine : AtWork(i, l) => (i = j /\ j \in Mine) \/ (i # j /\ j \notin Mine /\ f[i] \in Mine' /\ f[i] = i)
  <2> SUFFICES ASSUME NEW i \in Mine, AtWork(i, l), i # j
               PROVE  j \notin Mine /\ f[i] \in Mine' /\ f[i] = i
    BY <1>3
  <2>1. ~IsFeed(i) /\ IsTrain(i)
    BY DEF AtWork, IsTrain, IsFeed
  <2>2. f[i] = i /\ f[i] \in jobs'
    BY <1>3, <1>4, <2>1
  <2> QED
    BY <1>0, <1>3, <2>1, <2>2 DEF Mine
<1>9. AtWork(k, l) => Live(k)
  BY DEF AtWork, AtUnit, Live
<1>10. AtWork(k, l) /\ j \in Mine => k \in Mine'
  BY <1>0, <1>3, <1>4, <1>9 DEF Mine, k
<1>11. \A m \in Mine' : AtWork(m, l) => (m = k /\ j \in Mine) \/ (m \in Mine /\ m # j /\ j \notin Mine)
  <2> SUFFICES ASSUME NEW m \in Mine', AtWork(m, l)
               PROVE  (m = k /\ j \in Mine) \/ (m \in Mine /\ m # j /\ j \notin Mine)
    OBVIOUS
  <2>1. PICK i \in Mine : m = f[i]
    BY <1>4
  <2>2. CASE i = j
    BY <2>1, <2>2 DEF k
  <2>3. CASE i # j
    <3>1. IsTrain(i) /\ ~IsFeed(i)
      BY <1>3, <1>4, <2>1 DEF AtWork, IsTrain, IsFeed
    <3> QED
      BY <1>3, <1>4, <2>1, <2>3, <3>1
  <2> QED
    BY <2>2, <2>3
\* Where the checkpoints are unfinished.
<1>12. ASSUME NEW pl \in Places, store'[pl][Out(l)] \in Unfinished
       PROVE  pl = Written /\ \E m \in Mine' : AtWork(m, l)
  <2>1. CASE OutKept(l)
    <3>1. pl = Written /\ \E i \in Mine : AtWork(i, l)
      BY <1>7, <1>12, <2>1 DEF OutKept
    <3>2. PICK i \in Mine : AtWork(i, l)
      BY <3>1
    <3>3. CASE i = j
      <4>1. ~OutSaved(l, "whole")
        BY <1>0, <1>12, <3>1 DEF OutSaved, Unfinished
      <4> QED
        BY <1>2, <1>10, <3>1, <3>2, <3>3, <4>1
    <3>4. CASE i # j
      BY <1>8, <3>1, <3>2, <3>4
    <3> QED
      BY <3>3, <3>4
  <2>2. CASE IsReturn(j) /\ (OutCopied(l, "compute", "staging") \/ OutCopied(l, "staging", "storage"))
    <3>1. store["staging"][Out(l)] \notin Unfinished /\ store["storage"][Out(l)] \notin Unfinished
      BY <1>0, <1>7, <2>2
    <3>2. store["compute"][Out(l)] \notin Unfinished \/ j \notin Mine
      <4>1. ASSUME NEW i \in Mine, AtWork(i, l), j \in Mine
            PROVE  FALSE
        <5>1. i = j
          BY <1>0, <1>3, <2>2, <4>1
        <5> QED
          BY <1>0, <2>2, <4>1, <5>1
      <4> QED
        BY <1>0, <1>7, <4>1
    <3>3. store["compute"][Out(l)] \notin Unfinished \/ j \in Mine
      BY <2>2 DEF WholeOK, Mine, Unfinished
    <3>4. store["compute"][Out(l)] \notin Unfinished
      BY <3>2, <3>3
    <3>5. \A p \in Places : store'[p][Out(l)] \notin Unfinished
      BY <1>0, <1>7, <2>2, <3>1, <3>4 DEF OutCopied, Unfinished
    <3> QED
      BY <1>12, <3>5
  <2>3. CASE AtWork(j, l) /\ AtWork(k, l) /\ \E v : OutSaved(l, v)
    <3>1. pl = Written
      BY <1>7, <1>12, <2>3 DEF OutSaved
    <3> QED
      BY <1>6, <1>10, <2>3, <3>1
  <2>4. CASE AtWork(j, l) /\ OutSaved(l, "whole")
    <3>1. store[pl][Out(l)] \in Unfinished /\ pl # Written
      BY <1>12, <2>4 DEF OutSaved, Unfinished
    <3> QED
      BY <1>7, <3>1
  <2> QED
    BY <1>1, <2>1, <2>2, <2>3, <2>4 DEF OutStep
\* Older jobs.
<1>13. ASSUME NEW m \in jobs', m.owner # run
       PROVE  /\ l \notin ToSet(m.rest)
              /\ IsReturn(m) => store'["compute"][Out(l)] = "whole"
  <2>1. PICK i \in jobs : m = f[i] /\ i.owner # run /\ (IsReturn(m) <=> IsReturn(i))
    BY <1>4, <1>13
  <2>2. l \notin ToSet(i.rest) /\ (IsReturn(i) => store["compute"][Out(l)] = "whole")
    BY <2>1 DEF WholeOK
  <2>3. l \notin ToSet(m.rest)
    BY <1>5, <2>1, <2>2 DEF k
  <2>4. ASSUME IsReturn(i)
        PROVE  store'["compute"][Out(l)] = "whole"
    <3>1. Written = "compute" /\ store[Written][Out(l)] = "whole"
      BY <2>1, <2>2, <2>4, <1>0, Ends DEF Typed, JobsOK, AllOK, Written, Compute
    <3>2. ~AtWork(j, l)
      BY <1>6, <3>1 DEF WholeOK
    <3> QED
      BY <1>0, <1>1, <3>1, <3>2 DEF OutStep, OutKept, OutCopied
  <2> QED
    BY <2>1, <2>3, <2>4
\* A layer in training is not there as whole.
<1>14. ASSUME NEW m \in Mine', AtWork(m, l)
       PROVE  store'[Written][Out(l)] # "whole"
  <2>1. CASE m = k /\ AtWork(j, l) /\ j \in Mine
    <3>1. store[Written][Out(l)] # "whole" /\ k.pc # "next"
      BY <1>14, <2>1 DEF WholeOK, AtWork, AtUnit
    <3> QED
      BY <1>0, <1>1, <2>1, <3>1 DEF OutStep, OutKept, OutSaved
  <2>2. CASE m = k /\ ~AtWork(j, l)
    BY <1>2, <1>14, <2>2
  <2>3. CASE m \in Mine /\ j \notin Mine
    <3>1. store[Written][Out(l)] # "whole" /\ ~AtWork(j, l)
      BY <1>6, <1>14, <2>3 DEF WholeOK
    <3> QED
      BY <1>0, <1>1, <3>1 DEF OutStep, OutKept, OutCopied
  <2> QED
    BY <1>11, <1>14, <2>1, <2>2, <2>3
<1> QED
  BY <1>0, <1>12, <1>13, <1>14 DEF WholeOK, IsReturn, AtWork, IsTrain

LEMMA CutJob ==
  ASSUME Finished, NEW j \in jobs, JobStep(j) \/ JobFails(j)
  PROVE  CutOK'
<1>0. Phased /\ Typed
  BY DEF Finished, Sound, Phased
<1>1. PICK f : Heirs(f, j) /\ (StepEffect(j, f[j]) \/ FailEffect(j, f[j]))
  BY <1>0, JobSteps, FailSteps
<1>2. Training' = Training /\ cut \subseteq cut'
  <2>1. cmd' = cmd /\ cut \subseteq cut'
    BY <1>1 DEF StepEffect, FailEffect
  <2> QED
    BY <2>1, SameCommand
<1>3. ASSUME Training, NEW l \in LayerSet, l \notin cut'
      PROVE  WholeOK(l)'
  BY <1>0, <1>1, <1>2, <1>3, WholeJob DEF Finished, CutOK
<1>4. ASSUME ~Training
      PROVE  FinishedOK'
  <2> SUFFICES ASSUME NEW pl \in Places, NEW l \in LayerSet
               PROVE  store'[pl][Out(l)] \notin Unfinished
    BY DEF FinishedOK, Unfinished
  <2>1. OutStep(j, f[j], l)
    BY <1>0, <1>1, OutSteps
  <2>2. ~IsReturn(j)
    BY <1>0, <1>4, Ends DEF Typed, JobsOK, AllOK
  <2>3. store[pl][Out(l)] \notin Unfinished
    BY <1>4 DEF Finished, CutOK, FinishedOK
  <2> QED
    BY <1>4, <2>1, <2>2, <2>3 DEF OutStep, OutKept, OutSaved, Unfinished
<1> QED
  BY <1>2, <1>3, <1>4 DEF CutOK, WholeOK, FinishedOK

LEMMA CutInit == ASSUME Init PROVE CutOK
<1>1. jobs = {} /\ cmd.saved \in SUBSET LayerSet
  BY CommandType, TypedInit DEF Init, Typed
<1>2. \A pl \in Places : \A l \in LayerSet : store[pl][Out(l)] \in {"none", "whole"}
  <2> SUFFICES ASSUME NEW pl \in Places, NEW l \in LayerSet
               PROVE  store[pl][Out(l)] \in {"none", "whole"}
    OBVIOUS
  <2>1. Out(l) \in Paths
    BY PathsApart
  <2> QED
    BY <2>1 DEF Init
<1> QED
  BY <1>1, <1>2 DEF CutOK, WholeOK, FinishedOK, Mine, Unfinished

\* A step of the driver: the jobs it submits are still to begin, and it drops none that runs.
LEMMA CutStays ==
  ASSUME CutOK, UNCHANGED <<cmd, store, run, cut>>,
         \A k \in jobs' : k \in jobs \/ (k.owner = run /\ k.pc = "queued"),
         \A j \in Mine : Live(j) => j \in jobs'
  PROVE  CutOK'
<1>1. Training' = Training /\ Written' = Written
  BY SameCommand
<1>2. \A j \in Mine : \A l : AtWork(j, l) => j \in Mine'
  BY DEF Mine, AtWork, AtUnit, Live
<1>3. \A k \in Mine' : \A l : AtWork(k, l) => k \in Mine
  BY DEF Mine, AtWork, AtUnit
<1>4. ASSUME NEW l \in LayerSet, WholeOK(l)
      PROVE  WholeOK(l)'
  <2>1. \A k \in jobs' : k.owner # run => k \in jobs
    OBVIOUS
  <2>2. \A pl \in Places : store'[pl][Out(l)] \in Unfinished => pl = Written /\ \E j \in Mine' : AtWork(j, l)
    BY <1>2, <1>4 DEF WholeOK
  <2>3. \A k \in Mine' : AtWork(k, l) => store'[Written][Out(l)] # "whole"
    BY <1>3, <1>4 DEF WholeOK
  <2>4. \A k \in jobs' : k.owner # run =>
          /\ l \notin ToSet(k.rest)
          /\ IsReturn(k) => store'["compute"][Out(l)] = "whole"
    BY <1>4, <2>1 DEF WholeOK
  <2> QED
    BY <1>1, <2>2, <2>3, <2>4 DEF WholeOK, AtWork, IsTrain, IsReturn
<1>5. FinishedOK => FinishedOK'
  BY DEF FinishedOK
<1> QED
  BY <1>1, <1>4, <1>5 DEF CutOK

\* What all steps of the driver have in common.
LEMMA DriverJobs ==
  ASSUME Phased, DriverStep
  PROVE  /\ UNCHANGED <<cmd, store, run, alone, left, cut>>
         /\ \A k \in jobs' : k \in jobs \/ (k.owner = run /\ k.pc = "queued")
         /\ \A j \in Mine : Live(j) => j \in jobs'
<1>0. Typed /\ DriverOK /\ Mine \subseteq jobs
  BY MineType DEF Phased, Typed
<1>1. CASE CheckBatch
  BY <1>0, <1>1, CheckSteps DEF CheckStep
<1>2. CASE Measure
  BY <1>0, <1>2, MeasureSteps DEF MeasureStep
<1>3. CASE SubmitRelayIn
  BY <1>0, <1>3, SubmitRelayInSteps DEF SubmitRelayInStep, Relay
<1>4. Waited => \A j \in Mine : ~Live(j)
  BY DEF Waited
<1>5. CASE SubmitTrain
  <2>1. TrainJob.owner = run /\ TrainJob.pc = "queued"
    BY <1>0, <1>5, Running, NewTrain, SubmitTrainSteps DEF SubmitTrainStep, AfterStep
  <2> QED
    BY <1>0, <1>4, <1>5, <2>1, SubmitTrainSteps DEF SubmitTrainStep, AfterStep, Raises
<1>6. CASE SubmitRelayOut
  BY <1>0, <1>4, <1>6, SubmitRelayOutSteps DEF SubmitRelayOutStep, AfterStep, Raises, Relay
<1>7. CASE RelayedOut
  BY <1>0, <1>4, <1>7, RelayedOutSteps DEF RelayedOutStep, AfterStep, Raises
<1>8. CASE Reclaim
  BY <1>0, <1>4, <1>8, ReclaimSteps DEF ReclaimStep, Raises, Rm
<1> QED
  BY <1>1, <1>2, <1>3, <1>5, <1>6, <1>7, <1>8 DEF DriverStep

LEMMA CutStart == ASSUME Finished, StartDriver PROVE CutOK'
<1>1. /\ UNCHANGED <<cmd, store>> /\ run' = run + 1 /\ jobs' = {j \in jobs : Live(j)}
      /\ cut' = cut \union {l \in LayerSet : \E j \in jobs :
                              /\ Live(j)
                              /\ \/ l \in ToSet(j.rest)
                                 \/ Out(l) \in j.paths /\ store[j.from][Out(l)] # "whole"}
  BY DEF StartDriver
<1>2. Mine' = {}
  BY <1>1, OldOnes DEF Finished, Sound, Phased, Mine
<1>3. Training' = Training /\ Written' = Written
  BY <1>1, SameCommand
<1>4. ASSUME Training, NEW l \in LayerSet, l \notin cut'
      PROVE  WholeOK(l)'
  <2>1. \A j \in jobs : Live(j) => l \notin ToSet(j.rest)
    BY <1>1, <1>4
  <2>2. \A j \in jobs : Live(j) /\ IsReturn(j) => store["compute"][Out(l)] = "whole"
    <3> SUFFICES ASSUME NEW j \in jobs, Live(j), IsReturn(j)
                 PROVE  store["compute"][Out(l)] = "whole"
      OBVIOUS
    <3>1. j.from = "compute" /\ j.paths = OutPaths
      BY Ends DEF Finished, Sound, Phased, Typed, JobsOK, AllOK
    <3>2. Out(l) \in j.paths
      BY <3>1, PathsApart
    <3> QED
      BY <1>1, <1>4, <3>1, <3>2
  <2>3. \A j \in Mine : ~AtWork(j, l)
    <3> SUFFICES ASSUME NEW j \in Mine, AtWork(j, l)
                 PROVE  FALSE
      OBVIOUS
    <3>1. j \in jobs /\ JobOK(j) /\ Live(j)
      BY MineType DEF Finished, Sound, Phased, Typed, JobsOK, AllOK, AtWork, AtUnit, Live
    <3>2. j.rest \in Seq(LayerSet) /\ j.rest # <<>>
      BY <3>1, JobFields, Ends DEF AtWork
    <3>3. l \in ToSet(j.rest)
      BY <3>2, Popped DEF AtWork
    <3> QED
      BY <2>1, <3>1, <3>3
  <2>4. \A pl \in Places : store[pl][Out(l)] \notin Unfinished
    BY <1>1, <1>4, <2>3 DEF Finished, CutOK, WholeOK
  <2> QED
    BY <1>1, <1>2, <2>1, <2>2, <2>4 DEF WholeOK, Unfinished, IsReturn
<1>5. ~Training => FinishedOK'
  BY <1>1 DEF Finished, CutOK, FinishedOK
<1> QED
  BY <1>3, <1>4, <1>5 DEF CutOK

LEMMA CutNext == ASSUME Finished, [Next]_vars PROVE CutOK'
<1>0. Phased /\ Typed /\ CutOK
  BY DEF Finished, Sound, Phased
<1>1. CASE StartDriver
  BY <1>1, CutStart
<1>2. CASE DriverStep
  BY <1>0, <1>2, DriverJobs, CutStays
<1>3. CASE KillDriver
  BY <1>0, <1>3, KillStep, CutStays, MineType DEF Typed
<1>4. CASE \E j \in jobs : JobStep(j) \/ JobFails(j)
  BY <1>4, CutJob
<1>5. CASE UNCHANGED vars
  BY <1>0, <1>5, CutStays, MineType DEF vars
<1> QED
  BY <1>1, <1>2, <1>3, <1>4, <1>5 DEF Next, Settled

LEMMA AlwaysFinished == Spec => []Finished
<1>1. Init => Finished
  BY CutInit, SoundInit DEF Finished
<1>2. Finished /\ [Next]_vars => Finished'
  BY CutNext, SoundNext DEF Finished
<1> QED
  BY <1>1, <1>2, PTL DEF Spec

-----------------------------------------------------------------------------
\* No unit is in two batches.
LEMMA BatchesApart ==
  ASSUME HistoryOK, NEW i \in 1..LastBatch, NEW k \in 1..LastBatch, i < k
  PROVE  Batch(i) \cap Batch(k) = {}
<1>1. Batches[cmd] = MakeBatches(cmd)
  BY CommandType DEF Batches
<1>2. Made(cmd, N, Batches[cmd])
  BY <1>1, BatchesMade
<1>3. \A u \in Batch(i), v \in Batch(k) : Before(u, v)
  BY <1>2 DEF Made, LastBatch, Batch
<1>4. \A u : ~Before(u, u)
  BY LayersInjective DEF Before, N
<1> QED
  BY <1>3, <1>4

LEMMA PassedSaved == ASSUME Finished PROVE PassedIsSaved
<1>0. Phased /\ Typed /\ HistoryOK
  BY DEF Finished, Sound, Phased, Typed
<1> SUFFICES ASSUME NEW i \in 1..LastBatch, alone, driver.pc = "done" \/ (Active /\ i < driver.batch),
                    NEW l \in ToRun(i)
             PROVE  Present(Saved, l) /\ (l \notin cut => store[Saved][Out(l)] = "whole")
  BY DEF PassedIsSaved
<1>1. Present(Saved, l)
  BY DEF Behind, Finished, Sound, SavedOK, BatchSaved
<1>2. l \in LayerSet /\ l \in Batch(i) /\ Saved \in Places
  BY <1>0, BatchType, NodeType
<1>3. store[Saved][Out(l)] \in {"torn", "periodic", "whole"}
  BY <1>0, <1>1, <1>2, OutCells DEF Present, Values
<1>4. ASSUME Training, l \notin cut, store[Saved][Out(l)] \in Unfinished
      PROVE  FALSE
  <2>1. PICK j \in Mine : AtWork(j, l)
    BY <1>2, <1>4 DEF Finished, CutOK, WholeOK
  <2>2. driver.pc # "done" /\ Active /\ i < driver.batch
    BY <1>0, <2>1 DEF Phased, PhaseOK
  <2>3. JobOK(j) /\ MineOK(j) /\ IsTrain(j)
    BY <1>0, <2>1, MineType DEF Phased, Typed, JobsOK, AllOK, MinesOK, AtWork
  <2>4. l \in ToSet(j.rest)
    <3>1. j.rest \in Seq(LayerSet) /\ j.rest # <<>>
      BY <2>1, <2>3, JobFields, Ends DEF AtWork
    <3> QED
      BY <2>1, <3>1, Popped DEF AtWork
  <2>5. l \in Batch(driver.batch) /\ driver.batch \in 1..LastBatch
    BY <1>0, <2>2, <2>3, <2>4, Running DEF MineOK, Active
  <2> QED
    BY <1>0, <1>2, <2>2, <2>5, BatchesApart
<1>5. ~Training => store[Saved][Out(l)] \notin Unfinished
  BY <1>2 DEF Finished, CutOK, FinishedOK
<1> QED
  BY <1>1, <1>3, <1>4, <1>5 DEF Unfinished

\* When no older run's job is left, a batch the driver has gone past has all its outputs
\* where _batch_complete looks, and the checkpoints are those of finished training,
\* except of layers whose training was broken off or raced the start of a run.
THEOREM PassedBatchesSaved == Spec => []PassedIsSaved
  BY AlwaysFinished, PassedSaved, PTL

-----------------------------------------------------------------------------
(* Clean: a run in which nothing fails. *)

\* A run in which nothing has failed, on its own: a layer's input arrives whole.
FeedSound(j) ==
    /\ j.pc \notin {"upTorn", "downTorn", "failed", "stuck"}
    /\ \A l \in LayerSet : In(l) \in j.paths =>
          /\ j.pc \in {"staged", "down"} => store["staging"][In(l)] = "whole"
          /\ j.pc \in {"clean", "ok"}    => store["compute"][In(l)] = "whole"
BatchThere == \A l \in BatchLayers(driver.batch) : store[Compute][In(l)] = "whole"
Rejected == \E l \in ToRun(driver.batch) : Rejects(l)

\* What becomes of its jobs.
CleanJobs ==
    /\ \A j \in jobs : IsFeed(j) => FeedSound(j)
    /\ \A i, j \in jobs : IsFeed(i) /\ IsFeed(j) /\ i.paths = j.paths => i = j
    /\ \A j \in jobs : IsReturn(j) => j.pc \notin {"failed", "stuck"}
    /\ \A j \in jobs : IsRm(j) => j.pc # "failed"
    /\ \A j \in jobs : IsTrain(j) /\ j.pc = "failed" => Rejected
\* What is there at each position of the driver.
CleanPhase ==
    /\ driver.pc = "off" => run = 0
    /\ driver.pc \in {"measure", "relayIn", "train", "relayOut"} => ToRun(driver.batch) # {}
    /\ driver.pc = "relayIn" =>
          /\ \A l \in BatchLayers(driver.batch) :
                \/ store[Compute][In(l)] = "whole"
                \/ l \in ToSet(driver.todo)
                \/ \E j \in jobs : IsFeed(j) /\ j.paths = {In(l)}
          /\ IsInjective(driver.todo)
          /\ \A l \in ToSet(driver.todo) : \A j \in jobs : IsFeed(j) => j.paths # {In(l)}
    /\ driver.pc = "train" => BatchThere
    /\ driver.pc = "raised" => Rejected
CleanOK == clean /\ alone => CleanJobs /\ CleanPhase

Clean == Sound /\ CleanOK

LEMMA WhichPhase ==
  ASSUME Clean, clean, alone, NEW j \in jobs
  PROVE  /\ IsFeed(j)   => driver.pc = "relayIn"
         /\ IsReturn(j) => driver.pc = "relayOut"
         /\ IsTrain(j)  => driver.pc = "train"
         /\ IsRm(j)     => driver.pc = "reclaim"
         /\ j \in Mine /\ driver.batch \in 1..LastBatch
<1>1. driver.pc # "off" /\ driver.batch \in 1..LastBatch
  BY JobRuns DEF Clean, CleanOK, CleanPhase, Sound, Phased
<1>2. j \in Mine
  BY AloneMine DEF Clean, Sound
<1>3. driver.pc \in DriverPcs
  BY DriverFields DEF Clean, Sound, Phased, Typed
<1> QED
  BY <1>1, <1>2, <1>3 DEF Clean, Sound, Phased, PhaseOK, DriverPcs, IsFeed, IsReturn, IsTrain, IsRm

\* A job leaves the inputs that are not its own where they are, and the training its own.
InputKept(l) == \A pl \in Places : store'[pl][In(l)] = store[pl][In(l)]
LEMMA InputsElsewhere ==
  ASSUME Typed, NEW j \in jobs, NEW k, StepEffect(j, k), NEW l \in LayerSet, In(l) \notin j.paths \/ IsTrain(j)
  PROVE  InputKept(l)
<1>0. /\ In(l) \in Paths /\ \A m : In(l) # Out(m)
      /\ JobOK(j) /\ j.from \in Places /\ j.to \in Places /\ "staging" \in Places /\ "compute" \in Places
  BY PathsApart, JobFields DEF Typed, JobsOK, AllOK, Places
<1>1. CASE RelayEffect(j, k)
  <2>1. ~IsTrain(j)
    BY <1>1 DEF RelayEffect, UpBeginEffect, UpEndEffect, DownBeginEffect,
     DownEndEffect, CleanEffect, TornEffect, IsRelay, IsTrain
  <2> QED
    BY <1>0, <1>1, <2>1 DEF RelayEffect, UpBeginEffect, UpEndEffect, DownBeginEffect,
     DownEndEffect, CleanEffect, TornEffect, BegunAt, RsyncedAt, RemovedAt, InputKept
<1>2. CASE RmEffect(j, k)
  BY <1>0, <1>2 DEF RmEffect, RemovedAt, InputKept, IsRm, IsTrain
<1>3. CASE \E m, v : SavedAt(m, v)
  BY <1>0, <1>3 DEF SavedAt, InputKept
<1>4. CASE store' = store
  BY <1>4 DEF InputKept
<1>5. CASE TrainEffect(j, k)
  BY <1>3, <1>4, <1>5 DEF TrainEffect, LoadTrainingEffect, SkipEffect, FitEffect, LoadLayerEffect,
     SaveBeginEffect, CheckpointEndEffect, LosesInputEffect, SaveEndEffect, TrainDoneEffect
<1> QED
  BY <1>1, <1>2, <1>5 DEF StepEffect

\* A relay of a layer's input goes through: the sweep is whole on the storage node.
LEMMA FeedOnward ==
  ASSUME Clean, clean, alone, NEW j \in jobs, NEW k, StepEffect(j, k), IsFeed(j)
  PROVE  FeedSound(k)'
<1>0. /\ JobOK(j) /\ FeedSound(j) /\ IsRelay(j) /\ ~IsTrain(j) /\ ~IsRm(j)
      /\ j.from = "storage" /\ j.to = "compute" /\ {"storage", "compute", "staging"} \subseteq Places
  BY Ends DEF Clean, CleanOK, CleanJobs, Sound, Phased, Typed, JobsOK, AllOK, IsFeed, IsRelay, IsTrain, IsRm, Places
<1>1. PICK l \in LayerSet : j.paths = {In(l)}
  BY <1>0, Ends
<1>2. /\ In(l) \in Paths /\ \A m : In(m) \in j.paths => m = l
      /\ store["storage"][In(l)] = "whole"
  BY <1>1, PathsApart DEF Clean, Sound, Phased, Typed, StoreOK
<1>3. RelayEffect(j, k)
  BY <1>0 DEF StepEffect, RmEffect, TrainEffect, LoadTrainingEffect, SkipEffect, FitEffect, LoadLayerEffect,
     SaveBeginEffect, CheckpointEndEffect, LosesInputEffect, SaveEndEffect, TrainDoneEffect
<1>4. /\ k.paths = j.paths
      /\ \/ k.pc = "up"
         \/ k.pc = "staged" /\ store'["staging"][In(l)] = "whole"
         \/ k.pc = "down" /\ store'["staging"][In(l)] = "whole"
         \/ k.pc \in {"clean", "ok"} /\ store'["compute"][In(l)] = "whole"
  <2>1. CASE UpBeginEffect(j, k)
    <3>1. Exists(j.from, j.paths)
      BY <1>0, <1>1, <1>2 DEF Exists
    <3> QED
      BY <2>1, <3>1 DEF UpBeginEffect, IsNow
  <2>2. CASE UpEndEffect(j, k)
    BY <1>0, <1>1, <1>2, <2>2 DEF UpEndEffect, IsNow, RsyncedAt, Copied
  <2>3. CASE DownBeginEffect(j, k)
    <3>1. store["staging"][In(l)] = "whole"
      BY <1>0, <1>1, <2>3 DEF DownBeginEffect, FeedSound
    <3>2. Exists("staging", j.paths)
      BY <1>1, <3>1 DEF Exists
    <3> QED
      BY <1>0, <1>2, <2>3, <3>1, <3>2 DEF DownBeginEffect, IsNow, BegunAt
  <2>4. CASE DownEndEffect(j, k)
    <3>1. store["staging"][In(l)] = "whole"
      BY <1>0, <1>1, <2>4 DEF DownEndEffect, FeedSound
    <3> QED
      BY <1>0, <1>1, <1>2, <2>4, <3>1 DEF DownEndEffect, IsNow, RsyncedAt, Copied
  <2>5. CASE CleanEffect(j, k)
    <3>1. store["compute"][In(l)] = "whole"
      BY <1>0, <1>1, <2>5 DEF CleanEffect, FeedSound
    <3> QED
      BY <1>0, <1>2, <2>5, <3>1 DEF CleanEffect, IsNow, RemovedAt
  <2>6. ~TornEffect(j, k)
    BY <1>0 DEF TornEffect, FeedSound
  <2> QED
    BY <1>3, <2>1, <2>2, <2>3, <2>4, <2>5, <2>6 DEF RelayEffect
<1> QED
  BY <1>2, <1>4 DEF FeedSound

\* The checkpoints' return finds something to copy.
LEMMA ReturnGoesOn ==
  ASSUME Clean, clean, alone, NEW j \in jobs, NEW k, StepEffect(j, k), IsReturn(j)
  PROVE  k.pc \notin {"failed", "stuck"}
<1>0. /\ JobOK(j) /\ ReturnSound(j) /\ MineOK(j) /\ IsRelay(j) /\ ~IsTrain(j) /\ ~IsRm(j)
      /\ j.from = "compute" /\ j.to = "storage" /\ j.paths = OutPaths
      /\ driver.batch \in 1..LastBatch /\ ToRun(driver.batch) # {}
  BY WhichPhase, Ends DEF Clean, CleanOK, CleanPhase, Sound, AloneOK, Phased, MinesOK, Typed, JobsOK, AllOK,
     IsReturn, IsRelay, IsTrain, IsRm
<1>1. PICK u \in ToRun(driver.batch) : Out(u) \in j.paths
  BY <1>0, BatchType, PathsApart DEF Clean, Sound, Phased, Typed
<1>2. Exists("compute", j.paths)
  BY <1>0, <1>1 DEF MineOK, Present, Exists
<1>3. j.pc = "staged" => Exists("staging", j.paths)
  BY <1>0, <1>1 DEF ReturnSound, Present, Exists
<1>4. RelayEffect(j, k)
  BY <1>0 DEF StepEffect, RmEffect, TrainEffect, LoadTrainingEffect, SkipEffect, FitEffect, LoadLayerEffect,
     SaveBeginEffect, CheckpointEndEffect, LosesInputEffect, SaveEndEffect, TrainDoneEffect
<1> QED
  BY <1>0, <1>2, <1>3, <1>4 DEF RelayEffect, UpBeginEffect, UpEndEffect, DownBeginEffect,
     DownEndEffect, CleanEffect, TornEffect, IsNow, ReturnSound

\* The training finds its input, and fails only over an output that is complete.
LEMMA TrainGoesOn ==
  ASSUME Clean, clean, alone, NEW j \in jobs, NEW k, StepEffect(j, k), IsTrain(j), k.pc = "failed"
  PROVE  Rejected
<1>0. /\ JobOK(j) /\ j.rest \in Seq(LayerSet) /\ MineOK(j) /\ BatchThere /\ driver.batch \in 1..LastBatch /\ HistoryOK
  BY WhichPhase, JobFields DEF Clean, CleanOK, CleanPhase, Sound, Phased, MinesOK, Typed, JobsOK, AllOK
<1>1. Batch(driver.batch) \in SUBSET LayerSet
  BY <1>0, BatchType
<1>2. \A us \in SUBSET Batch(driver.batch) : InputThere(Inputs(us))
  <2> SUFFICES ASSUME NEW us \in SUBSET Batch(driver.batch), NEW l \in Needs(cmd, us)
               PROVE  store[Compute][In(l)] = "whole"
    BY DEF InputThere, Inputs
  <2>1. l \in BatchLayers(driver.batch)
    BY DEF Needs, BatchLayers
  <2> QED
    BY <1>0, <2>1 DEF BatchThere
<1>3. InputThere(j.paths)
  BY <1>0, <1>2 DEF MineOK
<1>4. j.rest # <<>> => /\ Head(j.rest) \in ToSet(j.rest) /\ InputThere(Inputs({Head(j.rest)}))
                       /\ ~Training => Head(j.rest) \in ToRun(driver.batch)
  <2>1. j.rest # <<>> => Head(j.rest) \in ToSet(j.rest)
    BY <1>0, Popped
  <2>2. j.rest # <<>> => {Head(j.rest)} \in SUBSET Batch(driver.batch)
    BY <1>0, <2>1 DEF MineOK
  <2>3. j.rest # <<>> => InputThere(Inputs({Head(j.rest)}))
    BY <1>2, <2>2
  <2> QED
    BY <1>0, <2>1, <2>3 DEF MineOK
<1>5. LoadLayerEffect(j, k)
  BY <1>3, <1>4 DEF StepEffect, IsTrain, IsRelay, IsRm, RelayEffect, UpBeginEffect, UpEndEffect, DownBeginEffect,
     DownEndEffect, CleanEffect, TornEffect, RmEffect, TrainEffect, LoadTrainingEffect, SkipEffect, FitEffect,
     SaveBeginEffect, CheckpointEndEffect, LosesInputEffect, SaveEndEffect, TrainDoneEffect, IsNow
<1>6. Rejects(Head(j.rest)) /\ ~Training /\ j.rest # <<>>
  BY <1>4, <1>5 DEF LoadLayerEffect, IsNow
<1> QED
  BY <1>4, <1>6 DEF Rejected

LEMMA CleanJob ==
  ASSUME Clean, NEW j \in jobs, JobStep(j) \/ JobFails(j)
  PROVE  CleanOK'
<1>1. CASE JobFails(j)
  BY <1>1 DEF JobFails, CleanOK
<1>2. CASE JobStep(j) /\ ~(clean /\ alone)
  BY <1>2 DEF JobStep, CleanOK
<1>3. CASE JobStep(j) /\ clean /\ alone
  <2>0. Typed /\ CleanJobs /\ CleanPhase
    BY <1>3 DEF Clean, CleanOK, Sound, Phased
  <2>1. PICK f : Heirs(f, j) /\ StepEffect(j, f[j])
    BY <1>3, <2>0, JobSteps
  <2>2. UNCHANGED <<cmd, driver, run>> /\ j \in Mine
    BY <1>3, <2>1, EffectUnchanged, WhichPhase
  <2>3. /\ \A m \in jobs' : \E i \in jobs : m = f[i]
        /\ \A i \in jobs : /\ f[i].owner = i.owner
                           /\ f[i].paths = i.paths
                           /\ IsFeed(f[i]) <=> IsFeed(i)
                           /\ IsReturn(f[i]) <=> IsReturn(i)
                           /\ IsTrain(f[i]) <=> IsTrain(i)
                           /\ IsRm(f[i]) <=> IsRm(i)
        /\ \A i \in jobs : f[i] \in jobs' \/ i = j
        /\ \A i \in jobs : i # j => f[i] = i \/ i.paths \cap j.paths # {}
    <3>1. /\ \A m \in jobs' : \E i \in jobs : m = f[i]
          /\ \A i \in jobs : f[i] \in jobs' \/ i = j
          /\ \A i \in jobs : i # j => f[i] = i \/ i.paths \cap j.paths # {}
      BY <2>1 DEF Heirs
    <3> QED
      BY <2>1, <2>2, <3>1, HeirFields
  <2>4. jobs = Mine /\ \A i \in jobs : i = j \/ (IsFeed(i) /\ IsFeed(j))
    BY <1>3, AloneMine DEF Clean, Sound, Phased, MinesOK, Together
  <2>5. /\ Compute' = Compute /\ BatchLayers(driver.batch)' = BatchLayers(driver.batch)
        /\ ToRun(driver.batch)' = ToRun(driver.batch) /\ Written' = Written
    BY <2>2, SameBatch, SameCommand
  <2>6. Rejected => Rejected'
    <3>1. PresentStays
      BY <2>0, <2>1, PresentOnward
    <3>2. Written \in Places \ {"staging"} /\ ToRun(driver.batch) \subseteq LayerSet
      BY <1>3, <2>0, WhichPhase, BatchType, NodeType DEF Typed, Places
    <3>3. \A u \in ToRun(driver.batch) : Rejects(u) => Rejects(u)'
      BY <2>2, <2>5, <3>1, <3>2 DEF Rejects, PresentStays, Present
    <3> QED
      BY <2>5, <3>3 DEF Rejected
  <2>7. \A i \in jobs : i # j /\ IsFeed(i) => f[i] = i /\ i.paths \cap j.paths = {} /\ FeedSound(i)'
    <3> SUFFICES ASSUME NEW i \in jobs, i # j, IsFeed(i)
                 PROVE  f[i] = i /\ i.paths \cap j.paths = {} /\ FeedSound(i)'
      OBVIOUS
    <3>1. IsFeed(j) /\ i.paths # j.paths /\ JobOK(i) /\ JobOK(j)
      BY <2>0, <2>4 DEF CleanJobs, Typed, JobsOK, AllOK
    <3>2. PICK l \in LayerSet, m \in LayerSet : i.paths = {In(l)} /\ j.paths = {In(m)}
      BY <3>1, Ends
    <3>3. i.paths \cap j.paths = {} /\ In(l) \notin j.paths
      BY <3>1, <3>2
    <3>4. InputKept(l)
      BY <2>0, <2>1, <3>3, InputsElsewhere
    <3>5. FeedSound(i)'
      <4>1. \A n : In(n) \in i.paths => n = l
        BY <3>2, PathsApart
      <4>2. FeedSound(i) /\ {"staging", "compute"} \subseteq Places
        BY <2>0 DEF CleanJobs, Places
      <4> QED
        BY <3>4, <4>1, <4>2 DEF FeedSound, InputKept
    <3> QED
      BY <2>3, <3>3, <3>5
  <2>8. CleanJobs'
    <3>1. \A m \in jobs' : IsFeed(m) => FeedSound(m)'
      BY <1>3, <2>1, <2>3, <2>7, FeedOnward
    <3>2. \A m, n \in jobs' : IsFeed(m) /\ IsFeed(n) /\ m.paths = n.paths => m = n
      BY <2>0, <2>3 DEF CleanJobs
    <3>3. \A m \in jobs' : IsReturn(m) => m.pc \notin {"failed", "stuck"}
      BY <1>3, <2>1, <2>3, <2>4, ReturnGoesOn DEF IsReturn, IsFeed
    <3>4. \A m \in jobs' : IsRm(m) => m.pc # "failed"
      <4>1. IsRm(j) => f[j].pc # "failed"
        BY <2>1 DEF StepEffect, IsRm, IsRelay, IsTrain, RelayEffect, UpBeginEffect, UpEndEffect, DownBeginEffect,
           DownEndEffect, CleanEffect, TornEffect, TrainEffect, LoadTrainingEffect, SkipEffect, FitEffect,
           LoadLayerEffect, SaveBeginEffect, CheckpointEndEffect, LosesInputEffect, SaveEndEffect,
           TrainDoneEffect, RmEffect, IsNow
      <4> QED
        BY <2>3, <2>4, <4>1 DEF IsRm, IsFeed
    <3>5. \A m \in jobs' : IsTrain(m) /\ m.pc = "failed" => Rejected'
      BY <1>3, <2>1, <2>3, <2>4, <2>6, TrainGoesOn DEF IsTrain, IsFeed
    <3> QED
      BY <3>1, <3>2, <3>3, <3>4, <3>5 DEF CleanJobs, IsFeed, IsReturn, IsRm, IsTrain
  <2>9. \A l \in BatchLayers(driver.batch) : ~IsRm(j) /\ store[Compute][In(l)] = "whole" =>
            store'[Compute][In(l)] = "whole"
    <3> SUFFICES ASSUME NEW l \in BatchLayers(driver.batch), ~IsRm(j), store[Compute][In(l)] = "whole"
                 PROVE  store'[Compute][In(l)] = "whole"
      OBVIOUS
    <3>1. l \in LayerSet
      BY <1>3, <2>0, WhichPhase, BatchType DEF Typed
    <3>2. CASE Compute = "compute"
      BY <2>0, <2>1, <3>1, <3>2, OnlyRmTakes
    <3>3. CASE Compute = "storage"
      <4>1. StoreOK'
        BY <1>3, TypedJob, <2>0 DEF Typed
      <4> QED
        BY <3>1, <3>3, <4>1 DEF StoreOK, LayerSet
    <3> QED
      BY <3>2, <3>3, NodeType
  <2>10. CleanPhase'
    <3>1. ASSUME driver.pc = "relayIn"
          PROVE  /\ \A l \in BatchLayers(driver.batch) :
                    \/ store'[Compute][In(l)] = "whole"
                    \/ l \in ToSet(driver.todo)
                    \/ \E m \in jobs' : IsFeed(m) /\ m.paths = {In(l)}
                 /\ \A l \in ToSet(driver.todo) : \A m \in jobs' : IsFeed(m) => m.paths # {In(l)}
      <4>1. IsFeed(j) /\ ~IsRm(j)
        BY <2>2, <3>1 DEF Clean, Sound, Phased, PhaseOK, IsFeed, IsRm
      <4>2. \A i \in jobs : IsFeed(i) => f[i] \in jobs'
        BY <2>1, <2>2, <2>3, <3>1 DEF Heirs, Active, Mine
      <4> QED
        BY <2>0, <2>3, <2>9, <3>1, <4>1, <4>2 DEF CleanPhase
    <3>2. ASSUME driver.pc = "train"
          PROVE  BatchThere'
      <4>1. ~IsRm(j)
        BY <2>2, <3>2 DEF Clean, Sound, Phased, PhaseOK, IsTrain, IsRm
      <4> QED
        BY <2>0, <2>2, <2>5, <2>9, <3>2, <4>1 DEF CleanPhase, BatchThere
    <3> QED
      BY <2>0, <2>2, <2>5, <2>6, <3>1, <3>2 DEF CleanPhase, IsFeed
  <2> QED
    BY <2>8, <2>10 DEF CleanOK
<1> QED
  BY <1>1, <1>2, <1>3

LEMMA CleanInit == ASSUME Init PROVE CleanOK
  BY DEF Init, CleanOK, CleanJobs, CleanPhase

LEMMA NoJobsClean == ASSUME jobs' = {} PROVE CleanJobs'
  BY DEF CleanJobs

\* A new job, of a path that none of the relays has.
LEMMA OneMoreClean ==
  ASSUME CleanJobs, UNCHANGED <<cmd, store>>, driver'.batch = driver.batch,
         NEW new, new.pc = "queued", \A k \in jobs' : k \in jobs \/ k = new,
         \A i \in jobs : IsFeed(new) /\ IsFeed(i) => i.paths # new.paths
  PROVE  CleanJobs'
<1>1. Rejected' = Rejected
  <2>1. ToRun(driver.batch)' = ToRun(driver.batch) /\ Written' = Written
    BY SameBatch
  <2> QED
    BY <2>1 DEF Rejected, Rejects, Present
<1>2. \A k \in jobs' : IsFeed(k) => FeedSound(k)'
  BY DEF CleanJobs, FeedSound
<1>3. \A i, k \in jobs' : IsFeed(i) /\ IsFeed(k) /\ i.paths = k.paths => i = k
  BY DEF CleanJobs
<1>4. \A k \in jobs' : k.pc \in {"failed", "stuck"} => k \in jobs
  OBVIOUS
<1> QED
  BY <1>1, <1>2, <1>3, <1>4 DEF CleanJobs, IsFeed, IsReturn, IsRm, IsTrain

LEMMA CleanRunning ==
  ASSUME Clean, clean, alone
  PROVE  CleanJobs /\ CleanPhase /\ jobs = Mine /\ Typed /\ Phased /\ PhaseOK
  BY AloneMine DEF Clean, CleanOK, Sound, Phased

LEMMA CleanCheck == ASSUME Clean, CheckBatch PROVE CleanOK'
<1>1. CheckStep
  BY CheckSteps DEF Clean, Sound, Phased, Typed
<1> SUFFICES ASSUME clean', alone'
             PROVE  CleanJobs' /\ CleanPhase'
  BY DEF CleanOK
<1>2. clean /\ alone /\ jobs' = jobs /\ driver.pc = "check" /\ UNCHANGED <<cmd, store, run>>
  BY <1>1 DEF CheckStep
<1>3. jobs' = {}
  BY <1>2, CleanRunning DEF PhaseOK
<1>4. CASE Advance
  <2>1. driver'.pc \in {"check", "done"}
    BY <1>4 DEF Advance, DriverAt
  <2> QED
    BY <1>3, <2>1, NoJobsClean DEF CleanPhase
<1>5. CASE DriverAt("measure", driver.batch, driver.todo) /\ ToRun(driver.batch) # {}
  <2>1. driver'.pc = "measure" /\ driver'.batch = driver.batch
    BY <1>5 DEF DriverAt
  <2>2. ToRun(driver.batch)' # {}
    BY <1>2, <1>5, <2>1, SameBatch
  <2> QED
    BY <1>3, <2>1, <2>2, NoJobsClean DEF CleanPhase
<1> QED
  BY <1>1, <1>4, <1>5 DEF CheckStep

LEMMA CleanMeasure == ASSUME Clean, Measure PROVE CleanOK'
<1>1. MeasureStep
  BY MeasureSteps DEF Clean, Sound, Phased
<1> SUFFICES ASSUME clean', alone'
             PROVE  CleanJobs' /\ CleanPhase'
  BY DEF CleanOK
<1>2. clean /\ alone /\ jobs' = jobs /\ driver.pc = "measure" /\ UNCHANGED <<cmd, store, run>>
  BY <1>1 DEF MeasureStep
<1>3. jobs' = {} /\ ToRun(driver.batch) # {}
  BY <1>2, CleanRunning DEF PhaseOK, CleanPhase
<1>4. /\ driver'.pc = "relayIn" /\ driver'.batch = driver.batch
      /\ ToSet(driver'.todo) = {l \in BatchLayers(driver.batch) : NeedsRelay(l)}
      /\ IsInjective(driver'.todo)
  BY <1>1 DEF MeasureStep, DriverAt
<1>5. /\ ToRun(driver.batch)' # {} /\ BatchLayers(driver.batch)' = BatchLayers(driver.batch)
      /\ Compute' = Compute
  BY <1>2, <1>3, <1>4, SameBatch, SameCommand
<1>6. \A l \in BatchLayers(driver.batch) : store[Compute][In(l)] = "whole" \/ l \in ToSet(driver'.todo)
  BY <1>4 DEF NeedsRelay
<1> QED
  BY <1>2, <1>3, <1>4, <1>5, <1>6, NoJobsClean DEF CleanPhase

LEMMA CleanSubmitRelayIn == ASSUME Clean, SubmitRelayIn PROVE CleanOK'
<1>1. SubmitRelayInStep
  BY SubmitRelayInSteps DEF Clean, Sound, Phased
<1> SUFFICES ASSUME clean', alone'
             PROVE  CleanJobs' /\ CleanPhase'
  BY DEF CleanOK
<1> DEFINE h == Head(driver.todo)
<1> DEFINE k == Relay("storage", Compute, {In(h)})
<1>2. /\ clean /\ alone /\ jobs' = jobs \union {k} /\ driver.pc = "relayIn" /\ UNCHANGED <<cmd, store, run>>
      /\ driver.todo # <<>> /\ driver'.pc = "relayIn" /\ driver'.batch = driver.batch
      /\ driver'.todo = Tail(driver.todo)
  BY <1>1 DEF SubmitRelayInStep, DriverAt
<1>3. /\ Typed /\ CleanJobs /\ CleanPhase /\ driver.todo \in Seq(LayerSet)
      /\ run > 0 /\ ~cmd.sameNode
  BY <1>2, CleanRunning, DriverFields, Running DEF Typed, DriverOK
<1>4. /\ ToSet(driver.todo) = {h} \union ToSet(driver'.todo) /\ h \in LayerSet
      /\ h \notin ToSet(driver'.todo) /\ IsInjective(driver'.todo)
  BY <1>2, <1>3, Popped DEF CleanPhase
<1>5. IsFeed(k) /\ k.pc = "queued" /\ k.paths = {In(h)}
  BY <1>3, <1>4, NewFeed DEF Relay
<1> HIDE DEF k, h
<1>6. \A i \in jobs : IsFeed(i) => i.paths # {In(h)}
  BY <1>2, <1>3, <1>4 DEF CleanPhase
<1>7. CleanJobs'
  BY <1>2, <1>3, <1>5, <1>6, OneMoreClean
<1>8. /\ ToRun(driver.batch)' = ToRun(driver.batch) /\ BatchLayers(driver.batch)' = BatchLayers(driver.batch)
      /\ Compute' = Compute
  BY <1>2, SameBatch, SameCommand
<1>9. \A l \in BatchLayers(driver.batch) :
         \/ store[Compute][In(l)] = "whole"
         \/ l \in ToSet(driver'.todo)
         \/ \E j \in jobs' : IsFeed(j) /\ j.paths = {In(l)}
  BY <1>2, <1>3, <1>4, <1>5 DEF CleanPhase
<1>10. \A l \in ToSet(driver'.todo) : \A j \in jobs' : IsFeed(j) => j.paths # {In(l)}
  <2> SUFFICES ASSUME NEW l \in ToSet(driver'.todo), NEW j \in jobs', IsFeed(j)
               PROVE  j.paths # {In(l)}
    OBVIOUS
  <2>1. CASE j \in jobs
    BY <1>2, <1>3, <1>4, <2>1 DEF CleanPhase
  <2>2. CASE j = k
    <3>1. In(l) # In(h)
      BY <1>4, PathsApart
    <3> QED
      BY <1>5, <2>2, <3>1
  <2> QED
    BY <1>2, <2>1, <2>2
<1>11. CleanPhase'
  BY <1>2, <1>3, <1>4, <1>8, <1>9, <1>10 DEF CleanPhase, IsFeed
<1> QED
  BY <1>7, <1>11

\* When the driver has waited, only a failed training makes it raise.
LEMMA OnlyRejected ==
  ASSUME Clean, clean, alone, Waited, ~Succeeded
  PROVE  Rejected
<1>1. PICK j \in Mine : j.pc # "ok" /\ ~Live(j) /\ j.pc # "stuck" /\ j \in jobs
  BY MineType DEF Waited, Succeeded
<1>2. JobOK(j) /\ j.pc = "failed" /\ CleanJobs
  BY <1>1, CleanRunning DEF Typed, JobsOK, AllOK, Live
<1>3. IsTrain(j)
  BY <1>1, <1>2 DEF CleanJobs, FeedSound, JobOK, FeedOK, ReturnOK, RmOK, TrainOK
<1> QED
  BY <1>1, <1>2, <1>3 DEF CleanJobs

LEMMA RaisingClean ==
  ASSUME Clean, clean, alone, UNCHANGED <<cmd, store, run>>, Raises, Waited
  PROVE  CleanJobs' /\ CleanPhase'
<1>1. jobs' = {} /\ driver'.pc = "raised" /\ driver'.batch = driver.batch
  BY CleanRunning DEF Raises, DriverAt
<1>2. Rejected
  BY OnlyRejected DEF Raises
<1>3. Rejected' = Rejected
  <2>1. ToRun(driver.batch)' = ToRun(driver.batch) /\ Written' = Written
    BY <1>1, SameBatch
  <2> QED
    BY <2>1 DEF Rejected, Rejects, Present
<1> QED
  BY <1>1, <1>2, <1>3, NoJobsClean DEF CleanPhase

LEMMA LeavingClean ==
  ASSUME Clean, clean, alone, Leaves \/ Advance, jobs' = jobs \ Mine
  PROVE  CleanJobs' /\ CleanPhase'
<1>1. driver'.pc \in {"check", "done", "reclaim"}
  BY DEF Leaves, Advance, DriverAt
<1>2. jobs' = {}
  BY CleanRunning
<1> QED
  BY <1>1, <1>2, NoJobsClean DEF CleanPhase

LEMMA CleanSubmitTrain == ASSUME Clean, SubmitTrain PROVE CleanOK'
<1>1. SubmitTrainStep
  BY SubmitTrainSteps DEF Clean, Sound, Phased, Typed
<1> SUFFICES ASSUME clean', alone'
             PROVE  CleanJobs' /\ CleanPhase'
  BY DEF CleanOK
<1>2. /\ clean /\ alone /\ UNCHANGED <<cmd, store, run>> /\ Waited /\ driver.pc = "relayIn" /\ driver.todo = <<>>
  BY <1>1 DEF SubmitTrainStep, AfterStep
<1>3. /\ Typed /\ CleanJobs /\ CleanPhase /\ jobs = Mine /\ run > 0 /\ driver.batch \in 1..LastBatch
      /\ ToSet(driver.todo) = {}
  BY <1>2, CleanRunning, Running, NoLayers
<1>4. CASE Raises
  BY <1>2, <1>4, RaisingClean
<1>5. CASE Succeeded /\ DriverAt("train", driver.batch, driver.todo) /\ jobs' = (jobs \ Mine) \union {TrainJob}
  <2>1. driver'.pc = "train" /\ driver'.batch = driver.batch
    BY <1>5 DEF DriverAt
  <2>2. IsTrain(TrainJob) /\ TrainJob.pc = "queued"
    BY <1>3, NewTrain
  <2>3. CleanJobs'
    BY <1>2, <1>3, <1>5, <2>1, <2>2, OneMoreClean DEF IsTrain, IsFeed
  <2>4. BatchThere
    <3> SUFFICES ASSUME NEW l \in BatchLayers(driver.batch), store[Compute][In(l)] # "whole"
                 PROVE  FALSE
      BY DEF BatchThere
    <3>1. PICK j \in jobs : IsFeed(j) /\ j.paths = {In(l)}
      BY <1>2, <1>3 DEF CleanPhase
    <3>2. j.pc = "ok" /\ FeedSound(j) /\ JobOK(j) /\ l \in LayerSet
      BY <1>3, <1>5, <3>1, BatchType DEF Succeeded, CleanJobs, Typed, JobsOK, AllOK
    <3>3. Compute = "compute"
      BY <3>1, <3>2, Ends DEF Compute
    <3> QED
      BY <3>1, <3>2, <3>3 DEF FeedSound
  <2>5. BatchThere'
    <3>1. BatchLayers(driver.batch)' = BatchLayers(driver.batch) /\ Compute' = Compute
      BY <1>2, <2>1, SameBatch, SameCommand
    <3> QED
      BY <1>2, <2>4, <3>1 DEF BatchThere
  <2>6. ToRun(driver.batch)' # {}
    BY <1>2, <1>3, <2>1, SameBatch DEF CleanPhase
  <2> QED
    BY <2>1, <2>3, <2>5, <2>6 DEF CleanPhase
<1> QED
  BY <1>1, <1>4, <1>5 DEF SubmitTrainStep, AfterStep

LEMMA CleanSubmitRelayOut == ASSUME Clean, SubmitRelayOut PROVE CleanOK'
<1>1. SubmitRelayOutStep
  BY SubmitRelayOutSteps DEF Clean, Sound, Phased
<1> SUFFICES ASSUME clean', alone'
             PROVE  CleanJobs' /\ CleanPhase'
  BY DEF CleanOK
<1>2. clean /\ alone /\ UNCHANGED <<cmd, store, run>> /\ Waited /\ driver.pc = "train"
  BY <1>1 DEF SubmitRelayOutStep, AfterStep
<1>3. CASE Raises
  BY <1>2, <1>3, RaisingClean
<1>4. CASE /\ DriverAt("relayOut", driver.batch, driver.todo)
           /\ jobs' = (jobs \ Mine) \union {Relay(Compute, "storage", OutPaths)}
  <2>1. driver'.pc = "relayOut" /\ driver'.batch = driver.batch
    BY <1>4 DEF DriverAt
  <2> DEFINE k == Relay(Compute, "storage", OutPaths)
  <2>2. k.pc = "queued" /\ ~IsFeed(k)
    BY DEF Relay, IsFeed
  <2>3. \A m \in jobs' : m \in jobs \/ m = k
    BY <1>4
  <2> HIDE DEF k
  <2>4. CleanJobs'
    BY <1>2, <2>1, <2>2, <2>3, OneMoreClean, CleanRunning
  <2>5. ToRun(driver.batch)' # {}
    BY <1>2, <2>1, SameBatch, CleanRunning DEF CleanPhase
  <2> QED
    BY <2>1, <2>4, <2>5 DEF CleanPhase
<1>5. CASE Leaves /\ jobs' = jobs \ Mine
  BY <1>2, <1>5, LeavingClean
<1> QED
  BY <1>1, <1>3, <1>4, <1>5 DEF SubmitRelayOutStep, AfterStep

LEMMA CleanRelayedOut == ASSUME Clean, RelayedOut PROVE CleanOK'
<1>1. RelayedOutStep
  BY RelayedOutSteps DEF Clean, Sound, Phased
<1> SUFFICES ASSUME clean', alone'
             PROVE  CleanJobs' /\ CleanPhase'
  BY DEF CleanOK
<1>2. clean /\ alone /\ UNCHANGED <<cmd, store, run>> /\ Waited
  BY <1>1 DEF RelayedOutStep, AfterStep
<1> QED
  BY <1>1, <1>2, RaisingClean, LeavingClean DEF RelayedOutStep, AfterStep

LEMMA CleanReclaim == ASSUME Clean, Reclaim PROVE CleanOK'
<1>1. ReclaimStep
  BY ReclaimSteps DEF Clean, Sound, Phased
<1> SUFFICES ASSUME clean', alone'
             PROVE  CleanJobs' /\ CleanPhase'
  BY DEF CleanOK
<1>2. clean /\ alone /\ UNCHANGED <<cmd, store, run>> /\ Waited
  BY <1>1 DEF ReclaimStep
<1>3. CASE Raises
  BY <1>2, <1>3, RaisingClean
<1>4. CASE Advance /\ jobs' = jobs \ Mine
  BY <1>2, <1>4, LeavingClean
<1>5. CASE /\ DriverAt("reclaim", driver.batch, Tail(driver.todo))
           /\ jobs' = (jobs \ Mine) \union {Rm(Compute, {In(Head(driver.todo))})}
  <2>1. driver'.pc = "reclaim" /\ driver'.batch = driver.batch
    BY <1>5 DEF DriverAt
  <2> DEFINE k == Rm(Compute, {In(Head(driver.todo))})
  <2>2. k.pc = "queued" /\ ~IsFeed(k)
    BY DEF Rm, IsFeed
  <2>3. \A m \in jobs' : m \in jobs \/ m = k
    BY <1>5
  <2> HIDE DEF k
  <2>4. CleanJobs'
    BY <1>2, <2>1, <2>2, <2>3, OneMoreClean, CleanRunning
  <2> QED
    BY <2>1, <2>4 DEF CleanPhase
<1> QED
  BY <1>1, <1>3, <1>4, <1>5 DEF ReclaimStep

LEMMA CleanStart == ASSUME Clean, StartDriver PROVE CleanOK'
<1>1. /\ driver'.pc = "check" /\ jobs' = {j \in jobs : Live(j)} /\ alone' = ({j \in jobs : Live(j)} = {})
  BY DEF StartDriver
<1>2. alone' => jobs' = {}
  BY <1>1
<1> QED
  BY <1>1, <1>2, NoJobsClean DEF CleanOK, CleanPhase

LEMMA CleanSame == ASSUME Clean, UNCHANGED vars PROVE CleanOK'
<1>1. UNCHANGED <<cmd, store, jobs, driver, run, clean, alone>>
  BY DEF vars
<1>2. /\ Compute' = Compute /\ BatchLayers(driver.batch)' = BatchLayers(driver.batch)
      /\ ToRun(driver.batch)' = ToRun(driver.batch) /\ Written' = Written
  BY <1>1, SameBatch, SameCommand
<1>3. Rejected' = Rejected /\ BatchThere' = BatchThere
  BY <1>1, <1>2 DEF Rejected, Rejects, Present, BatchThere
<1>4. CleanJobs => CleanJobs'
  BY <1>1, <1>3 DEF CleanJobs, IsFeed, IsReturn, IsRm, IsTrain, FeedSound
<1>5. CleanPhase => CleanPhase'
  BY <1>1, <1>2, <1>3 DEF CleanPhase, IsFeed
<1> QED
  BY <1>1, <1>4, <1>5 DEF Clean, CleanOK

LEMMA CleanNext == ASSUME Clean, [Next]_vars PROVE CleanOK'
<1>1. CASE StartDriver
  BY <1>1, CleanStart
<1>2. CASE DriverStep
  BY <1>2, CleanCheck, CleanMeasure, CleanSubmitRelayIn, CleanSubmitTrain, CleanSubmitRelayOut,
     CleanRelayedOut, CleanReclaim DEF DriverStep
<1>3. CASE KillDriver
  BY <1>3 DEF KillDriver, CleanOK
<1>4. CASE \E j \in jobs : JobStep(j) \/ JobFails(j)
  BY <1>4, CleanJob
<1>5. CASE UNCHANGED vars
  BY <1>5, CleanSame
<1> QED
  BY <1>1, <1>2, <1>3, <1>4, <1>5 DEF Next, Settled

LEMMA AlwaysClean == Spec => []Clean
<1>1. Init => Clean
  BY CleanInit, SoundInit DEF Clean
<1>2. Clean /\ [Next]_vars => Clean'
  BY CleanNext, SoundNext DEF Clean
<1> QED
  BY <1>1, <1>2, PTL DEF Spec

LEMMA CleanSucceeds == ASSUME Clean PROVE CleanRunSucceeds
<1> SUFFICES ASSUME clean, alone
             PROVE  /\ \A j \in Mine : j.pc # "stuck"
                    /\ driver.pc = "raised" => \E l \in ToRun(driver.batch) : Rejects(l)
  BY DEF CleanRunSucceeds
<1>1. ASSUME NEW j \in Mine
      PROVE  j.pc # "stuck"
  <2>1. j \in jobs /\ JobOK(j) /\ CleanJobs
    BY CleanRunning, MineType DEF Typed, JobsOK, AllOK
  <2> QED
    BY <2>1 DEF JobOK, FeedOK, ReturnOK, RmOK, TrainOK, RmPcs, TrainPcs, CleanJobs, FeedSound
<1>2. driver.pc = "raised" => Rejected
  BY CleanRunning DEF CleanPhase
<1> QED
  BY <1>1, <1>2 DEF Rejected

\* A run of its own in which nothing fails neither raises nor waits for ever, whatever
\* earlier runs left, unless the direct sweep meets an output that is complete.
THEOREM CleanRunsSucceed == Spec => []CleanRunSucceeds
  BY AlwaysClean, CleanSucceeds, PTL

-----------------------------------------------------------------------------
(* Ordered: sublayers are begun batch by batch. *)

LEMMA BatchOrder ==
  ASSUME HistoryOK
  PROVE  /\ \A i \in 1..LastBatch : Batch(i) # {} /\ Batch(i) \subseteq Units(cmd)
         /\ \A i, k \in 1..LastBatch : i < k => \A u \in Batch(i), v \in Batch(k) : Before(u, v)
         /\ \A i \in 1..LastBatch :
               Gb(BatchLayers(i)) <= cmd.target \/ \E u \in LayerSet : Batch(i) = {u}
<1>1. Batches[cmd] = MakeBatches(cmd)
  BY CommandType DEF Batches
<1>2. Made(cmd, N, Batches[cmd])
  BY <1>1, BatchesMade
<1> QED
  BY <1>2 DEF Made, LastBatch, Batch, BatchLayers

\* A layer of this batch that a later one needs is needed by the next.
LEMMA SharedNext ==
  ASSUME HistoryOK, Neighbours, driver.batch \in 1..LastBatch,
         NEW l \in BatchLayers(driver.batch), NeededLater(l)
  PROVE  Pairs /\ driver.batch # LastBatch /\ l \in BatchLayers(driver.batch + 1)
<1> DEFINE b == driver.batch
<1>1. PICK i \in (b + 1)..LastBatch : l \in BatchLayers(i)
  BY DEF NeededLater
<1>2. LastBatch \in Nat /\ b \in 1..LastBatch
  BY BatchType
<1> HIDE DEF b
<1>3. /\ i \in 1..LastBatch /\ b < i /\ b # LastBatch /\ b + 1 \in 1..LastBatch /\ b < b + 1
      /\ i = b + 1 \/ b + 1 < i
  BY <1>1, <1>2
<1>4. Pairs
  <2> SUFFICES ASSUME ~Pairs PROVE FALSE
    OBVIOUS
  <2>1. l \in Batch(b) /\ l \in Batch(i)
    BY <1>1 DEF BatchLayers, Needs, Pairs, b
  <2> QED
    BY <1>2, <1>3, <2>1, BatchesApart
<1>5. l \in BatchLayers(b + 1)
  <2> SUFFICES ASSUME b + 1 < i PROVE l \in BatchLayers(b + 1)
    BY <1>1, <1>3
  <2>1. PICK u \in Batch(b) : l \in {u, Output[u]}
    BY <1>4 DEF BatchLayers, Needs, Pairs, b
  <2>2. PICK w \in Batch(i) : l \in {w, Output[w]}
    BY <1>1, <1>4 DEF BatchLayers, Needs, Pairs
  <2>3. PICK v \in Batch(b + 1) : TRUE
    BY <1>3, BatchOrder
  <2>4. Before(u, v) /\ Before(v, w)
    BY <1>2, <1>3, BatchOrder
  <2>5. u \in DOMAIN Output /\ v \in DOMAIN Output /\ w \in DOMAIN Output
    BY <1>2, <1>3, <1>4, BatchOrder DEF Units, Pairs
  <2>6. l \in {v, Output[v]}
    BY <2>1, <2>2, <2>4, <2>5 DEF Neighbours
  <2> QED
    BY <1>4, <2>6 DEF BatchLayers, Needs, Pairs
<1> QED
  BY <1>3, <1>4, <1>5 DEF b

-----------------------------------------------------------------------------
\* A sublayer's output is there, other than from runs with other options, or a job
\* is for it.
Started(u) ==
    \/ Present("nfs", u) /\ u \notin cmd.saved
    \/ \E j \in jobs : IsTrain(j) /\ u \in ToSet(j.rest)
InTurn ==
    Pairs => \A k \in 1..LastBatch : \A u \in ToRun(k) : Started(u) =>
                \A i \in 1..(k - 1) : BatchSaved(i)
\* Nothing has been started from batch k on.
Fresh(k) == \A i \in 1..LastBatch : i >= k => \A u \in ToRun(i) : ~Started(u)

Ordered == Sound /\ InTurn

LEMMA StartedBefore ==
  ASSUME Typed, Pairs, NEW j \in jobs, NEW f, Heirs(f, j), StepEffect(j, f[j]) \/ FailEffect(j, f[j]),
         NEW u \in LayerSet, Started(u)'
  PROVE  Started(u)
<1>0. ~Training /\ cmd' = cmd /\ run' = run /\ JobOK(j) /\ j.rest \in Seq(LayerSet) /\ "nfs" \in Places
  BY EffectUnchanged, JobFields DEF Pairs, Training, Typed, JobsOK, AllOK, Places
<1>1. ASSUME Present("nfs", u)', ~Present("nfs", u)
      PROVE  Started(u)
  <2>1. OutStep(j, f[j], u)
    BY OutSteps
  <2>2. ~IsReturn(j)
    BY <1>0, Ends
  <2>3. AtWork(j, u)
    BY <1>0, <1>1, <2>1, <2>2 DEF OutStep, OutKept, Present
  <2>4. j.rest # <<>> /\ IsTrain(j)
    BY <1>0, <2>3, Ends DEF AtWork
  <2>5. u \in ToSet(j.rest)
    BY <1>0, <2>3, <2>4, Popped DEF AtWork
  <2> QED
    BY <2>4, <2>5 DEF Started
<1>2. ASSUME NEW k \in jobs', IsTrain(k), u \in ToSet(k.rest)
      PROVE  Started(u)
  <2>1. PICK i \in jobs : k = f[i]
    BY DEF Heirs
  <2>2. IsTrain(i) /\ (i # j => k = i)
    BY <1>0, <1>2, <2>1, HeirFields
  <2>3. ToSet(f[j].rest) \subseteq ToSet(j.rest)
    BY RestOnward
  <2> QED
    BY <1>2, <2>1, <2>2, <2>3 DEF Started
<1> QED
  BY <1>0, <1>1, <1>2 DEF Started, IsTrain

LEMMA InTurnJob ==
  ASSUME Ordered, NEW j \in jobs, JobStep(j) \/ JobFails(j)
  PROVE  InTurn'
<1>0. Typed /\ LastBatch \in Nat
  BY BatchType DEF Ordered, Sound, Phased, Typed
<1>1. PICK f : Heirs(f, j) /\ (StepEffect(j, f[j]) \/ FailEffect(j, f[j]))
  BY <1>0, JobSteps, FailSteps
<1>2. cmd' = cmd
  BY <1>1, EffectUnchanged
<1>3. LastBatch' = LastBatch /\ Pairs' = Pairs /\ \A i : ToRun(i)' = ToRun(i)
  BY <1>2, SameCommand
<1>4. \A i \in 1..LastBatch : BatchSaved(i) => BatchSaved(i)'
  BY <1>0, <1>1, <1>2, PresentOnward, SavedStays
<1>5. \A k \in 1..LastBatch : ToRun(k) \subseteq LayerSet
  BY <1>0, BatchType DEF Typed
<1>6. Pairs => \A u \in LayerSet : Started(u)' => Started(u)
  BY <1>0, <1>1, StartedBefore
<1> SUFFICES ASSUME Pairs, NEW k \in 1..LastBatch, NEW u \in ToRun(k), Started(u)', NEW i \in 1..(k - 1)
             PROVE  BatchSaved(i)'
  BY <1>3 DEF InTurn
<1>7. u \in LayerSet /\ Started(u) /\ i \in 1..LastBatch
  BY <1>0, <1>5, <1>6
<1> QED
  BY <1>4, <1>7 DEF Ordered, InTurn

\* A step that leaves the store, and of the jobs.
LEMMA StartedAfter ==
  ASSUME UNCHANGED <<cmd, store>>, NEW u, Started(u)'
  PROVE  Started(u) \/ \E k \in jobs' \ jobs : IsTrain(k) /\ u \in ToSet(k.rest)
  BY DEF Started, Present, IsTrain

\* Which jobs a step of the driver may add.
LEMMA DriverTrains ==
  ASSUME Phased, DriverStep \/ StartDriver \/ KillDriver \/ UNCHANGED vars
  PROVE  /\ UNCHANGED <<cmd, store>>
         /\ \A k \in jobs' \ jobs : IsTrain(k) =>
               SubmitTrain /\ driver.pc = "relayIn" /\ k = TrainJob
<1>0. Typed /\ DriverOK
  BY DEF Phased, Typed
<1>1. CASE CheckBatch
  BY <1>0, <1>1, CheckSteps DEF CheckStep
<1>2. CASE Measure
  BY <1>0, <1>2, MeasureSteps DEF MeasureStep
<1>3. CASE SubmitRelayIn
  BY <1>0, <1>3, SubmitRelayInSteps DEF SubmitRelayInStep, Relay, IsTrain
<1>5. CASE SubmitTrain
  BY <1>0, <1>5, SubmitTrainSteps DEF SubmitTrainStep, AfterStep, Raises
<1>6. CASE SubmitRelayOut
  BY <1>0, <1>6, SubmitRelayOutSteps DEF SubmitRelayOutStep, AfterStep, Raises, Relay, IsTrain
<1>7. CASE RelayedOut
  BY <1>0, <1>7, RelayedOutSteps DEF RelayedOutStep, AfterStep, Raises
<1>8. CASE Reclaim
  BY <1>0, <1>8, ReclaimSteps DEF ReclaimStep, Raises, Rm, IsTrain
<1>9. CASE StartDriver
  BY <1>9 DEF StartDriver
<1>10. CASE KillDriver
  BY <1>10 DEF KillDriver
<1>11. CASE UNCHANGED vars
  BY <1>11 DEF vars
<1> QED
  BY <1>1, <1>2, <1>3, <1>5, <1>6, <1>7, <1>8, <1>9, <1>10, <1>11 DEF DriverStep

LEMMA InTurnOther ==
  ASSUME Ordered, DriverStep \/ StartDriver \/ KillDriver \/ UNCHANGED vars
  PROVE  InTurn'
<1>0. Phased /\ Typed /\ LastBatch \in Nat
  BY BatchType DEF Ordered, Sound, Phased, Typed
<1>1. /\ UNCHANGED <<cmd, store>>
      /\ \A k \in jobs' \ jobs : IsTrain(k) => driver.pc = "relayIn" /\ k = TrainJob
  BY <1>0, DriverTrains
<1>3. LastBatch' = LastBatch /\ Pairs' = Pairs /\ \A i : ToRun(i)' = ToRun(i) /\ BatchSaved(i)' = BatchSaved(i)
  BY <1>1, SameCommand, SavedSame
<1> SUFFICES ASSUME Pairs, NEW k \in 1..LastBatch, NEW u \in ToRun(k), Started(u)', NEW i \in 1..(k - 1)
             PROVE  BatchSaved(i)
  BY <1>3 DEF InTurn
<1>4. CASE Started(u)
  BY <1>4 DEF Ordered, InTurn
<1>5. CASE ~Started(u)
  <2>1. driver.pc = "relayIn" /\ u \in ToSet(TrainJob.rest)
    BY <1>1, <1>5, StartedAfter
  <2>2. u \in Batch(driver.batch) /\ driver.batch \in 1..LastBatch
    BY <1>0, <2>1, Running, NewTrain
  <2>3. u \in Batch(k)
    BY DEF ToRun
  <2>4. k = driver.batch
    BY <1>0, <2>2, <2>3, BatchesApart DEF Typed
  <2>5. Behind(i) /\ i \in 1..LastBatch
    BY <1>0, <2>1, <2>2, <2>4 DEF Behind, Active
  <2>6. ~Training
    BY DEF Training, Pairs
  <2> QED
    BY <2>5, <2>6 DEF Ordered, Sound, SavedOK
<1> QED
  BY <1>4, <1>5

LEMMA InTurnInit == ASSUME Init PROVE InTurn
<1> SUFFICES ASSUME Pairs, NEW k \in 1..LastBatch, NEW u \in ToRun(k), Started(u)
             PROVE  FALSE
  BY DEF InTurn
<1>1. u \in LayerSet /\ jobs = {}
  BY TypedInit, BatchType DEF Init, Typed
<1>2. Out(u) \in Paths /\ "nfs" \in Places
  BY <1>1, PathsApart DEF Places
<1>3. Present("nfs", u) => u \in cmd.saved
  BY <1>2 DEF Init, Present, Out
<1> QED
  BY <1>1, <1>3 DEF Started

LEMMA AlwaysOrdered == Spec => []Ordered
<1>1. Init => Ordered
  BY InTurnInit, SoundInit DEF Ordered
<1>2. Ordered /\ [Next]_vars => Ordered'
  <2> SUFFICES ASSUME Ordered, [Next]_vars PROVE InTurn'
    BY SoundNext DEF Ordered
  <2> QED
    BY InTurnJob, InTurnOther DEF Next, Settled
<1> QED
  BY <1>1, <1>2, PTL DEF Spec

-----------------------------------------------------------------------------
(* Resident: what this run has brought to the compute node. *)

\* Layers kept for batches of sublayers that an earlier sweep has done, and the other
\* layers that this run has brought to the compute node.
Kept == UNION {BatchLayers(i) : i \in {k \in 1..LastBatch : Pairs /\ ToRun(k) \subseteq cmd.saved}}
Here == {l \in LayerSet : store["compute"][In(l)] # "none"} \ (left \union Kept)

\* What the jobs of earlier runs still relay counts as left by them.
LeftOK == \A j \in jobs : \A l \in LayerSet : j.owner # run /\ In(l) \in j.paths => l \in left
ToBeReclaimed(l) ==
    \/ l \in ToSet(driver.todo) \/ NeededLater(l)
    \/ \E j \in Mine : IsRm(j) /\ j.paths = {In(l)} /\ j.pc # "ok"
BatchWork == {"measure", "relayIn", "train", "relayOut", "reclaim"}
HereOK ==
    (~cmd.skipReclaim /\ ~cmd.sameNode) =>
        /\ Active => Here \subseteq BatchLayers(driver.batch)
        /\ driver.pc = "check" /\ Here # {} => Pairs /\ Fresh(driver.batch)
        /\ driver.pc \in BatchWork /\ Pairs => Fresh(driver.batch + 1)
        /\ driver.pc = "reclaim" => \A l \in Here : ToBeReclaimed(l)
        /\ driver.pc = "done" => Here = {}

Resident == Ordered /\ LeftOK /\ HereOK

\* The only step that brings a layer to the compute node is that of its relay.
LEMMA OnlyFeedBrings ==
  ASSUME Typed, NEW j \in jobs, NEW k, StepEffect(j, k) \/ FailEffect(j, k), NEW l \in LayerSet,
         store["compute"][In(l)] = "none", store'["compute"][In(l)] # "none"
  PROVE  IsFeed(j) /\ In(l) \in j.paths
<1>0. /\ {"compute", "staging"} \subseteq Places /\ In(l) \in Paths /\ \A m : In(l) # Out(m)
      /\ JobOK(j) /\ j.from \in Places /\ j.to \in Places
  BY PathsApart, JobFields DEF Typed, JobsOK, AllOK, Places
<1>1. \A from, to, ps : BegunAt(from, to, ps) \/ RsyncedAt(from, to, ps) => to = "compute" /\ In(l) \in ps
  BY <1>0 DEF BegunAt, RsyncedAt
<1>2. \A place, ps, v : ~RemovedAt(place, ps, v)
  BY <1>0 DEF RemovedAt
<1>3. \A m, v : ~SavedAt(m, v)
  BY <1>0 DEF SavedAt
<1>4. store' # store
  OBVIOUS
<1>5. ~TrainEffect(j, k) /\ ~RmEffect(j, k)
  BY <1>2, <1>3, <1>4 DEF RmEffect, TrainEffect, LoadTrainingEffect, SkipEffect, FitEffect, LoadLayerEffect,
     SaveBeginEffect, CheckpointEndEffect, LosesInputEffect, SaveEndEffect, TrainDoneEffect
<1>6. RelayEffect(j, k) => IsRelay(j) /\ j.to = "compute" /\ In(l) \in j.paths
  BY <1>1, <1>2, <1>4 DEF RelayEffect, UpBeginEffect, UpEndEffect, DownBeginEffect,
     DownEndEffect, CleanEffect, TornEffect
<1>7. FailEffect(j, k) => j.pc = "down" /\ j.to = "compute" /\ In(l) \in j.paths
  BY <1>1, <1>4 DEF FailEffect, FailStep
<1>8. j.pc = "down" => IsRelay(j)
  BY <1>0, Ends
<1> QED
  BY <1>5, <1>6, <1>7, <1>8 DEF StepEffect, IsFeed, IsRelay

\* A reclaiming job that has ended well has removed its layer.
LEMMA RmDone ==
  ASSUME Typed, NEW j \in jobs, NEW k, StepEffect(j, k) \/ FailEffect(j, k), NEW l \in LayerSet,
         IsRm(j), In(l) \in j.paths, k.pc = "ok", j.pc # "ok"
  PROVE  store'["compute"][In(l)] = "none"
<1>0. "compute" \in Places /\ In(l) \in Paths /\ ~IsRelay(j) /\ ~IsTrain(j)
  BY PathsApart DEF Places, IsRm, IsRelay, IsTrain
<1>1. ~FailEffect(j, k)
  BY <1>0 DEF FailEffect, IsNow
<1>2. ~RelayEffect(j, k) /\ ~TrainEffect(j, k)
  BY <1>0 DEF RelayEffect, UpBeginEffect, UpEndEffect, DownBeginEffect, DownEndEffect, CleanEffect, TornEffect,
     TrainEffect, LoadTrainingEffect, SkipEffect, FitEffect, LoadLayerEffect, SaveBeginEffect,
     CheckpointEndEffect, LosesInputEffect, SaveEndEffect, TrainDoneEffect
<1>3. RmEffect(j, k)
  BY <1>1, <1>2 DEF StepEffect
<1>4. RemovedAt("compute", j.paths, "none")
  BY <1>3 DEF RmEffect, IsNow
<1> QED
  BY <1>0, <1>4 DEF RemovedAt

LEMMA KeptSame ==
  ASSUME cmd' = cmd
  PROVE  Kept' = Kept
<1>1. LastBatch' = LastBatch /\ Pairs' = Pairs /\ \A i : ToRun(i)' = ToRun(i) /\ BatchLayers(i)' = BatchLayers(i)
  BY SameCommand
<1> QED
  BY <1>1 DEF Kept

LEMMA FreshJob ==
  ASSUME Typed, Pairs, NEW j \in jobs, NEW f, Heirs(f, j), StepEffect(j, f[j]) \/ FailEffect(j, f[j]),
         NEW b, Fresh(b)
  PROVE  Fresh(b)'
<1>1. cmd' = cmd
  BY EffectUnchanged
<1>2. LastBatch' = LastBatch /\ \A i : ToRun(i)' = ToRun(i)
  BY <1>1, SameCommand
<1>3. \A i \in 1..LastBatch : ToRun(i) \subseteq LayerSet
  BY BatchType DEF Typed
<1>4. \A u \in LayerSet : Started(u)' => Started(u)
  BY StartedBefore
<1>5. \A i \in 1..LastBatch : i >= b => \A u \in ToRun(i) : ~Started(u)'
  BY <1>3, <1>4 DEF Fresh
<1> QED
  BY <1>2, <1>5 DEF Fresh

LEMMA ResidentJob ==
  ASSUME Resident, NEW j \in jobs, JobStep(j) \/ JobFails(j)
  PROVE  LeftOK' /\ HereOK'
<1>0. Phased /\ Typed /\ JobOK(j) /\ driver.batch \in 1..LastBatch
  BY JobRuns DEF Resident, Ordered, Sound, Phased, Typed, JobsOK, AllOK
<1>1. PICK f : Heirs(f, j) /\ (StepEffect(j, f[j]) \/ FailEffect(j, f[j]))
  BY <1>0, JobSteps, FailSteps
<1>2. UNCHANGED <<cmd, driver, run, left>>
  BY <1>1, EffectUnchanged
<1>3. Pairs' = Pairs /\ Active' = Active /\ BatchLayers(driver.batch)' = BatchLayers(driver.batch)
  BY <1>2, SameCommand DEF Active
<1>4. LeftOK'
  <2>1. \A k \in jobs' : \E i \in jobs : k.owner = i.owner /\ k.paths = i.paths
    BY <1>1 DEF Heirs, Static
  <2> QED
    BY <1>2, <2>1 DEF LeftOK, Resident
<1>5. \A l \in LayerSet : l \in Here' =>
          l \in Here \/ (l \in BatchLayers(driver.batch) /\ driver.pc \in {"off", "relayIn"})
  <2> SUFFICES ASSUME NEW l \in LayerSet, l \in Here', l \notin Here
               PROVE  l \in BatchLayers(driver.batch) /\ driver.pc \in {"off", "relayIn"}
    OBVIOUS
  <2>1. l \notin left /\ store["compute"][In(l)] = "none" /\ store'["compute"][In(l)] # "none"
    BY <1>2, KeptSame DEF Here
  <2>2. IsFeed(j) /\ In(l) \in j.paths
    BY <1>0, <1>1, <2>1, OnlyFeedBrings
  <2>3. j \in Mine
    BY <2>1, <2>2 DEF Resident, LeftOK, Mine
  <2>4. l \in BatchLayers(driver.batch)
    <3>1. PICK m \in BatchLayers(driver.batch) : j.paths = {In(m)}
      BY <1>0, <2>2, <2>3 DEF Phased, MinesOK, MineOK
    <3> QED
      BY <2>2, <3>1, PathsApart
  <2>5. ~IsTrain(j) /\ ~IsReturn(j) /\ ~IsRm(j)
    BY <2>2 DEF IsFeed, IsTrain, IsReturn, IsRm
  <2>6. driver.pc \in DriverPcs
    BY <1>0, DriverFields DEF Typed
  <2> QED
    BY <1>0, <2>3, <2>4, <2>5, <2>6 DEF Phased, PhaseOK, DriverPcs
<1>6. Pairs => \A b : Fresh(b) => Fresh(b)'
  BY <1>0, <1>1, FreshJob
<1>7. Here' \subseteq LayerSet /\ Here \subseteq LayerSet
  BY <1>2 DEF Here
<1>8. ASSUME driver.pc = "reclaim", NEW l \in Here', ToBeReclaimed(l)
      PROVE  ToBeReclaimed(l)'
  <2>1. NeededLater(l)' = NeededLater(l)
    BY <1>2, SameBatch
  <2>2. CASE \E i \in Mine : IsRm(i) /\ i.paths = {In(l)} /\ i.pc # "ok"
    <3>1. PICK i \in Mine : IsRm(i) /\ i.paths = {In(l)} /\ i.pc # "ok"
      BY <2>2
    <3>2. Active /\ i \in jobs
      BY <1>8, MineType DEF Active
    <3>3. f[i] \in Mine' /\ IsRm(f[i]) /\ f[i].paths = {In(l)}
      BY <1>1, <1>2, <3>1, <3>2, HeirFields
    <3>4. f[i].pc # "ok"
      <4>1. CASE i = j
        <5>1. store'["compute"][In(l)] # "none" /\ l \in LayerSet
          BY <1>7, <1>8 DEF Here
        <5> QED
          BY <1>0, <1>1, <3>1, <4>1, <5>1, RmDone
      <4>2. CASE i # j
        BY <1>1, <3>1, <3>2, <4>2 DEF Heirs, Torn, IsRm, IsRelay
      <4> QED
        BY <4>1, <4>2
    <3> QED
      BY <3>3, <3>4 DEF ToBeReclaimed
  <2> QED
    BY <1>2, <1>8, <2>1, <2>2 DEF ToBeReclaimed
<1>9. HereOK'
  <2> SUFFICES ASSUME ~cmd.skipReclaim, ~cmd.sameNode PROVE HereOK'
    BY <1>2 DEF HereOK
  <2>1. HereOK
    BY DEF Resident
  <2>2. Active => Here' \subseteq BatchLayers(driver.batch)
    BY <1>5, <1>7, <2>1 DEF HereOK
  <2>3. driver.pc = "check" /\ Here' # {} => Pairs /\ Fresh(driver.batch)'
    <3>1. driver.pc = "check" /\ Here' # {} => Here # {}
      BY <1>5, <1>7
    <3> QED
      BY <1>2, <1>6, <2>1, <3>1 DEF HereOK
  <2>4. driver.pc \in BatchWork /\ Pairs => Fresh(driver.batch + 1)'
    BY <1>2, <1>6, <2>1 DEF HereOK
  <2>5. driver.pc = "reclaim" => \A l \in Here' : ToBeReclaimed(l)'
    BY <1>5, <1>7, <1>8, <2>1 DEF HereOK
  <2>6. driver.pc = "done" => Here' = {}
    BY <1>5, <1>7, <2>1 DEF HereOK
  <2> QED
    BY <1>2, <1>3, <2>2, <2>3, <2>4, <2>5, <2>6 DEF HereOK, Fresh
<1> QED
  BY <1>4, <1>9

\* What a step of the driver leaves as it was.
LEMMA FreshAfter ==
  ASSUME Phased, DriverStep, NEW b \in Int, Fresh(b), driver.pc = "relayIn" => driver.batch < b
  PROVE  Fresh(b)'
<1>0. Typed /\ LastBatch \in Nat
  BY BatchType DEF Phased, Typed
<1>1. /\ UNCHANGED <<cmd, store>>
      /\ \A k \in jobs' \ jobs : IsTrain(k) => driver.pc = "relayIn" /\ k = TrainJob
  BY DriverTrains
<1>2. LastBatch' = LastBatch /\ \A i : ToRun(i)' = ToRun(i)
  BY <1>1, SameCommand
<1> SUFFICES ASSUME NEW i \in 1..LastBatch, i >= b, NEW u \in ToRun(i), Started(u)' PROVE FALSE
  BY <1>2 DEF Fresh
<1>3. ~Started(u)
  BY DEF Fresh
<1>4. driver.pc = "relayIn" /\ u \in ToSet(TrainJob.rest)
  BY <1>1, <1>3, StartedAfter
<1>5. u \in Batch(driver.batch) /\ driver.batch \in 1..LastBatch
  BY <1>0, <1>4, Running, NewTrain DEF ToRun
<1>6. driver.batch < i /\ u \in Batch(i)
  BY <1>0, <1>4, <1>5 DEF ToRun
<1> QED
  BY <1>0, <1>5, <1>6, BatchesApart DEF Typed

LEMMA LeftAfter ==
  ASSUME Resident, DriverStep \/ KillDriver
  PROVE  LeftOK' /\ Here' = Here /\ UNCHANGED <<cmd, run>>
<1>1. /\ UNCHANGED <<cmd, store, run, left>>
      /\ \A k \in jobs' : k \in jobs \/ k.owner = run
  <2>1. CASE DriverStep
    BY <2>1, DriverJobs DEF Resident, Ordered, Sound
  <2>2. CASE KillDriver
    BY <2>2, KillStep DEF Resident, Ordered, Sound, Phased, Typed
  <2> QED
    BY <2>1, <2>2
<1>2. LeftOK'
  BY <1>1 DEF Resident, LeftOK
<1>3. Here' = Here
  BY <1>1, KeptSame DEF Here
<1> QED
  BY <1>1, <1>2, <1>3

\* Nothing is there, or the driver has raised.
LEMMA NothingHere ==
  ASSUME Here' = {}, driver'.pc \in {"check", "done"}
  PROVE  HereOK'
  BY DEF HereOK, BatchWork

LEMMA RaisedHere ==
  ASSUME driver'.pc \in {"off", "raised"}
  PROVE  HereOK'
  BY DEF HereOK, BatchWork, Active

\* The driver goes on with the batch.
LEMMA WorkHere ==
  ASSUME Resident, DriverStep, driver'.batch = driver.batch,
         driver'.pc \in BatchWork, Active,
         (Pairs /\ ~cmd.skipReclaim /\ ~cmd.sameNode) => Fresh(driver.batch + 1)',
         driver'.pc = "reclaim" => \A l \in Here : l \in BatchLayers(driver.batch) => ToBeReclaimed(l)'
  PROVE  HereOK'
<1>1. Here' = Here /\ UNCHANGED cmd
  BY LeftAfter
<1>2. BatchLayers(driver.batch)' = BatchLayers(driver.batch) /\ Pairs' = Pairs
  BY <1>1, SameBatch, SameCommand
<1> SUFFICES ASSUME ~cmd.skipReclaim, ~cmd.sameNode PROVE HereOK'
  BY <1>1 DEF HereOK
<1>3. Here \subseteq BatchLayers(driver.batch)
  BY DEF Resident, HereOK
<1>4. Here' \subseteq BatchLayers(driver.batch)'
  BY <1>1, <1>2, <1>3
<1>5. driver'.pc = "reclaim" => \A l \in Here' : ToBeReclaimed(l)'
  BY <1>1, <1>3
<1>6. driver'.pc # "check" /\ driver'.pc # "done"
  BY DEF BatchWork
<1>7. Pairs' => Fresh(driver.batch + 1)'
  BY <1>2
<1> QED
  BY <1>4, <1>5, <1>6, <1>7 DEF HereOK

LEMMA FreshWork ==
  ASSUME Resident, DriverStep, driver'.batch = driver.batch, driver.pc \in BatchWork
  PROVE  (Pairs /\ ~cmd.skipReclaim /\ ~cmd.sameNode) => Fresh(driver.batch + 1)'
<1>1. Phased /\ driver.batch \in Nat
  BY DriverFields DEF Resident, Ordered, Sound, Phased, Typed
<1> DEFINE b == driver.batch + 1
<1>2. b \in Int /\ driver.batch < b
  BY <1>1
<1>3. (Pairs /\ ~cmd.skipReclaim /\ ~cmd.sameNode) => Fresh(b)
  BY DEF Resident, HereOK
<1> HIDE DEF b
<1>4. \A c \in Int : Fresh(c) /\ driver.batch < c => Fresh(c)'
  BY <1>1, FreshAfter
<1>5. driver'.batch + 1 = b
  BY DEF b
<1> QED
  BY <1>2, <1>3, <1>4, <1>5

-----------------------------------------------------------------------------
\* A batch that is found complete keeps none of this run's layers, unless it was
\* complete from the start.
LEMMA PassedEmpty ==
  ASSUME Resident, driver.pc = "check", ToRun(driver.batch) = {} \/ Complete(driver.batch),
         ~cmd.skipReclaim, ~cmd.sameNode
  PROVE  Here = {}
<1> SUFFICES ASSUME Here # {} PROVE FALSE
  OBVIOUS
<1>1. Pairs /\ Fresh(driver.batch) /\ Here \subseteq BatchLayers(driver.batch)
  BY DEF Resident, HereOK, Active
<1>2. ~Training
  BY <1>1 DEF Pairs, Training
<1>3. driver.batch \in 1..LastBatch /\ driver.batch \in Nat
  BY Running, DriverFields DEF Resident, Ordered, Sound, Phased, Typed
<1>4. \A u \in ToRun(driver.batch) : Present("nfs", u)
  BY <1>1, <1>2 DEF Complete, SamplesExist
<1>5. \A u \in ToRun(driver.batch) : ~Started(u)
  BY <1>1, <1>3 DEF Fresh
<1>6. ToRun(driver.batch) \subseteq cmd.saved
  BY <1>4, <1>5 DEF Started
<1>7. BatchLayers(driver.batch) \subseteq Kept
  BY <1>1, <1>3, <1>6 DEF Kept
<1> QED
  BY <1>1, <1>7 DEF Here

LEMMA NotBegun ==
  ASSUME Resident, driver.pc = "check", ToRun(driver.batch) # {}, ~Complete(driver.batch), Pairs
  PROVE  Fresh(driver.batch + 1)
<1>1. ~Training
  BY DEF Pairs, Training
<1>2. driver.batch \in 1..LastBatch /\ driver.batch \in Nat /\ LastBatch \in Nat
  BY Running, DriverFields, BatchType DEF Resident, Ordered, Sound, Phased, Typed
<1>3. PICK u \in ToRun(driver.batch) : ~Present("nfs", u)
  BY <1>1 DEF Complete, SamplesExist
<1>4. ~BatchSaved(driver.batch)
  BY <1>1, <1>3 DEF BatchSaved, Saved
<1> SUFFICES ASSUME NEW i \in 1..LastBatch, i >= driver.batch + 1, NEW v \in ToRun(i), Started(v) PROVE FALSE
  BY DEF Fresh
<1>5. driver.batch \in 1..(i - 1)
  BY <1>2
<1> QED
  BY <1>4, <1>5 DEF Resident, Ordered, InTurn

LEMMA HereCheck == ASSUME Resident, CheckBatch PROVE HereOK'
<1>0. DriverStep /\ DriverOK /\ driver.batch \in Nat
  BY DriverFields DEF DriverStep, Resident, Ordered, Sound, Phased, Typed
<1>1. CheckStep /\ driver.pc = "check"
  BY <1>0, CheckSteps DEF CheckStep
<1>2. Here' = Here /\ UNCHANGED cmd
  BY <1>0, LeftAfter
<1> SUFFICES ASSUME ~cmd.skipReclaim, ~cmd.sameNode PROVE HereOK'
  BY <1>2 DEF HereOK
<1>3. CASE (ToRun(driver.batch) = {} \/ Complete(driver.batch)) /\ Advance
  <2>1. Here' = {}
    BY <1>1, <1>2, <1>3, PassedEmpty
  <2>2. driver'.pc \in {"check", "done"}
    BY <1>3 DEF Advance, DriverAt
  <2> QED
    BY <2>1, <2>2, NothingHere
<1>4. CASE DriverAt("measure", driver.batch, driver.todo) /\
           ((ToRun(driver.batch) # {} /\ ~Complete(driver.batch)) \/ Training)
  <2>1. driver'.pc = "measure" /\ driver'.batch = driver.batch
    BY <1>4 DEF DriverAt
  <2> DEFINE b == driver.batch + 1
  <2>2. b \in Int
    BY <1>0
  <2>3. Pairs => Fresh(b)
    BY <1>1, <1>4, NotBegun DEF Pairs, Training
  <2> HIDE DEF b
  <2>4. \A c \in Int : Fresh(c) => Fresh(c)'
    BY <1>0, <1>1, FreshAfter DEF Resident, Ordered, Sound
  <2>5. driver'.batch + 1 = b
    BY <2>1 DEF b
  <2>6. Pairs => Fresh(driver.batch + 1)'
    BY <2>2, <2>3, <2>4, <2>5
  <2> QED
    BY <1>0, <1>1, <2>1, <2>6, WorkHere DEF BatchWork, Active
<1> QED
  BY <1>1, <1>3, <1>4 DEF CheckStep

LEMMA HereMeasure == ASSUME Resident, Measure PROVE HereOK'
<1>1. MeasureStep /\ DriverStep
  BY MeasureSteps DEF Resident, Ordered, Sound, Phased, DriverStep
<1>2. driver.pc = "measure" /\ driver'.pc = "relayIn" /\ driver'.batch = driver.batch
  BY <1>1 DEF MeasureStep, DriverAt
<1> QED
  BY <1>1, <1>2, FreshWork, WorkHere DEF BatchWork, Active

LEMMA HereSubmitRelayIn == ASSUME Resident, SubmitRelayIn PROVE HereOK'
<1>1. SubmitRelayInStep /\ DriverStep
  BY SubmitRelayInSteps DEF Resident, Ordered, Sound, Phased, DriverStep
<1>2. driver.pc = "relayIn" /\ driver'.pc = "relayIn" /\ driver'.batch = driver.batch
  BY <1>1 DEF SubmitRelayInStep, DriverAt
<1> QED
  BY <1>1, <1>2, FreshWork, WorkHere DEF BatchWork, Active

LEMMA HereSubmitTrain == ASSUME Resident, SubmitTrain PROVE HereOK'
<1>1. SubmitTrainStep /\ DriverStep
  BY SubmitTrainSteps DEF Resident, Ordered, Sound, Phased, Typed, DriverStep
<1>2. CASE Raises
  BY <1>2, RaisedHere DEF Raises, DriverAt
<1>3. CASE DriverAt("train", driver.batch, driver.todo)
  <2>1. driver.pc = "relayIn" /\ driver'.pc = "train" /\ driver'.batch = driver.batch
    BY <1>1, <1>3 DEF SubmitTrainStep, AfterStep, DriverAt
  <2> QED
    BY <1>1, <2>1, FreshWork, WorkHere DEF BatchWork, Active
<1> QED
  BY <1>1, <1>2, <1>3 DEF SubmitTrainStep, AfterStep

\* Of the batch's layers, those that no later batch needs are to be reclaimed.
LEMMA HereLeaves ==
  ASSUME Resident, DriverStep, Leaves, driver.pc \in {"train", "relayOut"}
  PROVE  HereOK'
<1>1. UNCHANGED cmd
  BY LeftAfter
<1> SUFFICES ASSUME ~cmd.skipReclaim, ~cmd.sameNode PROVE HereOK'
  BY <1>1 DEF HereOK
<1>2. PICK todo : /\ DriverAt("reclaim", driver.batch, todo)
                  /\ ToSet(todo) = {l \in BatchLayers(driver.batch) : ~NeededLater(l)}
  BY DEF Leaves
<1>3. driver'.pc = "reclaim" /\ driver'.batch = driver.batch /\ driver'.todo = todo
  BY <1>2 DEF DriverAt
<1>4. \A l : NeededLater(l)' = NeededLater(l)
  BY <1>1, <1>3, SameBatch
<1>5. \A l \in BatchLayers(driver.batch) : ToBeReclaimed(l)'
  BY <1>2, <1>3, <1>4 DEF ToBeReclaimed
<1> QED
  BY <1>3, <1>5, FreshWork, WorkHere DEF BatchWork, Active

LEMMA HereSubmitRelayOut == ASSUME Resident, SubmitRelayOut PROVE HereOK'
<1>1. SubmitRelayOutStep /\ DriverStep /\ driver.pc = "train"
  BY SubmitRelayOutSteps DEF Resident, Ordered, Sound, Phased, DriverStep, SubmitRelayOutStep, AfterStep
<1>2. CASE Raises
  BY <1>2, RaisedHere DEF Raises, DriverAt
<1>3. CASE DriverAt("relayOut", driver.batch, driver.todo)
  <2>1. driver'.pc = "relayOut" /\ driver'.batch = driver.batch
    BY <1>3 DEF DriverAt
  <2> QED
    BY <1>1, <2>1, FreshWork, WorkHere DEF BatchWork, Active
<1>4. CASE Leaves
  BY <1>1, <1>4, HereLeaves
<1> QED
  BY <1>1, <1>2, <1>3, <1>4 DEF SubmitRelayOutStep, AfterStep

LEMMA HereRelayedOut == ASSUME Resident, RelayedOut PROVE HereOK'
<1>1. RelayedOutStep /\ DriverStep /\ driver.pc = "relayOut"
  BY RelayedOutSteps DEF Resident, Ordered, Sound, Phased, DriverStep, RelayedOutStep, AfterStep
<1>2. CASE Raises
  BY <1>2, RaisedHere DEF Raises, DriverAt
<1>3. CASE Leaves
  BY <1>1, <1>3, HereLeaves
<1> QED
  BY <1>1, <1>2, <1>3 DEF RelayedOutStep, AfterStep

LEMMA HereReclaim == ASSUME Resident, Neighbours, Reclaim PROVE HereOK'
<1>0. /\ DriverStep /\ Typed /\ Phased /\ driver.pc = "reclaim" /\ driver.todo \in Seq(LayerSet)
      /\ driver.batch \in Nat
  BY DriverFields DEF Resident, Ordered, Sound, Phased, Typed, DriverStep, Reclaim
<1>1. ReclaimStep
  BY <1>0, ReclaimSteps
<1>2. Here' = Here /\ UNCHANGED <<cmd, run>>
  BY <1>0, LeftAfter
<1>3. driver.batch \in 1..LastBatch /\ LastBatch \in Nat
  BY <1>0, Running, BatchType DEF Typed
<1> SUFFICES ASSUME ~cmd.skipReclaim, ~cmd.sameNode PROVE HereOK'
  BY <1>2 DEF HereOK
<1>4. Here \subseteq BatchLayers(driver.batch) /\ \A l \in Here : ToBeReclaimed(l)
  BY <1>0 DEF Resident, HereOK, Active
<1>5. CASE Raises
  BY <1>5, RaisedHere DEF Raises, DriverAt
<1>6. CASE Succeeded /\ driver.todo = <<>> /\ Advance
  <2>1. \A l \in Here : NeededLater(l)
    <3>1. \A l : l \notin ToSet(driver.todo)
      BY <1>6, NoLayers
    <3> QED
      BY <1>4, <1>6, <3>1 DEF ToBeReclaimed, Succeeded
  <2>2. Here # {} => Pairs /\ driver.batch # LastBatch
    BY <1>0, <1>3, <1>4, <2>1, SharedNext DEF Typed
  <2>3. Here \subseteq BatchLayers(driver.batch + 1)
    BY <1>0, <1>3, <1>4, <2>1, SharedNext DEF Typed
  <2>4. CASE Here = {}
    BY <1>2, <1>6, <2>4, NothingHere DEF Advance, DriverAt
  <2>5. CASE Here # {}
    <3> DEFINE b == driver.batch + 1
    <3>1. driver'.pc = "check" /\ driver'.batch = b
      BY <1>6, <2>2, <2>5 DEF Advance, DriverAt
    <3>2. b \in Int /\ Fresh(b)
      BY <1>0, <2>2, <2>5 DEF Resident, HereOK, BatchWork
    <3>3. \A i : BatchLayers(i)' = BatchLayers(i)
      BY <1>2, SameCommand
    <3>4. Here \subseteq BatchLayers(b)
      BY <2>3
    <3> HIDE DEF b
    <3>5. \A c \in Int : Fresh(c) => Fresh(c)'
      BY <1>0, FreshAfter
    <3>6. BatchLayers(driver.batch)' = BatchLayers(b) /\ Fresh(driver.batch)' /\ Pairs'
      BY <1>2, <2>2, <2>5, <3>1, <3>2, <3>3, <3>5, SameCommand
    <3> QED
      BY <1>2, <3>1, <3>4, <3>6 DEF HereOK, BatchWork
  <2> QED
    BY <2>4, <2>5
<1>7. CASE /\ Succeeded /\ driver.todo # <<>>
           /\ DriverAt("reclaim", driver.batch, Tail(driver.todo))
           /\ jobs' = (jobs \ Mine) \union {Rm(Compute, {In(Head(driver.todo))})}
  <2>1. driver'.pc = "reclaim" /\ driver'.batch = driver.batch /\ driver'.todo = Tail(driver.todo)
    BY <1>7 DEF DriverAt
  <2>2. \A l : NeededLater(l)' = NeededLater(l)
    BY <1>2, <2>1, SameBatch
  <2>3. ToSet(driver.todo) = {Head(driver.todo)} \union ToSet(Tail(driver.todo))
    BY <1>0, <1>7, Popped
  <2> DEFINE new == Rm(Compute, {In(Head(driver.todo))})
  <2>4. new.owner = run /\ new.paths = {In(Head(driver.todo))} /\ IsRm(new) /\ new.pc # "ok"
    BY DEF Rm, IsRm
  <2> HIDE DEF new
  <2>5. Mine' = {new}
    BY <1>2, <1>7, <2>4, MineThen DEF new
  <2>6. \A l \in Here : ToBeReclaimed(l)'
    <3> SUFFICES ASSUME NEW l \in Here PROVE ToBeReclaimed(l)'
      OBVIOUS
    <3>1. l \in ToSet(driver.todo) \/ NeededLater(l)
      BY <1>4, <1>7 DEF ToBeReclaimed, Succeeded
    <3>2. CASE l = Head(driver.todo)
      BY <2>4, <2>5, <3>2 DEF ToBeReclaimed, IsRm
    <3>3. CASE l \in ToSet(Tail(driver.todo)) \/ NeededLater(l)
      BY <2>1, <2>2, <3>3 DEF ToBeReclaimed
    <3> QED
      BY <2>3, <3>1, <3>2, <3>3
  <2> QED
    BY <1>0, <2>1, <2>6, FreshWork, WorkHere DEF BatchWork, Active
<1> QED
  BY <1>1, <1>5, <1>6, <1>7 DEF ReclaimStep

\* What is there when a run starts has been left by those before it.
LEMMA ResidentStart == ASSUME Resident, StartDriver PROVE LeftOK' /\ HereOK'
<1>1. /\ UNCHANGED <<cmd, store>> /\ run' = run + 1 /\ jobs' = {j \in jobs : Live(j)}
      /\ driver'.pc = "check"
      /\ left' = {l \in LayerSet : store["compute"][In(l)] # "none"}
                   \union {l \in LayerSet : \E j \in jobs : Live(j) /\ In(l) \in j.paths}
  BY DEF StartDriver
<1>2. LeftOK'
  BY <1>1 DEF LeftOK
<1>3. Here' = {}
  BY <1>1 DEF Here
<1> QED
  BY <1>1, <1>2, <1>3, NothingHere

LEMMA ResidentSame == ASSUME Resident, UNCHANGED vars PROVE LeftOK' /\ HereOK'
<1>1. /\ UNCHANGED <<cmd, store, jobs, driver, run, left>> /\ Mine' = Mine
      /\ Active' = Active
  BY MineThen DEF vars, Active
<1>2. /\ Here' = Here /\ Pairs' = Pairs /\ LastBatch' = LastBatch /\ \A i : ToRun(i)' = ToRun(i)
      /\ BatchLayers(driver.batch)' = BatchLayers(driver.batch)
      /\ \A l : NeededLater(l)' = NeededLater(l)
  BY <1>1, KeptSame, SameCommand, SameBatch DEF Here
<1>3. \A l : ToBeReclaimed(l)' = ToBeReclaimed(l)
  BY <1>1, <1>2 DEF ToBeReclaimed, IsRm
<1>4. \A u : Started(u)' = Started(u)
  BY <1>1 DEF Started, Present, IsTrain
<1>5. \A b : Fresh(b)' = Fresh(b)
  BY <1>2, <1>4 DEF Fresh
<1>6. LeftOK'
  BY <1>1 DEF Resident, LeftOK
<1> QED
  BY <1>1, <1>2, <1>3, <1>5, <1>6 DEF Resident, HereOK

LEMMA ResidentInit == ASSUME Init PROVE LeftOK /\ HereOK
  BY DEF Init, LeftOK, HereOK, Active, BatchWork

LEMMA ResidentNext == ASSUME Resident, Neighbours, [Next]_vars PROVE LeftOK' /\ HereOK'
<1>1. CASE StartDriver
  BY <1>1, ResidentStart
<1>2. CASE DriverStep
  <2>1. LeftOK'
    BY <1>2, LeftAfter
  <2>2. HereOK'
    BY <1>2, HereCheck, HereMeasure, HereSubmitRelayIn, HereSubmitTrain, HereSubmitRelayOut,
       HereRelayedOut, HereReclaim DEF DriverStep
  <2> QED
    BY <2>1, <2>2
<1>3. CASE KillDriver
  <2>1. driver'.pc = "off"
    BY <1>3, KillStep DEF Resident, Ordered, Sound, Phased, Typed, DriverAt
  <2> QED
    BY <1>3, <2>1, LeftAfter, RaisedHere
<1>4. CASE \E j \in jobs : JobStep(j) \/ JobFails(j)
  BY <1>4, ResidentJob
<1>5. CASE UNCHANGED vars
  BY <1>5, ResidentSame
<1> QED
  BY <1>1, <1>2, <1>3, <1>4, <1>5 DEF Next, Settled

LEMMA AlwaysResident == ASSUME Neighbours PROVE Spec => []Resident
<1>1. Init => LeftOK /\ HereOK
  BY ResidentInit
<1>2. Ordered /\ LeftOK /\ HereOK /\ [Next]_vars => LeftOK' /\ HereOK'
  BY ResidentNext DEF Resident
<1>3. Spec => []Ordered
  BY AlwaysOrdered
<1>4. Spec => [](LeftOK /\ HereOK)
  BY <1>1, <1>2, <1>3, PTL DEF Spec
<1>5. Ordered /\ LeftOK /\ HereOK => Resident
  BY DEF Resident
<1> QED
  BY <1>3, <1>4, <1>5, PTL

LEMMA ResidentOne == ASSUME Resident PROVE OneBatchResident
<1>0. Typed /\ HistoryOK /\ StoreOK
  BY DEF Resident, Ordered, Sound, Phased, Typed
<1>1. cmd.sameNode => Here = {}
  BY <1>0 DEF StoreOK, Here
<1>2. ASSUME ~cmd.skipReclaim, Active
      PROVE  /\ Here \subseteq BatchLayers(driver.batch)
             /\ Gb(Here) <= cmd.target \/ \E u \in LayerSet : Batch(driver.batch) = {u}
  <2>1. driver.batch \in 1..LastBatch
    BY <1>0, <1>2, Running DEF Active
  <2>2. Here \subseteq BatchLayers(driver.batch)
    BY <1>1, <1>2 DEF Resident, HereOK
  <2>3. Gb(BatchLayers(driver.batch)) <= cmd.target \/ \E u \in LayerSet : Batch(driver.batch) = {u}
    BY <1>0, <2>1, BatchOrder
  <2> DEFINE have == Gb(Here)  all == Gb(BatchLayers(driver.batch))
  <2>4. have \in Nat /\ all \in Nat /\ have <= all /\ cmd.target \in Nat
    BY <1>0, <2>2, GbOf, CommandType
  <2>5. all <= cmd.target => have <= cmd.target
    <3> HIDE DEF have, all
    <3> QED
      BY <2>4
  <2> QED
    BY <2>2, <2>3, <2>5
<1>3. ~cmd.skipReclaim /\ driver.pc = "done" /\ ~cmd.sameNode => Here = {}
  BY DEF Resident, HereOK
<1> QED
  BY <1>2, <1>3 DEF OneBatchResident, Here, Kept

\* Of what a run brings to the compute node only the current batch is there, and it fits
\* --target-batch-gb or is one unit, provided that the sublayers which share a layer are
\* neighbours, as they are in the configs.
THEOREM OneBatchAtATime == ASSUME Neighbours PROVE Spec => []OneBatchResident
<1>1. Spec => []Resident
  BY AlwaysResident
<1>2. Resident => OneBatchResident
  BY ResidentOne
<1> QED
  BY <1>1, <1>2, PTL

=============================================================================
