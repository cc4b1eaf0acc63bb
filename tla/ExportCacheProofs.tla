------------------------- MODULE ExportCacheProofs -------------------------
(***************************************************************************)
(* What ExportCache promises for every set of nodes, capacity, table and   *)
(* list of candidate batches, proved: the types, the search, the updates   *)
(* of the config file, the pullbacks and the sessions the sweeps run on.   *)
(***************************************************************************)
EXTENDS ExportCache, TLAPS

PCs == {"off", "done", "raised", "checkBase", "base", "checkExtra", "extra", "open", "run",
        "sub", "pull", "map", "writing", "double", "bisect", "update", "truncate", "write"}
JobKinds == {"find", "sweep", "activations", "sample", "stats", "det"}
OutNames == Sublayers \union Sources \union {"output", "out", "grad"}
Tables == [Nodes -> Nat]

JobRec == [kind : JobKinds, pc : PCs, table : Tables, attempt : 0..MaxRetries,
           force : BOOLEAN, wanted : SUBSET OutNames, file : Artifacts,
           made : Exports, sess : Exports, lo : Nat, hi : Nat, probe : Nat,
           limit : Nat, text : {Lost} \union Tables]

(* The types of all variables, those TypeOK leaves out included.           *)
Types ==
  /\ config \in {Lost} \union Tables
  /\ files \in [Nodes \union {Unsuffixed} -> [Artifacts -> Exports]]
  /\ job \in [Nodes -> JobRec]
  /\ runs \in 0..MaxRuns /\ kills \in 0..MaxKills
  /\ met \subseteq Nodes
  /\ told \in [Nodes -> [batch : Nat, by : JobKinds \union {"hand"}]]
  /\ clobbered \in BOOLEAN

USE DEF Unsuffixed

-----------------------------------------------------------------------------
(* The values of the model.                                                *)

LEMMA ExportForms ==
  /\ None \in Exports /\ None.state = "none" /\ None.batch = 0
  /\ Torn \in Exports /\ Torn.state = "torn" /\ Torn.batch = 0
  /\ \A x \in Exports : /\ x.state \in {"none", "torn", "whole"}
                        /\ x.state = "none" <=> x = None
                        /\ x.state = "torn" <=> x = Torn
                        /\ x.state = "whole" <=> x.batch \in Nat \ {0}
  BY DEF None, Torn, Exports

LEMMA WholeForm ==
  ASSUME NEW b \in Nat \ {0}, NEW outs \in SUBSET OutNames
  PROVE  /\ Whole(b, outs) \in Exports
         /\ Whole(b, outs).state = "whole"
         /\ Whole(b, outs).batch = b /\ Whole(b, outs).outs = outs
         /\ \A k \in Nat : /\ [Whole(b, outs) EXCEPT !.mask = k] \in Exports
                           /\ [Whole(b, outs) EXCEPT !.mask = k].state = "whole"
                           /\ [Whole(b, outs) EXCEPT !.mask = k].batch = b
  BY DEF Whole, None, Exports, OutNames

LEMMA IdleTyped ==
  ASSUME ExportCacheAssumption
  PROVE  /\ Idle \in JobRec /\ Idle.file = "base" /\ Idle.pc = "off" /\ Idle.kind = "find"
         /\ [Idle EXCEPT !.pc = "raised"] \in JobRec
         /\ [Idle EXCEPT !.pc = "raised"].pc = "raised"
<1>1. [n \in Nodes |-> 0] \in Tables /\ 0 \in 0..MaxRetries
  BY DEF ExportCacheAssumption, Tables
<1>2. Idle \in JobRec /\ Idle.file = "base" /\ Idle.pc = "off" /\ Idle.kind = "find"
  BY <1>1, ExportForms DEF Idle, JobRec, JobKinds, PCs, Artifacts
<1> QED
  BY <1>2 DEF JobRec, PCs

LEMMA IdleForm ==
  ASSUME ExportCacheAssumption,
         NEW k \in JobKinds, NEW q \in {"off", "done", "raised"}
  PROVE  /\ [Idle EXCEPT !.kind = k, !.pc = q] \in JobRec
         /\ [Idle EXCEPT !.kind = k, !.pc = q].pc = q
         /\ [Idle EXCEPT !.kind = k, !.pc = q].kind = k
  BY IdleTyped DEF JobRec, PCs

LEMMA BatchType ==
  ASSUME ExportCacheAssumption, Types, NEW n \in Nodes
  PROVE  /\ Batch(n) \in Nat \ {0}
         /\ MyDir(n) \in {Unsuffixed, n}
         /\ \A a \in Artifacts : File(n, a) \in Exports
  BY DEF ExportCacheAssumption, Types, JobRec, Tables, Batch, BatchFor, MyDir, Dir, File

LEMMA RecordEdits ==
  ASSUME NEW j \in JobRec, NEW q \in PCs
  PROVE  /\ [j EXCEPT !.pc = q] \in JobRec
         /\ [j EXCEPT !.pc = q].pc = q
         /\ \A a \in Artifacts, x \in Exports :
               [j EXCEPT !.pc = q, !.file = a, !.made = x] \in JobRec
         /\ \A x \in Exports : [j EXCEPT !.pc = q, !.sess = x] \in JobRec
         /\ \A b \in BOOLEAN : [j EXCEPT !.pc = q, !.force = b] \in JobRec
         /\ \A t \in {Lost} \union Tables : [j EXCEPT !.pc = q, !.text = t] \in JobRec
  BY DEF JobRec

(* Steps that change the record of one job only: what it becomes is typed. *)
LEMMA BecomeTyped ==
  ASSUME Types, NEW n \in Nodes, NEW j \in JobRec, Become(n, j)
  PROVE  job' \in [Nodes -> JobRec]
  BY DEF Types, Become

LEMMA GotoTyped ==
  ASSUME Types, NEW n \in Nodes, NEW q \in PCs, Goto(n, q)
  PROVE  job' \in [Nodes -> JobRec]
<1>1. [job[n] EXCEPT !.pc = q] \in JobRec
  BY RecordEdits DEF Types
<1> QED
  BY <1>1, BecomeTyped DEF Goto

LEMMA EndTyped ==
  ASSUME ExportCacheAssumption, Types, NEW n \in Nodes,
         NEW q \in {"off", "done", "raised"}, End(n, q)
  PROVE  job' \in [Nodes -> JobRec]
<1>1. job[n].kind \in JobKinds
  BY DEF Types, JobRec
<1>2. [Idle EXCEPT !.kind = job[n].kind, !.pc = q] \in JobRec
  BY <1>1, IdleForm
<1> QED
  BY <1>2, BecomeTyped DEF End

LEMMA AttemptTyped ==
  ASSUME Types, NEW n \in Nodes, NEW j \in JobRec, Attempt(n, j)
  PROVE  job' \in [Nodes -> JobRec] /\ met' \subseteq Nodes
<1> DEFINE k == [j EXCEPT !.pc = IF j.kind = "sweep" THEN "checkBase" ELSE "base",
                          !.force = (j.kind = "activations"), !.sess = None]
<1>1. k \in JobRec
  BY ExportForms DEF JobRec, PCs
<1> QED
  BY <1>1, BecomeTyped DEF Attempt, Types

LEMMA PutTyped ==
  ASSUME Types, NEW n \in Nodes, NEW a \in Artifacts, NEW x \in Exports, Put(n, a, x)
  PROVE  /\ files' \in [Nodes \union {Unsuffixed} -> [Artifacts -> Exports]]
         /\ met' \subseteq Nodes
  BY DEF Types, Put

LEMMA BeginWriteTyped ==
  ASSUME Types, NEW n \in Nodes, NEW a \in Artifacts, NEW x \in Exports, BeginWrite(n, a, x)
  PROVE  /\ files' \in [Nodes \union {Unsuffixed} -> [Artifacts -> Exports]]
         /\ met' \subseteq Nodes /\ job' \in [Nodes -> JobRec]
<1>1. [job[n] EXCEPT !.pc = "writing", !.file = a, !.made = x] \in JobRec
  BY RecordEdits DEF Types, PCs
<1> QED
  BY <1>1, BecomeTyped, PutTyped, ExportForms DEF BeginWrite

LEMMA AfterTyped ==
  ASSUME NEW k \in JobKinds, NEW a \in Artifacts
  PROVE  AfterArtifact(k, a) \in PCs \ {"writing"}
  BY DEF AfterArtifact, Artifacts, PCs

LEMMA SkipTyped ==
  ASSUME Types, NEW n \in Nodes, NEW a \in Artifacts, Skip(n, a)
  PROVE  job' \in [Nodes -> JobRec] /\ UNCHANGED <<files, met>>
<1>1. AfterArtifact(job[n].kind, a) \in PCs
  BY AfterTyped DEF Types, JobRec
<1> QED
  BY <1>1, GotoTyped DEF Skip

LEMMA ExtractTyped ==
  ASSUME ExportCacheAssumption, Types, NEW n \in Nodes, NEW a \in Artifacts,
         NEW from, NEW x, from.state = "whole" => x \in Exports, Extract(n, from, a, x)
  PROVE  /\ files' \in [Nodes \union {Unsuffixed} -> [Artifacts -> Exports]]
         /\ met' \subseteq Nodes /\ job' \in [Nodes -> JobRec]
  BY BeginWriteTyped, EndTyped DEF Extract, Raise, Types

-----------------------------------------------------------------------------
(* Types is kept by every step.                                            *)

LEMMA StartTyped ==
  ASSUME ExportCacheAssumption, Types, NEW n \in Nodes, Start(n)
  PROVE  Types'
<1>1. PICK k \in JobKinds, w \in SUBSET OutNames : StartJob(n, k, w)
  BY DEF Start, JobKinds, OutNames
<1>2. [Idle EXCEPT !.kind = k, !.pc = "raised"] \in JobRec
  BY IdleForm
<1>3. ASSUME config # Lost PROVE [Idle EXCEPT !.kind = k, !.table = config, !.wanted = w] \in JobRec
  BY <1>3, IdleTyped DEF JobRec, Types
<1>4. job' \in [Nodes -> JobRec] /\ met' \subseteq Nodes
  <2>1. CASE config = Lost
    BY <1>1, <1>2, <2>1, BecomeTyped DEF StartJob, Types
  <2>2. CASE config # Lost
    BY <1>1, <1>3, <2>2, AttemptTyped DEF StartJob
  <2> QED
    BY <2>1, <2>2
<1>5. runs' \in 0..MaxRuns
  BY <1>1 DEF StartJob, Types, ExportCacheAssumption
<1> QED
  BY <1>1, <1>4, <1>5 DEF StartJob, Types

LEMMA StartFindTyped ==
  ASSUME ExportCacheAssumption, Types, NEW n \in Nodes, StartFind(n)
  PROVE  Types'
<1>1. [Idle EXCEPT !.pc = "raised"] \in JobRec
  BY IdleTyped
<1>2. \A b \in Starts, l \in Limits :
         [Idle EXCEPT !.pc = "double", !.lo = b, !.probe = b, !.limit = l] \in JobRec
  BY IdleTyped DEF JobRec, PCs, ExportCacheAssumption
<1>3. job' \in [Nodes -> JobRec]
  BY <1>1, <1>2, BecomeTyped DEF StartFind
<1>4. runs' \in 0..MaxRuns
  BY DEF StartFind, Types, ExportCacheAssumption
<1> QED
  BY <1>3, <1>4 DEF StartFind, Types

LEMMA SearchTyped ==
  ASSUME ExportCacheAssumption, Types, NEW n \in Nodes, Double(n) \/ Bisect(n)
  PROVE  Types'
<1> DEFINE j == job[n]
           p == 2 * j.probe
           mid == (j.lo + j.hi) \div 2
<1>1. j \in JobRec /\ p \in Nat /\ mid \in Nat
  BY DEF Types, JobRec
<1> HIDE DEF j, p, mid
<1>2. /\ [j EXCEPT !.pc = "update"] \in JobRec
      /\ [j EXCEPT !.probe = p, !.lo = p] \in JobRec
      /\ [j EXCEPT !.probe = p, !.hi = p, !.pc = "bisect"] \in JobRec
      /\ [j EXCEPT !.lo = mid] \in JobRec /\ [j EXCEPT !.hi = mid] \in JobRec
  BY <1>1 DEF JobRec, PCs
<1>3. job' \in [Nodes -> JobRec]
  BY <1>2, BecomeTyped DEF Double, Bisect, j, p, mid
<1> QED
  BY <1>3 DEF Double, Bisect, Types

LEMMA FoundTyped ==
  ASSUME ExportCacheAssumption, Types, NEW n \in Nodes
  PROVE  Found(n) \in Nat
  BY BatchType DEF Found, Types, JobRec

LEMMA UpdateTyped ==
  ASSUME ExportCacheAssumption, Types, NEW n \in Nodes,
         ReadConfig(n) \/ TruncateConfig(n) \/ WriteConfig(n)
  PROVE  Types'
<1>1. ASSUME ReadConfig(n) PROVE Types'
  <2>1. [job[n] EXCEPT !.pc = "truncate", !.text = config] \in JobRec
    BY RecordEdits DEF Types, PCs
  <2> QED
    BY <1>1, <2>1, BecomeTyped DEF ReadConfig, Types
<1>2. ASSUME TruncateConfig(n) PROVE Types'
  BY <1>2, GotoTyped DEF TruncateConfig, Types, PCs
<1>3. ASSUME WriteConfig(n) PROVE Types'
  <2>1. job' \in [Nodes -> JobRec]
    BY <1>3, EndTyped DEF WriteConfig
  <2>2. config' \in {Lost} \union Tables
    BY <1>3, FoundTyped DEF WriteConfig, Types, JobRec, Tables
  <2>3. told' \in [Nodes -> [batch : Nat, by : JobKinds \union {"hand"}]]
    BY <1>3, FoundTyped DEF WriteConfig, Types, JobRec
  <2> QED
    BY <1>3, <2>1, <2>2, <2>3 DEF WriteConfig, Types
<1> QED
  BY <1>1, <1>2, <1>3

LEMMA LookTyped ==
  ASSUME ExportCacheAssumption, Types, NEW n \in Nodes, NEW a \in Artifacts,
         NEW q \in PCs, NEW b, LookAt(n, a, q, b)
  PROVE  Types'
<1>1. [job[n] EXCEPT !.pc = q, !.force = b \/ File(n, a).batch # Batch(n)] \in JobRec
  BY RecordEdits DEF Types
<1>2. job' \in [Nodes -> JobRec]
  BY <1>1, BecomeTyped, EndTyped DEF LookAt, Raise
<1> QED
  BY <1>2 DEF LookAt, Types

LEMMA EnsureTyped ==
  ASSUME ExportCacheAssumption, Types, NEW n \in Nodes,
         EnsureBase(n) \/ EnsureExtra(n) \/ EnsureSubgraphs(n) \/ EnsurePullback(n)
  PROVE  Types'
<1> DEFINE Kept == /\ files' \in [Nodes \union {Unsuffixed} -> [Artifacts -> Exports]]
                   /\ met' \subseteq Nodes /\ job' \in [Nodes -> JobRec]
<1>1. /\ {"output"} \in SUBSET OutNames /\ {"out"} \in SUBSET OutNames
      /\ {"grad"} \in SUBSET OutNames /\ job[n].wanted \in SUBSET OutNames
      /\ "base" \in Artifacts /\ "extra" \in Artifacts
      /\ "sub" \in Artifacts /\ "pull" \in Artifacts
  BY DEF OutNames, Types, JobRec, Artifacts
<1>2. ASSUME EnsureBase(n) PROVE Kept
  <2>1. Whole(Batch(n), {"output"}) \in Exports
    BY <1>1, WholeForm, BatchType
  <2> QED
    BY <1>1, <1>2, <2>1, BeginWriteTyped, SkipTyped DEF EnsureBase, Types
<1>3. ASSUME EnsureExtra(n) PROVE Kept
  <2>1. File(n, "base").state = "whole" => Whole(File(n, "base").batch, job[n].wanted) \in Exports
    BY <1>1, WholeForm, BatchType, ExportForms
  <2> QED
    BY <1>1, <1>3, <2>1, ExtractTyped, SkipTyped, EndTyped DEF EnsureExtra, Raise, Types
<1>4. ASSUME EnsureSubgraphs(n) PROVE Kept
  <2>1. File(n, "base").state = "whole" => Whole(File(n, "base").batch, {"out"}) \in Exports
    BY <1>1, WholeForm, BatchType, ExportForms
  <2> QED
    BY <1>1, <1>4, <2>1, ExtractTyped, SkipTyped DEF EnsureSubgraphs, Types
<1>5. ASSUME EnsurePullback(n) PROVE Kept
  <2> DEFINE b == File(n, "sub").batch
             k == IF job[n].kind = "stats" THEN ShapeBatch ELSE b
  <2>1. b \in Nat /\ k \in Nat
    BY <1>1, BatchType DEF Exports, None, Torn, ExportCacheAssumption
  <2>2. File(n, "sub").state = "whole" => [Whole(b, {"grad"}) EXCEPT !.mask = k] \in Exports
    <3> HIDE DEF k
    <3> QED
      BY <1>1, <2>1, WholeForm, BatchType, ExportForms
  <2> QED
    BY <1>1, <1>5, <2>2, ExtractTyped, SkipTyped DEF EnsurePullback, Types
<1> QED
  BY <1>2, <1>3, <1>4, <1>5 DEF EnsureBase, EnsureExtra, EnsureSubgraphs, EnsurePullback, Types

LEMMA EndWriteTyped ==
  ASSUME ExportCacheAssumption, Types, NEW n \in Nodes, EndWrite(n)
  PROVE  Types'
<1>1. /\ job[n].file \in Artifacts /\ job[n].made \in Exports
      /\ AfterArtifact(job[n].kind, job[n].file) \in PCs
  BY AfterTyped DEF Types, JobRec
<1> QED
  BY <1>1, PutTyped, GotoTyped DEF EndWrite, Types

LEMMA UseTyped ==
  ASSUME ExportCacheAssumption, Types, NEW n \in Nodes, OpenSession(n) \/ RunMap(n)
  PROVE  Types'
<1>1. ASSUME OpenSession(n) PROVE job' \in [Nodes -> JobRec]
  <2>1. [job[n] EXCEPT !.pc = "run", !.sess = File(n, "extra")] \in JobRec
    BY RecordEdits, BatchType DEF Types, PCs, Artifacts
  <2> QED
    BY <1>1, <2>1, BecomeTyped, EndTyped DEF OpenSession, Raise
<1>2. ASSUME RunMap(n) PROVE job' \in [Nodes -> JobRec]
  BY <1>2, EndTyped DEF RunMap
<1> QED
  BY <1>1, <1>2 DEF OpenSession, RunMap, Types

LEMMA ShrinkType ==
  ASSUME NEW b \in Nat \ {0}
  PROVE  Shrink(b) \in Nat \ {0}
  BY DEF Shrink

LEMMA RunTyped ==
  ASSUME ExportCacheAssumption, Types, NEW n \in Nodes, Run(n)
  PROVE  Types'
<1>1. ASSUME OutOfMemory(n), UNCHANGED <<config, files, runs, kills, told, clobbered>>
      PROVE  Types'
  <2> DEFINE j == job[n]
             k == [j EXCEPT !.attempt = @ + 1, !.table[n] = Shrink(Batch(n))]
  <2>1. Shrink(Batch(n)) \in Nat
    BY BatchType, ShrinkType
  <2>2. ASSUME j.attempt # MaxRetries PROVE k \in JobRec
    <3>1. j \in JobRec
      BY DEF Types
    <3>2. j.attempt + 1 \in 0..MaxRetries
      BY <2>2, <3>1 DEF JobRec, ExportCacheAssumption
    <3>3. [j.table EXCEPT ![n] = Shrink(Batch(n))] \in Tables
      BY <2>1, <3>1 DEF JobRec, Tables
    <3>4. k = [j EXCEPT !.attempt = j.attempt + 1,
                        !.table = [j.table EXCEPT ![n] = Shrink(Batch(n))]]
      BY <3>1 DEF JobRec
    <3> HIDE DEF j, k
    <3> QED
      BY <3>1, <3>2, <3>3, <3>4 DEF JobRec
  <2> HIDE DEF k
  <2>3. job' \in [Nodes -> JobRec] /\ met' \subseteq Nodes
    <3>1. CASE Raise(n) /\ UNCHANGED met
      BY <3>1, EndTyped DEF Raise, Types
    <3>2. CASE j.attempt # MaxRetries /\ Attempt(n, k)
      BY <3>2, <2>2, AttemptTyped
    <3> QED
      BY <1>1, <3>1, <3>2 DEF OutOfMemory, k
  <2> QED
    BY <1>1, <2>3 DEF Types
<1>2. ASSUME UNCHANGED <<config, files, runs, kills, met, told, clobbered>>,
             Raise(n) \/ Goto(n, "sub") \/ Goto(n, "update") \/ End(n, "done")
      PROVE  Types'
  <2>1. job' \in [Nodes -> JobRec]
    BY <1>2, EndTyped, GotoTyped DEF Raise, PCs
  <2> QED
    BY <1>2, <2>1 DEF Types
<1> QED
  BY <1>1, <1>2 DEF Run

LEMMA TypesStep ==
  ASSUME ExportCacheAssumption, Types, [Next]_vars
  PROVE  Types'
<1>1. ASSUME NEW n \in Nodes, CheckBase(n) \/ CheckExtra(n) PROVE Types'
  BY <1>1, LookTyped DEF CheckBase, CheckExtra, PCs, Artifacts
<1>2. ASSUME NEW n \in Nodes, Kill(n) PROVE Types'
  <2>1. job' \in [Nodes -> JobRec]
    BY <1>2, EndTyped DEF Kill
  <2> QED
    BY <1>2, <2>1 DEF Kill, Types, ExportCacheAssumption
<1>3. CASE UNCHANGED vars
  BY <1>3 DEF vars, Types
<1> QED
  BY <1>1, <1>2, <1>3, StartTyped, StartFindTyped, EnsureTyped, EndWriteTyped, UseTyped,
     RunTyped, SearchTyped, UpdateTyped
  DEF Next, JobStep

LEMMA TypesInit ==
  ASSUME ExportCacheAssumption, Init
  PROVE  Types
<1>1. config \in Tables
  BY DEF Init, ExportCacheAssumption, Tables
<1>2. told \in [Nodes -> [batch : Nat, by : JobKinds \union {"hand"}]]
  BY <1>1 DEF Init, Tables
<1>3. files \in [Nodes \union {Unsuffixed} -> [Artifacts -> Exports]]
  BY ExportForms DEF Init
<1>4. job \in [Nodes -> JobRec]
  BY IdleTyped DEF Init
<1>5. runs \in 0..MaxRuns /\ kills \in 0..MaxKills
  BY DEF Init, ExportCacheAssumption
<1>6. met \subseteq Nodes /\ clobbered \in BOOLEAN
  BY DEF Init
<1> QED
  BY <1>1, <1>2, <1>3, <1>4, <1>5, <1>6 DEF Types

LEMMA TypesAlways == Spec => []Types
  BY ExportCacheAssumption, TypesInit, TypesStep, PTL DEF Spec

(* The type invariant: config, cached exports and jobs have their types,   *)
(* and the batch of an export that can be read is positive.                *)
THEOREM TypeCorrect == Spec => []TypeOK
<1>1. Types => TypeOK
  BY DEF Types, TypeOK, JobRec, Tables, OutNames
<1> QED
  BY <1>1, TypesAlways, PTL

-----------------------------------------------------------------------------
(* A step of a node's job changes no other node's record, and only the     *)
(* search and the update of the config reach their own places.             *)

Act(n) == Start(n) \/ StartFind(n) \/ JobStep(n) \/ Kill(n)
Searching == {"double", "bisect"}
Writing == {"update", "truncate", "write"}

LEMMA OneJob ==
  ASSUME Types, NEW n \in Nodes, Act(n)
  PROVE  \A m \in Nodes \ {n} : job'[m] = job[m]
<1>1. ASSUME NEW j, Become(n, j) PROVE \A m \in Nodes \ {n} : job'[m] = job[m]
  BY <1>1 DEF Become, Types
<1>2. ASSUME Start(n) \/ StartFind(n) \/ Kill(n) PROVE \E j : Become(n, j)
  BY <1>2 DEF Start, StartJob, StartFind, Attempt, Kill, End
<1>3. ASSUME CheckBase(n) \/ EnsureBase(n) \/ CheckExtra(n) \/ EnsureExtra(n)
      PROVE  \E j : Become(n, j)
  BY <1>3 DEF CheckBase, CheckExtra, LookAt, EnsureBase, EnsureExtra, Extract, BeginWrite, Skip,
     Raise, Goto, End
<1>4. ASSUME EnsureSubgraphs(n) \/ EnsurePullback(n) \/ EndWrite(n) PROVE \E j : Become(n, j)
  BY <1>4 DEF EnsureSubgraphs, EnsurePullback, EndWrite, Extract, BeginWrite, Skip, Raise, Goto, End
<1>5. ASSUME OpenSession(n) \/ Run(n) \/ RunMap(n) PROVE \E j : Become(n, j)
  BY <1>5 DEF OpenSession, Run, OutOfMemory, Attempt, RunMap, Raise, Goto, End
<1>6. ASSUME Double(n) \/ Bisect(n) \/ ReadConfig(n) \/ TruncateConfig(n) \/ WriteConfig(n)
      PROVE  \E j : Become(n, j)
  BY <1>6 DEF Double, Bisect, ReadConfig, TruncateConfig, WriteConfig, Goto, End
<1> QED
  BY <1>1, <1>2, <1>3, <1>4, <1>5, <1>6 DEF Act, JobStep

LEMMA Became ==
  ASSUME Types, NEW n \in Nodes, NEW j, Become(n, j)
  PROVE  job'[n] = j
  BY DEF Types, Become

LEMMA Gone ==
  ASSUME Types, NEW n \in Nodes, NEW q, Goto(n, q)
  PROVE  /\ job'[n] = [job[n] EXCEPT !.pc = q]
         /\ job'[n].pc = q /\ job'[n].kind = job[n].kind /\ job'[n].table = job[n].table
         /\ job'[n].wanted = job[n].wanted /\ job'[n].force = job[n].force
         /\ job'[n].sess = job[n].sess /\ job'[n].text = job[n].text
         /\ job'[n].lo = job[n].lo /\ job'[n].hi = job[n].hi /\ job'[n].limit = job[n].limit
<1>1. job[n] \in JobRec
  BY DEF Types
<1>2. job'[n] = [job[n] EXCEPT !.pc = q]
  BY Became DEF Goto
<1> QED
  BY <1>1, <1>2 DEF JobRec

LEMMA Ending ==
  ASSUME ExportCacheAssumption, Types, NEW n \in Nodes,
         NEW q \in {"off", "done", "raised"}, End(n, q)
  PROVE  job'[n].pc = q
<1>1. [Idle EXCEPT !.kind = job[n].kind, !.pc = q].pc = q
  BY IdleTyped DEF JobRec
<1> QED
  BY <1>1, Became DEF End

LEMMA Attempting ==
  ASSUME Types, NEW n \in Nodes, NEW j \in JobRec, Attempt(n, j)
  PROVE  /\ job'[n].pc = IF j.kind = "sweep" THEN "checkBase" ELSE "base"
         /\ job'[n].force <=> j.kind = "activations"
         /\ job'[n].kind = j.kind /\ job'[n].wanted = j.wanted /\ job'[n].table = j.table
<1> DEFINE k == [j EXCEPT !.pc = IF j.kind = "sweep" THEN "checkBase" ELSE "base",
                          !.force = (j.kind = "activations"), !.sess = None]
<1>1. job'[n] = k
  BY Became DEF Attempt
<1> QED
  BY <1>1 DEF JobRec

LEMMA AfterPlaces ==
  ASSUME NEW k \in JobKinds, NEW a \in Artifacts
  PROVE  AfterArtifact(k, a) \in {"checkExtra", "sub", "extra", "open", "map", "pull"}
  BY DEF AfterArtifact, Artifacts

LEMMA ElsewhereSteps ==
  ASSUME ExportCacheAssumption, Types, NEW n \in Nodes, Act(n),
         ~StartFind(n), ~Double(n), ~Bisect(n), ~Run(n),
         ~ReadConfig(n), ~TruncateConfig(n), ~WriteConfig(n)
  PROVE  job'[n].pc \notin Searching \union Writing
<1> DEFINE Elsewhere == job'[n].pc \notin Searching \union Writing
<1> USE DEF Searching, Writing
<1>0. job[n] \in JobRec /\ job[n].kind \in JobKinds /\ job[n].file \in Artifacts
  BY DEF Types, JobRec
<1>1. ASSUME NEW q \in {"off", "done", "raised"}, End(n, q) PROVE Elsewhere
  BY <1>1, Ending
<1>2. ASSUME NEW a \in Artifacts, Skip(n, a) PROVE Elsewhere
  <2>1. AfterArtifact(job[n].kind, a) \in {"checkExtra", "sub", "extra", "open", "map", "pull"}
    BY <1>0, AfterPlaces
  <2> QED
    BY <1>2, <2>1, Gone DEF Skip
<1>3. ASSUME NEW a, NEW x, BeginWrite(n, a, x) PROVE Elsewhere
  <2>1. job'[n] = [job[n] EXCEPT !.pc = "writing", !.file = a, !.made = x]
    BY <1>3, Became DEF BeginWrite
  <2> QED
    BY <1>0, <2>1 DEF JobRec
<1>4. ASSUME NEW a, NEW from, NEW x, Extract(n, from, a, x) PROVE Elsewhere
  BY <1>1, <1>3, <1>4 DEF Extract, Raise
<1>5. ASSUME NEW a, NEW q \in {"base", "extra"}, NEW b, LookAt(n, a, q, b) PROVE Elsewhere
  <2>1. ASSUME NEW c, Become(n, [job[n] EXCEPT !.pc = q, !.force = c]) PROVE Elsewhere
    <3>1. job'[n] = [job[n] EXCEPT !.pc = q, !.force = c]
      BY <2>1, Became
    <3> QED
      BY <1>0, <3>1 DEF JobRec
  <2> QED
    BY <1>1, <1>5, <2>1 DEF LookAt, Raise
<1>6. ASSUME Start(n) PROVE Elsewhere
  <2>1. PICK k \in JobKinds, w \in SUBSET OutNames : StartJob(n, k, w)
    BY <1>6 DEF Start, JobKinds, OutNames
  <2>2. CASE config = Lost
    <3>1. job'[n] = [Idle EXCEPT !.kind = k, !.pc = "raised"]
      BY <2>1, <2>2, Became DEF StartJob
    <3> QED
      BY <3>1, IdleForm
  <2>3. CASE config # Lost
    <3> DEFINE j == [Idle EXCEPT !.kind = k, !.table = config, !.wanted = w]
    <3>1. j \in JobRec
      BY <2>3, IdleTyped DEF JobRec, Types
    <3>2. Attempt(n, j)
      BY <2>1, <2>3 DEF StartJob
    <3> HIDE DEF j
    <3> QED
      BY <3>1, <3>2, Attempting
  <2> QED
    BY <2>2, <2>3
<1>7. ASSUME CheckBase(n) \/ CheckExtra(n) \/ EnsureBase(n) \/ EnsureExtra(n) PROVE Elsewhere
  BY <1>1, <1>2, <1>3, <1>4, <1>5, <1>7
  DEF CheckBase, CheckExtra, EnsureBase, EnsureExtra, Raise, Artifacts
<1>8. ASSUME EnsureSubgraphs(n) \/ EnsurePullback(n) PROVE Elsewhere
  BY <1>2, <1>4, <1>8 DEF EnsureSubgraphs, EnsurePullback, Artifacts
<1>9. ASSUME EndWrite(n) PROVE Elsewhere
  <2>1. AfterArtifact(job[n].kind, job[n].file)
          \in {"checkExtra", "sub", "extra", "open", "map", "pull"}
    BY <1>0, AfterPlaces
  <2> QED
    <3>1. job'[n].pc = AfterArtifact(job[n].kind, job[n].file)
      BY <1>9, Gone DEF EndWrite
    <3> QED
      BY <2>1, <3>1
<1>10. ASSUME OpenSession(n) PROVE Elsewhere
  <2>1. ASSUME Become(n, [job[n] EXCEPT !.pc = "run", !.sess = File(n, "extra")]) PROVE Elsewhere
    <3>1. job'[n] = [job[n] EXCEPT !.pc = "run", !.sess = File(n, "extra")]
      BY <2>1, Became
    <3> QED
      BY <1>0, <3>1 DEF JobRec
  <2> QED
    BY <1>1, <1>10, <2>1 DEF OpenSession, Raise
<1>11. ASSUME RunMap(n) \/ Kill(n) PROVE Elsewhere
  BY <1>1, <1>11 DEF RunMap, Kill
<1> QED
  BY <1>6, <1>7, <1>8, <1>9, <1>10, <1>11 DEF Act, JobStep

(* Out of a run of the sweep, only a batch that ran goes to the config.    *)
LEMMA RunSteps ==
  ASSUME ExportCacheAssumption, Types, NEW n \in Nodes, Run(n)
  PROVE  /\ job'[n].pc \notin Searching \union {"truncate", "write"}
         /\ job'[n].pc = "update" => /\ job'[n].kind \in {"sweep", "activations"}
                                     /\ Batch(n)' <= SweepCap[n]
<1> DEFINE Goal == /\ job'[n].pc \notin Searching \union {"truncate", "write"}
                   /\ job'[n].pc = "update" => /\ job'[n].kind \in {"sweep", "activations"}
                                               /\ Batch(n)' <= SweepCap[n]
<1> USE DEF Searching
<1>1. ASSUME NEW q \in {"off", "done", "raised"}, End(n, q) PROVE Goal
  BY <1>1, Ending
<1>2. ASSUME OutOfMemory(n) PROVE Goal
  <2> DEFINE j == job[n]
             k == [j EXCEPT !.attempt = @ + 1, !.table[n] = Shrink(Batch(n))]
  <2>1. CASE Raise(n)
    BY <1>1, <2>1 DEF Raise
  <2>2. CASE Attempt(n, k)
    <3>1. job'[n] = [k EXCEPT !.pc = IF k.kind = "sweep" THEN "checkBase" ELSE "base",
                              !.force = (k.kind = "activations"), !.sess = None]
      BY <2>2, Became DEF Attempt
    <3>2. "pc" \in DOMAIN k
      BY DEF Types, JobRec
    <3> HIDE DEF k
    <3>3. job'[n].pc \in {"checkBase", "base"}
      BY <3>1, <3>2
    <3> QED
      BY <3>3
  <2> QED
    BY <1>2, <2>1, <2>2 DEF OutOfMemory
<1>3. ASSUME Goto(n, "sub") PROVE Goal
  <2>1. job'[n].pc = "sub"
    BY <1>3, Gone
  <2> QED
    BY <2>1
<1>4. ASSUME Goto(n, "update"), job[n].kind \in {"sweep", "activations"},
             job[n].sess.batch = Batch(n), ~(job[n].sess.batch > SweepCap[n])
      PROVE  Goal
  <2>1. Batch(n)' = Batch(n)
    BY <1>4, Gone DEF Batch
  <2>2. Batch(n) <= SweepCap[n]
    BY <1>4, BatchType DEF ExportCacheAssumption
  <2> QED
    <3>1. job'[n].pc = "update" /\ job'[n].kind = job[n].kind
      BY <1>4, Gone
    <3> QED
      BY <1>4, <2>1, <2>2, <3>1
<1> QED
  BY <1>1, <1>2, <1>3, <1>4 DEF Run, Raise

-----------------------------------------------------------------------------
(* The search: lo always fits, hi never does, and while doubling the last  *)
(* probe that ran is lo.                                                   *)

SearchOk(n) ==
  LET j == job[n]
  IN /\ j.pc = "double" => j.kind = "find" /\ j.probe = j.lo /\ j.lo <= Cap[n]
     /\ j.pc = "bisect" => j.kind = "find" /\ j.lo <= Cap[n] /\ Cap[n] < j.hi
     /\ (j.kind = "find" /\ j.pc \in Writing) =>
           j.lo <= Cap[n] /\ (j.lo + 1 > Cap[n] \/ j.lo > j.limit)
SearchInv == \A n \in Nodes : SearchOk(n)

LEMMA SearchOkStep ==
  ASSUME ExportCacheAssumption, Types, NEW n \in Nodes, Act(n), SearchOk(n)
  PROVE  SearchOk(n)'
<1> DEFINE j == job[n]
<1>1. j \in JobRec /\ j.lo \in Nat /\ j.hi \in Nat /\ j.probe \in Nat /\ j.limit \in Nat
  BY DEF Types, JobRec
<1>2. Cap[n] \in Nat
  BY DEF ExportCacheAssumption
<1>3. ASSUME StartFind(n) PROVE SearchOk(n)'
  <2>1. PICK b \in Starts, l \in Limits :
          Become(n, IF config = Lost \/ ~Fits(n, b)
                    THEN [Idle EXCEPT !.pc = "raised"]
                    ELSE [Idle EXCEPT !.pc = "double", !.lo = b, !.probe = b, !.limit = l])
    BY <1>3 DEF StartFind
  <2>2. CASE config = Lost \/ ~Fits(n, b)
    <3>1. job'[n].pc = "raised"
      BY <2>1, <2>2, Became, IdleTyped
    <3> QED
      BY <3>1 DEF SearchOk, Writing
  <2>3. CASE ~(config = Lost \/ ~Fits(n, b))
    <3>1. job'[n] = [Idle EXCEPT !.pc = "double", !.lo = b, !.probe = b, !.limit = l]
      BY <2>1, <2>3, Became
    <3>2. /\ job'[n].pc = "double" /\ job'[n].lo = b /\ job'[n].probe = b
          /\ job'[n].kind = "find"
      BY <3>1, IdleTyped DEF JobRec
    <3> QED
      BY <2>3, <3>2 DEF SearchOk, Writing, Fits
  <2> QED
    BY <2>2, <2>3
<1>4. ASSUME Double(n) PROVE SearchOk(n)'
  <2> DEFINE p == 2 * j.probe
  <2>1. j.kind = "find" /\ j.probe = j.lo /\ j.lo <= Cap[n]
    BY <1>4 DEF Double, At, SearchOk
  <2>2. CASE j.probe > j.limit
    <3>1. job'[n] = [j EXCEPT !.pc = "update"]
      BY <1>4, <2>2, Became DEF Double
    <3> QED
      BY <1>1, <1>2, <2>1, <2>2, <3>1 DEF SearchOk, Writing, JobRec
  <2>3. CASE ~(j.probe > j.limit) /\ Fits(n, p)
    <3>1. job'[n] = [j EXCEPT !.probe = p, !.lo = p]
      BY <1>4, <2>3, Became DEF Double
    <3> QED
      BY <1>1, <1>2, <1>4, <2>1, <2>3, <3>1 DEF SearchOk, Writing, JobRec, Fits, Double, At
  <2>4. CASE ~(j.probe > j.limit) /\ ~Fits(n, p)
    <3>1. job'[n] = [j EXCEPT !.probe = p, !.hi = p, !.pc = "bisect"]
      BY <1>4, <2>4, Became DEF Double
    <3> QED
      BY <1>1, <1>2, <2>1, <2>4, <3>1 DEF SearchOk, Writing, JobRec, Fits
  <2> QED
    BY <2>2, <2>3, <2>4
<1>5. ASSUME Bisect(n) PROVE SearchOk(n)'
  <2> DEFINE mid == (j.lo + j.hi) \div 2
  <2>1. j.kind = "find" /\ j.lo <= Cap[n] /\ Cap[n] < j.hi /\ mid \in Nat
    BY <1>1, <1>5 DEF Bisect, At, SearchOk
  <2>2. CASE j.hi - j.lo <= 1
    <3>1. job'[n] = [j EXCEPT !.pc = "update"]
      BY <1>5, <2>2, Became DEF Bisect
    <3> QED
      BY <1>1, <1>2, <2>1, <2>2, <3>1 DEF SearchOk, Writing, JobRec
  <2>3. CASE ~(j.hi - j.lo <= 1) /\ Fits(n, mid)
    <3>1. job'[n] = [j EXCEPT !.lo = mid]
      BY <1>5, <2>3, Became DEF Bisect
    <3> HIDE DEF mid
    <3> QED
      BY <1>1, <1>2, <1>5, <2>1, <2>3, <3>1 DEF SearchOk, Writing, JobRec, Fits, Bisect, At
  <2>4. CASE ~(j.hi - j.lo <= 1) /\ ~Fits(n, mid)
    <3>1. job'[n] = [j EXCEPT !.hi = mid]
      BY <1>5, <2>4, Became DEF Bisect
    <3> HIDE DEF mid
    <3> QED
      BY <1>1, <1>2, <1>5, <2>1, <2>4, <3>1 DEF SearchOk, Writing, JobRec, Fits, Bisect, At
  <2> QED
    BY <2>2, <2>3, <2>4
<1>6. ASSUME Run(n) PROVE SearchOk(n)'
  BY <1>6, RunSteps DEF SearchOk, Writing, Searching
<1>7. ASSUME ReadConfig(n) PROVE SearchOk(n)'
  <2>1. job'[n] = [j EXCEPT !.pc = "truncate", !.text = config]
    BY <1>7, Became DEF ReadConfig
  <2> QED
    BY <1>1, <1>7, <2>1 DEF SearchOk, Writing, JobRec, ReadConfig, At
<1>8. ASSUME TruncateConfig(n) PROVE SearchOk(n)'
  <2>1. job'[n] = [j EXCEPT !.pc = "write"]
    BY <1>8, Gone DEF TruncateConfig
  <2> QED
    BY <1>1, <1>8, <2>1 DEF SearchOk, Writing, JobRec, TruncateConfig, At
<1>9. ASSUME WriteConfig(n) PROVE SearchOk(n)'
  BY <1>9, Ending DEF SearchOk, Writing, WriteConfig
<1> QED
  BY <1>3, <1>4, <1>5, <1>6, <1>7, <1>8, <1>9, ElsewhereSteps DEF SearchOk, Searching, Writing

LEMMA SearchAlways == Spec => []SearchInv
<1>1. Init => SearchInv
  BY ExportCacheAssumption, IdleTyped DEF Init, SearchInv, SearchOk, Writing
<1>2. ASSUME Types, SearchInv, [Next]_vars PROVE SearchInv'
  <2>1. CASE UNCHANGED vars
    BY <1>2, <2>1 DEF vars, SearchInv, SearchOk
  <2>2. ASSUME NEW n \in Nodes, Act(n) PROVE SearchInv'
    <3>1. SearchOk(n)'
      BY <1>2, <2>2, SearchOkStep, ExportCacheAssumption DEF SearchInv
    <3>2. \A m \in Nodes \ {n} : SearchOk(m)'
      BY <1>2, <2>2, OneJob DEF SearchInv, SearchOk
    <3> QED
      BY <3>1, <3>2 DEF SearchInv
  <2> QED
    BY <1>2, <2>1, <2>2 DEF Next, Act
<1> QED
  BY <1>1, <1>2, TypesAlways, PTL DEF Spec

(* The search ends with a batch that fits and whose successor does not, or *)
(* beyond --max-batch, for every capacity, start and limit.                *)
THEOREM SearchIsExact == Spec => []SearchFindsMax
<1>1. SearchInv => SearchFindsMax
  BY DEF SearchInv, SearchOk, SearchFindsMax, Writing
<1> QED
  BY <1>1, SearchAlways, PTL

-----------------------------------------------------------------------------
(* What goes to the config: a sweep that updates it has run its batch.     *)

WritingFits(n) ==
  (job[n].kind = "sweep" /\ job[n].pc \in Writing) => Batch(n) <= SweepCap[n]
WrittenInv == WrittenBackFits /\ \A n \in Nodes : WritingFits(n)

(* The steps of a job outside the update of the config.                    *)
LEMMA OffConfig ==
  ASSUME ExportCacheAssumption, Types, SearchInv, NEW n \in Nodes, Act(n),
         ~ReadConfig(n), ~TruncateConfig(n), ~WriteConfig(n)
  PROVE  /\ ~Updating(n)'
         /\ UNCHANGED <<config, told>>
         /\ ~Kill(n) => ~Updating(n) /\ UNCHANGED clobbered
         /\ job'[n].pc = "update" =>
              \/ job'[n].kind = "find"
              \/ Batch(n)' <= SweepCap[n]
<1> DEFINE Pc == job'[n].pc \notin {"truncate", "write"}
           Fit == job'[n].pc = "update" => job'[n].kind = "find" \/ Batch(n)' <= SweepCap[n]
<1>1. Pc /\ Fit
  <2>1. ASSUME StartFind(n) PROVE Pc /\ Fit
    <3>1. PICK b \in Starts, l \in Limits :
            Become(n, IF config = Lost \/ ~Fits(n, b)
                      THEN [Idle EXCEPT !.pc = "raised"]
                      ELSE [Idle EXCEPT !.pc = "double", !.lo = b, !.probe = b, !.limit = l])
      BY <2>1 DEF StartFind
    <3>2. \/ job'[n] = [Idle EXCEPT !.pc = "raised"]
          \/ job'[n] = [Idle EXCEPT !.pc = "double", !.lo = b, !.probe = b, !.limit = l]
      BY <3>1, Became
    <3> QED
      BY <3>2, IdleTyped DEF JobRec
  <2>2. ASSUME Double(n) \/ Bisect(n) PROVE Pc /\ Fit
    <3>1. job[n] \in JobRec /\ job[n].kind = "find" /\ job[n].pc \in {"double", "bisect"}
      BY <2>2 DEF Double, Bisect, At, SearchInv, SearchOk, Types
    <3>2. ASSUME NEW j, Become(n, j), j.pc \notin {"truncate", "write"}, j.kind = "find"
          PROVE  Pc /\ Fit
      BY <3>2, Became
    <3> QED
      BY <2>2, <3>1, <3>2 DEF Double, Bisect, JobRec
  <2>3. ASSUME Run(n) PROVE Pc /\ Fit
    BY <2>3, RunSteps
  <2> QED
    BY <2>1, <2>2, <2>3, ElsewhereSteps DEF Searching, Writing
<1>2. UNCHANGED <<config, told>>
  BY DEF Act, JobStep, Start, StartJob, StartFind, CheckBase, CheckExtra, LookAt, EnsureBase,
     EnsureExtra, EnsureSubgraphs, EnsurePullback, EndWrite, OpenSession, Run, RunMap, Double,
     Bisect, Kill
<1>3. ASSUME ~Kill(n) PROVE ~Updating(n) /\ UNCHANGED clobbered
  BY <1>3 DEF Act, JobStep, Start, StartJob, StartFind, CheckBase, CheckExtra, LookAt, EnsureBase,
     EnsureExtra, EnsureSubgraphs, EnsurePullback, EndWrite, OpenSession, Run, RunMap, Double,
     Bisect, Updating, At, Ended
<1> QED
  BY <1>1, <1>2, <1>3 DEF Updating

LEMMA WritingFitsStep ==
  ASSUME ExportCacheAssumption, Types, SearchInv, WrittenInv, NEW n \in Nodes, Act(n)
  PROVE  WritingFits(n)'
<1>1. ASSUME ReadConfig(n) PROVE WritingFits(n)'
  <2>1. job'[n] = [job[n] EXCEPT !.pc = "truncate", !.text = config]
    BY <1>1, Became DEF ReadConfig
  <2>2. job'[n].kind = job[n].kind /\ job'[n].table = job[n].table
    BY <2>1 DEF Types, JobRec
  <2> QED
    BY <1>1, <2>2 DEF ReadConfig, At, WrittenInv, WritingFits, Writing, Batch
<1>2. ASSUME TruncateConfig(n) PROVE WritingFits(n)'
  <2>1. job'[n].kind = job[n].kind /\ job'[n].table = job[n].table
    BY <1>2, Gone DEF TruncateConfig
  <2> QED
    BY <1>2, <2>1 DEF TruncateConfig, At, WrittenInv, WritingFits, Writing, Batch
<1>3. ASSUME WriteConfig(n) PROVE WritingFits(n)'
  BY <1>3, Ending DEF WriteConfig, WritingFits, Writing
<1> QED
  BY <1>1, <1>2, <1>3, OffConfig DEF WritingFits, Writing, Updating

(* A batch that a sweep writes back after out-of-memory retries is one the *)
(* node can run, for every capacity and number of retries.                 *)
THEOREM RetriedBatchRuns == Spec => []WrittenBackFits
<1>1. Init => WrittenInv
  BY ExportCacheAssumption, IdleTyped DEF Init, WrittenInv, WritingFits, WrittenBackFits, Writing
<1>2. ASSUME Types, SearchInv, WrittenInv, [Next]_vars PROVE WrittenInv'
  <2>1. CASE UNCHANGED vars
    BY <1>2, <2>1 DEF vars, WrittenInv, WritingFits, WrittenBackFits, Batch
  <2>2. ASSUME NEW n \in Nodes, Act(n) PROVE WrittenInv'
    <3>1. WritingFits(n)'
      BY <1>2, <2>2, WritingFitsStep, ExportCacheAssumption
    <3>2. \A m \in Nodes \ {n} : WritingFits(m)'
      BY <1>2, <2>2, OneJob DEF WrittenInv, WritingFits, Batch
    <3>3. WrittenBackFits'
      <4>1. CASE WriteConfig(n)
        <5>1. \A m \in Nodes : told'[m] = IF m = n THEN [batch |-> Found(n), by |-> job[n].kind]
                                                   ELSE told[m]
          BY <1>2, <4>1 DEF WriteConfig, Types
        <5>2. job[n].kind = "sweep" => Found(n) <= SweepCap[n]
          BY <1>2, <4>1 DEF WriteConfig, At, Found, WrittenInv, WritingFits, Writing
        <5> QED
          BY <1>2, <5>1, <5>2 DEF WrittenInv, WrittenBackFits
      <4>2. CASE ~WriteConfig(n)
        <5>1. UNCHANGED told
          BY <1>2, <2>2, <4>2, OffConfig, ExportCacheAssumption DEF ReadConfig, TruncateConfig
        <5> QED
          BY <1>2, <5>1 DEF WrittenInv, WrittenBackFits
      <4> QED
        BY <4>1, <4>2
    <3> QED
      BY <3>1, <3>2, <3>3 DEF WrittenInv
  <2> QED
    BY <1>2, <2>1, <2>2 DEF Next, Act
<1>3. WrittenInv => WrittenBackFits
  BY DEF WrittenInv
<1> QED
  BY <1>1, <1>2, <1>3, TypesAlways, SearchAlways, PTL DEF Spec

-----------------------------------------------------------------------------
(* Updates that do not overlap: what the updater read is what the config   *)
(* said, and while the file is cut short the updater has all of it.        *)

Agrees(table) == \A m \in Nodes : table[m] = told[m].batch
Agreed ==
  /\ \A n, m \in Nodes : Updating(n) /\ Updating(m) => n = m
  /\ \A n \in Nodes : At(n, "truncate") => job[n].text = config
  /\ \A n \in Nodes : At(n, "write") => job[n].text # Lost /\ Agrees(job[n].text)
  /\ (\A n \in Nodes : ~At(n, "write")) => config # Lost /\ Agrees(config)
ConfigInv == clobbered \/ Agreed

LEMMA TableNotLost ==
  ASSUME NEW n \in Nodes, NEW t \in Tables, NEW b \in Nat
  PROVE  [t EXCEPT ![n] = b] # Lost /\ t # Lost
<1>1. DOMAIN [t EXCEPT ![n] = b] = Nodes /\ DOMAIN t = Nodes
  BY DEF Tables
<1>2. DOMAIN Lost = {}
  BY DEF Lost
<1> QED
  BY <1>1, <1>2

LEMMA ConfigStep ==
  ASSUME ExportCacheAssumption, Types, SearchInv, ConfigInv, NEW n \in Nodes, Act(n)
  PROVE  ConfigInv'
<1> SUFFICES ASSUME ~clobbered' PROVE Agreed'
  BY DEF ConfigInv
<1>1. \A m \in Nodes \ {n} : job'[m] = job[m]
  BY OneJob
<1>2. ASSUME ReadConfig(n) PROVE Agreed'
  <2>1. Agreed /\ ~clobbered /\ \A m \in Nodes \ {n} : ~Updating(m)
    BY <1>2 DEF ReadConfig, ConfigInv
  <2>2. job'[n] = [job[n] EXCEPT !.pc = "truncate", !.text = config]
    BY <1>2, Became DEF ReadConfig
  <2>3. job'[n].pc = "truncate" /\ job'[n].text = config
    BY <2>2 DEF Types, JobRec
  <2>4. \A m \in Nodes : ~At(m, "write")
    BY <1>2, <2>1 DEF ReadConfig, At, Updating
  <2> QED
    BY <1>1, <1>2, <2>1, <2>3, <2>4 DEF ReadConfig, Agreed, Agrees, At, Updating
<1>3. ASSUME TruncateConfig(n) PROVE Agreed'
  <2>1. Agreed
    BY <1>3 DEF TruncateConfig, ConfigInv
  <2>2. job'[n].pc = "write" /\ job'[n].text = job[n].text /\ job[n].pc = "truncate"
    BY <1>3, Gone DEF TruncateConfig, At
  <2>3. \A m \in Nodes : ~At(m, "write")
    BY <2>1, <2>2 DEF Agreed, At, Updating
  <2>4. job[n].text # Lost /\ Agrees(job[n].text)
    BY <2>1, <2>2, <2>3 DEF Agreed, At
  <2> QED
    BY <1>1, <1>3, <2>1, <2>2, <2>3, <2>4 DEF TruncateConfig, Agreed, Agrees, At, Updating
<1>4. ASSUME WriteConfig(n) PROVE Agreed'
  <2>1. Agreed /\ job[n].pc = "write"
    BY <1>4 DEF WriteConfig, ConfigInv, At
  <2>2. job'[n].pc = "done"
    BY <1>4, Ending DEF WriteConfig
  <2>3. job[n].text # Lost /\ job[n].text \in Tables /\ Agrees(job[n].text)
    BY <2>1 DEF Agreed, At, Types, JobRec
  <2>4. config' = [job[n].text EXCEPT ![n] = Found(n)]
    BY <1>4, <2>3 DEF WriteConfig
  <2>5. config' # Lost
    BY <2>3, <2>4, FoundTyped, TableNotLost
  <2>6. \A m \in Nodes : told'[m].batch = IF m = n THEN Found(n) ELSE told[m].batch
    BY <1>4 DEF WriteConfig, Types
  <2>7. Agrees(config)'
    BY <2>3, <2>4, <2>6 DEF Agrees, Tables
  <2>8. \A m \in Nodes : ~Updating(m)'
    BY <1>1, <2>1, <2>2 DEF Agreed, Updating
  <2> QED
    BY <2>5, <2>7, <2>8 DEF Agreed, Updating, At
<1>5. ASSUME Kill(n) PROVE Agreed'
  <2>1. Agreed /\ ~At(n, "write")
    BY <1>5 DEF Kill, ConfigInv
  <2>2. job'[n].pc = "off"
    BY <1>5, Ending DEF Kill
  <2> QED
    BY <1>1, <1>5, <2>1, <2>2 DEF Kill, Agreed, Agrees, Updating, At
<1>6. ASSUME ~ReadConfig(n), ~TruncateConfig(n), ~WriteConfig(n), ~Kill(n) PROVE Agreed'
  <2>1. Agreed /\ UNCHANGED <<config, told>> /\ ~Updating(n) /\ ~Updating(n)'
    BY <1>6, OffConfig DEF ConfigInv
  <2> QED
    BY <1>1, <2>1 DEF Agreed, Agrees, Updating, At
<1> QED
  BY <1>2, <1>3, <1>4, <1>5, <1>6

(* As long as no two updates of the config overlap and none is killed      *)
(* half-way, none of them loses what another node wrote, for any number of *)
(* nodes and updates.                                                      *)
THEOREM UpdatesKept == Spec => []ConfigKeepsUpdates
<1>1. Init => ConfigInv
  <2> SUFFICES ASSUME Init PROVE Agreed
    BY DEF ConfigInv
  <2>1. \A n \in Nodes : job[n].pc = "off"
    BY IdleTyped, ExportCacheAssumption DEF Init
  <2>2. config \in Tables
    BY ExportCacheAssumption DEF Init, ExportCacheAssumption, Tables
  <2>3. Agrees(config)
    BY DEF Init, Agrees
  <2>4. config # Lost
    BY <2>2, TableNotLost, ExportCacheAssumption DEF ExportCacheAssumption
  <2> QED
    BY <2>1, <2>3, <2>4 DEF Agreed, Updating, At
<1>2. ASSUME Types, SearchInv, ConfigInv, [Next]_vars PROVE ConfigInv'
  <2>1. CASE UNCHANGED vars
    BY <1>2, <2>1 DEF vars, ConfigInv, Agreed, Agrees, Updating, At
  <2> QED
    BY <1>2, <2>1, ConfigStep, ExportCacheAssumption DEF Next, Act
<1>3. ConfigInv => ConfigKeepsUpdates
  BY DEF ConfigInv, Agreed, Agrees, ConfigKeepsUpdates
<1> QED
  BY <1>1, <1>2, <1>3, TypesAlways, SearchAlways, PTL DEF Spec

-----------------------------------------------------------------------------
(* What a job may begin to write, and when.                                *)

MayBegin(n, a, x) ==
  /\ BeginWrite(n, a, x) /\ LockFree(n, a) /\ ~At(n, "writing")
  /\ x \in Exports /\ x.state = "whole"
  /\ a = "base" => job[n].pc = "base" /\ x.batch = Batch(n)
  /\ a = "extra" => job[n].pc = "extra" /\ x.batch = File(n, "base").batch
                                       /\ x.outs = job[n].wanted
  /\ a = "sub" => job[n].pc = "sub" /\ File(n, "sub") = None
  /\ a = "pull" => /\ job[n].pc = "pull" /\ File(n, "sub").state = "whole"
                   /\ x.batch = File(n, "sub").batch

MaySkip(n, a) ==
  /\ Skip(n, a) /\ job[n].pc = a
  /\ a \in {"base", "extra"} => ~job[n].force
  /\ a = "extra" => job[n].wanted \subseteq File(n, "extra").outs

LEMMA BeginSteps ==
  ASSUME ExportCacheAssumption, Types, NEW n \in Nodes,
         EnsureBase(n) \/ EnsureExtra(n) \/ EnsureSubgraphs(n) \/ EnsurePullback(n)
  PROVE  \/ \E a \in Artifacts, x \in Exports : MayBegin(n, a, x)
         \/ \E a \in Artifacts : MaySkip(n, a)
         \/ Raise(n) /\ UNCHANGED <<files, met>>
<1> DEFINE Begins == \E a \in Artifacts, x \in Exports : MayBegin(n, a, x)
           Skips == \E a \in Artifacts : MaySkip(n, a)
           Raises == Raise(n) /\ UNCHANGED <<files, met>>
<1>1. /\ {"output"} \in SUBSET OutNames /\ {"out"} \in SUBSET OutNames
      /\ {"grad"} \in SUBSET OutNames /\ job[n].wanted \in SUBSET OutNames
      /\ "base" \in Artifacts /\ "extra" \in Artifacts
      /\ "sub" \in Artifacts /\ "pull" \in Artifacts
  BY DEF OutNames, Types, JobRec, Artifacts
<1>2. ASSUME EnsureBase(n) PROVE Begins \/ Skips \/ Raises
  <2> DEFINE x == Whole(Batch(n), {"output"})
  <2>1. x \in Exports /\ x.state = "whole" /\ x.batch = Batch(n)
    BY <1>1, WholeForm, BatchType
  <2> HIDE DEF x
  <2>2. ASSUME BeginWrite(n, "base", x) PROVE MayBegin(n, "base", x)
    BY <1>2, <2>1, <2>2 DEF MayBegin, EnsureBase, At
  <2> QED
    BY <1>1, <1>2, <2>1, <2>2 DEF EnsureBase, MaySkip, At, x
<1>3. ASSUME EnsureExtra(n) PROVE Begins \/ Skips \/ Raises
  <2> DEFINE x == Whole(File(n, "base").batch, job[n].wanted)
  <2>1. File(n, "base").state = "whole" =>
          x \in Exports /\ x.state = "whole" /\ x.batch = File(n, "base").batch
            /\ x.outs = job[n].wanted
    BY <1>1, WholeForm, BatchType, ExportForms
  <2> HIDE DEF x
  <2>2. ASSUME File(n, "base").state = "whole", BeginWrite(n, "extra", x)
        PROVE  MayBegin(n, "extra", x)
    BY <1>3, <2>1, <2>2 DEF MayBegin, EnsureExtra, At
  <2>3. ASSUME Extract(n, File(n, "base"), "extra", x) PROVE Begins \/ Skips \/ Raises
    BY <1>1, <2>1, <2>2, <2>3 DEF Extract
  <2> QED
    BY <1>1, <1>3, <2>3 DEF EnsureExtra, MaySkip, At, x
<1>4. ASSUME EnsureSubgraphs(n) PROVE Begins \/ Skips \/ Raises
  <2> DEFINE x == Whole(File(n, "base").batch, {"out"})
  <2>1. File(n, "base").state = "whole" => x \in Exports /\ x.state = "whole"
    BY <1>1, WholeForm, BatchType, ExportForms
  <2> HIDE DEF x
  <2>2. ASSUME File(n, "base").state = "whole", File(n, "sub") = None, BeginWrite(n, "sub", x)
        PROVE  MayBegin(n, "sub", x)
    BY <1>4, <2>1, <2>2 DEF MayBegin, EnsureSubgraphs, At
  <2>3. ASSUME File(n, "sub") = None, Extract(n, File(n, "base"), "sub", x) PROVE Begins \/ Skips \/ Raises
    BY <1>1, <2>1, <2>2, <2>3 DEF Extract
  <2> QED
    BY <1>1, <1>4, <2>3 DEF EnsureSubgraphs, MaySkip, At, x
<1>5. ASSUME EnsurePullback(n) PROVE Begins \/ Skips \/ Raises
  <2> DEFINE b == File(n, "sub").batch
             k == IF job[n].kind = "stats" THEN ShapeBatch ELSE b
             x == [Whole(b, {"grad"}) EXCEPT !.mask = k]
  <2>1. b \in Nat /\ k \in Nat
    BY <1>1, BatchType DEF Exports, None, Torn, ExportCacheAssumption
  <2>2. File(n, "sub").state = "whole" => x \in Exports /\ x.state = "whole" /\ x.batch = b
    <3> HIDE DEF k
    <3> QED
      BY <1>1, <2>1, WholeForm, BatchType, ExportForms
  <2> HIDE DEF x
  <2>3. ASSUME File(n, "sub").state = "whole", BeginWrite(n, "pull", x)
        PROVE  MayBegin(n, "pull", x)
    BY <1>5, <2>2, <2>3 DEF MayBegin, EnsurePullback, At
  <2>4. ASSUME Extract(n, File(n, "sub"), "pull", x) PROVE Begins \/ Skips \/ Raises
    BY <1>1, <2>2, <2>3, <2>4 DEF Extract
  <2> QED
    BY <1>1, <1>5, <2>4 DEF EnsurePullback, MaySkip, At, x
<1> QED
  BY <1>2, <1>3, <1>4, <1>5

(* Every other step but the end of a write leaves the files alone.         *)
LEMMA FileSteps ==
  ASSUME ExportCacheAssumption, Types, NEW n \in Nodes, Act(n), ~EndWrite(n)
  PROVE  \/ \E a \in Artifacts, x \in Exports : MayBegin(n, a, x)
         \/ UNCHANGED files /\ job'[n].pc # "writing"
<1> DEFINE Still == UNCHANGED files /\ job'[n].pc # "writing"
<1>1. ASSUME CheckBase(n) \/ CheckExtra(n) PROVE Still
  <2>1. job[n] \in JobRec
    BY DEF Types
  <2>2. ASSUME NEW q \in {"base", "extra"}, NEW c, Become(n, [job[n] EXCEPT !.pc = q, !.force = c])
        PROVE  job'[n].pc # "writing"
    <3>1. job'[n] = [job[n] EXCEPT !.pc = q, !.force = c]
      BY <2>2, Became
    <3> QED
      BY <2>1, <3>1 DEF JobRec
  <2> QED
    BY <1>1, <2>2, Ending DEF CheckBase, CheckExtra, LookAt, Raise
<1>2. ASSUME Kill(n) \/ RunMap(n) \/ TruncateConfig(n) \/ WriteConfig(n) PROVE Still
  <2>1. ASSUME TruncateConfig(n) PROVE job'[n].pc = "write"
    BY <2>1, Gone DEF TruncateConfig
  <2> QED
    BY <1>2, <2>1, Ending DEF Kill, RunMap, TruncateConfig, WriteConfig
<1>3. ASSUME StartFind(n) PROVE Still
  <2>1. PICK b \in Starts, l \in Limits :
          Become(n, IF config = Lost \/ ~Fits(n, b)
                    THEN [Idle EXCEPT !.pc = "raised"]
                    ELSE [Idle EXCEPT !.pc = "double", !.lo = b, !.probe = b, !.limit = l])
    BY <1>3 DEF StartFind
  <2>2. \/ job'[n] = [Idle EXCEPT !.pc = "raised"]
        \/ job'[n] = [Idle EXCEPT !.pc = "double", !.lo = b, !.probe = b, !.limit = l]
    BY <2>1, Became
  <2> QED
    BY <1>3, <2>2, IdleTyped DEF JobRec, StartFind
<1>4. ASSUME Start(n) PROVE Still
  <2>1. PICK k \in JobKinds, w \in SUBSET OutNames : StartJob(n, k, w)
    BY <1>4 DEF Start, JobKinds, OutNames
  <2>2. CASE config = Lost
    <3>1. job'[n] = [Idle EXCEPT !.kind = k, !.pc = "raised"]
      BY <2>1, <2>2, Became DEF StartJob
    <3> QED
      BY <2>1, <3>1, IdleForm DEF StartJob
  <2>3. CASE config # Lost
    <3> DEFINE j == [Idle EXCEPT !.kind = k, !.table = config, !.wanted = w]
    <3>1. j \in JobRec
      BY <2>3, IdleTyped DEF JobRec, Types
    <3>2. Attempt(n, j) /\ UNCHANGED files
      BY <2>1, <2>3 DEF StartJob
    <3> HIDE DEF j
    <3> QED
      BY <3>1, <3>2, Attempting
  <2> QED
    BY <2>2, <2>3
<1>5. ASSUME OpenSession(n) \/ Double(n) \/ Bisect(n) \/ ReadConfig(n) PROVE Still
  <2>1. job[n] \in JobRec /\ job[n].pc # "writing"
    BY <1>5 DEF Types, OpenSession, Double, Bisect, ReadConfig, At
  <2>2. ASSUME NEW j, Become(n, j), j.pc # "writing" PROVE job'[n].pc # "writing"
    BY <2>2, Became
  <2>3. ASSUME OpenSession(n) PROVE Still
    BY <2>1, <2>2, <2>3, Ending DEF OpenSession, Raise, JobRec
  <2>4. ASSUME Double(n) \/ Bisect(n) PROVE Still
    BY <2>1, <2>2, <2>4 DEF Double, Bisect, JobRec
  <2>5. ASSUME ReadConfig(n) PROVE Still
    BY <2>1, <2>2, <2>5 DEF ReadConfig, JobRec
  <2> QED
    BY <1>5, <2>3, <2>4, <2>5
<1>6. ASSUME Run(n) PROVE Still
  <2>1. UNCHANGED files
    BY <1>6 DEF Run
  <2>2. job'[n].pc # "writing"
    <3>1. CASE Raise(n) \/ End(n, "done")
      BY <3>1, Ending DEF Raise
    <3>2. CASE Goto(n, "sub")
      <4>1. job'[n].pc = "sub"
        BY <3>2, Gone
      <4> QED
        BY <4>1
    <3>3. CASE Goto(n, "update")
      <4>1. job'[n].pc = "update"
        BY <3>3, Gone
      <4> QED
        BY <4>1
    <3>4. CASE OutOfMemory(n)
      <4> DEFINE k == [job[n] EXCEPT !.attempt = @ + 1, !.table[n] = Shrink(Batch(n))]
      <4>1. "pc" \in DOMAIN k
        BY DEF Types, JobRec
      <4>2. Raise(n) \/ Attempt(n, k)
        BY <3>4 DEF OutOfMemory
      <4> HIDE DEF k
      <4>3. ASSUME Attempt(n, k) PROVE job'[n].pc \in {"checkBase", "base"}
        <5>1. job'[n] = [k EXCEPT !.pc = IF k.kind = "sweep" THEN "checkBase" ELSE "base",
                                  !.force = (k.kind = "activations"), !.sess = None]
          BY <4>3, Became DEF Attempt
        <5> QED
          BY <4>1, <5>1
      <4> QED
        BY <4>2, <4>3, Ending DEF Raise
    <3> QED
      BY <1>6, <3>1, <3>2, <3>3, <3>4 DEF Run
  <2> QED
    BY <2>1, <2>2
<1>7. ASSUME EnsureBase(n) \/ EnsureExtra(n) \/ EnsureSubgraphs(n) \/ EnsurePullback(n)
      PROVE  Still \/ \E a \in Artifacts, x \in Exports : MayBegin(n, a, x)
  <2>1. ASSUME NEW a \in Artifacts, Skip(n, a) PROVE Still
    <3>1. AfterArtifact(job[n].kind, a) # "writing"
      BY AfterPlaces DEF Types, JobRec
    <3>2. job'[n].pc = AfterArtifact(job[n].kind, a)
      BY <2>1, Gone DEF Skip
    <3> QED
      BY <2>1, <3>1, <3>2 DEF Skip
  <2>2. ASSUME Raise(n), UNCHANGED files PROVE Still
    BY <2>2, Ending DEF Raise
  <2> QED
    BY <1>7, <2>1, <2>2, BeginSteps DEF MaySkip
<1> QED
  BY <1>1, <1>2, <1>3, <1>4, <1>5, <1>6, <1>7 DEF Act, JobStep

-----------------------------------------------------------------------------
(* A file being written is torn, has one writer, and for a pullback has    *)
(* its subgraph beside it.                                                 *)

WriterOk(n) ==
  At(n, "writing") =>
    /\ File(n, job[n].file) = Torn /\ job[n].made.state = "whole"
    /\ LockFree(n, job[n].file)
    /\ job[n].file = "pull" => /\ File(n, "sub").state = "whole"
                               /\ job[n].made.batch = File(n, "sub").batch
PullsMatch(d) ==
  files[d]["pull"].state = "whole" =>
    files[d]["sub"].state = "whole" /\ files[d]["pull"].batch = files[d]["sub"].batch
FilesInv ==
  /\ \A n \in Nodes : WriterOk(n)
  /\ \A d \in Nodes \union {Unsuffixed} : PullsMatch(d)

(* A write in a directory, seen file by file.                              *)
LEMMA PutFiles ==
  ASSUME ExportCacheAssumption, Types, NEW n \in Nodes,
         NEW a \in Artifacts, NEW x \in Exports, Put(n, a, x)
  PROVE  /\ MyDir(n) \in Nodes \union {Unsuffixed}
         /\ files'[MyDir(n)][a] = x
         /\ \A d \in Nodes \union {Unsuffixed}, b \in Artifacts :
               (d # MyDir(n) \/ b # a) => files'[d][b] = files[d][b]
         /\ \A m \in Nodes \ {n} : ~Ended(m) /\ MyDir(m) = MyDir(n) => m \in met'
         /\ \A m \in Nodes : m \in met => m \in met'
         /\ n \in met' => n \in met
  BY BatchType DEF Put, Types

LEMMA BeginEffect ==
  ASSUME Types, NEW n \in Nodes, NEW a, NEW x, BeginWrite(n, a, x)
  PROVE  /\ job'[n].pc = "writing" /\ job'[n].file = a /\ job'[n].made = x
         /\ job'[n].table = job[n].table /\ job'[n].kind = job[n].kind
         /\ job'[n].force = job[n].force /\ job'[n].wanted = job[n].wanted
         /\ Put(n, a, Torn)
<1>1. job'[n] = [job[n] EXCEPT !.pc = "writing", !.file = a, !.made = x]
  BY Became DEF BeginWrite
<1>2. job[n] \in JobRec
  BY DEF Types
<1> QED
  BY <1>1, <1>2 DEF JobRec, BeginWrite

LEMMA EndWriteEffect ==
  ASSUME Types, NEW n \in Nodes, EndWrite(n)
  PROVE  /\ job'[n].pc = AfterArtifact(job[n].kind, job[n].file)
         /\ job'[n].pc # "writing" /\ job[n].pc = "writing"
         /\ job'[n].table = job[n].table /\ job'[n].kind = job[n].kind
         /\ job'[n].force = job[n].force /\ job'[n].wanted = job[n].wanted
         /\ Put(n, job[n].file, job[n].made)
         /\ job[n].file \in Artifacts /\ job[n].made \in Exports
<1>1. job[n].kind \in JobKinds /\ job[n].file \in Artifacts /\ job[n].made \in Exports
  BY DEF Types, JobRec
<1>2. AfterArtifact(job[n].kind, job[n].file) # "writing"
  BY <1>1, AfterPlaces
<1>3. Goto(n, AfterArtifact(job[n].kind, job[n].file))
  BY DEF EndWrite
<1>4. /\ job'[n].pc = AfterArtifact(job[n].kind, job[n].file)
      /\ job'[n].table = job[n].table /\ job'[n].kind = job[n].kind
      /\ job'[n].force = job[n].force /\ job'[n].wanted = job[n].wanted
  BY <1>3, Gone
<1> QED
  BY <1>1, <1>2, <1>4 DEF EndWrite, At

LEMMA FilesBegin ==
  ASSUME ExportCacheAssumption, Types, FilesInv, NEW n \in Nodes, Act(n),
         NEW a \in Artifacts, NEW x \in Exports, MayBegin(n, a, x)
  PROVE  FilesInv'
<1> DEFINE D == MyDir(n)
<1>1. /\ job'[n].pc = "writing" /\ job'[n].file = a /\ job'[n].made = x
      /\ job'[n].table = job[n].table /\ Put(n, a, Torn)
  BY BeginEffect DEF MayBegin
<1>2. /\ D \in Nodes \union {Unsuffixed} /\ files'[D][a] = Torn
      /\ \A d \in Nodes \union {Unsuffixed}, b \in Artifacts :
            (d # D \/ b # a) => files'[d][b] = files[d][b]
  BY <1>1, ExportForms, PutFiles
<1>3. MyDir(n)' = D /\ \A m \in Nodes \ {n} : job'[m] = job[m] /\ MyDir(m)' = MyDir(m)
  BY <1>1, OneJob DEF MyDir
<1>4. "sub" \in Artifacts /\ "pull" \in Artifacts
  BY DEF Artifacts
<1>5. \A d \in Nodes \union {Unsuffixed} : PullsMatch(d)'
  <2> SUFFICES ASSUME NEW d \in Nodes \union {Unsuffixed} PROVE PullsMatch(d)'
    OBVIOUS
  <2>1. PullsMatch(d)
    BY DEF FilesInv
  <2>2. CASE d # D \/ a \notin {"sub", "pull"}
    BY <1>2, <1>4, <2>1, <2>2 DEF PullsMatch
  <2>3. CASE d = D /\ a = "pull"
    BY <1>2, <2>3, ExportForms DEF PullsMatch
  <2>4. CASE d = D /\ a = "sub"
    <3>1. files[D]["sub"].state = "none"
      BY <2>4, ExportForms DEF MayBegin, File
    <3>2. files'[D]["pull"] = files[D]["pull"]
      BY <1>2, <1>4, <2>4
    <3> QED
      BY <2>1, <2>4, <3>1, <3>2 DEF PullsMatch
  <2> QED
    BY <2>2, <2>3, <2>4
<1>6. WriterOk(n)'
  <2>1. \A m \in Nodes \ {n} : ~(job[m].pc = "writing" /\ job[m].file = a /\ MyDir(m) = D)
    BY DEF MayBegin, LockFree, At
  <2>2. a = "pull" => files'[D]["sub"] = files[D]["sub"]
    BY <1>2, <1>4
  <2> QED
    BY <1>1, <1>2, <1>3, <2>1, <2>2 DEF WriterOk, LockFree, At, File, MayBegin
<1>7. ASSUME NEW m \in Nodes \ {n} PROVE WriterOk(m)'
  <2> SUFFICES ASSUME job[m].pc = "writing" PROVE WriterOk(m)'
    BY <1>3 DEF WriterOk, At
  <2>1. WriterOk(m) /\ job[m].file \in Artifacts /\ MyDir(m) \in Nodes \union {Unsuffixed}
    BY BatchType DEF FilesInv, Types, JobRec
  <2>2. MyDir(m) # D \/ job[m].file # a
    BY DEF MayBegin, LockFree, At
  <2>3. files'[MyDir(m)][job[m].file] = files[MyDir(m)][job[m].file]
    BY <1>2, <2>1, <2>2
  <2>4. job[m].file = "pull" => files'[MyDir(m)]["sub"] = files[MyDir(m)]["sub"]
    <3>1. CASE MyDir(m) = D /\ a = "sub"
      BY <2>1, <3>1, ExportForms DEF WriterOk, At, File, MayBegin
    <3>2. CASE ~(MyDir(m) = D /\ a = "sub")
      BY <1>2, <1>4, <2>1, <3>2
    <3> QED
      BY <3>1, <3>2
  <2>5. LockFree(m, job[m].file)'
    BY <1>1, <1>3, <2>1, <2>2 DEF LockFree, WriterOk, At
  <2> QED
    BY <1>3, <2>1, <2>3, <2>4, <2>5 DEF WriterOk, At, File
<1> QED
  BY <1>5, <1>6, <1>7 DEF FilesInv

LEMMA FilesEnd ==
  ASSUME ExportCacheAssumption, Types, FilesInv, NEW n \in Nodes, Act(n), EndWrite(n)
  PROVE  FilesInv'
<1> DEFINE D == MyDir(n)
           a == job[n].file
           x == job[n].made
<1>1. /\ job'[n].pc # "writing" /\ job[n].pc = "writing" /\ job'[n].table = job[n].table
      /\ Put(n, a, x) /\ a \in Artifacts /\ x \in Exports
  BY EndWriteEffect
<1>2. /\ D \in Nodes \union {Unsuffixed} /\ files'[D][a] = x
      /\ \A d \in Nodes \union {Unsuffixed}, b \in Artifacts :
            (d # D \/ b # a) => files'[d][b] = files[d][b]
  BY <1>1, PutFiles
<1>3. MyDir(n)' = D /\ \A m \in Nodes \ {n} : job'[m] = job[m] /\ MyDir(m)' = MyDir(m)
  BY <1>1, OneJob DEF MyDir
<1>4. "sub" \in Artifacts /\ "pull" \in Artifacts
  BY DEF Artifacts
<1>5. /\ files[D][a].state = "torn" /\ x.state = "whole"
      /\ \A m \in Nodes \ {n} : ~(job[m].pc = "writing" /\ job[m].file = a /\ MyDir(m) = D)
      /\ a = "pull" => files[D]["sub"].state = "whole" /\ x.batch = files[D]["sub"].batch
  BY <1>1, ExportForms DEF FilesInv, WriterOk, At, File, LockFree
<1> HIDE DEF D, a, x
<1>6. \A d \in Nodes \union {Unsuffixed} : PullsMatch(d)'
  <2> SUFFICES ASSUME NEW d \in Nodes \union {Unsuffixed} PROVE PullsMatch(d)'
    OBVIOUS
  <2>1. PullsMatch(d)
    BY DEF FilesInv
  <2>2. CASE d # D \/ a \notin {"sub", "pull"}
    BY <1>2, <1>4, <2>1, <2>2 DEF PullsMatch
  <2>3. CASE d = D /\ a = "pull"
    BY <1>2, <1>4, <1>5, <2>3 DEF PullsMatch
  <2>4. CASE d = D /\ a = "sub"
    <3>1. files'[D]["pull"] = files[D]["pull"]
      BY <1>2, <1>4, <2>4
    <3> QED
      BY <1>5, <2>1, <2>4, <3>1 DEF PullsMatch
  <2> QED
    BY <2>2, <2>3, <2>4
<1>7. ASSUME NEW m \in Nodes \ {n} PROVE WriterOk(m)'
  <2> SUFFICES ASSUME job[m].pc = "writing" PROVE WriterOk(m)'
    BY <1>3 DEF WriterOk, At
  <2>1. WriterOk(m) /\ job[m].file \in Artifacts /\ MyDir(m) \in Nodes \union {Unsuffixed}
    BY BatchType DEF FilesInv, Types, JobRec
  <2>2. MyDir(m) # D \/ job[m].file # a
    BY <1>5
  <2>3. files'[MyDir(m)][job[m].file] = files[MyDir(m)][job[m].file]
    BY <1>2, <2>1, <2>2
  <2>4. job[m].file = "pull" => files'[MyDir(m)]["sub"] = files[MyDir(m)]["sub"]
    <3>1. CASE MyDir(m) = D /\ a = "sub"
      BY <1>5, <2>1, <3>1 DEF WriterOk, At, File
    <3>2. CASE ~(MyDir(m) = D /\ a = "sub")
      BY <1>2, <1>4, <2>1, <3>2
    <3> QED
      BY <3>1, <3>2
  <2>5. LockFree(m, job[m].file)'
    BY <1>1, <1>3, <2>1 DEF LockFree, WriterOk, At
  <2> QED
    BY <1>3, <2>1, <2>3, <2>4, <2>5 DEF WriterOk, At, File
<1>8. WriterOk(n)'
  BY <1>1 DEF WriterOk, At
<1> QED
  BY <1>6, <1>7, <1>8 DEF FilesInv

LEMMA FilesStep ==
  ASSUME ExportCacheAssumption, Types, FilesInv, NEW n \in Nodes, Act(n)
  PROVE  FilesInv'
<1>1. CASE UNCHANGED files /\ job'[n].pc # "writing"
  <2>1. \A m \in Nodes \ {n} : job'[m] = job[m] /\ MyDir(m)' = MyDir(m)
    BY OneJob DEF MyDir
  <2>2. ASSUME NEW m \in Nodes \ {n} PROVE WriterOk(m)'
    <3>1. WriterOk(m)
      BY DEF FilesInv
    <3>2. ASSUME NEW a, LockFree(m, a) PROVE LockFree(m, a)'
      BY <1>1, <2>1, <3>2 DEF LockFree, At
    <3> QED
      BY <1>1, <2>1, <3>1, <3>2 DEF WriterOk, At, File
  <2>3. WriterOk(n)'
    BY <1>1 DEF WriterOk, At
  <2>4. \A d \in Nodes \union {Unsuffixed} : PullsMatch(d)'
    BY <1>1 DEF FilesInv, PullsMatch
  <2> QED
    BY <2>2, <2>3, <2>4 DEF FilesInv
<1> QED
  BY <1>1, FilesBegin, FilesEnd, FileSteps

LEMMA FilesAlways == Spec => []FilesInv
<1>1. Init => FilesInv
  <2> SUFFICES ASSUME Init PROVE FilesInv
    OBVIOUS
  <2>1. \A n \in Nodes : job[n].pc = "off"
    BY IdleTyped, ExportCacheAssumption DEF Init
  <2>2. \A d \in Nodes \union {Unsuffixed} : files[d]["pull"].state = "none"
    BY ExportForms DEF Init, Artifacts
  <2> QED
    BY <2>1, <2>2 DEF FilesInv, WriterOk, PullsMatch, At
<1>2. ASSUME Types, FilesInv, [Next]_vars PROVE FilesInv'
  <2>1. CASE UNCHANGED vars
    BY <1>2, <2>1 DEF vars, FilesInv, WriterOk, PullsMatch, At, File, LockFree, MyDir
  <2> QED
    BY <1>2, <2>1, FilesStep, ExportCacheAssumption DEF Next, Act
<1> QED
  BY <1>1, <1>2, TypesAlways, PTL DEF Spec

(* Whatever was exported when, killed or interleaved, a pullback that can  *)
(* be read has the batch of the subgraph beside it.                        *)
THEOREM PullbacksMatch == Spec => []PullbackMatchesSubgraph
<1>1. Types /\ FilesInv => PullbackMatchesSubgraph
  BY DEF Types, FilesInv, PullsMatch, PullbackMatchesSubgraph
<1> QED
  BY <1>1, TypesAlways, FilesAlways, PTL

-----------------------------------------------------------------------------
(* What a sweep knows of its exports, place by place, as long as no other  *)
(* node wrote in a directory they share.                                   *)

Quiet(n) == ~(MyDir(n) = Unsuffixed /\ n \in met)
Sweeping(n) == job[n].kind \in {"sweep", "activations"}
BaseServes(n) == File(n, "base").batch = Batch(n)
Serves(n, x) == x.batch = Batch(n) /\ job[n].wanted \subseteq x.outs

PlacesOk(n) ==
  Sweeping(n) =>
    /\ job[n].pc \notin {"sub", "pull", "map"}
    /\ job[n].pc = "writing" => job[n].file \in {"base", "extra"}
    /\ job[n].kind = "activations" => job[n].pc \notin {"checkBase", "checkExtra"}
    /\ (job[n].kind = "activations" /\ job[n].pc \in {"base", "extra", "writing"}) => job[n].force
ExportsOk(n) ==
  (Sweeping(n) /\ Quiet(n)) =>
    /\ job[n].pc = "base" => job[n].force \/ BaseServes(n)
    /\ job[n].pc = "writing" =>
         \/ job[n].file = "base" /\ job[n].made.batch = Batch(n)
         \/ job[n].file = "extra" /\ Serves(n, job[n].made) /\ BaseServes(n)
    /\ job[n].pc = "checkExtra" => BaseServes(n)
    /\ job[n].pc = "extra" =>
         BaseServes(n) /\ (job[n].force \/ File(n, "extra").batch = Batch(n))
    /\ job[n].pc = "open" => Serves(n, File(n, "extra"))
    /\ job[n].pc = "run" => Serves(n, job[n].sess)
ServeInv == \A n \in Nodes : PlacesOk(n) /\ ExportsOk(n)

(* The steps of another node.                                              *)
LEMMA ServeOthers ==
  ASSUME ExportCacheAssumption, Types, ServeInv, NEW n \in Nodes, Act(n),
         NEW m \in Nodes \ {n}
  PROVE  PlacesOk(m)' /\ ExportsOk(m)'
<1>1. job'[m] = job[m] /\ MyDir(m)' = MyDir(m) /\ Batch(m)' = Batch(m)
  BY OneJob DEF MyDir, Batch
<1>2. PlacesOk(m) /\ ExportsOk(m)
  BY DEF ServeInv
<1>3. PlacesOk(m)'
  BY <1>1, <1>2 DEF PlacesOk, Sweeping
<1>4. ASSUME \A a \in Artifacts : File(m, a)' = File(m, a), m \in met => m \in met'
      PROVE  ExportsOk(m)'
  <2>1. File(m, "base")' = File(m, "base") /\ File(m, "extra")' = File(m, "extra")
    BY <1>4 DEF Artifacts
  <2>2. Sweeping(m)' = Sweeping(m) /\ (Quiet(m)' => Quiet(m))
    BY <1>1, <1>4 DEF Sweeping, Quiet
  <2> QED
    BY <1>1, <1>2, <2>1, <2>2 DEF ExportsOk, BaseServes, Serves
<1>5. ASSUME NEW a \in Artifacts, NEW x \in Exports, Put(n, a, x) PROVE ExportsOk(m)'
  <2>1. CASE MyDir(m) = MyDir(n) /\ ~Ended(m)
    <3>1. MyDir(m) = Unsuffixed
      BY <2>1, BatchType, ExportCacheAssumption DEF ExportCacheAssumption
    <3>2. m \in met'
      BY <1>5, <2>1, PutFiles
    <3> QED
      BY <1>1, <3>1, <3>2 DEF ExportsOk, Quiet
  <2>2. CASE Ended(m)
    BY <1>1, <2>2 DEF ExportsOk, Ended
  <2>3. CASE MyDir(m) # MyDir(n)
    <3>1. MyDir(m) \in Nodes \union {Unsuffixed}
      BY BatchType
    <3>2. \A b \in Artifacts : File(m, b)' = File(m, b)
      BY <1>1, <1>5, <2>3, <3>1, PutFiles DEF File
    <3>3. m \in met => m \in met'
      BY <1>5, PutFiles
    <3> QED
      BY <1>4, <3>2, <3>3
  <2> QED
    BY <2>1, <2>2, <2>3
<1>6. CASE EndWrite(n)
  BY <1>3, <1>5, <1>6, EndWriteEffect
<1>7. CASE ~EndWrite(n)
  <2>1. ASSUME NEW a \in Artifacts, NEW x \in Exports, MayBegin(n, a, x) PROVE ExportsOk(m)'
    <3>1. Put(n, a, Torn) /\ Torn \in Exports
      BY <2>1, ExportForms DEF MayBegin, BeginWrite
    <3> QED
      BY <1>5, <3>1
  <2>2. ASSUME UNCHANGED files PROVE ExportsOk(m)'
    <3>1. \A a \in Artifacts : File(m, a)' = File(m, a)
      BY <1>1, <2>2 DEF File
    <3>2. CASE m \in met => m \in met'
      BY <1>4, <3>1, <3>2
    <3>3. CASE ~(m \in met => m \in met')
      <4>1. \A k \in Nodes \ {m} : \A j : Attempt(k, j) => (m \in met => m \in met')
        BY DEF Attempt
      <4>2. ASSUME NEW a, NEW x, Put(n, a, x) PROVE m \in met => m \in met'
        BY <4>2 DEF Put
      <4> QED
        BY <3>3, <4>1, <4>2
        DEF Act, JobStep, Start, StartJob, StartFind, CheckBase, CheckExtra, LookAt, EnsureBase,
            EnsureExtra, EnsureSubgraphs, EnsurePullback, Extract, Skip, BeginWrite, EndWrite,
            OpenSession, Run, OutOfMemory, RunMap, Double, Bisect, ReadConfig, TruncateConfig,
            WriteConfig, Kill
    <3> QED
      BY <3>2, <3>3
  <2>3. \/ \E a \in Artifacts, x \in Exports : MayBegin(n, a, x)
        \/ UNCHANGED files
    BY <1>7, FileSteps
  <2>4. CASE \E a \in Artifacts, x \in Exports : MayBegin(n, a, x)
    BY <1>3, <2>1, <2>4
  <2>5. CASE UNCHANGED files
    BY <1>3, <2>2, <2>5
  <2> QED
    BY <2>3, <2>4, <2>5
<1> QED
  BY <1>6, <1>7

(* The steps of the job itself: first those that say nothing of exports.   *)
LEMMA ServeQuick ==
  ASSUME ExportCacheAssumption, Types, NEW n \in Nodes,
         job'[n].pc \in {"off", "done", "raised", "update", "truncate", "write"}
         \/ ~Sweeping(n)'
  PROVE  PlacesOk(n)' /\ ExportsOk(n)'
  BY DEF PlacesOk, ExportsOk, Sweeping

LEMMA ServeAttempt ==
  ASSUME ExportCacheAssumption, Types, NEW n \in Nodes, NEW j \in JobRec, Attempt(n, j)
  PROVE  PlacesOk(n)' /\ ExportsOk(n)'
  BY Attempting DEF PlacesOk, ExportsOk, Sweeping

(* Then what the others keep of the job.                                   *)
SameJob(n) ==
  /\ job'[n].kind = job[n].kind /\ job'[n].table = job[n].table
  /\ job'[n].wanted = job[n].wanted

LEMMA SameServes ==
  ASSUME NEW n \in Nodes, SameJob(n), n \in met => n \in met'
  PROVE  /\ MyDir(n)' = MyDir(n) /\ Batch(n)' = Batch(n)
         /\ Sweeping(n)' = Sweeping(n) /\ (Quiet(n)' => Quiet(n))
         /\ UNCHANGED files => /\ File(n, "base")' = File(n, "base")
                               /\ File(n, "extra")' = File(n, "extra")
<1>1. MyDir(n)' = MyDir(n) /\ Batch(n)' = Batch(n)
  BY DEF SameJob, MyDir, Batch
<1>2. Sweeping(n)' = Sweeping(n)
  BY DEF SameJob, Sweeping
<1>3. Quiet(n)' => Quiet(n)
  BY <1>1 DEF Quiet
<1>4. UNCHANGED files => File(n, "base")' = File(n, "base") /\ File(n, "extra")' = File(n, "extra")
  BY <1>1 DEF File
<1> QED
  BY <1>1, <1>2, <1>3, <1>4

LEMMA ServeLook ==
  ASSUME ExportCacheAssumption, Types, ServeInv, NEW n \in Nodes, CheckBase(n) \/ CheckExtra(n)
  PROVE  PlacesOk(n)' /\ ExportsOk(n)'
<1>1. UNCHANGED <<files, met>>
  BY DEF CheckBase, CheckExtra, LookAt
<1>2. CASE Raise(n)
  BY <1>2, Ending, ServeQuick DEF Raise
<1>3. ASSUME NEW q \in {"base", "extra"}, NEW c \in BOOLEAN,
             Become(n, [job[n] EXCEPT !.pc = q, !.force = c])
      PROVE  SameJob(n) /\ job'[n].pc = q /\ (job'[n].force <=> c)
  <2>1. job'[n] = [job[n] EXCEPT !.pc = q, !.force = c] /\ job[n] \in JobRec
    BY <1>3, Became DEF Types
  <2> QED
    BY <2>1 DEF SameJob, JobRec
<1>4. PlacesOk(n) /\ ExportsOk(n)
  BY DEF ServeInv
<1>5. CASE CheckBase(n) /\ ~Raise(n)
  <2>1. /\ SameJob(n) /\ job'[n].pc = "base" /\ job[n].pc = "checkBase"
        /\ job'[n].force <=> (FALSE \/ File(n, "base").batch # Batch(n))
    BY <1>3, <1>5 DEF CheckBase, LookAt, At
  <2>2. PlacesOk(n)'
    BY <1>4, <2>1, <1>1, SameServes DEF PlacesOk, SameJob, Sweeping
  <2>3. ExportsOk(n)'
    BY <1>1, <2>1, SameServes DEF ExportsOk, BaseServes
  <2> QED
    BY <2>2, <2>3
<1>6. CASE CheckExtra(n) /\ ~Raise(n)
  <2>1. /\ SameJob(n) /\ job'[n].pc = "extra" /\ job[n].pc = "checkExtra"
        /\ job'[n].force <=> (job[n].force \/ File(n, "extra").batch # Batch(n))
    BY <1>3, <1>6 DEF CheckExtra, LookAt, At
  <2>2. PlacesOk(n)'
    BY <1>4, <2>1, <1>1, SameServes DEF PlacesOk, SameJob, Sweeping
  <2>3. ExportsOk(n)'
    BY <1>1, <1>4, <2>1, SameServes DEF ExportsOk, BaseServes
  <2> QED
    BY <2>2, <2>3
<1> QED
  BY <1>2, <1>5, <1>6

LEMMA SkipEffect ==
  ASSUME Types, NEW n \in Nodes, NEW a \in Artifacts, Skip(n, a)
  PROVE  /\ SameJob(n) /\ job'[n].force = job[n].force /\ UNCHANGED <<files, met>>
         /\ job'[n].pc = AfterArtifact(job[n].kind, a)
  BY Gone DEF Skip, SameJob

LEMMA ServeBegin ==
  ASSUME ExportCacheAssumption, Types, ServeInv, NEW n \in Nodes,
         NEW a \in Artifacts, NEW x \in Exports, MayBegin(n, a, x)
  PROVE  PlacesOk(n)' /\ ExportsOk(n)'
<1>1. /\ job'[n].pc = "writing" /\ job'[n].file = a /\ job'[n].made = x
      /\ SameJob(n) /\ job'[n].force = job[n].force /\ Put(n, a, Torn)
  BY BeginEffect DEF MayBegin, SameJob
<1>2. PlacesOk(n) /\ ExportsOk(n)
  BY DEF ServeInv
<1>3. n \in met => n \in met'
  BY <1>1, PutFiles, ExportForms
<1>4. /\ MyDir(n)' = MyDir(n) /\ Batch(n)' = Batch(n)
      /\ Sweeping(n)' = Sweeping(n) /\ (Quiet(n)' => Quiet(n))
  BY <1>1, <1>3, SameServes
<1>5. CASE ~Sweeping(n)
  BY <1>4, <1>5, ServeQuick
<1>6. CASE Sweeping(n) /\ a = "base"
  BY <1>1, <1>2, <1>4, <1>6 DEF PlacesOk, ExportsOk, Sweeping, SameJob, MayBegin
<1>7. CASE Sweeping(n) /\ a = "extra"
  <2>1. File(n, "base")' = File(n, "base")
    BY <1>1, <1>4, <1>7, PutFiles, ExportForms DEF File, Artifacts
  <2>2. job[n].pc = "extra" /\ x.batch = File(n, "base").batch /\ x.outs = job[n].wanted
    BY <1>7 DEF MayBegin
  <2>3. PlacesOk(n)'
    BY <1>1, <1>2, <1>4, <1>7, <2>2 DEF PlacesOk, Sweeping, SameJob
  <2>4. ExportsOk(n)'
    BY <1>1, <1>2, <1>4, <1>7, <2>1, <2>2 DEF ExportsOk, BaseServes, Serves, SameJob
  <2> QED
    BY <2>3, <2>4
<1>8. a \in {"base", "extra"} \/ ~Sweeping(n)
  BY <1>2 DEF MayBegin, PlacesOk, Artifacts
<1> QED
  BY <1>5, <1>6, <1>7, <1>8

LEMMA ServeEnsure ==
  ASSUME ExportCacheAssumption, Types, ServeInv, NEW n \in Nodes,
         EnsureBase(n) \/ EnsureExtra(n) \/ EnsureSubgraphs(n) \/ EnsurePullback(n)
  PROVE  PlacesOk(n)' /\ ExportsOk(n)'
<1>1. ASSUME \E a \in Artifacts, x \in Exports : MayBegin(n, a, x)
      PROVE  PlacesOk(n)' /\ ExportsOk(n)'
  BY <1>1, ServeBegin
<1>2. CASE Raise(n)
  BY <1>2, Ending, ServeQuick DEF Raise
<1>3. PlacesOk(n) /\ ExportsOk(n) /\ job[n].kind \in JobKinds
  BY DEF ServeInv, Types, JobRec
<1>4. ASSUME NEW a \in Artifacts, Skip(n, a)
      PROVE  /\ SameJob(n) /\ job'[n].force = job[n].force
             /\ job'[n].pc = AfterArtifact(job[n].kind, a)
             /\ Sweeping(n)' = Sweeping(n) /\ (Quiet(n)' => Quiet(n)) /\ Batch(n)' = Batch(n)
             /\ File(n, "base")' = File(n, "base") /\ File(n, "extra")' = File(n, "extra")
  BY <1>4, SkipEffect, SameServes
<1>5. "base" \in Artifacts /\ "extra" \in Artifacts
  BY DEF Artifacts
<1>6. ASSUME NEW a \in Artifacts, MaySkip(n, a) PROVE PlacesOk(n)' /\ ExportsOk(n)'
  <2>1. Skip(n, a) /\ job[n].pc = a
    BY <1>6 DEF MaySkip
  <2>2. CASE ~Sweeping(n)
    BY <1>4, <2>1, <2>2, ServeQuick
  <2>3. CASE Sweeping(n) /\ a = "base"
    <3>1. ~job[n].force /\ job[n].kind = "sweep"
      BY <1>3, <1>6, <2>1, <2>3 DEF MaySkip, Sweeping, PlacesOk
    <3>2. job'[n].pc = "checkExtra" /\ job'[n].kind = "sweep"
      BY <1>4, <2>1, <2>3, <3>1 DEF AfterArtifact, SameJob
    <3>3. PlacesOk(n)'
      BY <3>2 DEF PlacesOk
    <3>4. ExportsOk(n)'
      BY <1>3, <1>4, <2>1, <2>3, <3>1, <3>2 DEF ExportsOk, BaseServes
    <3> QED
      BY <3>3, <3>4
  <2>4. CASE Sweeping(n) /\ a = "extra"
    <3>1. ~job[n].force /\ job[n].wanted \subseteq File(n, "extra").outs
      BY <1>6, <2>4 DEF MaySkip
    <3>2. job'[n].pc = "open"
      BY <1>4, <2>1, <2>4 DEF AfterArtifact
    <3>3. PlacesOk(n)'
      BY <3>2 DEF PlacesOk
    <3>4. ExportsOk(n)'
      BY <1>3, <1>4, <2>1, <2>4, <3>1, <3>2 DEF ExportsOk, Serves, SameJob
    <3> QED
      BY <3>3, <3>4
  <2>5. ~Sweeping(n) \/ a \in {"base", "extra"}
    BY <1>3, <2>1 DEF PlacesOk, Artifacts
  <2> QED
    BY <2>2, <2>3, <2>4, <2>5
<1> QED
  BY <1>1, <1>2, <1>6, BeginSteps

LEMMA ServeEndWrite ==
  ASSUME ExportCacheAssumption, Types, ServeInv, NEW n \in Nodes, EndWrite(n)
  PROVE  PlacesOk(n)' /\ ExportsOk(n)'
<1> DEFINE a == job[n].file
           x == job[n].made
<1>1. /\ job'[n].pc = AfterArtifact(job[n].kind, a) /\ job[n].pc = "writing"
      /\ SameJob(n) /\ job'[n].force = job[n].force /\ Put(n, a, x)
      /\ a \in Artifacts /\ x \in Exports
  BY EndWriteEffect DEF SameJob
<1>2. PlacesOk(n) /\ ExportsOk(n)
  BY DEF ServeInv
<1>3. n \in met => n \in met'
  BY <1>1, PutFiles
<1>4. /\ MyDir(n)' = MyDir(n) /\ Batch(n)' = Batch(n)
      /\ Sweeping(n)' = Sweeping(n) /\ (Quiet(n)' => Quiet(n))
  BY <1>1, <1>3, SameServes
<1>5. /\ a = "base" => File(n, "base")' = x
      /\ a = "extra" => File(n, "extra")' = x /\ File(n, "base")' = File(n, "base")
  BY <1>1, <1>4, PutFiles DEF File, Artifacts
<1> HIDE DEF a, x
<1>6. CASE ~Sweeping(n)
  BY <1>4, <1>6, ServeQuick
<1>7. CASE Sweeping(n)
  <2>1. a \in {"base", "extra"}
    BY <1>1, <1>2, <1>7 DEF PlacesOk, a
  <2>2. CASE a = "extra"
    <3>1. job'[n].pc = "open"
      BY <1>1, <2>2 DEF AfterArtifact
    <3>2. Quiet(n) => Serves(n, x)
      BY <1>1, <1>2, <1>7, <2>2 DEF ExportsOk, a, x
    <3>3. Quiet(n)' => Serves(n, File(n, "extra"))'
      BY <1>1, <1>4, <1>5, <2>2, <3>2 DEF Serves, SameJob
    <3> QED
      BY <3>1, <3>3 DEF PlacesOk, ExportsOk
  <2>3. CASE a = "base"
    <3>1. Quiet(n) => x.batch = Batch(n)
      BY <1>1, <1>2, <1>7, <2>3 DEF ExportsOk, a, x
    <3>2. Quiet(n)' => BaseServes(n)'
      BY <1>4, <1>5, <2>3, <3>1 DEF BaseServes
    <3>3. CASE job[n].kind = "sweep"
      <4>1. job'[n].pc = "checkExtra" /\ job'[n].kind = "sweep"
        BY <1>1, <2>3, <3>3 DEF AfterArtifact, SameJob
      <4> QED
        BY <3>2, <4>1 DEF PlacesOk, ExportsOk
    <3>4. CASE job[n].kind = "activations"
      <4>1. job'[n].pc = "extra" /\ job'[n].force
        BY <1>1, <1>2, <1>7, <2>3, <3>4 DEF AfterArtifact, PlacesOk
      <4> QED
        BY <3>2, <4>1 DEF PlacesOk, ExportsOk
    <3> QED
      BY <1>7, <3>3, <3>4 DEF Sweeping
  <2> QED
    BY <2>1, <2>2, <2>3
<1> QED
  BY <1>6, <1>7

LEMMA ServeOpen ==
  ASSUME ExportCacheAssumption, Types, ServeInv, NEW n \in Nodes, OpenSession(n)
  PROVE  PlacesOk(n)' /\ ExportsOk(n)'
<1>1. CASE Raise(n)
  BY <1>1, Ending, ServeQuick DEF Raise
<1>2. CASE Become(n, [job[n] EXCEPT !.pc = "run", !.sess = File(n, "extra")])
  <2>1. job'[n] = [job[n] EXCEPT !.pc = "run", !.sess = File(n, "extra")] /\ job[n] \in JobRec
    BY <1>2, Became DEF Types
  <2>2. SameJob(n) /\ job'[n].pc = "run" /\ job'[n].sess = File(n, "extra")
    BY <2>1 DEF SameJob, JobRec
  <2>3. UNCHANGED met /\ job[n].pc = "open" /\ ExportsOk(n)
    BY DEF OpenSession, At, ServeInv
  <2> QED
    BY <2>2, <2>3, SameServes DEF PlacesOk, ExportsOk, Serves, SameJob
<1> QED
  BY <1>1, <1>2 DEF OpenSession

LEMMA ServeRun ==
  ASSUME ExportCacheAssumption, Types, ServeInv, NEW n \in Nodes, Run(n)
  PROVE  PlacesOk(n)' /\ ExportsOk(n)'
<1>1. CASE Raise(n) \/ End(n, "done")
  BY <1>1, Ending, ServeQuick DEF Raise
<1>2. CASE Goto(n, "update")
  <2>1. job'[n].pc = "update"
    BY <1>2, Gone
  <2> QED
    BY <2>1, ServeQuick
<1>3. CASE Goto(n, "sub") /\ ~Sweeping(n)
  <2>1. ~Sweeping(n)'
    BY <1>3, Gone DEF Sweeping
  <2> QED
    BY <2>1, ServeQuick
<1>4. CASE OutOfMemory(n) /\ ~Raise(n)
  <2> DEFINE k == [job[n] EXCEPT !.attempt = @ + 1, !.table[n] = Shrink(Batch(n))]
  <2>1. Attempt(n, k) /\ job[n].kind = "sweep"
    BY <1>4 DEF OutOfMemory
  <2>2. "pc" \in DOMAIN k /\ k.kind = "sweep"
    BY <2>1 DEF Types, JobRec
  <2> HIDE DEF k
  <2>3. job'[n] = [k EXCEPT !.pc = IF k.kind = "sweep" THEN "checkBase" ELSE "base",
                            !.force = (k.kind = "activations"), !.sess = None]
    BY <2>1, Became DEF Attempt
  <2>4. job'[n].pc = "checkBase" /\ job'[n].kind = "sweep"
    BY <2>2, <2>3
  <2> QED
    BY <2>4 DEF PlacesOk, ExportsOk
<1> QED
  BY <1>1, <1>2, <1>3, <1>4 DEF Run, Sweeping

LEMMA ServeOwn ==
  ASSUME ExportCacheAssumption, Types, SearchInv, ServeInv, NEW n \in Nodes, Act(n)
  PROVE  PlacesOk(n)' /\ ExportsOk(n)'
<1>1. ASSUME Start(n) PROVE PlacesOk(n)' /\ ExportsOk(n)'
  <2>1. PICK k \in JobKinds, w \in SUBSET OutNames : StartJob(n, k, w)
    BY <1>1 DEF Start, JobKinds, OutNames
  <2>2. CASE config = Lost
    <3>1. job'[n] = [Idle EXCEPT !.kind = k, !.pc = "raised"]
      BY <2>1, <2>2, Became DEF StartJob
    <3> QED
      BY <3>1, IdleForm, ServeQuick
  <2>3. CASE config # Lost
    <3> DEFINE j == [Idle EXCEPT !.kind = k, !.table = config, !.wanted = w]
    <3>1. j \in JobRec
      BY <2>3, IdleTyped DEF JobRec, Types
    <3>2. Attempt(n, j)
      BY <2>1, <2>3 DEF StartJob
    <3> HIDE DEF j
    <3> QED
      BY <3>1, <3>2, ServeAttempt
  <2> QED
    BY <2>2, <2>3
<1>2. ASSUME StartFind(n) PROVE PlacesOk(n)' /\ ExportsOk(n)'
  <2>1. PICK b \in Starts, l \in Limits :
          Become(n, IF config = Lost \/ ~Fits(n, b)
                    THEN [Idle EXCEPT !.pc = "raised"]
                    ELSE [Idle EXCEPT !.pc = "double", !.lo = b, !.probe = b, !.limit = l])
    BY <1>2 DEF StartFind
  <2>2. \/ job'[n] = [Idle EXCEPT !.pc = "raised"]
        \/ job'[n] = [Idle EXCEPT !.pc = "double", !.lo = b, !.probe = b, !.limit = l]
    BY <2>1, Became
  <2>3. job'[n].kind = "find"
    BY <2>2, IdleTyped DEF JobRec
  <2> QED
    BY <2>3, ServeQuick DEF Sweeping
<1>3. ASSUME Double(n) \/ Bisect(n) PROVE PlacesOk(n)' /\ ExportsOk(n)'
  <2>1. job[n] \in JobRec /\ job[n].kind = "find"
    BY <1>3 DEF Double, Bisect, At, SearchInv, SearchOk, Types
  <2>2. ASSUME NEW j, Become(n, j), j.kind = "find" PROVE job'[n].kind = "find"
    BY <2>2, Became
  <2>3. job'[n].kind = "find"
    BY <1>3, <2>1, <2>2 DEF Double, Bisect, JobRec
  <2> QED
    BY <2>3, ServeQuick DEF Sweeping
<1>4. ASSUME Kill(n) \/ RunMap(n) \/ WriteConfig(n) PROVE PlacesOk(n)' /\ ExportsOk(n)'
  BY <1>4, Ending, ServeQuick DEF Kill, RunMap, WriteConfig
<1>5. ASSUME ReadConfig(n) PROVE PlacesOk(n)' /\ ExportsOk(n)'
  <2>1. job'[n] = [job[n] EXCEPT !.pc = "truncate", !.text = config] /\ job[n] \in JobRec
    BY <1>5, Became DEF ReadConfig, Types
  <2>2. job'[n].pc = "truncate"
    BY <2>1 DEF JobRec
  <2> QED
    BY <2>2, ServeQuick
<1>6. ASSUME TruncateConfig(n) PROVE PlacesOk(n)' /\ ExportsOk(n)'
  <2>1. job'[n].pc = "write"
    BY <1>6, Gone DEF TruncateConfig
  <2> QED
    BY <2>1, ServeQuick
<1> QED
  BY <1>1, <1>2, <1>3, <1>4, <1>5, <1>6, ServeLook, ServeEnsure, ServeEndWrite, ServeOpen, ServeRun
  DEF Act, JobStep

(* For every set of nodes, tables, capacities and interleavings with jobs  *)
(* of all kinds, killed or not: the session of a sweep has the batch and   *)
(* the outputs the sweep wants, unless the nodes share one directory and   *)
(* another of them wrote there meanwhile.                                  *)
THEOREM SessionsServe == Spec => []SessionServesRun
<1>1. Init => ServeInv
  <2> SUFFICES ASSUME Init PROVE ServeInv
    OBVIOUS
  <2>1. \A n \in Nodes : job[n].kind = "find"
    BY IdleTyped, ExportCacheAssumption DEF Init
  <2> QED
    BY <2>1 DEF ServeInv, PlacesOk, ExportsOk, Sweeping
<1>2. ASSUME Types, SearchInv, ServeInv, [Next]_vars PROVE ServeInv'
  <2>1. CASE UNCHANGED vars
    BY <1>2, <2>1 DEF vars, ServeInv, PlacesOk, ExportsOk, Sweeping, Quiet, BaseServes, Serves,
       File, Batch, MyDir
  <2>2. ASSUME NEW n \in Nodes, Act(n) PROVE ServeInv'
    BY <1>2, <2>2, ServeOwn, ServeOthers, ExportCacheAssumption DEF ServeInv
  <2> QED
    BY <1>2, <2>1, <2>2 DEF Next, Act
<1>3. ServeInv => SessionServesRun
  BY DEF ServeInv, ExportsOk, Sweeping, Quiet, Serves, SessionServesRun, At
<1> QED
  BY <1>1, <1>2, <1>3, TypesAlways, SearchAlways, PTL DEF Spec
=============================================================================
