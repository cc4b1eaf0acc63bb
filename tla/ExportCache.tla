----------------------------- MODULE ExportCache -----------------------------
(* The cached ONNX exports and the batch size baked into them: the config's *)
(* batch_by_node table (config.py), the ensure_* functions that fill the    *)
(* cache (construct/construct.py), the jobs that use it, and the search for *)
(* the largest batch that writes the table (find_max_batch_size.py).  Jobs  *)
(* of several nodes share the config file and the cache on NFS; one job     *)
(* runs on a node at a time.  Of an export only its batch dimension and its *)
(* outputs matter; the per-file lock is taken to work (ArtifactLock is      *)
(* about that), so that a file has one writer at a time.                    *)
EXTENDS Integers, FiniteSets

CONSTANTS
    Nodes,          \* names a node may have in batch_by_node
    Kinds,          \* the jobs started: see Start
    Cap,            \* [Nodes -> Nat]: largest batch that passes a probe
    SweepCap,       \* [Nodes -> Nat]: largest batch the real sweep runs at
    DefaultBatch,   \* ModelConfig.batch
    InitialTables,  \* batch_by_node as written by hand, 0 where absent
    Starts, Limits, \* --start-batch, --max-batch
    MaxRetries,     \* _OOM_MAX_RETRIES
    Sublayers,      \* outputs of the configured sublayers
    Sources,        \* source activations a sampling job may ask for
    ShapeBatch,     \* input_shape[0] of the configured sublayers
    MaxRuns,        \* bound: jobs started
    MaxKills        \* bound: jobs killed

ASSUME ExportCacheAssumption ==
    /\ DefaultBatch \in Nat \ {0} /\ Starts \subseteq Nat \ {0} /\ Limits \subseteq Nat
    /\ MaxRetries \in Nat /\ MaxRuns \in Nat /\ MaxKills \in Nat /\ ShapeBatch \in Nat
    /\ Nodes # {} /\ "unsuffixed" \notin Nodes
    /\ Cap \in [Nodes -> Nat] /\ SweepCap \in [Nodes -> Nat]
    /\ InitialTables \subseteq [Nodes -> Nat]
    /\ Kinds \subseteq {"find", "sweep", "activations", "sample", "stats", "det"}

VARIABLES
    config,   \* the TOML file: its batch_by_node, or Lost when truncated
    files,    \* [dir -> [artifact -> export]]
    job,      \* [node -> the job running there]
    runs, kills,
    met,      \* history: nodes in whose directory another wrote, this attempt
    told,     \* history: the batch each node last wrote to the config, by whom
    clobbered \* history: an update of the config overlapped another or was cut

vars == <<config, files, job, runs, kills, met, told, clobbered>>

Lost == <<>>
Artifacts == {"base", "extra", "sub", "pull"}
None == [state |-> "none", batch |-> 0, outs |-> {}, mask |-> 0]
Torn == [None EXCEPT !.state = "torn"]
Whole(b, outs) == [None EXCEPT !.state = "whole", !.batch = b, !.outs = outs]
Unsuffixed == "unsuffixed"

-----------------------------------------------------------------------------
(* ModelConfig. *)

BatchFor(table, n) == IF table[n] # 0 THEN table[n] ELSE DefaultBatch

Dir(table, n) ==
    IF Cardinality({m \in Nodes : table[m] # 0}) <= 1 THEN Unsuffixed ELSE n

Batch(n) == BatchFor(job[n].table, n)
MyDir(n) == Dir(job[n].table, n)
File(n, a) == files[MyDir(n)][a]

Idle == [kind |-> "find", pc |-> "off", table |-> [n \in Nodes |-> 0], attempt |-> 0,
         force |-> FALSE, wanted |-> {}, file |-> "base", made |-> None, sess |-> None,
         lo |-> 0, hi |-> 0, probe |-> 0, limit |-> 0, text |-> Lost]

Init ==
    /\ config \in InitialTables
    /\ files = [d \in Nodes \union {Unsuffixed} |-> [a \in Artifacts |-> None]]
    /\ job = [n \in Nodes |-> Idle]
    /\ runs = 0 /\ kills = 0
    /\ met = {}
    /\ told = [n \in Nodes |-> [batch |-> config[n], by |-> "hand"]]
    /\ clobbered = FALSE

Ended(n) == job[n].pc \in {"off", "done", "raised"}
At(n, pc) == job[n].pc = pc
Become(n, j) == job' = [job EXCEPT ![n] = j]
Goto(n, pc) == Become(n, [job[n] EXCEPT !.pc = pc])
End(n, pc) == Become(n, [Idle EXCEPT !.kind = job[n].kind, !.pc = pc])
Raise(n) == End(n, "raised")

\* An attempt begins: the base model is looked at first by the sweep, ensured
\* without a look by the others; generate_base_activations forces both exports.
Attempt(n, j) ==
    /\ Become(n, [j EXCEPT !.pc = IF j.kind = "sweep" THEN "checkBase" ELSE "base",
                           !.force = (j.kind = "activations"), !.sess = None])
    /\ met' = met \ {n}

StartJob(n, kind, wanted) ==
    /\ Ended(n) /\ runs < MaxRuns
    /\ runs' = runs + 1
    /\ IF config = Lost
       THEN /\ Become(n, [Idle EXCEPT !.kind = kind, !.pc = "raised"])
            /\ UNCHANGED met
       ELSE Attempt(n, [Idle EXCEPT !.kind = kind, !.table = config, !.wanted = wanted])
    /\ UNCHANGED <<config, files, kills, told, clobbered>>

Start(n) ==
    \/ \E k \in Kinds \intersect {"sweep", "stats", "det"} : StartJob(n, k, Sublayers)
    \/ "activations" \in Kinds /\ StartJob(n, "activations", Sublayers \union Sources)
    \/ "sample" \in Kinds /\ \E s \in Sources : StartJob(n, "sample", {s})

-----------------------------------------------------------------------------
(* Ensuring an artifact.  Exporters write in place: while one writes, and   *)
(* for good when it is killed, a reader finds a torn file and raises.       *)

LockFree(n, a) ==
    ~\E m \in Nodes \ {n} : At(m, "writing") /\ job[m].file = a /\ MyDir(m) = MyDir(n)

\* Another job that is using the directory has its files changed under it.
Put(n, a, x) ==
    /\ files' = [files EXCEPT ![MyDir(n)][a] = x]
    /\ met' = met \union {m \in Nodes \ {n} : ~Ended(m) /\ MyDir(m) = MyDir(n)}

BeginWrite(n, a, x) ==
    /\ Put(n, a, Torn)
    /\ Become(n, [job[n] EXCEPT !.pc = "writing", !.file = a, !.made = x])

AfterArtifact(kind, a) ==
    CASE a = "base"  -> CASE kind = "sweep" -> "checkExtra"
                          [] kind = "stats" -> "sub"
                          [] OTHER          -> "extra"
      [] a = "extra" -> "open"
      [] a = "sub"   -> IF kind = "sample" THEN "map" ELSE "pull"
      [] a = "pull"  -> "map"

Skip(n, a) ==
    /\ Goto(n, AfterArtifact(job[n].kind, a))
    /\ UNCHANGED <<files, met>>

EndWrite(n) ==
    /\ At(n, "writing")
    /\ Put(n, job[n].file, job[n].made)
    /\ Goto(n, AfterArtifact(job[n].kind, job[n].file))
    /\ UNCHANGED <<config, runs, kills, told, clobbered>>

\* exported_batch_size(path) != batch, read without the lock; a torn file raises.
LookAt(n, a, next, staleBefore) ==
    /\ IF File(n, a) = Torn
       THEN Raise(n)
       ELSE Become(n, [job[n] EXCEPT !.pc = next,
                           !.force = staleBefore \/ File(n, a).batch # Batch(n)])
    /\ UNCHANGED <<config, files, runs, kills, met, told, clobbered>>

CheckBase(n) == At(n, "checkBase") /\ LookAt(n, "base", "base", FALSE)

EnsureBase(n) ==
    /\ At(n, "base") /\ LockFree(n, "base")
    /\ IF File(n, "base") # None /\ ~job[n].force
       THEN Skip(n, "base")
       ELSE BeginWrite(n, "base", Whole(Batch(n), {"output"}))
    /\ UNCHANGED <<config, runs, kills, told, clobbered>>

\* Mutant: only what was found of the base model decides about the extra outputs.
CheckExtra_BaseOnly(n) ==
    /\ At(n, "checkExtra") /\ Goto(n, "extra")
    /\ UNCHANGED <<config, files, runs, kills, met, told, clobbered>>

CheckExtra(n) == At(n, "checkExtra") /\ LookAt(n, "extra", "extra", job[n].force)

\* Extracting from a base model that another job is exporting raises.
Extract(n, from, a, x) ==
    IF from.state # "whole"
    THEN Raise(n) /\ UNCHANGED <<files, met>>
    ELSE BeginWrite(n, a, x)

\* The cached file is loaded whatever force says: a torn one raises, unless it
\* is empty and so passes for a model without outputs.
EnsureExtra(n) ==
    /\ At(n, "extra") /\ LockFree(n, "extra")
    /\ LET have == File(n, "extra")
           usable == have # None /\ job[n].wanted \subseteq have.outs
       IN \/ have = Torn /\ Raise(n) /\ UNCHANGED <<files, met>>
          \/ usable /\ ~job[n].force /\ Skip(n, "extra")
          \/ (~usable \/ job[n].force) /\ Extract(n, File(n, "base"), "extra",
                                                   Whole(File(n, "base").batch, job[n].wanted))
    /\ UNCHANGED <<config, runs, kills, told, clobbered>>

\* Mutant: a subgraph of another batch is extracted anew, its pullback is not.
EnsureSubgraphs_Fresh(n) ==
    /\ At(n, "sub") /\ LockFree(n, "sub")
    /\ IF File(n, "sub") # None /\ File(n, "sub").batch = Batch(n)
       THEN Skip(n, "sub")
       ELSE Extract(n, File(n, "base"), "sub", Whole(File(n, "base").batch, {"out"}))
    /\ UNCHANGED <<config, runs, kills, told, clobbered>>

EnsureSubgraphs(n) ==
    /\ At(n, "sub") /\ LockFree(n, "sub")
    /\ IF File(n, "sub") # None
       THEN Skip(n, "sub")
       ELSE Extract(n, File(n, "base"), "sub", Whole(File(n, "base").batch, {"out"}))
    /\ UNCHANGED <<config, runs, kills, told, clobbered>>

\* The pullback takes its inputs at the subgraph's batch and its mask in the
\* shape the caller gives: the configured one, or one of the subgraph's batch.
EnsurePullback(n) ==
    /\ At(n, "pull") /\ LockFree(n, "pull")
    /\ IF File(n, "pull") # None
       THEN Skip(n, "pull")
       ELSE LET b == File(n, "sub").batch
            IN Extract(n, File(n, "sub"), "pull",
                       [Whole(b, {"grad"}) EXCEPT
                          !.mask = IF job[n].kind = "stats" THEN ShapeBatch ELSE b])
    /\ UNCHANGED <<config, runs, kills, told, clobbered>>

-----------------------------------------------------------------------------
(* Using it. *)

\* ort.InferenceSession(extra outputs), after the lock was given back.
OpenSession(n) ==
    /\ At(n, "open")
    /\ IF File(n, "extra") = Torn
       THEN Raise(n)
       ELSE Become(n, [job[n] EXCEPT !.pc = "run", !.sess = File(n, "extra")])
    /\ UNCHANGED <<config, files, runs, kills, met, told, clobbered>>

Shrink(b) == IF (7 * b) \div 10 < 1 THEN 1 ELSE (7 * b) \div 10

\* Mutant: one retry too many.
OutOfMemory_OneMore(n) ==
    LET j == job[n]
    IN IF j.kind # "sweep" \/ j.attempt > MaxRetries
       THEN Raise(n) /\ UNCHANGED met
       ELSE Attempt(n, [j EXCEPT !.attempt = @ + 1, !.table[n] = Shrink(Batch(n))])

\* Mutant: the shrunk batch is written back also when the retries are used up.
OutOfMemory_Finally(n) ==
    LET j == job[n]
    IN IF j.kind # "sweep"
       THEN Raise(n) /\ UNCHANGED met
       ELSE IF j.attempt = MaxRetries
       THEN Goto(n, "update") /\ UNCHANGED met
       ELSE Attempt(n, [j EXCEPT !.attempt = @ + 1, !.table[n] = Shrink(Batch(n))])

OutOfMemory(n) ==
    LET j == job[n]
    IN IF j.kind # "sweep" \/ j.attempt = MaxRetries
       THEN Raise(n) /\ UNCHANGED met
       ELSE Attempt(n, [j EXCEPT !.attempt = @ + 1, !.table[n] = Shrink(Batch(n))])

\* The batch fed is batch_for_node's, or for the determinants the one found in
\* the file; ORT refuses another than the session's, or an output it lacks.
Run(n) ==
    /\ At(n, "run")
    /\ LET j == job[n]
           sweeping == j.kind \in {"sweep", "activations"}
           accepted == /\ j.kind # "det" => j.sess.batch = Batch(n)
                       /\ ~sweeping => j.wanted \subseteq j.sess.outs
       IN IF ~accepted
          THEN Raise(n) /\ UNCHANGED met
          ELSE IF ~sweeping
          THEN Goto(n, "sub") /\ UNCHANGED met
          ELSE IF j.sess.batch > SweepCap[n]
          THEN OutOfMemory(n)
          ELSE /\ IF j.attempt > 0 THEN Goto(n, "update") ELSE End(n, "done")
               /\ UNCHANGED met
    /\ UNCHANGED <<config, files, runs, kills, told, clobbered>>

\* Sampling pads to batch_for_node's batch, the base statistics to the configured
\* shape's; the determinants take the subgraph's and check the mask against it.
RunMap(n) ==
    /\ At(n, "map")
    /\ LET kind == job[n].kind
           model == IF kind = "sample" THEN File(n, "sub") ELSE File(n, "pull")
           batch == CASE kind = "sample" -> Batch(n)
                      [] kind = "stats"  -> ShapeBatch
                      [] kind = "det"    -> File(n, "sub").batch
           fits  == /\ model.state = "whole" /\ model.batch = batch
                    /\ kind # "sample" => model.mask = batch
       IN End(n, IF fits THEN "done" ELSE "raised")
    /\ UNCHANGED <<config, files, runs, kills, met, told, clobbered>>

-----------------------------------------------------------------------------
(* find_max_batch_size.  Its probes are exported under a name of the node's *)
(* own; Fits is one of them.  hi = 0 stands for hi = None.                  *)

Fits(n, b) == b <= Cap[n]

StartFind(n) ==
    /\ "find" \in Kinds /\ Ended(n) /\ runs < MaxRuns
    /\ runs' = runs + 1
    /\ \E s \in Starts, l \in Limits :
          Become(n, IF config = Lost \/ ~Fits(n, s)
                    THEN [Idle EXCEPT !.pc = "raised"]
                    ELSE [Idle EXCEPT !.pc = "double", !.lo = s, !.probe = s, !.limit = l])
    /\ met' = met \ {n}
    /\ UNCHANGED <<config, files, kills, told, clobbered>>

Double(n) ==
    /\ At(n, "double")
    /\ LET j == job[n]
           p == 2 * j.probe
       IN Become(n,
            IF j.probe > j.limit THEN [j EXCEPT !.pc = "update"]
            ELSE IF Fits(n, p)   THEN [j EXCEPT !.probe = p, !.lo = p]
            ELSE [j EXCEPT !.probe = p, !.hi = p, !.pc = "bisect"])
    /\ UNCHANGED <<config, files, runs, kills, met, told, clobbered>>

\* Mutant: stops with one candidate left between lo and hi.
Bisect_Early(n) ==
    /\ At(n, "bisect")
    /\ LET j == job[n]
           mid == (j.lo + j.hi) \div 2
       IN Become(n,
            IF j.hi - j.lo <= 2   THEN [j EXCEPT !.pc = "update"]
            ELSE IF Fits(n, mid)  THEN [j EXCEPT !.lo = mid]
            ELSE [j EXCEPT !.hi = mid])
    /\ UNCHANGED <<config, files, runs, kills, met, told, clobbered>>

Bisect(n) ==
    /\ At(n, "bisect")
    /\ LET j == job[n]
           mid == (j.lo + j.hi) \div 2
       IN Become(n,
            IF j.hi - j.lo <= 1   THEN [j EXCEPT !.pc = "update"]
            ELSE IF Fits(n, mid)  THEN [j EXCEPT !.lo = mid]
            ELSE [j EXCEPT !.hi = mid])
    /\ UNCHANGED <<config, files, runs, kills, met, told, clobbered>>

-----------------------------------------------------------------------------
(* _update_batch_by_node: the file is read, truncated and written anew.     *)

Found(n) == IF job[n].kind = "find" THEN job[n].lo ELSE Batch(n)

Updating(n) == job[n].pc \in {"truncate", "write"}

\* Mutant: the table loaded when the job started is written back.
ReadConfig_Loaded(n) ==
    /\ At(n, "update")
    /\ Become(n, [job[n] EXCEPT !.pc = "truncate",
                      !.text = IF job[n].kind = "sweep" THEN job[n].table ELSE config])
    /\ clobbered' = (clobbered \/ \E m \in Nodes \ {n} : Updating(m))
    /\ UNCHANGED <<config, files, runs, kills, met, told>>

ReadConfig(n) ==
    /\ At(n, "update")
    /\ Become(n, [job[n] EXCEPT !.pc = "truncate", !.text = config])
    /\ clobbered' = (clobbered \/ \E m \in Nodes \ {n} : Updating(m))
    /\ UNCHANGED <<config, files, runs, kills, met, told>>

TruncateConfig(n) ==
    /\ At(n, "truncate")
    /\ Goto(n, "write")
    /\ config' = Lost
    /\ UNCHANGED <<files, runs, kills, met, told, clobbered>>

WriteConfig(n) ==
    /\ At(n, "write")
    /\ End(n, "done")
    /\ config' = IF job[n].text = Lost THEN Lost ELSE [job[n].text EXCEPT ![n] = Found(n)]
    /\ told' = [told EXCEPT ![n] = [batch |-> Found(n), by |-> job[n].kind]]
    /\ UNCHANGED <<files, runs, kills, met, clobbered>>

-----------------------------------------------------------------------------
Kill(n) ==
    /\ ~Ended(n) /\ kills < MaxKills
    /\ kills' = kills + 1
    /\ End(n, "off")
    /\ clobbered' = (clobbered \/ At(n, "write"))
    /\ UNCHANGED <<config, files, runs, met, told>>

JobStep(n) ==
    \/ CheckBase(n) \/ EnsureBase(n) \/ CheckExtra(n) \/ EnsureExtra(n)
    \/ EndWrite(n) \/ OpenSession(n) \/ Run(n)
    \/ EnsureSubgraphs(n) \/ EnsurePullback(n) \/ RunMap(n)
    \/ Double(n) \/ Bisect(n)
    \/ ReadConfig(n) \/ TruncateConfig(n) \/ WriteConfig(n)

Next == \E n \in Nodes : Start(n) \/ StartFind(n) \/ JobStep(n) \/ Kill(n)

Spec == Init /\ [][Next]_vars

-----------------------------------------------------------------------------
(* Properties. *)

Exports == {None, Torn} \union
    [state : {"whole"}, batch : Nat \ {0}, mask : Nat,
     outs : SUBSET (Sublayers \union Sources \union {"output", "out", "grad"})]

TypeOK ==
    /\ config = Lost \/ config \in [Nodes -> Nat]
    /\ \A d \in DOMAIN files, a \in Artifacts : files[d][a] \in Exports
    /\ \A n \in Nodes :
          /\ job[n].table \in [Nodes -> Nat] /\ job[n].attempt \in 0..MaxRetries
          /\ job[n].sess \in Exports /\ job[n].made \in Exports
    /\ runs \in 0..MaxRuns /\ kills \in 0..MaxKills /\ met \subseteq Nodes

\* The session a sweep or the base activations run on has the batch the job wants
\* on its node and every output it is to write, whatever the config, other nodes,
\* other kinds of job and killed ones left in the cache; except when the config
\* has at most one batch_by_node entry, so that the nodes share one directory,
\* and another node wrote there during the preparation.
SessionServesRun ==
    \A n \in Nodes :
        (At(n, "run") /\ job[n].kind \in {"sweep", "activations"}) =>
            \/ job[n].sess.batch = Batch(n) /\ job[n].wanted \subseteq job[n].sess.outs
            \/ MyDir(n) = Unsuffixed /\ n \in met

\* The search ends with a batch that fits; the next one does not, unless the
\* search stopped doubling because it had gone past --max-batch.
SearchFindsMax ==
    \A n \in Nodes :
        (job[n].kind = "find" /\ job[n].pc \in {"update", "truncate", "write"}) =>
            /\ job[n].lo <= Cap[n]
            /\ job[n].lo + 1 > Cap[n] \/ job[n].lo > job[n].limit

\* No update of one node's batch undoes another's: while no update is being
\* written and none overlapped another or was killed half-way, the config says
\* for every node what was last written for it.
ConfigKeepsUpdates ==
    (~clobbered /\ ~\E n \in Nodes : At(n, "write")) =>
        config # Lost /\ \A n \in Nodes : config[n] = told[n].batch

\* The batch a sweep writes back after shrinking is one the node can run, so
\* that the next sweep does not meet the same out-of-memory error again.
WrittenBackFits ==
    \A n \in Nodes : told[n].by = "sweep" => told[n].batch <= SweepCap[n]

\* A pullback takes inputs of the batch of the subgraph beside it, from which its
\* callers take theirs (they check only the mask), although base model and batch
\* may have changed between making the two, and each may have been torn by a kill.
PullbackMatchesSubgraph ==
    \A d \in DOMAIN files :
        (files[d]["sub"].state = "whole" /\ files[d]["pull"].state = "whole") =>
            files[d]["pull"].batch = files[d]["sub"].batch
=============================================================================
