---------------------------- MODULE LayerBatches ----------------------------
(***************************************************************************)
(* The layer-batched drivers (scripts/python/run_layer_batched_training,   *)
(* run_layer_batched_tangent_bases, run_layer_batched_tangent_sweep_direct *)
(* and scripts/lipschitz/run_lipschitz_ratio_bootstrap_eqd_sweep_gpu) and  *)
(* the SLURM jobs they submit: the two-hop relay of a subpath through NFS  *)
(* staging, the training or generation job, and the reclaiming job.        *)
(*                                                                         *)
(* What a driver batches is called a unit here: a layer, or, for the       *)
(* bootstrap sweep, a sublayer, which needs two layers and shares them     *)
(* with its neighbours.  A unit is named by its (input) layer.             *)
(*                                                                         *)
(* A driver is a process on the login node that submits jobs and polls     *)
(* them.  SLURM keeps running a job whose driver is gone, so the jobs of a *)
(* killed driver run next to those of the one that is started again.       *)
(***************************************************************************)
EXTENDS Integers, Sequences, SequencesExt

CONSTANTS
    Layers,      \* the sweep's layers, in the order they are batched in: that of
                 \* discover_layer_names or, of the sublayers' inputs, the config's
    SizeGb,      \* on-disk size of each layer's input
    Output,      \* the sublayers' output layers, by input layer
    Commands,    \* the command lines a driver may be started with
    MaxRuns,     \* bound: how often the driver is started
    MaxFaults    \* bound: killed drivers and failed jobs

LayerSet == ToSet(Layers)

ASSUME LayersAssumption ==
    /\ Layers \in Seq(LayerSet) /\ IsInjective(Layers)
    /\ SizeGb \in [LayerSet -> Nat]
    /\ DOMAIN Output \subseteq LayerSet /\ \A l \in DOMAIN Output : Output[l] \in LayerSet
    /\ Commands \subseteq [kind : {"training", "bases", "direct", "pairs"},
                           sameNode : BOOLEAN, skipReclaim : BOOLEAN,
                           target : Nat,              \* --target-batch-gb
                           wanted : SUBSET LayerSet,  \* --sublayers, by input layer
                           saved : SUBSET LayerSet]   \* outputs of runs with other options
    /\ MaxRuns \in Nat /\ MaxFaults \in Nat

VARIABLES
    cmd,     \* the command line all runs of the driver share
    store,   \* what each place holds under each path
    jobs,    \* the SLURM jobs that run, or that the driver still asks about
    driver,  \* the driver's position: pc, batch and the layers it has to handle
    run,     \* number of the current run of the driver
    faults,  \* faults so far
    clean,   \* history: nothing has failed since this run started
    alone,   \* history: no older run's job was left when this run started
    left,    \* history: layers an earlier run left on the compute node
    cut      \* history: layers whose training was broken off, or which an older run's
             \* job was still to train, or to copy before they were trained

vars == <<cmd, store, jobs, driver, run, faults, clean, alone, left, cut>>

-----------------------------------------------------------------------------
In(l)  == <<"in", l>>     \* perturbed_sweep/<layer>
Out(l) == <<"out", l>>    \* its checkpoints, or its output's manifest
Paths  == {In(l) : l \in LayerSet} \union {Out(l) : l \in LayerSet}
Places == {"storage", "compute", "staging", "nfs"}

\* "part": files are missing.  "torn", "periodic": every file is there, but
\* one is half written, or the weights are those of a periodic checkpoint.
Values == {"none", "part", "torn", "periodic", "whole"}

Training == cmd.kind = "training"
Pairs    == cmd.kind = "pairs"
Compute  == IF cmd.sameNode THEN "storage" ELSE "compute"
Saved    == IF Training THEN "storage" ELSE "nfs"   \* where _batch_complete looks
Written  == IF Training THEN Compute ELSE "nfs"     \* where the job writes

Present(place, l) == store[place][Out(l)] \notin {"none", "part"}

\* op over the layers of ls, in their order.
FoldLayers(op(_,_), base, ls) ==
    LET folded[n \in 0..Len(Layers)] ==
            IF n = 0 THEN base
            ELSE IF Layers[n] \in ls THEN op(folded[n - 1], Layers[n])
            ELSE folded[n - 1]
    IN folded[Len(Layers)]

InOrder(ls) == FoldLayers(Append, <<>>, ls)
Gb(ls)      == FoldLayers(LAMBDA gb, l : gb + SizeGb[l], 0, ls)

Units(c) == IF c.kind = "pairs" THEN c.wanted \cap DOMAIN Output ELSE LayerSet
Needs(c, us) == us \union (IF c.kind = "pairs" THEN {Output[u] : u \in us} ELSE {})

\* Greedy fill in order: a batch, a set of units, is closed when the next unit would
\* not fit, counting the layers it shares with the batch once.
Fits_Late(c, batch, u) == Gb(Needs(c, batch)) <= c.target
Fits(c, batch, u) == Gb(Needs(c, batch \union {u})) <= c.target
Added(c, bs, u) ==
    IF bs # <<>> /\ Fits(c, Last(bs), u)
    THEN [bs EXCEPT ![Len(bs)] = @ \union {u}]
    ELSE Append(bs, {u})
MakeBatches(c) == FoldLayers(LAMBDA bs, u : Added(c, bs, u), <<>>, Units(c))

Batches        == [c \in Commands |-> MakeBatches(c)]
Batch(i)       == Batches[cmd][i]
BatchLayers(i) == Needs(cmd, Batch(i))
LastBatch      == Len(Batches[cmd])
ToRun(i)       == Batch(i) \cap cmd.wanted    \* units the batch's job is for

Live(j)  == j.pc \notin {"ok", "failed", "stuck"}
Mine     == {j \in jobs : j.owner = run}
Active   == driver.pc \notin {"off", "raised", "done"}

Init ==
    /\ cmd \in Commands
    /\ store = [pl \in Places |-> [p \in Paths |->
                  IF \/ pl = "storage" /\ p[1] = "in"
                     \/ pl = Saved /\ p[1] = "out" /\ p[2] \in cmd.saved
                  THEN "whole" ELSE "none"]]
    /\ jobs = {}
    /\ driver = [pc |-> "off", batch |-> 1, todo |-> <<>>]
    /\ run = 0 /\ faults = 0
    /\ clean = TRUE /\ alone = TRUE /\ left = {} /\ cut = {}

-----------------------------------------------------------------------------
(* Jobs. *)

\* A job goes on to position pc.  Nobody asks about the end of a dead driver's job.
Jobs(j, pc) ==
    (jobs \ {j}) \union
        (LET k == [j EXCEPT !.pc = pc]
         IN IF Live(k) \/ (j.owner = run /\ Active) THEN {k} ELSE {})

\* Copies under way that read or write paths which are being removed from place.
Tear(js, place, paths) ==
    {IF /\ k.kind = "relay" /\ k.paths \cap paths # {}
        /\ \/ k.pc = "up" /\ place \in {k.from, "staging"}
           \/ k.pc = "down" /\ place \in {k.to, "staging"}
     THEN [k EXCEPT !.pc = IF k.pc = "up" THEN "upTorn" ELSE "downTorn"]
     ELSE k : k \in js}

\* rsync without --delete: what the source lacks stays at the destination.
Copied(src, dst) ==
    IF src = "none" \/ (src = "part" /\ dst # "none") THEN dst ELSE src

Rsynced(from, to, paths) ==
    [store EXCEPT ![to] = [p \in Paths |->
        IF p \in paths THEN Copied(store[from][p], @[p]) ELSE @[p]]]

Begun(from, to, paths) ==
    [store EXCEPT ![to] = [p \in Paths |->
        IF p \in paths /\ @[p] = "none" /\ store[from][p] # "none" THEN "part" ELSE @[p]]]

Removed(place, paths, v) ==
    [store EXCEPT ![place] = [p \in Paths |->
        IF p \in paths /\ @[p] # "none" THEN v ELSE @[p]]]

Exists(place, paths) == \E p \in paths : store[place][p] # "none"

\* scratch_to_nfs.sh on the sending node.
UpBegin(j) ==
    /\ j.kind = "relay" /\ j.pc = "queued"
    /\ IF Exists(j.from, j.paths)
       THEN /\ store' = Begun(j.from, "staging", j.paths)
            /\ jobs' = Jobs(j, "up")
       ELSE /\ jobs' = Jobs(j, "stuck")
            /\ UNCHANGED store

UpEnd(j) ==
    /\ j.kind = "relay" /\ j.pc = "up"
    /\ store' = Rsynced(j.from, "staging", j.paths)
    /\ jobs' = Jobs(j, "staged")

\* nfs_to_scratch.sh on the receiving node; afterok holds it back until here.
DownBegin(j) ==
    /\ j.kind = "relay" /\ j.pc = "staged"
    /\ IF Exists("staging", j.paths)
       THEN /\ store' = Begun("staging", j.to, j.paths)
            /\ jobs' = Jobs(j, "down")
       ELSE /\ jobs' = Jobs(j, "failed")
            /\ UNCHANGED store

DownEnd(j) ==
    /\ j.kind = "relay" /\ j.pc = "down"
    /\ store' = Rsynced("staging", j.to, j.paths)
    /\ jobs' = Jobs(j, "clean")

CleanStaging(j) ==
    /\ j.kind = "relay" /\ j.pc = "clean"
    /\ store' = Removed("staging", j.paths, "none")
    /\ jobs' = Tear(Jobs(j, "ok"), "staging", j.paths)

\* rsync over files that vanish: it fails, or it had not reached them and goes on.
TornCopyEnds(j) ==
    /\ j.kind = "relay" /\ j.pc \in {"upTorn", "downTorn"}
    /\ \E pc \in IF j.pc = "upTorn" THEN {"staged", "stuck"} ELSE {"clean", "failed"} :
           jobs' = Jobs(j, pc)
    /\ UNCHANGED store

\* The reclaiming job's rm -rf.
RmBegin(j) ==
    /\ j.kind = "rm" /\ j.pc = "queued"
    /\ store' = Removed(j.from, j.paths, "part")
    /\ jobs' = Tear(Jobs(j, "rm"), j.from, j.paths)

RmEnd(j) ==
    /\ j.kind = "rm" /\ j.pc = "rm"
    /\ store' = Removed(j.from, j.paths, "none")
    /\ jobs' = Tear(Jobs(j, "ok"), j.from, j.paths)

\* train_batched_manifold, generate_tangent_bases, generate_tangent_sweep_direct or
\* lipschitz_ratio_bootstrap_eqd_sweep_gpu: the units in rest are still to do.
Inputs(us) == {In(l) : l \in Needs(cmd, us)}
InputThere(paths) == \A p \in paths : store[Compute][p] = "whole"

LoadTraining(j) ==
    /\ Training /\ j.kind = "train" /\ j.pc = "queued"
    /\ jobs' = Jobs(j, IF InputThere(j.paths) THEN "next" ELSE "failed")
    /\ UNCHANGED store

\* The done check of one chunk: files count, whatever is in them.
NextChunk(j) ==
    /\ Training /\ j.kind = "train" /\ j.pc = "next" /\ j.rest # <<>>
    /\ jobs' = IF Present(Written, Head(j.rest))
               THEN (jobs \ {j}) \union {[j EXCEPT !.rest = Tail(j.rest)]}
               ELSE Jobs(j, "fit")
    /\ UNCHANGED store

\* The direct sweep starts a layer at position 0 and at the writer's next row:
\* write_rows rejects that for an output that is already complete.
Rejects(l) == cmd.kind = "direct" /\ Present(Written, l)

\* The bootstrap sweep leaves out the samples it finds.
SkipPair(j) ==
    /\ Pairs /\ j.kind = "train" /\ j.pc \in {"queued", "next"} /\ j.rest # <<>>
    /\ Present(Written, Head(j.rest))
    /\ jobs' = (jobs \ {j}) \union {[j EXCEPT !.pc = "next", !.rest = Tail(j.rest)]}
    /\ UNCHANGED store

LoadLayer(j) ==
    /\ ~Training /\ j.kind = "train" /\ j.pc \in {"queued", "next"} /\ j.rest # <<>>
    /\ ~(Pairs /\ Present(Written, Head(j.rest)))
    /\ jobs' = Jobs(j, IF InputThere(Inputs({Head(j.rest)})) /\ ~Rejects(Head(j.rest))
                       THEN "fitted" ELSE "failed")
    /\ UNCHANGED store

\* Checkpoints are replaced in place, one file after the other.  A writer whose
\* manifest is complete has no rows left to write.
HalfSaved(l) ==
    CASE ~Present(Written, l)             -> "part"
      [] Present(Written, l) /\ Training  -> "torn"
      [] Present(Written, l) /\ ~Training -> "whole"

SaveBegin(j) ==
    /\ j.kind = "train" /\ j.pc \in {"fit", "fitted"}
    /\ store' = [store EXCEPT ![Written][Out(Head(j.rest))] = HalfSaved(Head(j.rest))]
    /\ jobs' = Jobs(j, IF j.pc = "fit" THEN "checkpoint" ELSE "save")

CheckpointEnd(j) ==
    /\ j.kind = "train" /\ j.pc = "checkpoint"
    /\ store' = [store EXCEPT ![Written][Out(Head(j.rest))] = "periodic"]
    /\ jobs' = Jobs(j, "fitted")

\* It reads its inputs position by position, up to the last sample.
LosesInput(j) ==
    /\ Pairs /\ j.kind = "train" /\ j.pc = "save"
    /\ ~InputThere(Inputs({Head(j.rest)}))
    /\ jobs' = Jobs(j, "failed")
    /\ UNCHANGED store

SaveEnd(j) ==
    /\ j.kind = "train" /\ j.pc = "save"
    /\ Pairs => InputThere(Inputs({Head(j.rest)}))
    /\ store' = [store EXCEPT ![Written][Out(Head(j.rest))] = "whole"]
    /\ jobs' = (jobs \ {j}) \union {[j EXCEPT !.pc = "next", !.rest = Tail(j.rest)]}

TrainDone(j) ==
    /\ j.kind = "train" /\ j.pc = "next" /\ j.rest = <<>>
    /\ jobs' = Jobs(j, "ok")
    /\ UNCHANGED store

JobStep(j) ==
    /\ Live(j)
    /\ \/ UpBegin(j) \/ UpEnd(j) \/ DownBegin(j) \/ DownEnd(j) \/ CleanStaging(j)
       \/ TornCopyEnds(j) \/ RmBegin(j) \/ RmEnd(j)
       \/ LoadTraining(j) \/ NextChunk(j) \/ SkipPair(j) \/ LoadLayer(j) \/ SaveBegin(j)
       \/ LosesInput(j) \/ CheckpointEnd(j) \/ SaveEnd(j) \/ TrainDone(j)
    /\ UNCHANGED <<cmd, driver, run, faults, clean, alone, left, cut>>

\* A time limit, a node failure or scancel; a copy may have moved some files.
JobFails(j) ==
    /\ Live(j) /\ faults < MaxFaults
    /\ faults' = faults + 1 /\ clean' = FALSE
    /\ jobs' = Jobs(j, IF j.kind = "relay" /\ j.pc \in {"queued", "up", "upTorn"}
                       THEN "stuck" ELSE "failed")
    /\ CASE j.pc = "up"   -> \E ps \in SUBSET j.paths : store' = Rsynced(j.from, "staging", ps)
         [] j.pc = "down" -> \E ps \in SUBSET j.paths : store' = Rsynced("staging", j.to, ps)
         [] OTHER         -> UNCHANGED store
    /\ cut' = IF j.kind = "train" THEN cut \union ToSet(j.rest) ELSE cut
    /\ UNCHANGED <<cmd, driver, run, alone, left>>

-----------------------------------------------------------------------------
(* The driver. *)

Relay(from, to, paths) ==
    [owner |-> run, kind |-> "relay", from |-> from, to |-> to,
     paths |-> paths, rest |-> <<>>, pc |-> "queued"]
Rm(place, paths) ==
    [owner |-> run, kind |-> "rm", from |-> place, to |-> place,
     paths |-> paths, rest |-> <<>>, pc |-> "queued"]
TrainingJob(units) ==    \* --layers names them
    [owner |-> run, kind |-> "train", from |-> Compute, to |-> Compute,
     paths |-> Inputs(units), rest |-> InOrder(units), pc |-> "queued"]
SweepJob(units) == TrainingJob(units)    \* --sublayers names them
GenerationJob(units) ==    \* --sublayers names the wanted ones
    [TrainingJob(units) EXCEPT !.rest = InOrder(units \cap cmd.wanted)]

Goto(pc) == driver' = [driver EXCEPT !.pc = pc]

\* A run starts: it measures the layers on the storage node and makes the batches.
StartDriver ==
    /\ driver.pc \in {"off", "raised"} /\ run < MaxRuns
    /\ \A l \in LayerSet : store["storage"][In(l)] # "none"
    /\ LastBatch > 0
    /\ run' = run + 1
    /\ driver' = [pc |-> "check", batch |-> 1, todo |-> <<>>]
    /\ jobs' = {j \in jobs : Live(j)}
    /\ clean' = TRUE
    /\ alone' = ({j \in jobs : Live(j)} = {})
    /\ left' = {l \in LayerSet : store["compute"][In(l)] # "none"}
                 \union {l \in LayerSet : \E j \in jobs : Live(j) /\ In(l) \in j.paths}
    /\ cut' = cut \union {l \in LayerSet : \E j \in jobs :
                              /\ Live(j)
                              /\ \/ l \in ToSet(j.rest)
                                 \/ Out(l) \in j.paths /\ store[j.from][Out(l)] # "whole"}
    /\ UNCHANGED <<cmd, store, faults>>

\* A job on the storage node lists model_*.pt; manifests are read over NFS.
CheckpointsExist_Some(i) == \E l \in ToRun(i) : Present("storage", l)
CheckpointsExist(i)  == \A l \in ToRun(i) : Present("storage", l)
ManifestsComplete(i) == \A l \in ToRun(i) : Present("nfs", l)
SamplesExist(i)      == \A u \in ToRun(i) : Present("nfs", u)
Complete(i) ==
    CASE Training -> CheckpointsExist(i)
      [] Pairs    -> SamplesExist(i)
      [] OTHER    -> ManifestsComplete(i)

NextBatch_NoEnd ==
    driver' = [driver EXCEPT !.pc = "check", !.batch = @ + 1]
NextBatch ==
    driver' = IF driver.batch = LastBatch
              THEN [driver EXCEPT !.pc = "done"]
              ELSE [driver EXCEPT !.pc = "check", !.batch = @ + 1]

\* A check job that fails counts as "not confirmed complete".
CheckBatch ==
    /\ driver.pc = "check"
    /\ \/ /\ ToRun(driver.batch) = {} \/ Complete(driver.batch)
          /\ NextBatch
          /\ UNCHANGED <<faults, clean>>
       \/ /\ ToRun(driver.batch) # {} /\ ~Complete(driver.batch)
          /\ Goto("measure")
          /\ UNCHANGED <<faults, clean>>
       \/ /\ Training /\ faults < MaxFaults
          /\ faults' = faults + 1 /\ clean' = FALSE
          /\ Goto("measure")
    /\ UNCHANGED <<cmd, store, jobs, run, alone, left, cut>>

\* Layers whose size on the compute node is not the storage node's are relayed.
NeedsRelay_Absent(l) == store[Compute][In(l)] = "none"
NeedsRelay(l) == store[Compute][In(l)] # "whole"

Measure ==
    /\ driver.pc = "measure"
    /\ driver' = [driver EXCEPT !.pc = "relayIn",
                    !.todo = InOrder({l \in BatchLayers(driver.batch) : NeedsRelay(l)})]
    /\ UNCHANGED <<cmd, store, jobs, run, faults, clean, alone, left, cut>>

SubmitRelayIn ==
    /\ driver.pc = "relayIn" /\ driver.todo # <<>>
    /\ jobs' = jobs \union {Relay("storage", Compute, {In(Head(driver.todo))})}
    /\ driver' = [driver EXCEPT !.todo = Tail(@)]
    /\ UNCHANGED <<cmd, store, run, faults, clean, alone, left, cut>>

\* _wait_for_jobs polls until its jobs have left the queue, which a job whose
\* afterok dependency failed never does; then _job_succeeded is asked about each.
Waited_ForSuccess ==
    \A j \in Mine : j.pc = "ok"
Waited ==
    \A j \in Mine : ~Live(j) /\ j.pc # "stuck"
Succeeded_LeftQueue ==
    \A j \in Mine : ~Live(j)
Succeeded ==
    \A j \in Mine : j.pc = "ok"

AfterWait(pc, next) ==
    /\ driver.pc = pc /\ driver.todo = <<>>
    /\ Waited
    /\ IF Succeeded
       THEN next
       ELSE /\ Goto("raised")
            /\ jobs' = jobs \ Mine
    /\ UNCHANGED <<cmd, store, run, faults, clean, alone, left, cut>>

SubmitTrain ==
    AfterWait("relayIn",
        /\ Goto("train")
        /\ jobs' = (jobs \ Mine) \union
              {CASE Training -> TrainingJob(Batch(driver.batch))
                 [] Pairs    -> SweepJob(Batch(driver.batch))
                 [] OTHER    -> GenerationJob(Batch(driver.batch))})

\* Which step follows the job: a checkpoint relay, or the reclaiming.
OutPaths == {Out(l) : l \in LayerSet}    \* the whole ae_checkpoints root

\* A layer that a later batch has too stays, whether that batch is complete or not.
NeededLater(l) ==
    \E i \in (driver.batch + 1)..LastBatch : l \in BatchLayers(i)
ToReclaim == InOrder({l \in BatchLayers(driver.batch) : ~NeededLater(l)})

EnterReclaim_SameNode ==
    IF cmd.skipReclaim
    THEN NextBatch
    ELSE driver' = [driver EXCEPT !.pc = "reclaim", !.todo = ToReclaim]
EnterReclaim ==
    IF cmd.skipReclaim \/ cmd.sameNode
    THEN NextBatch
    ELSE driver' = [driver EXCEPT !.pc = "reclaim", !.todo = ToReclaim]

SubmitRelayOut ==
    AfterWait("train",
        IF Training /\ ~cmd.sameNode
        THEN /\ Goto("relayOut")
             /\ jobs' = (jobs \ Mine) \union {Relay(Compute, "storage", OutPaths)}
        ELSE /\ EnterReclaim
             /\ jobs' = jobs \ Mine)

RelayedOut ==
    AfterWait("relayOut",
        /\ EnterReclaim
        /\ jobs' = jobs \ Mine)

\* _rm_rf_on_node: one layer after the other, each waited for and asserted.
Reclaim ==
    /\ driver.pc = "reclaim"
    /\ Waited
    /\ IF ~Succeeded
       THEN Goto("raised") /\ jobs' = jobs \ Mine
       ELSE IF driver.todo = <<>>
       THEN NextBatch /\ jobs' = jobs \ Mine
       ELSE /\ driver' = [driver EXCEPT !.todo = Tail(@)]
            /\ jobs' = (jobs \ Mine) \union {Rm(Compute, {In(Head(driver.todo))})}
    /\ UNCHANGED <<cmd, store, run, faults, clean, alone, left, cut>>

DriverStep ==
    \/ CheckBatch \/ Measure \/ SubmitRelayIn \/ SubmitTrain
    \/ SubmitRelayOut \/ RelayedOut \/ Reclaim

\* The driver is killed, or one of its sbatch calls or measuring jobs fails.
KillDriver ==
    /\ Active /\ faults < MaxFaults
    /\ faults' = faults + 1
    /\ clean' = FALSE
    /\ driver' = [driver EXCEPT !.pc = "off"]
    /\ jobs' = {j \in jobs : Live(j)}
    /\ UNCHANGED <<cmd, store, run, alone, left, cut>>

Settled ==
    /\ driver.pc \in {"done", "off", "raised"} \/ \E j \in Mine : j.pc = "stuck"
    /\ ~\E j \in jobs : Live(j)
    /\ UNCHANGED vars

Next ==
    \/ StartDriver \/ DriverStep \/ KillDriver
    \/ \E j \in jobs : JobStep(j) \/ JobFails(j)
    \/ Settled

\* SLURM runs every job it can, and the driver polls as long as it lives.
Spec ==
    /\ Init /\ [][Next]_vars
    /\ WF_vars(DriverStep)
    /\ WF_vars(\E j \in jobs : JobStep(j))

-----------------------------------------------------------------------------
(* Properties. *)

TypeOK ==
    /\ cmd \in Commands
    /\ store \in [Places -> [Paths -> Values]]
    /\ \A j \in jobs :
          /\ j.owner \in 1..MaxRuns /\ j.kind \in {"relay", "train", "rm"}
          /\ j.from \in Places /\ j.to \in Places
          /\ j.paths \subseteq Paths /\ j.rest \in Seq(LayerSet)
    /\ driver.pc \in {"off", "check", "measure", "relayIn", "train", "relayOut",
                      "reclaim", "raised", "done"}
    /\ (run = 0 /\ driver.batch = 1) \/ driver.batch \in 1..LastBatch
    /\ driver.todo \in Seq(LayerSet)
    /\ run \in 0..MaxRuns /\ faults \in 0..MaxFaults
    /\ clean \in BOOLEAN /\ alone \in BOOLEAN /\ left \subseteq LayerSet /\ cut \subseteq LayerSet

\* The sweep on the storage node, its only lasting copy, stays whole whatever
\* the driver reclaims, on one node or on two, and whatever runs late.
InputNeverLost ==
    \A l \in LayerSet : store["storage"][In(l)] = "whole"

\* When no older run's job was left, a batch the driver has gone past, whether it
\* did it or found it complete, has every output where _batch_complete looks, and
\* the checkpoints are those of finished training, except of the layers whose
\* training was broken off, or that an older run's job was still to train when a
\* later run started, or to copy before they were trained.
PassedIsSaved ==
    \A i \in 1..LastBatch :
        (alone /\ (driver.pc = "done" \/ (Active /\ i < driver.batch))) =>
            \A l \in ToRun(i) :
                /\ Present(Saved, l)
                /\ l \notin cut => store[Saved][Out(l)] = "whole"

\* When no older run's job was left, input relayed to the compute node is removed
\* only when every output made from it is where it is to be kept, also those a
\* later batch makes from a layer it shares with this one.
ReclaimsOnlySaved ==
    [][\A u \in cmd.wanted \cap Units(cmd) : \A l \in Needs(cmd, {u}) :
         (alone /\ store["compute"][In(l)] = "whole" /\ store'["compute"][In(l)] # "whole")
            => Present(Saved, u)]_vars

\* What OneBatchResident needs of the sublayers: a layer that two of them share is
\* needed by all those between them, as in a chain of layers each of which is the
\* next one's input.
Before(u, v) == \E p, q \in 1..Len(Layers) : p < q /\ Layers[p] = u /\ Layers[q] = v
Neighbours ==
    \A u, v, w \in DOMAIN Output :
        Before(u, v) /\ Before(v, w) => {u, Output[u]} \cap {w, Output[w]} \subseteq {v, Output[v]}

\* Of what this run brought to the compute node, only the current batch is there
\* (unless --skip-reclaim), and it fits the target or is a single unit; a run that
\* is done leaves nothing.  Excepted are layers kept for a batch of sublayers that
\* turned out to be complete, which nothing reclaims.
OneBatchResident ==
    LET kept == UNION {BatchLayers(i) :
                         i \in {k \in 1..LastBatch : Pairs /\ ToRun(k) \subseteq cmd.saved}}
        here == {l \in LayerSet : store["compute"][In(l)] # "none"} \ (left \union kept)
    IN ~cmd.skipReclaim =>
          /\ Active => /\ here \subseteq BatchLayers(driver.batch)
                       /\ \/ Gb(here) <= cmd.target
                          \/ \E u \in LayerSet : Batch(driver.batch) = {u}
          /\ (driver.pc = "done" /\ ~cmd.sameNode) => here = {}

\* A run in which nothing fails and no older job was left neither raises nor
\* waits for ever, whatever partial copies and checkpoints earlier runs left;
\* except the direct sweep's when an earlier job completed part of its batch.
CleanRunSucceeds ==
    (clean /\ alone) =>
        /\ \A j \in Mine : j.pc # "stuck"
        /\ driver.pc = "raised" => \E l \in ToRun(driver.batch) : Rejects(l)

\* Every run of the driver comes to an end, unless it waits for the second job
\* of a relay whose first job failed.
RunEnds ==
    Active ~> (~Active \/ \E j \in Mine : j.pc = "stuck")
=============================================================================
