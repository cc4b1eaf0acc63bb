---------------------------- MODULE ArtifactLock ----------------------------
(***************************************************************************)
(* Processes on several cluster nodes that each call an ensure_* function  *)
(* (construct/construct.py) for the same artifact on NFS, serialised by    *)
(* exclusive_lock (construct/fs_utils.py): a lock file created with O_EXCL *)
(* that waiters remove when it is older than stale_seconds.                *)
(*                                                                         *)
(* Time is one bit of the lock file: fresh, then stale.  The steps of a    *)
(* waiter's poll (stat, unlink, create) interleave with everyone else's.   *)
(***************************************************************************)
EXTENDS Naturals

CONSTANTS
  Proc,      \* processes that call ensure_* once each
  Mortal,    \* processes that may be killed
  ForceArg,  \* values of the force argument
  LongHold   \* may a live holder keep the lock longer than stale_seconds?

ASSUME LockAssumption ==
  /\ Mortal \subseteq Proc
  /\ ForceArg \subseteq BOOLEAN /\ ForceArg # {}
  /\ LongHold \in BOOLEAN

VARIABLES
  lock,      \* the lock file: "absent", "fresh" or "stale"
  artifact,  \* "absent", "torn", "clash" (opened by two writers) or "whole"
  pc, force, \* each process: where it is, its force argument
  aged,      \* history: some lock file has been stale
  cut        \* history: some build ended while it was writing the artifact

vars == <<lock, artifact, pc, force, aged, cut>>

Inside == {"inside", "build", "write", "built", "failed"}
Ended == {"returned", "raised", "killed"}

Init ==
  /\ lock = "absent" /\ artifact = "absent"
  /\ aged = FALSE /\ cut = FALSE
  /\ pc = [p \in Proc |-> "stat"]
  /\ force \in [Proc -> ForceArg]

Goto(p, l) == pc' = [pc EXCEPT ![p] = l]
-----------------------------------------------------------------------------
(* exclusive_lock: poll until the lock file can be created.                *)

(* Mutant: any lock file is taken for an orphan.                           *)
StatLock_AnyAge(p) ==
  /\ pc[p] = "stat"
  /\ Goto(p, IF lock # "absent" THEN "unlink" ELSE "create")
  /\ UNCHANGED <<lock, artifact, force, aged, cut>>

(* Mutant: a stale lock file is left alone.                                *)
StatLock_Never(p) ==
  /\ pc[p] = "stat"
  /\ Goto(p, "create")
  /\ UNCHANGED <<lock, artifact, force, aged, cut>>

(* remove_stale's stat: a missing or fresh file is left alone.             *)
StatLock(p) ==
  /\ pc[p] = "stat"
  /\ Goto(p, IF lock = "stale" THEN "unlink" ELSE "create")
  /\ UNCHANGED <<lock, artifact, force, aged, cut>>

(* Mutant: unlink without missing_ok raises when another waiter was first. *)
UnlinkStale_Strict(p) ==
  /\ pc[p] = "unlink"
  /\ lock' = "absent"
  /\ Goto(p, IF lock = "absent" THEN "FileNotFoundError" ELSE "create")
  /\ UNCHANGED <<artifact, force, aged, cut>>

(* remove_stale's unlink: by name, whichever file has that name by now.    *)
UnlinkStale(p) ==
  /\ pc[p] = "unlink"
  /\ lock' = "absent"
  /\ Goto(p, "create")
  /\ UNCHANGED <<artifact, force, aged, cut>>

(* Mutant: the file is opened without O_EXCL.                              *)
CreateLock_Shared(p) ==
  /\ pc[p] = "create"
  /\ lock' = "fresh" /\ Goto(p, "inside")
  /\ UNCHANGED <<artifact, force, aged, cut>>

(* os.open(O_CREAT | O_EXCL), or sleep and poll again.                     *)
CreateLock(p) ==
  /\ pc[p] = "create"
  /\ IF lock = "absent" THEN lock' = "fresh" /\ Goto(p, "inside")
                        ELSE lock' = lock /\ Goto(p, "stat")
  /\ UNCHANGED <<artifact, force, aged, cut>>

(* The finally clause: by name again.                                      *)
Leave(p) ==
  /\ pc[p] \in {"built", "failed"}
  /\ lock' = "absent"
  /\ Goto(p, IF pc[p] = "built" THEN "returned" ELSE "raised")
  /\ UNCHANGED <<artifact, force, aged, cut>>
-----------------------------------------------------------------------------
(* The ensure_* function inside the lock.                                  *)

(* Mutant: the artifact is not looked for again once the lock is held.     *)
Decide_Unlocked(p) ==
  /\ pc[p] = "inside"
  /\ Goto(p, "build")
  /\ UNCHANGED <<lock, artifact, force, aged, cut>>

Decide(p) ==
  /\ pc[p] = "inside"
  /\ Goto(p, IF ~force[p] /\ artifact # "absent" THEN "built" ELSE "build")
  /\ UNCHANGED <<lock, artifact, force, aged, cut>>

Writers == {p \in Proc : pc[p] = "write"}

(* The exporter opens its output file in place.                            *)
OpenOutput(p) ==
  /\ pc[p] = "build"
  /\ artifact' = IF Writers = {} THEN "torn" ELSE "clash"
  /\ Goto(p, "write")
  /\ UNCHANGED <<lock, force, aged, cut>>

FinishBuild(p) ==
  /\ pc[p] = "write"
  /\ \/ Writers # {p} /\ artifact' = artifact
     \/ Writers = {p} /\ artifact' = "whole"
     \/ Writers = {p} /\ artifact = "clash" /\ artifact' = "torn"
  /\ Goto(p, "built")
  /\ UNCHANGED <<lock, force, aged, cut>>

BuildRaises(p) ==
  /\ pc[p] \in {"build", "write"}
  /\ cut' = (cut \/ pc[p] = "write")
  /\ Goto(p, "failed")
  /\ UNCHANGED <<lock, artifact, force, aged>>
-----------------------------------------------------------------------------
(* SIGKILL: the lock file and the output file stay as they are.            *)
Kill(p) ==
  /\ p \in Mortal /\ pc[p] \notin Ended
  /\ cut' = (cut \/ pc[p] = "write")
  /\ Goto(p, "killed")
  /\ UNCHANGED <<lock, artifact, force, aged>>

(* stale_seconds pass; a live holder is done by then unless LongHold.      *)
GrowStale ==
  /\ lock = "fresh"
  /\ LongHold \/ \A p \in Proc : pc[p] \notin Inside
  /\ lock' = "stale" /\ aged' = TRUE
  /\ UNCHANGED <<artifact, pc, force, cut>>

Step(p) ==
  \/ StatLock(p) \/ UnlinkStale(p) \/ CreateLock(p) \/ Leave(p)
  \/ Decide(p) \/ OpenOutput(p) \/ FinishBuild(p) \/ BuildRaises(p)

AllEnded == (\A p \in Proc : pc[p] \in Ended) /\ UNCHANGED vars

Next == (\E p \in Proc : Step(p) \/ Kill(p)) \/ GrowStale \/ AllEnded

(* A live process keeps running, and time passes.                          *)
Fairness == (\A p \in Proc : WF_vars(Step(p))) /\ WF_vars(GrowStale)

Spec == Init /\ [][Next]_vars /\ Fairness
-----------------------------------------------------------------------------
TypeOK ==
  /\ lock \in {"absent", "fresh", "stale"}
  /\ artifact \in {"absent", "torn", "clash", "whole"}
  /\ pc \in [Proc -> {"stat", "unlink", "create"} \cup Inside \cup Ended]
  /\ force \in [Proc -> ForceArg]
  /\ aged \in BOOLEAN /\ cut \in BOOLEAN

(* remove_stale, lines 14-19: removing stale locks never lets two          *)
(* processes into the block at once.                                       *)
MutualExclusion == \A p, q \in Proc : pc[p] \in Inside /\ pc[q] \in Inside => p = q

(* exclusive_lock excludes as long as no lock file has outlived            *)
(* stale_seconds, however many waiters poll and whoever is killed.         *)
ExclusiveWhileFresh == ~aged => MutualExclusion

(* What ensure_* hands to a caller that did not ask for a rebuild is a     *)
(* whole artifact, unless it is being rebuilt, a build was cut short, or a *)
(* lock file went stale: "exists" then no longer means "finished".         *)
ReturnedIsWhole ==
  ~aged /\ ~cut /\ Writers = {} =>
    \A p \in Proc : pc[p] = "returned" => artifact = "whole"

(* Processes that do not force build the artifact once: nothing opens it   *)
(* again after it is whole.                                                *)
WholeIsKept ==
  [][~aged /\ artifact = "whole" /\ artifact' # "whole" =>
       \E p \in Proc : force[p] /\ pc[p] = "build"]_vars

(* A killed holder does not wedge the others: every caller gets its turn.  *)
EveryoneServed == \A p \in Proc : pc[p] = "stat" ~> pc[p] \in Ended
=============================================================================
