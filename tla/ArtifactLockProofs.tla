------------------------- MODULE ArtifactLockProofs -------------------------
(***************************************************************************)
(* What ArtifactLock promises for any number of callers, proved: types,    *)
(* mutual exclusion while no lock file is stale, and what it gives the     *)
(* callers of ensure_*.                                                    *)
(***************************************************************************)
EXTENDS ArtifactLock, TLAPS

(* The type invariant: the lock file, the artifact and every process are   *)
(* in one of the states the code distinguishes.                            *)
THEOREM TypeCorrect == Spec => []TypeOK
<1>1. Init => TypeOK
  BY DEF Init, TypeOK
<1>2. TypeOK /\ [Next]_vars => TypeOK'
  <2> SUFFICES ASSUME TypeOK, [Next]_vars PROVE TypeOK'
    OBVIOUS
  <2> USE DEF TypeOK, Goto, Inside, Ended
  <2>1. ASSUME NEW p \in Proc, StatLock(p) PROVE TypeOK'
    BY <2>1 DEF StatLock
  <2>2. ASSUME NEW p \in Proc, UnlinkStale(p) PROVE TypeOK'
    BY <2>2 DEF UnlinkStale
  <2>3. ASSUME NEW p \in Proc, CreateLock(p) PROVE TypeOK'
    BY <2>3 DEF CreateLock
  <2>4. ASSUME NEW p \in Proc, Leave(p) PROVE TypeOK'
    BY <2>4 DEF Leave
  <2>5. ASSUME NEW p \in Proc, Decide(p) PROVE TypeOK'
    BY <2>5 DEF Decide
  <2>6. ASSUME NEW p \in Proc, OpenOutput(p) PROVE TypeOK'
    BY <2>6 DEF OpenOutput
  <2>7. ASSUME NEW p \in Proc, FinishBuild(p) PROVE TypeOK'
    BY <2>7 DEF FinishBuild
  <2>8. ASSUME NEW p \in Proc, BuildRaises(p) PROVE TypeOK'
    BY <2>8 DEF BuildRaises
  <2>9. ASSUME NEW p \in Proc, Kill(p) PROVE TypeOK'
    BY <2>9 DEF Kill
  <2>10. CASE GrowStale
    BY <2>10 DEF GrowStale
  <2>11. CASE UNCHANGED vars
    BY <2>11 DEF vars
  <2> QED
    BY <2>1, <2>2, <2>3, <2>4, <2>5, <2>6, <2>7, <2>8, <2>9, <2>10, <2>11
    DEF Next, Step, AllEnded
<1> QED
  BY <1>1, <1>2, PTL DEF Spec
-----------------------------------------------------------------------------
(* While no lock file has been stale, nobody is about to unlink one, and   *)
(* whoever is inside owns the only lock file.                              *)
NothingStale == lock # "stale" /\ \A p \in Proc : pc[p] # "unlink"
InsideLocked == \A p \in Proc : pc[p] \in Inside => lock = "fresh"
LockInv == ~aged => NothingStale /\ InsideLocked /\ MutualExclusion

LEMMA LockInvStep ==
  ASSUME TypeOK, LockInv, [Next]_vars
  PROVE  LockInv'
<1> SUFFICES ASSUME ~aged' PROVE (NothingStale /\ InsideLocked /\ MutualExclusion)'
  BY DEF LockInv
<1> USE DEF NothingStale, InsideLocked, MutualExclusion, TypeOK, Goto, Inside
<1>1. NothingStale /\ InsideLocked /\ MutualExclusion
  <2>1. ~aged
    BY DEF Next, Step, StatLock, UnlinkStale, CreateLock, Leave, Decide, OpenOutput,
           FinishBuild, BuildRaises, Kill, GrowStale, AllEnded, vars
  <2> QED
    BY <2>1 DEF LockInv
<1> USE <1>1
<1>2. ASSUME NEW p \in Proc, StatLock(p)
      PROVE  (NothingStale /\ InsideLocked /\ MutualExclusion)'
  BY <1>2 DEF StatLock
<1>3. ASSUME NEW p \in Proc, UnlinkStale(p)
      PROVE  (NothingStale /\ InsideLocked /\ MutualExclusion)'
  BY <1>3 DEF UnlinkStale
<1>4. ASSUME NEW p \in Proc, CreateLock(p)
      PROVE  (NothingStale /\ InsideLocked /\ MutualExclusion)'
  BY <1>4 DEF CreateLock
<1>5. ASSUME NEW p \in Proc, Leave(p)
      PROVE  (NothingStale /\ InsideLocked /\ MutualExclusion)'
  BY <1>5 DEF Leave
<1>6. ASSUME NEW p \in Proc, Decide(p) \/ OpenOutput(p) \/ FinishBuild(p)
      PROVE  (NothingStale /\ InsideLocked /\ MutualExclusion)'
  BY <1>6 DEF Decide, OpenOutput, FinishBuild
<1>7. ASSUME NEW p \in Proc, BuildRaises(p)
      PROVE  (NothingStale /\ InsideLocked /\ MutualExclusion)'
  BY <1>7 DEF BuildRaises
<1>8. ASSUME NEW p \in Proc, Kill(p)
      PROVE  (NothingStale /\ InsideLocked /\ MutualExclusion)'
  BY <1>8 DEF Kill
<1>9. CASE GrowStale
  BY <1>9 DEF GrowStale
<1>10. CASE UNCHANGED vars
  BY <1>10 DEF vars
<1> QED
  BY <1>2, <1>3, <1>4, <1>5, <1>6, <1>7, <1>8, <1>9, <1>10 DEF Next, Step, AllEnded

(* exclusive_lock excludes as long as no lock file has outlived            *)
(* stale_seconds, for any number of callers and whoever is killed.         *)
THEOREM Exclusion == Spec => []ExclusiveWhileFresh
<1>1. Init => LockInv
  BY DEF Init, LockInv, NothingStale, InsideLocked, MutualExclusion, Inside
<1>2. TypeOK /\ LockInv /\ [Next]_vars => LockInv'
  BY LockInvStep
<1>3. LockInv => ExclusiveWhileFresh
  BY DEF LockInv, ExclusiveWhileFresh
<1> QED
  BY <1>1, <1>2, <1>3, TypeCorrect, PTL DEF Spec
-----------------------------------------------------------------------------
(* What being inside alone gives the artifact: a caller that does not      *)
(* force builds only what is absent, a file being written is torn, a file  *)
(* nobody is writing and no build left behind is absent or whole, and      *)
(* whoever got through found or made one.                                  *)
BuildsAbsent == \A p \in Proc : pc[p] = "build" /\ ~force[p] => artifact = "absent"
WritingTorn == \A p \in Proc : pc[p] = "write" => artifact = "torn"
RestWhole == ~cut => artifact \in {"absent", "whole"} \/ Writers # {}
ThroughPresent == \A p \in Proc : pc[p] \in {"built", "returned"} => artifact # "absent"
ArtifactParts == BuildsAbsent /\ WritingTorn /\ RestWhole /\ ThroughPresent
ArtifactInv == ~aged => ArtifactParts

LEMMA ArtifactInvStep ==
  ASSUME TypeOK, LockInv, ArtifactInv, [Next]_vars
  PROVE  ArtifactInv'
<1> SUFFICES ASSUME ~aged' PROVE ArtifactParts'
  BY DEF ArtifactInv
<1>1. ~aged
  BY DEF TypeOK, Next, Step, StatLock, UnlinkStale, CreateLock, Leave, Decide, OpenOutput,
         FinishBuild, BuildRaises, Kill, GrowStale, AllEnded, vars
<1>2. MutualExclusion /\ ArtifactParts
  BY <1>1 DEF LockInv, ArtifactInv
<1> USE DEF ArtifactParts, BuildsAbsent, WritingTorn, RestWhole, ThroughPresent, Writers,
            TypeOK, Goto
<1>3. ASSUME NEW p \in Proc, StatLock(p) \/ UnlinkStale(p) \/ CreateLock(p) \/ Leave(p)
      PROVE  ArtifactParts'
  <2>1. /\ artifact' = artifact /\ force' = force /\ cut' = cut
        /\ \A q \in Proc : /\ (pc'[q] = "write") <=> (pc[q] = "write")
                           /\ (pc'[q] = "build") <=> (pc[q] = "build")
                           /\ pc'[q] \in {"built", "returned"} =>
                                pc[q] \in {"built", "returned"}
    BY <1>3 DEF StatLock, UnlinkStale, CreateLock, Leave
  <2> QED
    BY <2>1, <1>2
<1>4. ASSUME NEW p \in Proc, Decide(p) PROVE ArtifactParts'
  BY <1>4, <1>2 DEF Decide
<1>5. ASSUME NEW p \in Proc, OpenOutput(p) PROVE ArtifactParts'
  <2>1. Writers = {} /\ \A q \in Proc \ {p} : pc[q] \notin Inside
    BY <1>5, <1>2 DEF OpenOutput, MutualExclusion, Inside
  <2> QED
    BY <2>1, <1>5, <1>2 DEF OpenOutput, Inside
<1>6. ASSUME NEW p \in Proc, FinishBuild(p) PROVE ArtifactParts'
  <2>1. Writers = {p} /\ \A q \in Proc \ {p} : pc[q] \notin Inside
    BY <1>6, <1>2 DEF FinishBuild, MutualExclusion, Inside
  <2>2. artifact' = "whole"
    BY <2>1, <1>6, <1>2 DEF FinishBuild
  <2> QED
    BY <2>1, <2>2, <1>6, <1>2 DEF FinishBuild, Inside
<1>7. ASSUME NEW p \in Proc, BuildRaises(p) PROVE ArtifactParts'
  BY <1>7, <1>2 DEF BuildRaises
<1>8. ASSUME NEW p \in Proc, Kill(p) PROVE ArtifactParts'
  BY <1>8, <1>2 DEF Kill
<1>9. CASE GrowStale
  BY <1>9, <1>2 DEF GrowStale
<1>10. CASE UNCHANGED vars
  BY <1>10, <1>2 DEF vars
<1> QED
  BY <1>3, <1>4, <1>5, <1>6, <1>7, <1>8, <1>9, <1>10 DEF Next, Step, AllEnded

LEMMA ArtifactInvariant == Spec => [](LockInv /\ ArtifactInv)
<1>1. Init => LockInv /\ ArtifactInv
  BY DEF Init, LockInv, NothingStale, InsideLocked, MutualExclusion, Inside, ArtifactInv,
         ArtifactParts, BuildsAbsent, WritingTorn, RestWhole, ThroughPresent
<1>2. TypeOK /\ LockInv /\ ArtifactInv /\ [Next]_vars => LockInv' /\ ArtifactInv'
  BY LockInvStep, ArtifactInvStep
<1> QED
  BY <1>1, <1>2, TypeCorrect, PTL DEF Spec

(* Whoever gets an artifact from ensure_* while none is being rebuilt gets *)
(* a whole one, as long as no build was cut short and no lock went stale.  *)
THEOREM WholeForCallers == Spec => []ReturnedIsWhole
<1>1. ArtifactInv => ReturnedIsWhole
  BY DEF ArtifactInv, ArtifactParts, RestWhole, ThroughPresent, ReturnedIsWhole
<1> QED
  BY <1>1, ArtifactInvariant, PTL

(* The artifact is built once: only a caller with force opens a whole      *)
(* artifact for writing again.                                             *)
THEOREM BuiltOnce == Spec => WholeIsKept
<1> DEFINE Reopened == ~aged /\ artifact = "whole" /\ artifact' # "whole"
           Forced   == \E p \in Proc : force[p] /\ pc[p] = "build"
<1>1. ASSUME TypeOK, LockInv, ArtifactInv, [Next]_vars, Reopened PROVE Forced
  <2>1. BuildsAbsent /\ WritingTorn
    BY <1>1 DEF ArtifactInv, ArtifactParts
  <2>2. ASSUME NEW p \in Proc, OpenOutput(p) PROVE Forced
    BY <2>1, <2>2, <1>1 DEF OpenOutput, BuildsAbsent
  <2>3. ASSUME NEW p \in Proc, FinishBuild(p) PROVE FALSE
    BY <2>1, <2>3, <1>1 DEF FinishBuild, WritingTorn
  <2>4. \E p \in Proc : OpenOutput(p) \/ FinishBuild(p)
    BY <1>1 DEF Next, Step, StatLock, UnlinkStale, CreateLock, Leave, Decide,
                BuildRaises, Kill, GrowStale, AllEnded, vars
  <2> QED
    BY <2>2, <2>3, <2>4
<1>2. TypeOK /\ LockInv /\ ArtifactInv /\ [Next]_vars => [Reopened => Forced]_vars
  BY <1>1
<1> QED
  BY <1>2, TypeCorrect, ArtifactInvariant, PTL DEF Spec, WholeIsKept
=============================================================================
