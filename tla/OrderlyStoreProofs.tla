------------------------- MODULE OrderlyStoreProofs -------------------------
(***************************************************************************)
(* What the remote store promises while deletions are orderly (made alone, *)
(* not broken off, not of a blob that another path shares): pointers can   *)
(* be pulled, local files are deleted only when their contents are in the  *)
(* store, and the store implements a map from paths to contents.           *)
(***************************************************************************)
EXTENDS RemoteStoreProofs, NaturalsInduction, WellFoundedInduction

-----------------------------------------------------------------------------
(* What each command may rely on.                                          *)

TidyPush(pl) == job[pl].cmd \in Pushes => \A p \in DOMAIN job[pl].task :
  job[pl].task[p].at \in {"ptr", "index", "ok"} => cache[job[pl].task[p].hash] = job[pl].task[p].hash
TidyClean(pl) == job[pl].cmd = "clean" => \A p \in DOMAIN job[pl].task :
  cache[job[pl].task[p].hash] = job[pl].task[p].hash
TidyBrowse(pl) == job[pl].cmd = "browse" => \A p \in DOMAIN job[pl].task :
  p \in Indexed /\ index[p].hash = job[pl].task[p].hash
TidyDelete(pl) == job[pl].cmd = "delete" => \A p \in DOMAIN job[pl].task :
  /\ job[pl].task[p].at \in {"blob", "index", "ok"}
  /\ job[pl].task[p].at = "ok" => p \notin Indexed
  /\ job[pl].task[p].at # "ok" => p \in Indexed /\ index[p].hash = job[pl].task[p].hash
  /\ \A x \in Indexed \ DOMAIN job[pl].task : index[x].hash # job[pl].task[p].hash
TidyPurge(pl) ==
  /\ job[pl].cmd = "purge" => \A p \in Indexed : index[p].hash \in job[pl].hashes
  /\ job[pl].cmd = "orphans" => \A p \in Indexed : index[p].hash \notin job[pl].hashes
Lonely(pl) == job[pl].cmd \in Deleting => \A q \in Places \ {pl} : job[q].cmd = "idle"

Tidy(pl) == TidyPush(pl) /\ TidyClean(pl) /\ TidyBrowse(pl) /\ TidyDelete(pl) /\ TidyPurge(pl) /\ Lonely(pl)

OInv == RInv /\ IndexNamesBlob /\ \A pl \in Places : Tidy(pl)

(* While no deletion goes on, every pointer of the index can be pulled.    *)
LEMMA NoDeletion ==
  ASSUME OInv, NEW pl \in Places, job[pl].cmd # "idle", job[pl].cmd # "delete"
  PROVE  \A p \in Indexed : cache[index[p].hash] = index[p].hash
<1> SUFFICES ASSUME NEW p \in Indexed, cache[index[p].hash] # index[p].hash PROVE FALSE
  OBVIOUS
<1>1. p \in Paths
  BY DEF Indexed
<1>2. PICK q \in Places : job[q].cmd = "delete"
  BY <1>1 DEF OInv, IndexNamesBlob
<1>3. Lonely(q)
  BY DEF OInv, Tidy
<1> QED
  BY <1>2, <1>3 DEF Lonely, Deleting

(* A command at place pl leaves those of other places what they rely on.   *)
LEMMA OthersTidy ==
  ASSUME OInv, NEW pl \in Places, \A q \in Places \ {pl} : job'[q] = job[q],
         \A h \in Data : cache[h] = h => cache'[h] = h,
         \/ job[pl].cmd # "idle"
         \/ UNCHANGED index /\ \A q \in Places \ {pl} : job[q].cmd \notin Deleting
         \/ UNCHANGED <<index, job>>
  PROVE  \A q \in Places \ {pl} : Tidy(q)'
<1> SUFFICES ASSUME NEW q \in Places \ {pl} PROVE Tidy(q)'
  OBVIOUS
<1>1. Tidy(q) /\ job'[q] = job[q]
  BY DEF OInv
<1>2. \A p \in DOMAIN job[q].task : job[q].cmd \in Pushes \cup {"clean"} /\ job[q].task[p].at \notin {"hash", "failed"} =>
        job[q].task[p].hash \in Data
  <2> SUFFICES ASSUME NEW p \in DOMAIN job[q].task, job[q].cmd \in Pushes \cup {"clean"},
                      job[q].task[p].at \notin {"hash", "failed"}
               PROVE  job[q].task[p].hash \in Data
    OBVIOUS
  <2>1. HandledAt(q, p) /\ p \in Paths
    BY JobFacts DEF OInv, RInv, Handled
  <2>2. Has(q, p, job[q].task[p].hash)
    BY <2>1 DEF HandledAt
  <2> QED
    BY <2>1, <2>2 DEF Has, OInv, RInv, DataOK, File
<1>3. TidyPush(q)'
  BY <1>1, <1>2 DEF Tidy, TidyPush
<1>4. \A p \in DOMAIN job[q].task : job[q].cmd = "clean" => job[q].task[p].hash \in Data
  <2> SUFFICES ASSUME NEW p \in DOMAIN job[q].task, job[q].cmd = "clean"
               PROVE  job[q].task[p].hash \in Data
    OBVIOUS
  <2>1. HandledAt(q, p) /\ p \in Paths
    BY JobFacts DEF OInv, RInv, Handled
  <2>2. Has(q, p, job[q].task[p].hash)
    BY <2>1 DEF HandledAt
  <2> QED
    BY <2>1, <2>2 DEF Has, OInv, RInv, DataOK, File
<1>5. TidyClean(q)'
  BY <1>1, <1>4 DEF Tidy, TidyClean
<1>6. CASE job[q].cmd \notin Deleting
  BY <1>1, <1>3, <1>5, <1>6 DEF Tidy, TidyBrowse, TidyDelete, TidyPurge, Lonely, Deleting
<1>7. CASE job[q].cmd \in Deleting
  <2>1. job[pl].cmd = "idle"
    BY <1>1, <1>7 DEF Tidy, Lonely
  <2>2. UNCHANGED <<index, job>>
    BY <1>7, <2>1
  <2> QED
    BY <1>1, <1>3, <1>5, <2>2 DEF Tidy, TidyBrowse, TidyDelete, TidyPurge, Lonely, Indexed
<1> QED
  BY <1>6, <1>7

(* A deleting command is alone.                                            *)
LEMMA AloneTidy ==
  ASSUME OInv, NEW pl \in Places, job[pl].cmd \in Deleting,
         \A q \in Places \ {pl} : job'[q] = job[q]
  PROVE  \A q \in Places \ {pl} : Tidy(q)' /\ job'[q].cmd = "idle"
<1>1. \A q \in Places \ {pl} : job'[q].cmd = "idle"
  BY DEF OInv, Tidy, Lonely
<1> QED
  BY <1>1 DEF Tidy, TidyPush, TidyClean, TidyBrowse, TidyDelete, TidyPurge, Lonely, Deleting, Pushes

(* Steps that change no pointer of the index and remove no blob.           *)
LEMMA Harmless ==
  ASSUME OInv, RInv', NEW pl \in Places, \A q \in Places \ {pl} : job'[q] = job[q],
         \A h \in Data : cache[h] = h => cache'[h] = h, UNCHANGED index,
         \/ job[pl].cmd # "idle" /\ job[pl].cmd # "delete"
         \/ job[pl].cmd = "idle" /\ \A q \in Places \ {pl} : job[q].cmd \notin Deleting
         \/ UNCHANGED job,
         Tidy(pl)'
  PROVE  OInv'
<1>1. \A q \in Places \ {pl} : Tidy(q)'
  <2>1. \/ job[pl].cmd # "idle"
        \/ UNCHANGED index /\ \A q \in Places \ {pl} : job[q].cmd \notin Deleting
        \/ UNCHANGED <<index, job>>
    OBVIOUS
  <2> QED
    BY <2>1, OthersTidy
<1>2. IndexNamesBlob'
  <2> SUFFICES ASSUME NEW p \in Indexed
               PROVE  \/ cache'[index[p].hash] = index[p].hash
                      \/ \E q \in Places : job'[q].cmd = "delete" /\ p \in DOMAIN job'[q].task
    BY DEF IndexNamesBlob, Indexed
  <2>1. index[p].hash \in Data
    BY IndexEntries DEF OInv
  <2>2. CASE cache[index[p].hash] = index[p].hash
    BY <2>1, <2>2
  <2>3. CASE cache[index[p].hash] # index[p].hash
    <3>1. PICK q \in Places : job[q].cmd = "delete" /\ p \in DOMAIN job[q].task
      BY <2>3 DEF OInv, IndexNamesBlob
    <3>2. CASE q # pl
      BY <3>1, <3>2
    <3>3. CASE q = pl
      BY <3>1, <3>3
    <3> QED
      BY <3>2, <3>3
  <2> QED
    BY <2>2, <2>3
<1> QED
  BY <1>1, <1>2 DEF OInv

-----------------------------------------------------------------------------
(* The actions.                                                            *)

LEMMA TidyIdle ==
  ASSUME NEW pl \in Places, job[pl].cmd \in {"idle", "pull"}
  PROVE  Tidy(pl)
BY DEF Tidy, TidyPush, TidyClean, TidyBrowse, TidyDelete, TidyPurge, Lonely, Deleting, Pushes

LEMMA StopOrderly ==
  ASSUME OInv, RInv', NEW pl \in Places, Stop(pl), job[pl].cmd # "delete", job[pl].cmd # "idle",
         UNCHANGED remote
  PROVE  OInv'
<1>1. job'[pl].cmd = "idle" /\ \A q \in Places \ {pl} : job'[q] = job[q]
  <2>1. Idle \in Job /\ Idle.cmd = "idle" /\ Become(pl, Idle)
    BY IdleFacts DEF Stop
  <2> HIDE DEF Idle
  <2> QED
    BY <2>1, BecomeFacts DEF OInv, RInv
<1>2. Tidy(pl)'
  BY <1>1 DEF Tidy, TidyPush, TidyClean, TidyBrowse, TidyDelete, TidyPurge, Lonely, Deleting, Pushes
<1> QED
  BY <1>1, <1>2, Harmless DEF remote

(* ls has deleted all it was asked to.                                     *)
LEMMA EndDeleteOrderly ==
  ASSUME OInv, RInv', NEW pl \in Places, EndBrowse(pl), job[pl].cmd = "delete"
  PROVE  OInv'
<1>1. Stop(pl) /\ UNCHANGED <<index, cache>> /\ Settled(pl)
  BY DEF EndBrowse, remote
<1>2. job'[pl].cmd = "idle" /\ \A q \in Places \ {pl} : job'[q] = job[q]
  <2>1. Idle \in Job /\ Idle.cmd = "idle" /\ Become(pl, Idle)
    BY <1>1, IdleFacts DEF Stop
  <2> HIDE DEF Idle
  <2> QED
    BY <2>1, BecomeFacts DEF OInv, RInv
<1>3. \A q \in Places : Tidy(q)'
  <2>1. Tidy(pl)'
    BY <1>2 DEF Tidy, TidyPush, TidyClean, TidyBrowse, TidyDelete, TidyPurge, Lonely, Deleting, Pushes
  <2>2. job[pl].cmd \in Deleting
    BY DEF Deleting
  <2> QED
    BY <1>2, <2>1, <2>2, AloneTidy
<1>4. IndexNamesBlob'
  <2> SUFFICES ASSUME NEW p \in Indexed PROVE cache[index[p].hash] = index[p].hash
    BY <1>1 DEF IndexNamesBlob, Indexed
  <2> SUFFICES ASSUME cache[index[p].hash] # index[p].hash PROVE FALSE
    OBVIOUS
  <2>1. PICK q \in Places : job[q].cmd = "delete" /\ p \in DOMAIN job[q].task
    BY DEF OInv, IndexNamesBlob, Indexed
  <2>2. q = pl
    BY <2>1 DEF OInv, Tidy, Lonely, Deleting
  <2>3. job[pl].task[p].at = "ok"
    BY <1>1, <2>1, <2>2 DEF OInv, Tidy, TidyDelete, Settled
  <2> QED
    BY <2>1, <2>2, <2>3 DEF OInv, Tidy, TidyDelete
<1> QED
  BY <1>3, <1>4 DEF OInv

LEMMA EndsOrderly ==
  ASSUME Orderly, OInv, RInv', NEW pl \in Places,
         EndPush(pl) \/ EndPull(pl) \/ EndBrowse(pl) \/ EndClean(pl) \/ EndPurge(pl) \/ Kill(pl)
  PROVE  OInv'
<1>1. CASE job[pl].cmd = "delete"
  <2>1. EndBrowse(pl)
    BY <1>1 DEF EndPush, EndPull, EndClean, EndPurge, Kill, Pushes
  <2> QED
    BY <1>1, <2>1, EndDeleteOrderly
<1>2. CASE job[pl].cmd # "delete"
  <2>1. Stop(pl) /\ UNCHANGED remote /\ job[pl].cmd # "idle"
    BY <1>2 DEF EndPush, EndPull, EndBrowse, EndClean, EndPurge, Kill, Pushes
  <2> QED
    BY <1>2, <2>1, StopOrderly
<1> QED
  BY <1>1, <1>2

(* A command that deletes nothing starts while nothing is deleted.         *)
LEMMA StartsOrderly ==
  ASSUME Orderly, OInv, RInv', NEW pl \in Places, NEW c, Ready(pl, c), Undisturbed(pl),
         NEW j \in Job, Become(pl, j), UNCHANGED remote,
         j.cmd \in {"pull", "push", "overrides", "clean"},
         j.cmd \in Pushes => \A p \in DOMAIN j.task : j.task[p].at = "hash",
         j.cmd = "clean" => \A p \in DOMAIN j.task : cache[j.task[p].hash] = j.task[p].hash
  PROVE  OInv'
<1>1. job'[pl] = j /\ \A q \in Places \ {pl} : job'[q] = job[q]
  BY BecomeFacts DEF OInv, RInv
<1>2. job[pl].cmd = "idle" /\ \A q \in Places \ {pl} : job[q].cmd \notin Deleting
  BY DEF Ready, Undisturbed
<1>3. UNCHANGED <<index, cache>>
  BY DEF remote
<1>4. Tidy(pl)'
  BY <1>1, <1>3 DEF Tidy, TidyPush, TidyClean, TidyBrowse, TidyDelete, TidyPurge, Lonely, Deleting, Pushes
<1> QED
  BY <1>1, <1>2, <1>3, <1>4, Harmless

LEMMA StartPushOrderly ==
  ASSUME Orderly, OInv, RInv', NEW pl \in Places, NEW S \in SUBSET Paths, NEW c \in Pushes,
         \E force \in BOOLEAN : Become(pl, PushJob(c, S, force)),
         Ready(pl, c), Undisturbed(pl), UNCHANGED remote
  PROVE  OInv'
<1>1. PICK force \in BOOLEAN : Become(pl, PushJob(c, S, force))
  OBVIOUS
<1> DEFINE j == PushJob(c, S, force)
<1>2. /\ j \in Job /\ j.cmd = c /\ DOMAIN j.task = S
      /\ \A x \in S : j.task[x].at = "hash"
  BY PushJobFacts
<1>3. Become(pl, j)
  BY <1>1
<1> HIDE DEF j
<1>4. j.cmd \in {"pull", "push", "overrides", "clean"} /\ j.cmd # "clean"
  BY <1>2 DEF Pushes
<1> QED
  BY <1>2, <1>3, <1>4, StartsOrderly

LEMMA PullJobFacts ==
  ASSUME NEW S \in SUBSET Paths, NEW ptr, \A p \in S : ptr[p].hash \in Data
  PROVE  NewJob("pull", PullTasks(S, ptr)) \in Job /\ NewJob("pull", PullTasks(S, ptr)).cmd = "pull"
BY PullTasksFacts, TasksFacts

LEMMA PullNameOrderly ==
  ASSUME Orderly, OInv, RInv', NEW pl \in Places, NEW p \in Paths, PullName(pl, p)
  PROVE  OInv'
<1>1. pl \in Clones /\ p \in Pointed(pl)
  BY DEF PullName, Clones
<1>2. {p} \in SUBSET Paths /\ \A x \in {p} : ptrs[pl][x].hash \in Data
  BY <1>1 DEF Pointed, OInv, RInv, DataOK, Pointer
<1> DEFINE j == NewJob("pull", PullTasks({p}, ptrs[pl]))
<1>3. j \in Job /\ j.cmd = "pull"
  BY <1>2, PullJobFacts
<1>4. Ready(pl, "pull") /\ Undisturbed(pl) /\ Become(pl, j) /\ UNCHANGED remote
  BY DEF PullName
<1> HIDE DEF j
<1>5. j.cmd \in {"pull", "push", "overrides", "clean"} /\ j.cmd # "clean" /\ j.cmd \notin Pushes
  BY <1>3 DEF Pushes
<1> QED
  BY <1>3, <1>4, <1>5, StartsOrderly

LEMMA EnsureLocalOrderly ==
  ASSUME Orderly, OInv, RInv', NEW pl \in Places, NEW p \in Paths, EnsureLocal(pl, p)
  PROVE  OInv'
<1> DEFINE r == Home[pl]
           fetched == IF p \in Pointed(r) THEN ptrs[r] ELSE [ptrs[r] EXCEPT ![p] = AsPointer(index[p])]
           j == NewJob("pull", PullTasks({p}, fetched))
<1>1. r \in Clones /\ p \in Pointed(r) \cup Indexed
  BY DEF EnsureLocal, Clones
<1>2. fetched[p].hash \in Data
  <2>1. CASE p \in Pointed(r)
    BY <1>1, <2>1 DEF OInv, RInv, DataOK, Pointed, Pointer
  <2>2. CASE p \notin Pointed(r)
    <3>1. index[p].hash \in Data /\ index[p].mtime \in 0..MaxClock
      BY <1>1, <2>2, IndexEntries DEF OInv
    <3>2. AsPointer(index[p]).hash \in Data
      BY <3>1, AsPointerFacts
    <3>3. fetched = [ptrs[r] EXCEPT ![p] = AsPointer(index[p])] /\ DOMAIN ptrs[r] = Paths
      BY <1>1, <2>2 DEF OInv, RInv, DataOK
    <3> HIDE DEF fetched, r
    <3> QED
      BY <3>2, <3>3
  <2> QED
    BY <2>1, <2>2
<1>3. Ready(pl, "ensure") /\ Undisturbed(pl) /\ Become(pl, j) /\ UNCHANGED remote
  BY DEF EnsureLocal
<1> HIDE DEF fetched, r
<1>4. j \in Job /\ j.cmd = "pull"
  BY <1>2, PullJobFacts
<1> HIDE DEF j
<1>5. j.cmd \in {"pull", "push", "overrides", "clean"} /\ j.cmd # "clean" /\ j.cmd \notin Pushes
  BY <1>4 DEF Pushes
<1> QED
  BY <1>3, <1>4, <1>5, StartsOrderly

(* A set of numbers has a least one.                                       *)
LEMMA LeastOf ==
  ASSUME NEW T \in SUBSET Nat, T # {}
  PROVE  \E k \in T : \A j \in T : k <= j
<1> DEFINE R == {ss \in Nat \X Nat : ss[1] < ss[2]}
<1>1. IsWellFoundedOn(R, Nat)
  <2>1. R = OpToRel(<, Nat)
    BY Zenon DEF OpToRel
  <2> QED
    BY <2>1, NatLessThanWellFounded, Zenon
<1>2. PICK k \in T : \A j \in T : ~(<<j, k>> \in R)
  <2> HIDE DEF R
  <2> QED
    BY <1>1, WFMin
<1>3. ASSUME NEW j \in T PROVE k <= j
  <2> DEFINE jk == <<j, k>>
  <2>1. j \in Nat /\ k \in Nat
    OBVIOUS
  <2>2. jk \in Nat \X Nat /\ jk[1] = j /\ jk[2] = k
    BY <2>1
  <2>3. jk \notin R
    BY <1>2
  <2>4. ~(jk[1] < jk[2])
    <3> HIDE DEF jk
    <3> QED
      BY <2>2, <2>3
  <2> QED
    BY <2>1, <2>2, <2>4
<1> QED
  BY <1>3

(* Of several paths of one name, the last is looked up.                    *)
LEMMA LastOfName ==
  ASSUME NEW p \in Paths, SameName(p) # {}
  PROVE  \E q \in Indexed : RemoteNamed(p) = index[q]
<1> DEFINE T == {NPaths - q : q \in SameName(p)}
<1>1. \A q \in SameName(p) : q \in Indexed /\ q \in 1..NPaths
  BY DEF SameName, Indexed, Paths
<1>2. T \in SUBSET Nat /\ T # {}
  BY <1>1, RemoteAssumption
<1>3. PICK k \in T : \A i \in T : k <= i
  <2> HIDE DEF T
  <2>1. \E k \in T : \A i \in T : k <= i
    BY <1>2, LeastOf
  <2> QED
    BY <2>1
<1>4. PICK q \in SameName(p) : k = NPaths - q
  OBVIOUS
<1>5. \A o \in SameName(p) : o <= q
  <2> TAKE o \in SameName(p)
  <2>1. k <= NPaths - o
    BY <1>3
  <2> QED
    BY <1>1, <1>4, <2>1, RemoteAssumption
<1> HIDE DEF T
<1>6. \E c \in SameName(p) : \A o \in SameName(p) : o <= c
  BY <1>5
<1>7. (CHOOSE c \in SameName(p) : \A o \in SameName(p) : o <= c) \in SameName(p)
  BY <1>6
<1> QED
  BY <1>1, <1>7 DEF RemoteNamed

LEMMA CleanOrderly ==
  ASSUME Orderly, OInv, RInv', NEW pl \in Places, Clean(pl)
  PROVE  OInv'
<1> DEFINE S == {p \in Paths : SafeToDelete(pl, p)}
           l == [p \in S |-> NewTask("seen", ptrs[pl][p].hash, 0)]
           j == NewJob("clean", l)
<1>1. pl \in Clones /\ Ready(pl, "clean") /\ Undisturbed(pl) /\ Become(pl, j) /\ UNCHANGED remote
  BY DEF Clean, Clones
<1>2. \A p \in S : ptrs[pl][p].hash \in Data
  BY <1>1 DEF SafeToDelete, Pointed, OInv, RInv, DataOK, Pointer
<1>3. \A p \in S : l[p] \in Task /\ l[p].hash = ptrs[pl][p].hash
  BY <1>2, RemoteAssumption DEF NewTask, Task, Stages
<1>4. S \in SUBSET Paths /\ l \in [S -> Task]
  BY <1>3
<1>5. l \in TaskList /\ DOMAIN l = S
  BY <1>4, TaskListIntro
<1>6. \A p \in S : cache[ptrs[pl][p].hash] = ptrs[pl][p].hash
  <2> SUFFICES ASSUME NEW p \in Paths, SafeToDelete(pl, p)
               PROVE  cache[ptrs[pl][p].hash] = ptrs[pl][p].hash
    OBVIOUS
  <2>1. SameName(p) # {} /\ RemoteNamed(p).hash = ptrs[pl][p].hash
    BY DEF SafeToDelete
  <2>2. PICK q \in Indexed : RemoteNamed(p) = index[q]
    BY <2>1, LastOfName
  <2>3. \A o \in Places : job[o].cmd # "delete"
    BY <1>1 DEF Undisturbed, Ready, Deleting
  <2>4. cache[index[q].hash] = index[q].hash
    BY <2>3 DEF OInv, IndexNamesBlob
  <2> QED
    BY <2>1, <2>2, <2>4
<1> HIDE DEF l, S
<1>7. j \in Job /\ j.cmd = "clean" /\ j.task = l
  BY <1>5, TasksFacts
<1> HIDE DEF j
<1>8. j.cmd \in {"pull", "push", "overrides", "clean"} /\ j.cmd \notin Pushes
  BY <1>7 DEF Pushes
<1>9. \A p \in DOMAIN j.task : cache[j.task[p].hash] = j.task[p].hash
  BY <1>3, <1>5, <1>6, <1>7
<1> QED
  BY <1>1, <1>7, <1>8, <1>9, StartsOrderly

(* ls and purge start alone.                                               *)
LEMMA BrowseOrderly ==
  ASSUME Orderly, OInv, RInv', NEW pl \in Places, Browse(pl)
  PROVE  OInv'
<1> DEFINE l == [p \in Indexed |-> NewTask("seen", index[p].hash, index[p].mtime)]
           j == NewJob("browse", l)
<1>1. \A p \in Indexed : l[p] \in Task /\ l[p].hash = index[p].hash
  BY IndexEntries DEF NewTask, Task, Stages, OInv
<1>2. Indexed \in SUBSET Paths /\ l \in [Indexed -> Task]
  BY <1>1 DEF Indexed
<1>3. l \in TaskList /\ DOMAIN l = Indexed
  BY <1>2, TaskListIntro
<1> HIDE DEF l
<1>4. j \in Job /\ j.cmd = "browse" /\ j.task = l
  BY <1>3, TasksFacts
<1>5. Become(pl, j) /\ UNCHANGED <<index, cache>> /\ job[pl].cmd = "idle"
      /\ \A q \in Places \ {pl} : job[q].cmd = "idle"
  BY DEF Browse, Ready, Alone, remote, l
<1> HIDE DEF j
<1>6. job'[pl] = j /\ \A q \in Places \ {pl} : job'[q] = job[q]
  BY <1>4, <1>5, BecomeFacts DEF OInv, RInv
<1>7. Tidy(pl)'
  BY <1>1, <1>3, <1>4, <1>5, <1>6
     DEF Tidy, TidyPush, TidyClean, TidyBrowse, TidyDelete, TidyPurge, Lonely, Deleting, Pushes, Indexed
<1>8. \A q \in Places \ {pl} : job[q].cmd \notin Deleting
  BY <1>5 DEF Deleting
<1> QED
  BY <1>5, <1>6, <1>7, <1>8, Harmless

LEMMA PurgeOrderly ==
  ASSUME Orderly, OInv, RInv', NEW pl \in Places, Purge(pl)
  PROVE  OInv'
<1> DEFINE S == {index[p].hash : p \in Indexed}
           j == PurgeJob("purge", S)
<1>1. S \in SUBSET (Data \cup (Places \X Paths))
  BY IndexEntries DEF OInv
<1>2. Become(pl, j) /\ UNCHANGED <<index, cache>> /\ job[pl].cmd = "idle"
      /\ \A q \in Places \ {pl} : job[q].cmd = "idle"
  BY DEF Purge, Ready, Alone, remote
<1>3. \A p \in Indexed : index[p].hash \in S
  OBVIOUS
<1> HIDE DEF S
<1>4. "purge" \in Running
  BY DEF Running
<1>5. j \in Job /\ j.cmd = "purge" /\ DOMAIN j.task = {} /\ j.hashes = S
  BY <1>1, <1>4, PurgeJobFacts
<1> HIDE DEF j
<1>6. job'[pl] = j /\ \A q \in Places \ {pl} : job'[q] = job[q]
  BY <1>2, <1>5, BecomeFacts DEF OInv, RInv
<1>7. Tidy(pl)'
  BY <1>2, <1>3, <1>5, <1>6
     DEF Tidy, TidyPush, TidyClean, TidyBrowse, TidyDelete, TidyPurge, Lonely, Deleting, Pushes, Indexed
<1>8. \A q \in Places \ {pl} : job[q].cmd \notin Deleting
  BY <1>2 DEF Deleting
<1> QED
  BY <1>2, <1>6, <1>7, <1>8, Harmless

LEMMA LocalOrderly ==
  ASSUME Orderly, OInv, RInv', NEW pl \in Places,
         (\E p \in Paths, c \in Contents : Write(pl, p, c)) \/ Sync(pl)
  PROVE  OInv'
<1>1. UNCHANGED <<index, cache, job>>
  BY DEF Write, Sync, remote
<1>2. Tidy(pl)
  BY DEF OInv
<1>3. Tidy(pl)'
  BY <1>1, <1>2 DEF Tidy, TidyPush, TidyClean, TidyBrowse, TidyDelete, TidyPurge, Lonely, Indexed
<1> QED
  BY <1>1, <1>3, Harmless

(* The steps of pushes: no deletion goes on meanwhile.                     *)
LEMMA PushOrderly ==
  ASSUME OInv, RInv', NEW pl \in Places, NEW p \in DOMAIN job[pl].task, job[pl].cmd \in Pushes,
         \A q \in Places \ {pl} : job'[q] = job[q],
         job'[pl].cmd = job[pl].cmd, DOMAIN job'[pl].task = DOMAIN job[pl].task,
         \A x \in DOMAIN job[pl].task \ {p} : job'[pl].task[x] = job[pl].task[x],
         \A h \in Data : cache[h] = h => cache'[h] = h,
         job'[pl].task[p].at \in {"ptr", "index", "ok"} =>
           cache'[job'[pl].task[p].hash] = job'[pl].task[p].hash
  PROVE  Tidy(pl)' /\ (UNCHANGED index => OInv')
<1>1. \A x \in DOMAIN job[pl].task \ {p} :
        job[pl].task[x].at \in {"ptr", "index", "ok"} => cache'[job[pl].task[x].hash] = job[pl].task[x].hash
  <2> SUFFICES ASSUME NEW x \in DOMAIN job[pl].task \ {p}, job[pl].task[x].at \in {"ptr", "index", "ok"}
               PROVE  cache'[job[pl].task[x].hash] = job[pl].task[x].hash
    OBVIOUS
  <2>1. HandledAt(pl, x) /\ x \in Paths
    BY JobFacts DEF OInv, RInv, Handled
  <2>2. job[pl].task[x].hash \in Data
    BY <2>1 DEF HandledAt, Has, OInv, RInv, DataOK, File
  <2>3. cache[job[pl].task[x].hash] = job[pl].task[x].hash
    BY DEF OInv, Tidy, TidyPush
  <2> QED
    BY <2>2, <2>3
<1>2. TidyPush(pl)'
  BY <1>1 DEF TidyPush
<1>3. job[pl].cmd \notin Deleting /\ job[pl].cmd # "clean" /\ job[pl].cmd # "idle"
  BY DEF Deleting, Pushes
<1>4. Tidy(pl)'
  BY <1>2, <1>3 DEF Tidy, TidyClean, TidyBrowse, TidyDelete, TidyPurge, Lonely, Deleting
<1>5. job[pl].cmd # "delete"
  BY <1>3 DEF Deleting
<1> QED
  BY <1>3, <1>4, <1>5, Harmless

LEMMA PushStepsOrderly ==
  ASSUME OInv, RInv', NEW pl \in Places, NEW p \in Paths,
         Compare(pl, p) \/ FindBlob(pl, p) \/ PutBlob(pl, p) \/ PushPointer(pl, p)
  PROVE  OInv'
<1>1. /\ p \in DOMAIN job[pl].task /\ job[pl].cmd \in Pushes /\ HandledAt(pl, p)
  BY AtFacts DEF Compare, FindBlob, PutBlob, PushPointer, OInv
<1>2. job[pl].cmd # "idle" /\ job[pl].cmd # "delete"
  BY <1>1 DEF Pushes
<1>3. CASE Compare(pl, p)
  <2> DEFINE h == Digest(pl, p)
  <2>1. files[pl][p] # Absent /\ h \in Data
    BY <1>1, DigestIsContent DEF HandledAt, OInv
  <2>2. PICK at \in {"ok", "skipped", "blob"} :
          /\ job' = [job EXCEPT ![pl].task[p] = NewTask(at, h, 0)]
          /\ at = "ok" => p \in Indexed /\ index[p].hash = h
          /\ UNCHANGED <<index, cache>>
    <3> USE DEF remote
    <3>1. ASSUME p \in Indexed, index[p].hash = h, job' = [job EXCEPT ![pl].task[p] = NewTask("ok", h, 0)]
          PROVE  \E at \in {"ok", "skipped", "blob"} :
                   /\ job' = [job EXCEPT ![pl].task[p] = NewTask(at, h, 0)]
                   /\ at = "ok" => p \in Indexed /\ index[p].hash = h
      BY <3>1
    <3>2. ASSUME NEW at \in {"skipped", "blob"}, job' = [job EXCEPT ![pl].task[p] = NewTask(at, h, 0)]
          PROVE  \E a \in {"ok", "skipped", "blob"} :
                   /\ job' = [job EXCEPT ![pl].task[p] = NewTask(a, h, 0)]
                   /\ a = "ok" => p \in Indexed /\ index[p].hash = h
      BY <3>2
    <3>3. UNCHANGED <<index, cache>>
      BY <1>3 DEF Compare
    <3> HIDE DEF h
    <3> QED
      BY <1>3, <3>1, <3>2, <3>3 DEF Compare, h
  <2>3. at = "ok" => cache[h] = h
    BY <1>2, <2>2, NoDeletion
  <2> DEFINE t == NewTask(at, h, 0)
  <2>4. t \in Task /\ t.at = at /\ t.hash = h
    BY <2>1, RemoteAssumption DEF NewTask, Task, Stages
  <2>5. job' = [job EXCEPT ![pl].task[p] = t]
    BY <2>2
  <2> HIDE DEF h, t
  <2>6. /\ \A q \in Places \ {pl} : job'[q] = job[q]
        /\ job'[pl].cmd = job[pl].cmd
        /\ DOMAIN job'[pl].task = DOMAIN job[pl].task
        /\ job'[pl].task[p] = t
        /\ \A x \in DOMAIN job[pl].task \ {p} : job'[pl].task[x] = job[pl].task[x]
    BY <1>1, <2>4, <2>5, SetTask DEF OInv, RInv
  <2> QED
    BY <1>1, <2>2, <2>3, <2>4, <2>6, PushOrderly
<1>4. CASE FindBlob(pl, p)
  <2>1. PICK at \in {"ptr", "put"} :
          Go(pl, p, at) /\ (at = "ptr" => job[pl].task[p].hash \in Blobs)
    BY <1>4 DEF FindBlob
  <2>2. UNCHANGED <<index, cache>>
    BY <1>4 DEF FindBlob
  <2>3. at = "ptr" => cache[job[pl].task[p].hash] = job[pl].task[p].hash
    BY <2>1 DEF Blobs, OInv, RInv, CacheTrue
  <2>4. at \in Stages
    BY DEF Stages
  <2>5. /\ \A q \in Places \ {pl} : job'[q] = job[q]
        /\ job'[pl].cmd = job[pl].cmd
        /\ DOMAIN job'[pl].task = DOMAIN job[pl].task
        /\ job'[pl].task[p].at = at /\ job'[pl].task[p].hash = job[pl].task[p].hash
        /\ \A x \in DOMAIN job[pl].task \ {p} : job'[pl].task[x] = job[pl].task[x]
    BY <1>1, <2>1, <2>4, GoFacts DEF OInv, RInv
  <2> QED
    BY <1>1, <2>2, <2>3, <2>5, PushOrderly
<1>5. CASE PutBlob(pl, p)
  <2>1. job[pl].task[p].at = "put"
    BY <1>5 DEF PutBlob, At
  <2>2. Has(pl, p, job[pl].task[p].hash) /\ job[pl].task[p].hash \in Data
    BY <1>1, <2>1 DEF HandledAt, Has, OInv, RInv, DataOK, File
  <2>3. PICK at \in {"ptr", "failed"} :
          /\ Go(pl, p, at)
          /\ \/ at = "ptr" /\ cache' = [cache EXCEPT ![job[pl].task[p].hash] = files[pl][p].content]
             \/ at = "failed" /\ cache' = cache
    BY <1>5 DEF PutBlob
  <2>4. UNCHANGED index
    BY <1>5 DEF PutBlob
  <2>5. /\ \A h \in Data : cache[h] = h => cache'[h] = h
        /\ at = "ptr" => cache'[job[pl].task[p].hash] = job[pl].task[p].hash
    BY <2>2, <2>3 DEF Has, OInv, RInv, DataOK
  <2>6. at \in Stages
    BY DEF Stages
  <2>7. /\ \A q \in Places \ {pl} : job'[q] = job[q]
        /\ job'[pl].cmd = job[pl].cmd
        /\ DOMAIN job'[pl].task = DOMAIN job[pl].task
        /\ job'[pl].task[p].at = at /\ job'[pl].task[p].hash = job[pl].task[p].hash
        /\ \A x \in DOMAIN job[pl].task \ {p} : job'[pl].task[x] = job[pl].task[x]
    BY <1>1, <2>3, <2>6, GoFacts DEF OInv, RInv
  <2> QED
    BY <1>1, <2>3, <2>4, <2>5, <2>7, PushOrderly
<1>6. CASE PushPointer(pl, p)
  <2> DEFINE h == job[pl].task[p].hash
             t == NewTask("index", h, files[pl][p].mtime)
  <2>1. job[pl].task[p].at = "ptr"
    BY <1>6 DEF PushPointer, At
  <2>2. /\ Has(pl, p, h) /\ h \in Data /\ files[pl][p].mtime \in 0..MaxClock
    BY <1>1, <2>1 DEF HandledAt, Has, OInv, RInv, DataOK, File
  <2>3. t \in Task /\ t.hash = h
    BY <2>2 DEF NewTask, Task, Stages
  <2>4. job' = [job EXCEPT ![pl].task[p] = t] /\ UNCHANGED <<index, cache>>
    BY <1>6 DEF PushPointer, remote
  <2>5. cache[h] = h
    BY <1>1, <2>1 DEF OInv, Tidy, TidyPush
  <2> HIDE DEF h, t
  <2>6. /\ \A q \in Places \ {pl} : job'[q] = job[q]
        /\ job'[pl].cmd = job[pl].cmd
        /\ DOMAIN job'[pl].task = DOMAIN job[pl].task
        /\ job'[pl].task[p] = t
        /\ \A x \in DOMAIN job[pl].task \ {p} : job'[pl].task[x] = job[pl].task[x]
    BY <1>1, <2>3, <2>4, SetTask DEF OInv, RInv
  <2> QED
    BY <1>1, <2>3, <2>4, <2>5, <2>6, PushOrderly
<1> QED
  BY <1>3, <1>4, <1>5, <1>6

(* The pointer is stored when its blob is.                                 *)
LEMMA PushIndexOrderly ==
  ASSUME OInv, RInv', NEW pl \in Places, NEW p \in Paths, PushIndex(pl, p)
  PROVE  /\ OInv'
         /\ index' = [index EXCEPT ![p] = [hash |-> job[pl].task[p].hash, mtime |-> job[pl].task[p].mtime]]
         /\ cache[job[pl].task[p].hash] = job[pl].task[p].hash /\ job[pl].task[p].hash \in Data
         /\ \A q \in Places : job'[q].cmd = job[q].cmd /\ DOMAIN job'[q].task = DOMAIN job[q].task
<1> DEFINE t == job[pl].task[p]
           e == [hash |-> t.hash, mtime |-> t.mtime]
<1>1. /\ p \in DOMAIN job[pl].task /\ job[pl].cmd \in Pushes /\ HandledAt(pl, p)
      /\ t.at = "index"
  BY AtFacts DEF PushIndex, OInv
<1>2. index' = [index EXCEPT ![p] = e] /\ Go(pl, p, "ok") /\ UNCHANGED cache
  BY DEF PushIndex
<1>3. cache[t.hash] = t.hash /\ t.hash \in Data
  BY <1>1 DEF OInv, Tidy, TidyPush, HandledAt, Has, RInv, DataOK, File
<1>4. "ok" \in Stages
  BY DEF Stages
<1>5. /\ \A q \in Places \ {pl} : job'[q] = job[q]
      /\ job'[pl].cmd = job[pl].cmd
      /\ DOMAIN job'[pl].task = DOMAIN job[pl].task
      /\ job'[pl].task[p].at = "ok" /\ job'[pl].task[p].hash = t.hash
      /\ \A x \in DOMAIN job[pl].task \ {p} : job'[pl].task[x] = job[pl].task[x]
  BY <1>1, <1>2, <1>4, GoFacts DEF OInv, RInv
<1>6. Tidy(pl)'
  BY <1>1, <1>2, <1>3, <1>5, PushOrderly
<1>7. job[pl].cmd # "idle" /\ job[pl].cmd # "delete"
  BY <1>1 DEF Pushes
<1>8. \A q \in Places \ {pl} : Tidy(q)'
  BY <1>2, <1>5, <1>7, OthersTidy
<1>9. IndexNamesBlob'
  <2>1. \A x \in Indexed : cache[index[x].hash] = index[x].hash
    BY <1>7, NoDeletion
  <2>2. e.hash = t.hash
    OBVIOUS
  <2> HIDE DEF e
  <2>3. \A x \in Paths : index'[x] = IF x = p THEN e ELSE index[x]
    BY <1>2 DEF OInv, RInv, DataOK
  <2>4. \A x \in Paths : index'[x] \notin {Absent, Corrupt} => cache'[index'[x].hash] = index'[x].hash
    BY <1>2, <1>3, <2>1, <2>2, <2>3 DEF Indexed
  <2> QED
    BY <2>4 DEF IndexNamesBlob, Indexed
<1> QED
  BY <1>2, <1>3, <1>5, <1>6, <1>8, <1>9 DEF OInv

(* Errors, and the steps of pulls.                                         *)
LEMMA PullStepsOrderly ==
  ASSUME OInv, RInv', NEW pl \in Places, NEW p \in Paths,
         SftpError(pl, p) \/ Check(pl, p) \/ Get(pl, p) \/ Land(pl, p) \/ PullPointer(pl, p)
  PROVE  OInv'
<1>1. /\ p \in DOMAIN job[pl].task /\ job[pl].cmd \in Pushes \cup {"pull"}
      /\ UNCHANGED <<index, cache>>
  BY DEF SftpError, Check, Get, Land, PullPointer, At, remote
<1>2. \E at \in Stages : Go(pl, p, at) /\ (job[pl].cmd \in Pushes => at = "failed")
  BY DEF SftpError, Check, Get, Land, PullPointer, At, Pushes, Stages
<1>3. PICK at \in Stages : Go(pl, p, at) /\ (job[pl].cmd \in Pushes => at = "failed")
  BY <1>2
<1>4. /\ \A q \in Places \ {pl} : job'[q] = job[q]
      /\ job'[pl].cmd = job[pl].cmd
      /\ DOMAIN job'[pl].task = DOMAIN job[pl].task
      /\ job'[pl].task[p].at = at
      /\ \A x \in DOMAIN job[pl].task \ {p} : job'[pl].task[x] = job[pl].task[x]
  BY <1>1, <1>3, GoFacts DEF OInv, RInv
<1>5. CASE job[pl].cmd \in Pushes
  BY <1>1, <1>3, <1>4, <1>5, PushOrderly
<1>6. CASE job[pl].cmd = "pull"
  <2>1. Tidy(pl)'
    BY <1>4, <1>6 DEF Tidy, TidyPush, TidyClean, TidyBrowse, TidyDelete, TidyPurge, Lonely, Deleting, Pushes
  <2> QED
    BY <1>1, <1>4, <1>6, <2>1, Harmless
<1> QED
  BY <1>1, <1>5, <1>6

(* ls goes on with what it has seen.                                       *)
LEMMA BrowsePullOrderly ==
  ASSUME OInv, RInv', NEW pl \in Places, NEW S \in SUBSET Paths, BrowsePull(pl, S)
  PROVE  OInv'
<1> DEFINE seen == job[pl].task
           j == NewJob("pull", PullTasks(S, seen))
<1>1. /\ job[pl].cmd = "browse" /\ S \subseteq DOMAIN seen
      /\ Become(pl, j) /\ UNCHANGED <<index, cache>>
  BY DEF BrowsePull, remote
<1>2. \A p \in S : seen[p].hash \in Data
  BY <1>1, JobFacts DEF OInv, RInv, Handled, HandledAt
<1> HIDE DEF seen
<1>3. j \in Job /\ j.cmd = "pull"
  BY <1>2, PullJobFacts
<1> HIDE DEF j
<1>4. job'[pl] = j /\ \A q \in Places \ {pl} : job'[q] = job[q]
  BY <1>1, <1>3, BecomeFacts DEF OInv, RInv
<1>5. Tidy(pl)'
  BY <1>3, <1>4 DEF Tidy, TidyPush, TidyClean, TidyBrowse, TidyDelete, TidyPurge, Lonely, Deleting, Pushes
<1> QED
  BY <1>1, <1>4, <1>5, Harmless

LEMMA BrowseDeleteOrderly ==
  ASSUME Orderly, OInv, RInv', NEW pl \in Places, NEW S \in SUBSET Paths, BrowseDelete(pl, S)
  PROVE  OInv'
<1> DEFINE seen == job[pl].task
           l == [p \in S |-> NewTask("blob", seen[p].hash, seen[p].mtime)]
           j == NewJob("delete", l)
<1>1. /\ job[pl].cmd = "browse" /\ S \subseteq DOMAIN seen /\ Unshared(S)
      /\ Become(pl, j) /\ UNCHANGED <<index, cache>>
  BY DEF BrowseDelete, remote
<1>2. \A p \in S : seen[p].hash \in Data /\ seen[p].mtime \in 0..MaxClock
  BY <1>1, JobFacts DEF OInv, RInv, Handled, HandledAt, Task
<1>3. \A p \in S : l[p] \in Task /\ l[p].at = "blob" /\ l[p].hash = seen[p].hash
  BY <1>2 DEF NewTask, Task, Stages
<1>4. l \in [S -> Task]
  BY <1>3
<1>5. l \in TaskList /\ DOMAIN l = S
  BY <1>4, TaskListIntro
<1> HIDE DEF l
<1>6. j \in Job /\ j.cmd = "delete" /\ j.task = l
  BY <1>5, TasksFacts
<1>7. \A p \in S : p \in Indexed /\ index[p].hash = seen[p].hash
  BY <1>1 DEF OInv, Tidy, TidyBrowse
<1> HIDE DEF j, seen
<1>8. job'[pl] = j /\ \A q \in Places \ {pl} : job'[q] = job[q]
  BY <1>1, <1>6, BecomeFacts DEF OInv, RInv
<1>9. \A q \in Places \ {pl} : job'[q].cmd = "idle"
  BY <1>1, <1>8, AloneTidy DEF Deleting
<1>10. TidyDelete(pl)'
  BY <1>1, <1>3, <1>5, <1>6, <1>7, <1>8 DEF TidyDelete, Unshared, Indexed
<1>11. Tidy(pl)'
  BY <1>6, <1>8, <1>9, <1>10 DEF Tidy, TidyPush, TidyClean, TidyBrowse, TidyPurge, Lonely, Pushes
<1> QED
  BY <1>1, <1>8, <1>11, Harmless

LEMMA DeleteBlobOrderly ==
  ASSUME OInv, RInv', NEW pl \in Places, NEW p \in Paths, DeleteBlob(pl, p)
  PROVE  /\ OInv'
         /\ p \in DOMAIN job[pl].task /\ job[pl].cmd = "delete" /\ UNCHANGED index
         /\ cache' = [cache EXCEPT ![job[pl].task[p].hash] = Absent]
         /\ \A q \in Places : job'[q].cmd = job[q].cmd /\ DOMAIN job'[q].task = DOMAIN job[q].task
<1> DEFINE h == job[pl].task[p].hash
<1>1. /\ p \in DOMAIN job[pl].task /\ job[pl].cmd = "delete" /\ job[pl].task[p].at = "blob"
      /\ Go(pl, p, "index") /\ UNCHANGED index /\ cache' = [cache EXCEPT ![h] = Absent]
  BY DEF DeleteBlob, At
<1>2. "index" \in Stages
  BY DEF Stages
<1>3. /\ \A q \in Places \ {pl} : job'[q] = job[q]
      /\ job'[pl].cmd = job[pl].cmd
      /\ DOMAIN job'[pl].task = DOMAIN job[pl].task
      /\ job'[pl].task[p].at = "index" /\ job'[pl].task[p].hash = h
      /\ \A x \in DOMAIN job[pl].task \ {p} : job'[pl].task[x] = job[pl].task[x]
  BY <1>1, <1>2, GoFacts DEF OInv, RInv
<1>4. \A q \in Places \ {pl} : Tidy(q)' /\ job'[q].cmd = "idle"
  BY <1>1, <1>3, AloneTidy DEF Deleting
<1>5. TidyDelete(pl)'
  <2>1. TidyDelete(pl)
    BY DEF OInv, Tidy
  <2>2. p \in Indexed /\ index[p].hash = h
    BY <1>1, <2>1 DEF TidyDelete
  <2> HIDE DEF h
  <2> QED
    BY <1>1, <1>3, <2>1, <2>2 DEF TidyDelete, Indexed
<1>6. Tidy(pl)'
  BY <1>1, <1>3, <1>4, <1>5 DEF Tidy, TidyPush, TidyClean, TidyBrowse, TidyPurge, Lonely, Pushes
<1>7. IndexNamesBlob'
  <2> SUFFICES ASSUME NEW x \in Indexed
               PROVE  \/ cache'[index[x].hash] = index[x].hash
                      \/ \E q \in Places : job'[q].cmd = "delete" /\ x \in DOMAIN job'[q].task
    BY <1>1 DEF IndexNamesBlob, Indexed
  <2>1. CASE x \in DOMAIN job[pl].task
    BY <1>1, <1>3, <2>1
  <2>2. CASE x \notin DOMAIN job[pl].task
    <3>1. index[x].hash # h
      BY <1>1, <2>2 DEF OInv, Tidy, TidyDelete
    <3>2. cache[index[x].hash] = index[x].hash
      <4>1. \A q \in Places \ {pl} : job[q].cmd # "delete"
        BY <1>1 DEF OInv, Tidy, Lonely, Deleting
      <4> QED
        BY <2>2, <4>1 DEF OInv, IndexNamesBlob
    <3>3. index[x].hash \in Data
      BY IndexEntries DEF OInv
    <3> HIDE DEF h
    <3> QED
      BY <1>1, <3>1, <3>2, <3>3 DEF OInv, RInv, DataOK
  <2> QED
    BY <2>1, <2>2
<1> QED
  BY <1>1, <1>3, <1>4, <1>6, <1>7 DEF OInv

LEMMA DeleteIndexOrderly ==
  ASSUME OInv, RInv', NEW pl \in Places, NEW p \in Paths, DeleteIndex(pl, p)
  PROVE  /\ OInv'
         /\ p \in DOMAIN job[pl].task /\ job[pl].cmd = "delete" /\ UNCHANGED cache
         /\ index' = [index EXCEPT ![p] = Absent]
         /\ \A q \in Places : job'[q].cmd = job[q].cmd /\ DOMAIN job'[q].task = DOMAIN job[q].task
<1>1. /\ p \in DOMAIN job[pl].task /\ job[pl].cmd = "delete"
      /\ Go(pl, p, "ok") /\ UNCHANGED cache /\ index' = [index EXCEPT ![p] = Absent]
  BY DEF DeleteIndex, At
<1>2. "ok" \in Stages
  BY DEF Stages
<1>3. /\ \A q \in Places \ {pl} : job'[q] = job[q]
      /\ job'[pl].cmd = job[pl].cmd
      /\ DOMAIN job'[pl].task = DOMAIN job[pl].task
      /\ job'[pl].task[p].at = "ok" /\ job'[pl].task[p].hash = job[pl].task[p].hash
      /\ \A x \in DOMAIN job[pl].task \ {p} : job'[pl].task[x] = job[pl].task[x]
  BY <1>1, <1>2, GoFacts DEF OInv, RInv
<1>4. \A q \in Places \ {pl} : Tidy(q)' /\ job'[q].cmd = "idle"
  BY <1>1, <1>3, AloneTidy DEF Deleting
<1>5. \A x \in Paths : index'[x] = IF x = p THEN Absent ELSE index[x]
  BY <1>1 DEF OInv, RInv, DataOK
<1>6. Indexed' = Indexed \ {p} /\ p \in Paths
  BY <1>5 DEF Indexed
<1>7. \A x \in Indexed' : index'[x] = index[x]
  BY <1>5, <1>6 DEF Indexed
<1>8. TidyDelete(pl)'
  <2>1. TidyDelete(pl)
    BY DEF OInv, Tidy
  <2> QED
    BY <1>1, <1>3, <1>6, <1>7, <2>1 DEF TidyDelete
<1>9. Tidy(pl)'
  BY <1>1, <1>3, <1>4, <1>8 DEF Tidy, TidyPush, TidyClean, TidyBrowse, TidyPurge, Lonely, Pushes
<1>10. IndexNamesBlob'
  <2> SUFFICES ASSUME NEW x \in Indexed, x \in Indexed'
               PROVE  \/ cache[index[x].hash] = index[x].hash
                      \/ \E q \in Places : job'[q].cmd = "delete" /\ x \in DOMAIN job'[q].task
    BY <1>1, <1>6, <1>7 DEF IndexNamesBlob
  <2>1. ASSUME NEW q \in Places, job[q].cmd = "delete", x \in DOMAIN job[q].task
        PROVE  job'[q].cmd = "delete" /\ x \in DOMAIN job'[q].task
    BY <1>3, <2>1
  <2>2. x \in Paths
    BY DEF Indexed
  <2> QED
    BY <2>1, <2>2 DEF OInv, IndexNamesBlob
<1> QED
  BY <1>1, <1>3, <1>4, <1>9, <1>10 DEF OInv

(* purge removes what no pointer named.                                    *)
LEMMA ListOrphansOrderly ==
  ASSUME OInv, RInv', NEW pl \in Places, ListOrphans(pl)
  PROVE  OInv'
<1> DEFINE S == (Blobs \cup temps) \ job[pl].hashes
           j == PurgeJob("orphans", S)
<1>1. job[pl].cmd = "purge" /\ Become(pl, j) /\ UNCHANGED <<index, cache>>
  BY DEF ListOrphans, remote
<1>2. \A p \in Indexed : index[p].hash \notin S
  BY <1>1 DEF OInv, Tidy, TidyPurge
<1>3. S \in SUBSET (Data \cup (Places \X Paths)) /\ "orphans" \in Running
  BY DEF Blobs, OInv, RInv, DataOK, Running
<1> HIDE DEF S
<1>4. j \in Job /\ j.cmd = "orphans" /\ DOMAIN j.task = {} /\ j.hashes = S
  BY <1>3, PurgeJobFacts
<1> HIDE DEF j
<1>5. job'[pl] = j /\ \A q \in Places \ {pl} : job'[q] = job[q]
  BY <1>1, <1>4, BecomeFacts DEF OInv, RInv
<1>6. \A q \in Places \ {pl} : job'[q].cmd = "idle"
  BY <1>1, <1>5, AloneTidy DEF Deleting
<1>7. Tidy(pl)'
  BY <1>1, <1>2, <1>4, <1>5, <1>6
     DEF Tidy, TidyPush, TidyClean, TidyBrowse, TidyDelete, TidyPurge, Lonely, Pushes, Indexed
<1> QED
  BY <1>1, <1>5, <1>7, Harmless

LEMMA RemoveOrphanOrderly ==
  ASSUME OInv, RInv', NEW pl \in Places, RemoveOrphan(pl)
  PROVE  OInv' /\ UNCHANGED index /\ \A p \in Indexed : cache'[index[p].hash] = cache[index[p].hash]
<1>1. PICK h \in job[pl].hashes :
        /\ job[pl].cmd = "orphans" /\ UNCHANGED index
        /\ cache' = [b \in Data |-> IF b = h THEN Absent ELSE cache[b]]
        /\ Become(pl, PurgeJob("orphans", job[pl].hashes \ {h}))
  BY DEF RemoveOrphan
<1> DEFINE S == job[pl].hashes \ {h}
           j == PurgeJob("orphans", S)
<1>2. \A p \in Indexed : index[p].hash \notin job[pl].hashes /\ index[p].hash \in Data
  BY <1>1, IndexEntries DEF OInv, Tidy, TidyPurge
<1>3. S \in SUBSET (Data \cup (Places \X Paths)) /\ "orphans" \in Running
  BY JobFacts DEF OInv, RInv, Job, Running
<1>4. \A p \in Indexed : index[p].hash \notin S
  BY <1>2
<1> HIDE DEF S
<1>5. j \in Job /\ j.cmd = "orphans" /\ DOMAIN j.task = {} /\ j.hashes = S
  BY <1>3, PurgeJobFacts
<1>6. Become(pl, j)
  BY <1>1 DEF S
<1> HIDE DEF j
<1>7. job'[pl] = j /\ \A q \in Places \ {pl} : job'[q] = job[q]
  BY <1>5, <1>6, BecomeFacts DEF OInv, RInv
<1>8. \A q \in Places \ {pl} : Tidy(q)' /\ job'[q].cmd = "idle"
  BY <1>1, <1>7, AloneTidy DEF Deleting
<1>9. Tidy(pl)'
  BY <1>1, <1>4, <1>5, <1>7, <1>8
     DEF Tidy, TidyPush, TidyClean, TidyBrowse, TidyDelete, TidyPurge, Lonely, Pushes, Indexed
<1>10. \A p \in Indexed : cache'[index[p].hash] = cache[index[p].hash]
  BY <1>1, <1>2
<1>11. \A p \in Indexed : cache[index[p].hash] = index[p].hash
  BY <1>1, NoDeletion
<1>12. IndexNamesBlob'
  BY <1>1, <1>10, <1>11 DEF IndexNamesBlob, Indexed
<1> QED
  BY <1>1, <1>8, <1>9, <1>10, <1>12 DEF OInv

-----------------------------------------------------------------------------
LEMMA OInvInit == Init => OInv
<1> SUFFICES ASSUME Init PROVE OInv
  OBVIOUS
<1>1. RInv
  BY RInvInit
<1>2. \A pl \in Places : job[pl].cmd = "idle"
  <2>1. Idle.cmd = "idle"
    BY IdleFacts
  <2> HIDE DEF Idle
  <2> QED
    BY <2>1 DEF Init
<1>3. \A pl \in Places : Tidy(pl)
  BY <1>2, TidyIdle
<1>4. IndexNamesBlob
  BY DEF Init, IndexNamesBlob, Indexed
<1> QED
  BY <1>1, <1>3, <1>4 DEF OInv

LEMMA OInvStep ==
  ASSUME Orderly, OInv, [Next]_vars
  PROVE  OInv'
<1>1. RInv'
  BY RInvStep DEF OInv
<1>2. CASE UNCHANGED vars
  BY <1>1, <1>2 DEF vars, remote, local, OInv, IndexNamesBlob, Indexed,
     Tidy, TidyPush, TidyClean, TidyBrowse, TidyDelete, TidyPurge, Lonely
<1>3. ASSUME NEW pl \in Places, NEW p \in Paths, FileStep(pl, p)
      PROVE  OInv'
  <2>1. CASE \E c \in Contents : Write(pl, p, c)
    BY <1>1, <2>1, LocalOrderly
  <2>2. CASE PushStep(pl, p)
    BY <1>1, <2>2, PushStepsOrderly, PushIndexOrderly DEF PushStep
  <2>3. CASE PullStep(pl, p) \/ SftpError(pl, p)
    BY <1>1, <2>3, PullStepsOrderly DEF PullStep
  <2>4. CASE PullName(pl, p) \/ EnsureLocal(pl, p)
    BY <1>1, <2>4, PullNameOrderly, EnsureLocalOrderly
  <2>5. CASE DeleteBlob(pl, p) \/ DeleteIndex(pl, p)
    BY <1>1, <2>5, DeleteBlobOrderly, DeleteIndexOrderly
  <2> QED
    BY <1>3, <2>1, <2>2, <2>3, <2>4, <2>5 DEF FileStep
<1>4. ASSUME NEW pl \in Places, NEW S \in SUBSET Paths, FilesStep(pl, S)
      PROVE  OInv'
  <2>1. CASE \E force \in BOOLEAN : StartPush(pl, S, force)
    <3>1. /\ Ready(pl, "push") /\ Undisturbed(pl) /\ UNCHANGED remote
          /\ \E force \in BOOLEAN : Become(pl, PushJob("push", S, force))
      BY <2>1 DEF StartPush
    <3>2. "push" \in Pushes
      BY DEF Pushes
    <3> QED
      BY <1>1, <3>1, <3>2, StartPushOrderly
  <2>2. CASE BrowsePull(pl, S) \/ BrowseDelete(pl, S)
    BY <1>1, <2>2, BrowsePullOrderly, BrowseDeleteOrderly
  <2> QED
    BY <1>4, <2>1, <2>2 DEF FilesStep
<1>5. ASSUME NEW pl \in Places, CommandStep(pl)
      PROVE  OInv'
  <2>1. CASE StartOverrides(pl)
    <3> DEFINE S == {p \in Pointed(pl) \cap Present(pl) : ptrs[pl][p].override}
    <3>1. S \in SUBSET Paths
      BY DEF Present
    <3>2. /\ Ready(pl, "overrides") /\ Undisturbed(pl) /\ UNCHANGED remote
          /\ \E force \in BOOLEAN : Become(pl, PushJob("overrides", S, force))
      BY <2>1 DEF StartOverrides
    <3> HIDE DEF S
    <3>3. "overrides" \in Pushes
      BY DEF Pushes
    <3> QED
      BY <1>1, <3>1, <3>2, <3>3, StartPushOrderly
  <2>2. CASE Sync(pl)
    BY <1>1, <2>2, LocalOrderly
  <2>3. CASE EndPush(pl) \/ EndPull(pl) \/ EndBrowse(pl) \/ EndClean(pl) \/ EndPurge(pl) \/ Kill(pl)
    BY <1>1, <2>3, EndsOrderly
  <2>4. CASE Browse(pl) \/ Clean(pl) \/ Purge(pl)
    BY <1>1, <2>4, BrowseOrderly, CleanOrderly, PurgeOrderly
  <2>5. CASE ListOrphans(pl) \/ RemoveOrphan(pl)
    BY <1>1, <2>5, ListOrphansOrderly, RemoveOrphanOrderly
  <2> QED
    BY <1>5, <2>1, <2>2, <2>3, <2>4, <2>5 DEF CommandStep
<1> QED
  BY <1>2, <1>3, <1>4, <1>5 DEF Next

LEMMA OInvariant ==
  ASSUME Orderly
  PROVE  Spec => []OInv
<1>1. Init => OInv
  BY OInvInit
<1>2. OInv /\ [Next]_vars => OInv'
  BY OInvStep
<1> QED
  BY <1>1, <1>2, PTL DEF Spec

(* Orderly deletions provided, every pointer of the index names a blob     *)
(* that is there with the content of that name, whatever is pushed, pulled *)
(* or purged, fails or is killed.                                          *)
THEOREM PointersCanBePulled ==
  ASSUME Orderly
  PROVE  Spec => []IndexNamesBlob
<1>1. OInv => IndexNamesBlob
  BY DEF OInv
<1> QED
  BY <1>1, OInvariant, PTL

-----------------------------------------------------------------------------
(* Local files are deleted by push -y and clean only.                      *)

Deleted(pl, p) == files[pl][p] # Absent /\ files'[pl][p] = Absent

LEMMA WhoDeletes ==
  ASSUME RInv, NEW pl \in Places, NEW p \in Paths, [Next]_vars, Deleted(pl, p)
  PROVE  /\ p \in DOMAIN job[pl].task /\ UNCHANGED cache
         /\ \/ job[pl].cmd \in Pushes /\ job[pl].task[p].at = "ok"
            \/ job[pl].cmd = "clean"
<1>1. files' # files
  BY DEF Deleted
<1>2. \A q \in Places, x \in Paths, f \in File :
        files' = [files EXCEPT ![q][x] = f] => ~Deleted(pl, p)
  <2> SUFFICES ASSUME NEW q \in Places, NEW x \in Paths, NEW f \in File,
                      files' = [files EXCEPT ![q][x] = f], Deleted(pl, p)
               PROVE  FALSE
    OBVIOUS
  <2>1. files'[pl][p] = f \/ files'[pl][p] = files[pl][p]
    BY DEF RInv, DataOK
  <2>2. f # Absent
    BY RemoteAssumption
  <2> QED
    BY <2>1, <2>2 DEF Deleted
<1>3. ASSUME NEW q \in Places, NEW S, Without(q, S)
      PROVE  q = pl /\ p \in S
  BY <1>3, WithoutFacts DEF Deleted, RInv
<1>4. PICK q \in Places : \/ \E x \in Paths : FileStep(q, x)
                          \/ \E S \in SUBSET Paths : FilesStep(q, S)
                          \/ CommandStep(q)
  BY <1>1 DEF Next, vars, local
<1>5. CASE \E x \in Paths : FileStep(q, x)
  <2>1. PICK x \in Paths : FileStep(q, x)
    BY <1>5
  <2>2. \/ \E c \in Contents : Write(q, x, c)
        \/ Get(q, x) \/ Land(q, x)
    BY <1>1, <2>1 DEF FileStep, PushStep, PullStep, Compare, FindBlob, PutBlob, PushPointer, PushIndex, Check,
       PullPointer, SftpError, PullName, EnsureLocal, DeleteBlob, DeleteIndex, local
  <2>3. clock + 1 \in 0..MaxClock \/ ~(clock < MaxClock)
    BY RemoteAssumption DEF RInv, DataOK
  <2>4. CASE \E c \in Contents : Write(q, x, c)
    <3>1. PICK c \in Contents : Write(q, x, c)
      BY <2>4
    <3> DEFINE f == [content |-> c, mtime |-> clock + 1]
    <3>2. f \in File /\ files' = [files EXCEPT ![q][x] = f]
      BY <2>3, <3>1 DEF Write, File, Data
    <3> HIDE DEF f
    <3> QED
      BY <1>2, <3>2
  <2>5. CASE Get(q, x)
    <3> DEFINE f == [content |-> Torn, mtime |-> clock + 1]
    <3>1. f \in File /\ files' = [files EXCEPT ![q][x] = f]
      BY <1>1, <2>3, <2>5 DEF Get, File, Data
    <3> HIDE DEF f
    <3> QED
      BY <1>2, <3>1
  <2>6. CASE Land(q, x)
    <3> DEFINE h == job[q].task[x].hash
               f == [files[q][x] EXCEPT !.content = cache[h]]
    <3>1. /\ x \in DOMAIN job[q].task /\ job[q].cmd = "pull" /\ HandledAt(q, x)
          /\ job[q].task[x].at = "land"
      BY <2>6, AtFacts DEF Land
    <3>2. h \in Data /\ files[q][x] \in File /\ cache[h] \in Data
      BY <2>6, <3>1 DEF Land, HandledAt, RInv, DataOK
    <3>3. f \in File
      BY <3>2 DEF File
    <3>4. files' = [files EXCEPT ![q][x] = f]
      BY <2>6 DEF Land
    <3> HIDE DEF f
    <3> QED
      BY <1>2, <3>3, <3>4
  <2> QED
    BY <2>2, <2>4, <2>5, <2>6
<1>6. CASE \E S \in SUBSET Paths : FilesStep(q, S)
  BY <1>1, <1>6 DEF FilesStep, StartPush, BrowsePull, BrowseDelete, local
<1>7. CASE CommandStep(q)
  <2>1. EndPush(q) \/ EndClean(q)
    BY <1>1, <1>7 DEF CommandStep, StartOverrides, Sync, EndPull, Browse, EndBrowse, Clean, Purge, ListOrphans,
       RemoveOrphan, EndPurge, Kill, local
  <2>2. CASE EndPush(q)
    <3>1. /\ job[q].cmd \in Pushes /\ UNCHANGED cache
          /\ Without(q, {x \in DOMAIN job[q].task : job[q].task[x].at = "ok"})
      BY <1>1, <2>2 DEF EndPush, remote
    <3> QED
      BY <1>3, <3>1
  <2>3. CASE EndClean(q)
    <3>1. job[q].cmd = "clean" /\ UNCHANGED cache /\ Without(q, DOMAIN job[q].task)
      BY <1>1, <2>3 DEF EndClean, remote
    <3> QED
      BY <1>3, <3>1
  <2> QED
    BY <2>1, <2>2, <2>3
<1> QED
  BY <1>4, <1>5, <1>6, <1>7

(* Orderly deletions provided, a local file is only deleted when its       *)
(* content is in the store at that moment.                                 *)
THEOREM NothingDeletedUnsaved ==
  ASSUME Orderly
  PROVE  Spec => DeletedIsStored
<1> DEFINE A == \A pl \in Places, p \in Paths :
                  files[pl][p] # Absent /\ files'[pl][p] = Absent
                    => \E h \in Data : cache[h] = files[pl][p].content
<1>1. OInv /\ [Next]_vars => A
  <2> SUFFICES ASSUME OInv, [Next]_vars, NEW pl \in Places, NEW p \in Paths, Deleted(pl, p)
               PROVE  \E h \in Data : cache[h] = files[pl][p].content
    BY DEF Deleted
  <2>1. /\ p \in DOMAIN job[pl].task
        /\ \/ job[pl].cmd \in Pushes /\ job[pl].task[p].at = "ok"
           \/ job[pl].cmd = "clean"
    BY WhoDeletes DEF OInv
  <2>2. HandledAt(pl, p) /\ Tidy(pl)
    BY <2>1 DEF OInv, RInv, Handled
  <2>3. Has(pl, p, job[pl].task[p].hash) /\ cache[job[pl].task[p].hash] = job[pl].task[p].hash
    BY <2>1, <2>2 DEF HandledAt, Tidy, TidyPush, TidyClean
  <2>4. files[pl][p].content \in Data
    BY <2>3 DEF Has, OInv, RInv, DataOK, File
  <2> QED
    BY <2>3, <2>4 DEF Has
<1>2. OInv /\ [Next]_vars => [A]_vars
  BY <1>1
<1> QED
  BY <1>2, OInvariant, PTL DEF Spec, DeletedIsStored

-----------------------------------------------------------------------------
(* The map from paths to contents.                                         *)

Fetched(p) == IF p \in Indexed THEN cache[index[p].hash] ELSE Absent
stored == [p \in Paths |-> Fetched(p)]
asking == UNION {IF job[pl].cmd = "delete" THEN DOMAIN job[pl].task ELSE {} : pl \in Places}

(* The steps of the map, written out.                                      *)
StoreStep ==
  \/ \E p \in Paths : stored'[p] # Absent /\ stored' = [stored EXCEPT ![p] = stored'[p]] /\ UNCHANGED asking
  \/ \E gone \in SUBSET asking :
       stored' = [p \in Paths |-> IF p \in gone THEN Absent ELSE stored[p]] /\ UNCHANGED asking
  \/ asking' \subseteq Paths /\ UNCHANGED stored

LEMMA AskStep ==
  ASSUME OInv, OInv', UNCHANGED index, \A p \in Indexed : cache'[index[p].hash] = cache[index[p].hash]
  PROVE  StoreStep
<1>1. asking' \subseteq Paths
  <2>1. SUFFICES ASSUME NEW pl \in Places
                 PROVE  DOMAIN job'[pl].task \subseteq Paths
    BY DEF asking
  <2>2. job'[pl] \in Job
    BY DEF OInv, RInv, JobOK
  <2>3. job'[pl].task \in TaskList
    BY <2>2 DEF Job
  <2> QED
    BY <2>3, TaskListFacts
<1>2. UNCHANGED stored
  BY DEF stored, Fetched, Indexed
<1> QED
  BY <1>1, <1>2 DEF StoreStep

LEMMA SameAsking ==
  ASSUME \A q \in Places : job'[q].cmd = job[q].cmd /\ DOMAIN job'[q].task = DOMAIN job[q].task
  PROVE  UNCHANGED asking
BY DEF asking

LEMMA PushIsPut ==
  ASSUME OInv, OInv', NEW pl \in Places, NEW p \in Paths, PushIndex(pl, p)
  PROVE  StoreStep
<1> DEFINE h == job[pl].task[p].hash
           e == [hash |-> h, mtime |-> job[pl].task[p].mtime]
<1>1. /\ index' = [index EXCEPT ![p] = e]
      /\ cache[h] = h /\ h \in Data /\ UNCHANGED cache
      /\ UNCHANGED asking
  BY PushIndexOrderly, SameAsking DEF PushIndex, OInv
<1>2. e.hash = h
  OBVIOUS
<1> HIDE DEF e, h
<1>3. \A x \in Paths : index'[x] = IF x = p THEN e ELSE index[x]
  BY <1>1 DEF OInv, RInv, DataOK
<1>4. e \in Entry
  BY <1>1, <1>2, AtFacts DEF PushIndex, OInv, RInv, e, h, Entry, Task
<1>5. e \notin {Absent, Corrupt} /\ h # Absent
  BY <1>1, <1>4, RemoteAssumption
<1>6. \A x \in Paths : Fetched(x)' = IF x = p THEN h ELSE Fetched(x)
  BY <1>1, <1>2, <1>3, <1>5 DEF Fetched, Indexed
<1>7. stored'[p] = h /\ stored' = [stored EXCEPT ![p] = h]
  BY <1>6 DEF stored
<1> QED
  BY <1>1, <1>5, <1>7 DEF StoreStep

LEMMA DeletionIsRemove ==
  ASSUME OInv, OInv', NEW pl \in Places, NEW p \in Paths, DeleteBlob(pl, p) \/ DeleteIndex(pl, p)
  PROVE  StoreStep
<1>1. CASE DeleteBlob(pl, p)
  <2> DEFINE h == job[pl].task[p].hash
             gone == {x \in Indexed : index[x].hash = h}
  <2>1. /\ p \in DOMAIN job[pl].task /\ job[pl].cmd = "delete" /\ UNCHANGED index
        /\ cache' = [cache EXCEPT ![h] = Absent] /\ UNCHANGED asking
    BY <1>1, DeleteBlobOrderly, SameAsking DEF OInv
  <2>2. gone \subseteq asking
    BY <2>1 DEF OInv, Tidy, TidyDelete, asking
  <2>3. \A x \in Indexed : index[x].hash \in Data
    BY IndexEntries DEF OInv
  <2>4. \A x \in Paths : Fetched(x)' = IF x \in gone THEN Absent ELSE Fetched(x)
    <3> HIDE DEF h
    <3> QED
      BY <2>1, <2>3 DEF Fetched, Indexed, OInv, RInv, DataOK
  <2>5. stored' = [x \in Paths |-> IF x \in gone THEN Absent ELSE stored[x]]
    BY <2>4 DEF stored
  <2> HIDE DEF gone
  <2> QED
    BY <2>1, <2>2, <2>5 DEF StoreStep
<1>2. CASE DeleteIndex(pl, p)
  <2>1. /\ p \in DOMAIN job[pl].task /\ job[pl].cmd = "delete" /\ UNCHANGED cache
        /\ index' = [index EXCEPT ![p] = Absent] /\ UNCHANGED asking
    BY <1>2, DeleteIndexOrderly, SameAsking DEF OInv
  <2>2. {p} \subseteq asking
    BY <2>1 DEF asking
  <2>3. \A x \in Paths : index'[x] = IF x = p THEN Absent ELSE index[x]
    BY <2>1 DEF OInv, RInv, DataOK
  <2>4. \A x \in Paths : Fetched(x)' = IF x \in {p} THEN Absent ELSE Fetched(x)
    BY <2>1, <2>3 DEF Fetched, Indexed
  <2>5. stored' = [x \in Paths |-> IF x \in {p} THEN Absent ELSE stored[x]]
    BY <2>4 DEF stored
  <2> QED
    BY <2>1, <2>2, <2>5 DEF StoreStep
<1> QED
  BY <1>1, <1>2

LEMMA EveryStep ==
  ASSUME OInv, OInv', [Next]_vars
  PROVE  StoreStep
<1>1. CASE UNCHANGED <<index, cache>>
  BY <1>1, AskStep
<1>2. ASSUME NEW pl \in Places, NEW p \in Paths, PutBlob(pl, p)
      PROVE  StoreStep
  <2>1. job[pl].cmd \in Pushes /\ HandledAt(pl, p) /\ job[pl].task[p].at = "put"
    BY <1>2, AtFacts DEF PutBlob, OInv
  <2>2. UNCHANGED index /\ (cache' = cache \/ cache' = [cache EXCEPT ![job[pl].task[p].hash] = files[pl][p].content])
    BY <1>2 DEF PutBlob
  <2>3. files[pl][p].content = job[pl].task[p].hash
    BY <2>1 DEF HandledAt, Has
  <2>4. job[pl].cmd # "idle" /\ job[pl].cmd # "delete"
    BY <2>1 DEF Pushes
  <2>5. \A x \in Indexed : cache[index[x].hash] = index[x].hash /\ index[x].hash \in Data
    BY <2>4, NoDeletion, IndexEntries DEF OInv
  <2>6. \A x \in Indexed : cache'[index[x].hash] = cache[index[x].hash]
    BY <2>2, <2>3, <2>5 DEF OInv, RInv, DataOK
  <2> QED
    BY <2>2, <2>6, AskStep
<1>3. ASSUME NEW pl \in Places, RemoveOrphan(pl)
      PROVE  StoreStep
  BY <1>3, RemoveOrphanOrderly, AskStep DEF OInv
<1>4. ASSUME NEW pl \in Places, NEW p \in Paths, FileStep(pl, p)
      PROVE  StoreStep
  <2>1. \/ UNCHANGED <<index, cache>> \/ PutBlob(pl, p) \/ PushIndex(pl, p)
        \/ DeleteBlob(pl, p) \/ DeleteIndex(pl, p)
    BY <1>4 DEF FileStep, PushStep, PullStep, Write, Compare, FindBlob, PushPointer, Check, Get, Land,
       PullPointer, SftpError, PullName, EnsureLocal, remote
  <2> QED
    BY <1>1, <1>2, <2>1, PushIsPut, DeletionIsRemove
<1>5. ASSUME NEW pl \in Places, NEW S \in SUBSET Paths, FilesStep(pl, S)
      PROVE  StoreStep
  <2>1. UNCHANGED <<index, cache>>
    BY <1>5 DEF FilesStep, StartPush, BrowsePull, BrowseDelete, remote
  <2> QED
    BY <1>1, <2>1
<1>6. ASSUME NEW pl \in Places, CommandStep(pl)
      PROVE  StoreStep
  <2>1. UNCHANGED <<index, cache>> \/ RemoveOrphan(pl)
    BY <1>6 DEF CommandStep, StartOverrides, EndPush, Sync, EndPull, Browse, EndBrowse, Clean, EndClean, Purge,
       ListOrphans, EndPurge, Kill, remote
  <2> QED
    BY <1>1, <1>3, <2>1
<1>7. CASE UNCHANGED vars
  BY <1>1, <1>7 DEF vars, remote
<1> QED
  BY <1>4, <1>5, <1>6, <1>7 DEF Next

(* Orderly deletions provided, the store implements a map from paths to    *)
(* contents: what is pushed at a path stays until the path is asked to be  *)
(* deleted, whatever other paths share its blob and whatever is purged.    *)
THEOREM StoreIsMap ==
  ASSUME Orderly
  PROVE  Spec => ImplementsStore
<1>1. Init => Store!Init
  <2> SUFFICES ASSUME Init PROVE Store!Init
    OBVIOUS
  <2>1. \A pl \in Places : job[pl].cmd = "idle"
    <3>1. Idle.cmd = "idle"
      BY IdleFacts
    <3> HIDE DEF Idle
    <3> QED
      BY <3>1 DEF Init
  <2>2. Indexed = {}
    BY DEF Init, Indexed
  <2>3. asking = {}
    BY <2>1 DEF asking
  <2> QED
    BY <2>2, <2>3 DEF Store!Init, asking
<1>2. StoreStep => [Store!Next]_Store!vars
  BY DEF StoreStep, stored, Fetched, asking, Store!Next, Store!Put, Store!Remove, Store!Ask, Store!vars
<1>3. OInv /\ OInv' /\ [Next]_vars => [Store!Next]_Store!vars
  BY <1>2, EveryStep
<1> QED
  BY <1>1, <1>3, OInvariant, PTL DEF Spec, ImplementsStore, Store!Spec
=============================================================================
