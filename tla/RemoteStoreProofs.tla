------------------------- MODULE RemoteStoreProofs -------------------------
(***************************************************************************)
(* Theorems about the remote store for any number of clones, scratch       *)
(* disks, paths, contents and commands.                                    *)
(***************************************************************************)
EXTENDS RemoteStore, TLAPS

-----------------------------------------------------------------------------
(* The jobs as functions and records.                                      *)

TaskList == UNION {[S -> Task] : S \in SUBSET Paths}
Running == {"idle", "push", "overrides", "pull", "browse", "delete", "clean", "purge", "orphans"}
Job == [cmd : Running, force : BOOLEAN, task : TaskList,
        hashes : SUBSET (Data \cup (Places \X Paths))]
JobOK == job \in [Places -> Job]

LEMMA TaskListFacts ==
  ASSUME NEW t \in TaskList
  PROVE  /\ DOMAIN t \subseteq Paths /\ t \in [DOMAIN t -> Task]
         /\ \A p \in DOMAIN t : t[p] \in Task
<1>1. PICK S \in SUBSET Paths : t \in [S -> Task]
  BY DEF TaskList
<1> QED
  BY <1>1

LEMMA TaskListIntro ==
  ASSUME NEW S \in SUBSET Paths, NEW t \in [S -> Task]
  PROVE  t \in TaskList
BY DEF TaskList

LEMMA NoTasks == <<>> \in TaskList /\ DOMAIN <<>> = {}
<1>1. <<>> \in [{} -> Task]
  OBVIOUS
<1> QED
  BY <1>1, TaskListIntro

(* What a job has in hand.                                                 *)
LEMMA JobFacts ==
  ASSUME JobOK, NEW pl \in Places
  PROVE  /\ job[pl] \in Job
         /\ job[pl] = [cmd |-> job[pl].cmd, force |-> job[pl].force,
                       task |-> job[pl].task, hashes |-> job[pl].hashes]
         /\ DOMAIN job[pl].task \subseteq Paths
         /\ job[pl].task \in [DOMAIN job[pl].task -> Task]
         /\ \A p \in DOMAIN job[pl].task :
              /\ job[pl].task[p] \in Task
              /\ job[pl].task[p] = NewTask(job[pl].task[p].at, job[pl].task[p].hash, job[pl].task[p].mtime)
<1>1. job[pl] \in Job /\ job[pl].task \in TaskList
  BY DEF JobOK, Job
<1>2. \A p \in DOMAIN job[pl].task : job[pl].task[p] \in Task
  BY <1>1, TaskListFacts
<1> QED
  BY <1>1, <1>2, TaskListFacts DEF Job, Task, NewTask

LEMMA BecomeFacts ==
  ASSUME JobOK, NEW pl \in Places, NEW j \in Job, Become(pl, j)
  PROVE  JobOK' /\ job'[pl] = j /\ \A q \in Places \ {pl} : job'[q] = job[q]
BY DEF JobOK, Become

(* One task of a job is replaced.                                          *)
LEMMA SetTask ==
  ASSUME JobOK, NEW pl \in Places, NEW p \in DOMAIN job[pl].task, NEW t \in Task,
         job' = [job EXCEPT ![pl].task[p] = t]
  PROVE  /\ JobOK' /\ \A q \in Places \ {pl} : job'[q] = job[q]
         /\ job'[pl].cmd = job[pl].cmd /\ job'[pl].force = job[pl].force
         /\ job'[pl].hashes = job[pl].hashes
         /\ DOMAIN job'[pl].task = DOMAIN job[pl].task
         /\ job'[pl].task[p] = t
         /\ \A x \in DOMAIN job[pl].task \ {p} : job'[pl].task[x] = job[pl].task[x]
<1> DEFINE l == [job[pl].task EXCEPT ![p] = t]
           j == [job[pl] EXCEPT !.task = l]
<1>1. job' = [job EXCEPT ![pl] = j]
  BY DEF JobOK
<1>2. /\ l \in [DOMAIN job[pl].task -> Task] /\ l[p] = t
      /\ \A x \in DOMAIN job[pl].task \ {p} : l[x] = job[pl].task[x]
  BY JobFacts
<1>3. l \in TaskList /\ DOMAIN l = DOMAIN job[pl].task
  BY <1>2, JobFacts, TaskListIntro
<1> HIDE DEF l
<1>4. /\ j \in Job /\ j.task = l /\ j.cmd = job[pl].cmd
      /\ j.force = job[pl].force /\ j.hashes = job[pl].hashes
  BY <1>3, JobFacts DEF Job
<1> HIDE DEF j
<1>5. JobOK' /\ job'[pl] = j /\ \A q \in Places \ {pl} : job'[q] = job[q]
  BY <1>1, <1>4, BecomeFacts DEF Become
<1> QED
  BY <1>2, <1>3, <1>4, <1>5

LEMMA GoSets ==
  ASSUME JobOK, NEW pl \in Places, NEW p \in DOMAIN job[pl].task, NEW at \in Stages, Go(pl, p, at)
  PROVE  LET t == NewTask(at, job[pl].task[p].hash, job[pl].task[p].mtime)
         IN  t \in Task /\ job' = [job EXCEPT ![pl].task[p] = t]
BY JobFacts DEF NewTask, Task, Go

(* One task of a job moves to another stage.                               *)
LEMMA GoFacts ==
  ASSUME JobOK, NEW pl \in Places, NEW p \in DOMAIN job[pl].task, NEW at \in Stages, Go(pl, p, at)
  PROVE  /\ JobOK' /\ \A q \in Places \ {pl} : job'[q] = job[q]
         /\ job'[pl].cmd = job[pl].cmd /\ job'[pl].hashes = job[pl].hashes
         /\ DOMAIN job'[pl].task = DOMAIN job[pl].task
         /\ job'[pl].task[p].at = at
         /\ job'[pl].task[p].hash = job[pl].task[p].hash
         /\ job'[pl].task[p].mtime = job[pl].task[p].mtime
         /\ \A x \in DOMAIN job[pl].task \ {p} : job'[pl].task[x] = job[pl].task[x]
<1> DEFINE t == NewTask(at, job[pl].task[p].hash, job[pl].task[p].mtime)
<1>1. t \in Task /\ job' = [job EXCEPT ![pl].task[p] = t]
  BY GoSets
<1>2. t.at = at /\ t.hash = job[pl].task[p].hash /\ t.mtime = job[pl].task[p].mtime
  BY DEF NewTask
<1> HIDE DEF t
<1>3. /\ JobOK' /\ \A q \in Places \ {pl} : job'[q] = job[q]
      /\ job'[pl].cmd = job[pl].cmd /\ job'[pl].hashes = job[pl].hashes
      /\ DOMAIN job'[pl].task = DOMAIN job[pl].task
      /\ job'[pl].task[p] = t
      /\ \A x \in DOMAIN job[pl].task \ {p} : job'[pl].task[x] = job[pl].task[x]
  BY <1>1, SetTask
<1> QED
  BY <1>2, <1>3

(* A command starts with a list of tasks.                                  *)
LEMMA MakeJobFacts ==
  ASSUME NEW c \in Running, NEW force \in BOOLEAN, NEW l \in TaskList,
         NEW S \in SUBSET (Data \cup (Places \X Paths))
  PROVE  /\ MakeJob(c, force, l, S) \in Job /\ MakeJob(c, force, l, S).cmd = c
         /\ MakeJob(c, force, l, S).task = l /\ MakeJob(c, force, l, S).hashes = S
         /\ MakeJob(c, force, l, S).force = force
BY DEF MakeJob, Job

LEMMA NewJobFacts ==
  ASSUME NEW c \in Running, NEW l \in TaskList
  PROVE  /\ NewJob(c, l) \in Job /\ NewJob(c, l).cmd = c /\ NewJob(c, l).task = l
         /\ NewJob(c, l).hashes = {}
BY DEF NewJob, MakeJob, Job

LEMMA IdleFacts == Idle \in Job /\ Idle.cmd = "idle" /\ DOMAIN Idle.task = {} /\ Idle.hashes = {}
<1>1. ASSUME NEW l \in TaskList, DOMAIN l = {}
      PROVE  /\ NewJob("idle", l) \in Job /\ NewJob("idle", l).cmd = "idle"
             /\ DOMAIN NewJob("idle", l).task = {} /\ NewJob("idle", l).hashes = {}
  <2>1. "idle" \in Running
    BY DEF Running
  <2>2. /\ NewJob("idle", l) \in Job /\ NewJob("idle", l).cmd = "idle"
        /\ NewJob("idle", l).task = l /\ NewJob("idle", l).hashes = {}
    BY <2>1, NewJobFacts
  <2> QED
    BY <1>1, <2>2
<1> QED
  BY <1>1, NoTasks DEF Idle

-----------------------------------------------------------------------------
(* The invariant: times of files, records of hashes, files in hand.        *)

DataOK ==
  /\ index \in [Paths -> Entry \cup {Absent, Corrupt}]
  /\ cache \in [Data -> Data \cup {Absent}]
  /\ temps \subseteq Places \X Paths
  /\ files \in [Places -> [Paths -> File \cup {Absent}]]
  /\ ptrs \in [Clones -> [Paths -> Pointer \cup {Absent}]]
  /\ clock \in 0..MaxClock /\ commands \in 0..MaxCommands

(* No two places have a file of one path and one time.                     *)
FileTimes == \A pl \in Places, p \in Paths : files[pl][p] # Absent =>
  /\ files[pl][p].mtime <= clock
  /\ \A q \in Places : files[q][p] # Absent /\ files[q][p].mtime = files[pl][p].mtime => q = pl

(* Hash h for a file of path p and time m is right now and will be: no     *)
(* such file is being downloaded.                                          *)
Landing(pl, p) == At(pl, {"pull"}, p, "land")
Truthful(p, h, m) ==
  /\ m <= clock
  /\ \A pl \in Places : files[pl][p] # Absent /\ files[pl][p].mtime = m =>
       files[pl][p].content = h /\ ~Landing(pl, p)

(* A task whose hash and time will be put into a pointer.                  *)
Noted(pl, p) == job[pl].cmd = "browse" \/ (job[pl].cmd \in Pushes /\ job[pl].task[p].at = "index")

IndexTrue == \A p \in Paths : index[p] \notin {Absent, Corrupt} =>
  Truthful(p, index[p].hash, index[p].mtime)
PtrsTrue == \A r \in Clones, p \in Paths : ptrs[r][p] # Absent =>
  Truthful(p, ptrs[r][p].hash, ptrs[r][p].mtime)
TasksTrue == \A pl \in Places : \A p \in DOMAIN job[pl].task : Noted(pl, p) =>
  Truthful(p, job[pl].task[p].hash, job[pl].task[p].mtime)

(* What a command knows of a file it handles.                              *)
Has(pl, p, h) == files[pl][p] # Absent /\ files[pl][p].content = h
HandledAt(pl, p) ==
  LET t == job[pl].task[p]
  IN /\ job[pl].cmd \in Pushes => files[pl][p] # Absent
     /\ job[pl].cmd \in Pushes /\ t.at \notin {"hash", "failed"} => Has(pl, p, t.hash)
     /\ job[pl].cmd \in {"pull", "browse", "delete"} => t.hash \in Data
     /\ job[pl].cmd = "pull" /\ t.at = "land" => files[pl][p] # Absent
     /\ job[pl].cmd = "pull" /\ t.at = "ptr" => Has(pl, p, t.hash)
     /\ job[pl].cmd = "clean" => Has(pl, p, t.hash)
Handled == \A pl \in Places : \A p \in DOMAIN job[pl].task : HandledAt(pl, p)

CacheTrue == \A h \in Data : cache[h] \in {h, Absent}

RInv == DataOK /\ JobOK /\ FileTimes /\ IndexTrue /\ PtrsTrue /\ TasksTrue /\ Handled /\ CacheTrue

LEMMA InvTypes == DataOK /\ JobOK => TypeOK
<1> SUFFICES ASSUME DataOK, JobOK PROVE TypeOK
  OBVIOUS
<1>1. DOMAIN job = Places
  BY DEF JobOK
<1>2. \A pl \in Places : job[pl].force \in BOOLEAN
  BY JobFacts DEF Job
<1>3. \A pl \in Places : /\ DOMAIN job[pl].task \subseteq Paths
                         /\ \A p \in DOMAIN job[pl].task : job[pl].task[p] \in Task
  BY JobFacts
<1> QED
  BY <1>1, <1>2, <1>3 DEF TypeOK, DataOK

LEMMA InvCached == DataOK /\ PtrsTrue => CachedHashIsTrue
<1> SUFFICES ASSUME DataOK, PtrsTrue, NEW pl \in Places, NEW p \in Paths,
                    files[pl][p] # Absent, load_ptr(pl, p) # Absent
             PROVE  load_ptr(pl, p) = files[pl][p].content
  BY DEF CachedHashIsTrue
<1>1. Home[pl] \in Clones
  BY DEF Clones
<1> QED
  BY <1>1 DEF load_ptr, PtrsTrue, Truthful

(* The files of a step: at most one is written, at a new time; contents    *)
(* change without a new time only while a download ends.                   *)
FilesGrow(pl, p) == clock' >= clock /\ \A q \in Places, x \in Paths : files'[q][x] # Absent =>
  \/ /\ files[q][x] # Absent /\ files'[q][x] = files[q][x]
     /\ Landing(q, x)' => Landing(q, x)
  \/ /\ files[q][x] # Absent /\ files'[q][x].mtime = files[q][x].mtime
     /\ Landing(q, x)
  \/ q = pl /\ x = p /\ files'[q][x].mtime = clock + 1 /\ clock' = clock + 1

LEMMA TimesKept ==
  ASSUME DataOK, DataOK', FileTimes, NEW pl, NEW p, FilesGrow(pl, p)
  PROVE  FileTimes'
<1> SUFFICES ASSUME NEW q \in Places, NEW x \in Paths, files'[q][x] # Absent
             PROVE  /\ files'[q][x].mtime <= clock'
                    /\ \A o \in Places : files'[o][x] # Absent
                         /\ files'[o][x].mtime = files'[q][x].mtime => o = q
  BY DEF FileTimes
<1>1. clock \in Nat /\ clock' \in Nat
  BY RemoteAssumption DEF DataOK
<1>2. \A o \in Places : files[o][x] # Absent => files[o][x].mtime \in Nat /\ files[o][x].mtime <= clock
  BY RemoteAssumption DEF DataOK, FileTimes, File
<1>3. \A o \in Places : files'[o][x] # Absent =>
        \/ files[o][x] # Absent /\ files'[o][x].mtime = files[o][x].mtime
        \/ o = pl /\ x = p /\ files'[o][x].mtime = clock + 1 /\ clock' = clock + 1
  BY DEF FilesGrow
<1> QED
  BY <1>1, <1>2, <1>3 DEF FileTimes, FilesGrow

LEMMA TruthKept ==
  ASSUME DataOK, DataOK', NEW pl, NEW p, FilesGrow(pl, p)
  PROVE  \A x \in Paths : \A h : \A m \in 0..MaxClock : Truthful(x, h, m) => Truthful(x, h, m)'
<1> SUFFICES ASSUME NEW x \in Paths, NEW h, NEW m \in 0..MaxClock, Truthful(x, h, m)
             PROVE  Truthful(x, h, m)'
  OBVIOUS
<1>1. clock \in Nat /\ clock' \in Nat /\ m \in Nat /\ m <= clock /\ m <= clock'
  BY RemoteAssumption DEF DataOK, FilesGrow, Truthful
<1>2. ASSUME NEW q \in Places, files'[q][x] # Absent, files'[q][x].mtime = m
      PROVE  files'[q][x].content = h /\ ~Landing(q, x)'
  <2>1. m # clock + 1
    BY <1>1
  <2>2. \/ /\ files[q][x] # Absent /\ files'[q][x] = files[q][x]
           /\ Landing(q, x)' => Landing(q, x)
        \/ /\ files[q][x] # Absent /\ files'[q][x].mtime = files[q][x].mtime
           /\ Landing(q, x)
    BY <1>2, <2>1 DEF FilesGrow
  <2> QED
    BY <1>2, <2>2 DEF Truthful
<1> QED
  BY <1>1, <1>2 DEF Truthful

(* A file that is not being downloaded says its own hash.                  *)
LEMMA FileTruth ==
  ASSUME FileTimes, NEW pl \in Places, NEW p \in Paths, files[pl][p] # Absent, ~Landing(pl, p)
  PROVE  Truthful(p, files[pl][p].content, files[pl][p].mtime)
BY DEF FileTimes, Truthful

(* A step preserves the invariant if whatever it records was true before.  *)
LEMMA Carry ==
  ASSUME RInv, DataOK', JobOK', CacheTrue', NEW pl \in Places, NEW p, FilesGrow(pl, p),
         \A q \in Places \ {pl} : job'[q] = job[q] /\ files'[q] = files[q],
         \A x \in DOMAIN job'[pl].task : HandledAt(pl, x)',
         \A x \in Paths : index'[x] \notin {Absent, Corrupt} =>
           Truthful(x, index'[x].hash, index'[x].mtime),
         \A r \in Clones, x \in Paths : ptrs'[r][x] # Absent =>
           Truthful(x, ptrs'[r][x].hash, ptrs'[r][x].mtime),
         \A x \in DOMAIN job'[pl].task : Noted(pl, x)' =>
           Truthful(x, job'[pl].task[x].hash, job'[pl].task[x].mtime)
  PROVE  RInv'
<1>1. FileTimes'
  BY TimesKept DEF RInv
<1>2. \A x \in Paths : \A h : \A m \in 0..MaxClock : Truthful(x, h, m) => Truthful(x, h, m)'
  BY TruthKept DEF RInv
<1>3. IndexTrue'
  <2> SUFFICES ASSUME NEW x \in Paths, index'[x] \notin {Absent, Corrupt}
               PROVE  Truthful(x, index[x].hash, index[x].mtime)'
    BY DEF IndexTrue
  <2>1. index'[x].mtime \in 0..MaxClock
    BY DEF DataOK, Entry
  <2> QED
    BY <1>2, <2>1
<1>4. PtrsTrue'
  <2> SUFFICES ASSUME NEW r \in Clones', NEW x \in Paths, ptrs'[r][x] # Absent
               PROVE  Truthful(x, ptrs[r][x].hash, ptrs[r][x].mtime)'
    BY DEF PtrsTrue
  <2>1. ptrs'[r][x].mtime \in 0..MaxClock /\ r \in Clones
    BY DEF DataOK, Pointer, Clones
  <2> QED
    BY <1>2, <2>1
<1>5. TasksTrue'
  <2> SUFFICES ASSUME NEW q \in Places, NEW x \in DOMAIN job'[q].task, Noted(q, x)'
               PROVE  Truthful(x, job[q].task[x].hash, job[q].task[x].mtime)'
    BY DEF TasksTrue
  <2>1. x \in Paths /\ job'[q].task[x].mtime \in 0..MaxClock
    <3>1. job'[q] \in Job
      BY DEF JobOK
    <3>2. job'[q].task \in TaskList
      BY <3>1 DEF Job
    <3> QED
      BY <3>2, TaskListFacts DEF Task
  <2>2. Truthful(x, job'[q].task[x].hash, job'[q].task[x].mtime)
    <3>1. CASE q = pl
      BY <3>1
    <3>2. CASE q # pl
      BY <3>2 DEF RInv, TasksTrue, Noted
    <3> QED
      BY <3>1, <3>2
  <2> QED
    BY <1>2, <2>1, <2>2
<1>6. Handled'
  <2> SUFFICES ASSUME NEW q \in Places, NEW x \in DOMAIN job'[q].task
               PROVE  HandledAt(q, x)'
    BY DEF Handled
  <2>1. CASE q = pl
    BY <2>1
  <2>2. CASE q # pl
    BY <2>2 DEF RInv, Handled, HandledAt, Has
  <2> QED
    BY <2>1, <2>2
<1> QED
  BY <1>1, <1>3, <1>4, <1>5, <1>6 DEF RInv
-----------------------------------------------------------------------------
(* Steps by kind.                                                          *)

(* A command starts, goes on as another one, or ends; it may delete files  *)
(* and write pointers that are true.                                       *)
LEMMA JobChanges ==
  ASSUME RInv, NEW pl \in Places, NEW j \in Job, Become(pl, j), DataOK',
         UNCHANGED <<clock, index, cache>>,
         \A q \in Places, x \in Paths : files'[q][x] # Absent => files'[q][x] = files[q][x],
         \A q \in Places \ {pl} : files'[q] = files[q],
         \A r \in Clones, x \in Paths : ptrs'[r][x] # Absent =>
           Truthful(x, ptrs'[r][x].hash, ptrs'[r][x].mtime),
         \A x \in DOMAIN j.task : j.task[x].at \notin {"land", "index"} /\ HandledAt(pl, x)',
         j.cmd = "browse" => \A x \in DOMAIN j.task : Truthful(x, j.task[x].hash, j.task[x].mtime)
  PROVE  RInv'
<1>1. JobOK' /\ job'[pl] = j /\ \A q \in Places \ {pl} : job'[q] = job[q]
  BY BecomeFacts DEF RInv
<1>2. FilesGrow(pl, pl)
  <2>1. clock' >= clock
    BY RemoteAssumption DEF RInv, DataOK
  <2>2. \A q \in Places, x \in Paths : Landing(q, x)' => Landing(q, x)
    BY <1>1 DEF Landing, At
  <2> QED
    BY <2>1, <2>2 DEF FilesGrow
<1>3. \A x \in DOMAIN job'[pl].task : Noted(pl, x)' =>
        Truthful(x, job'[pl].task[x].hash, job'[pl].task[x].mtime)
  BY <1>1 DEF Noted
<1>4. \A x \in DOMAIN job'[pl].task : HandledAt(pl, x)'
  BY <1>1
<1>5. CacheTrue'
  BY DEF RInv, CacheTrue
<1>6. \A x \in Paths : index'[x] \notin {Absent, Corrupt} =>
        Truthful(x, index'[x].hash, index'[x].mtime)
  BY DEF RInv, IndexTrue
<1> QED
  BY <1>1, <1>2, <1>3, <1>4, <1>5, <1>6, Carry

(* A file is moved on by its command; no file and no pointer changes.      *)
LEMMA TaskMoves ==
  ASSUME RInv, NEW pl \in Places, NEW p \in DOMAIN job[pl].task, NEW at \in Stages, Go(pl, p, at),
         UNCHANGED <<files, clock, index, ptrs>>, DataOK', CacheTrue',
         at # "land", Noted(pl, p)' => Noted(pl, p), HandledAt(pl, p)'
  PROVE  RInv'
<1>1. /\ JobOK' /\ \A q \in Places \ {pl} : job'[q] = job[q]
      /\ job'[pl].cmd = job[pl].cmd
      /\ DOMAIN job'[pl].task = DOMAIN job[pl].task
      /\ job'[pl].task[p].at = at
      /\ job'[pl].task[p].hash = job[pl].task[p].hash
      /\ job'[pl].task[p].mtime = job[pl].task[p].mtime
      /\ \A x \in DOMAIN job[pl].task \ {p} : job'[pl].task[x] = job[pl].task[x]
  BY GoFacts DEF RInv
<1>2. FilesGrow(pl, p)
  <2>1. clock' >= clock
    BY RemoteAssumption DEF RInv, DataOK
  <2>2. \A q \in Places, x \in Paths : Landing(q, x)' => Landing(q, x)
    BY <1>1 DEF Landing, At
  <2> QED
    BY <2>1, <2>2 DEF FilesGrow
<1>3. \A x \in DOMAIN job'[pl].task : Noted(pl, x)' =>
        Truthful(x, job'[pl].task[x].hash, job'[pl].task[x].mtime)
  BY <1>1 DEF Noted, RInv, TasksTrue
<1>4. \A x \in DOMAIN job'[pl].task : HandledAt(pl, x)'
  <2> SUFFICES ASSUME NEW x \in DOMAIN job'[pl].task PROVE HandledAt(pl, x)'
    OBVIOUS
  <2>1. CASE x = p
    BY <2>1
  <2>2. CASE x # p
    <3>1. HandledAt(pl, x)
      BY <1>1, <2>2 DEF RInv, Handled
    <3> QED
      BY <1>1, <2>2, <3>1 DEF HandledAt, Has
  <2> QED
    BY <2>1, <2>2
<1>5. \A x \in Paths : index'[x] \notin {Absent, Corrupt} =>
        Truthful(x, index'[x].hash, index'[x].mtime)
  BY DEF RInv, IndexTrue
<1>6. \A r \in Clones, x \in Paths : ptrs'[r][x] # Absent =>
        Truthful(x, ptrs'[r][x].hash, ptrs'[r][x].mtime)
  BY DEF RInv, PtrsTrue
<1> QED
  BY <1>1, <1>2, <1>3, <1>4, <1>5, <1>6, Carry

(* A pointer written with the file's hash and time is true.                *)
LEMMA write_ptr_True ==
  ASSUME RInv, NEW pl \in Places, NEW p \in Paths, NEW h \in Data, NEW flag \in BOOLEAN,
         Has(pl, p, h), ~Landing(pl, p), write_ptr(pl, p, h, flag)
  PROVE  /\ ptrs' \in [Clones -> [Paths -> Pointer \cup {Absent}]]
         /\ \A r \in Clones, x \in Paths : ptrs'[r][x] # Absent =>
              Truthful(x, ptrs'[r][x].hash, ptrs'[r][x].mtime)
         /\ \A r \in Clones, x \in Paths : ptrs[r][x] # Absent => ptrs'[r][x] # Absent
<1> DEFINE e == [hash |-> h, mtime |-> files[pl][p].mtime, override |-> flag]
<1>1. Truthful(p, h, files[pl][p].mtime)
  BY FileTruth DEF RInv, Has
<1>2. files[pl][p].mtime \in 0..MaxClock
  BY DEF RInv, DataOK, File, Has
<1>3. e \in Pointer /\ e.hash = h /\ e.mtime = files[pl][p].mtime
  BY <1>2 DEF Pointer
<1>4. e # Absent
  BY <1>3, RemoteAssumption DEF Pointer
<1>5. Home[pl] \in Clones
  BY DEF Clones
<1>6. ptrs' = [ptrs EXCEPT ![Home[pl]][p] = e]
  BY DEF write_ptr
<1> HIDE DEF e
<1>7. \A r \in Clones, x \in Paths : ptrs'[r][x] = IF r = Home[pl] /\ x = p THEN e ELSE ptrs[r][x]
  BY <1>5, <1>6 DEF RInv, DataOK
<1>8. ptrs' \in [Clones -> [Paths -> Pointer \cup {Absent}]]
  BY <1>3, <1>5, <1>6 DEF RInv, DataOK
<1> QED
  BY <1>1, <1>3, <1>4, <1>7, <1>8 DEF RInv, PtrsTrue

LEMMA DigestIsContent ==
  ASSUME RInv, NEW pl \in Places, NEW p \in Paths, files[pl][p] # Absent
  PROVE  Digest(pl, p) = files[pl][p].content /\ Digest(pl, p) \in Data
<1>1. load_ptr(pl, p) # Absent => load_ptr(pl, p) = files[pl][p].content
  BY InvCached DEF RInv, CachedHashIsTrue
<1>2. files[pl][p].content \in Data
  BY DEF RInv, DataOK, File
<1> QED
  BY <1>1, <1>2 DEF Digest

(* A task of a push is replaced, and the clone's pointer perhaps written.  *)
LEMMA PushTaskSet ==
  ASSUME RInv, NEW pl \in Places, NEW p \in DOMAIN job[pl].task, NEW t \in Task,
         job' = [job EXCEPT ![pl].task[p] = t], job[pl].cmd \in Pushes,
         UNCHANGED <<files, clock, index, cache>>, DataOK',
         \A r \in Clones, x \in Paths : ptrs'[r][x] # Absent =>
           Truthful(x, ptrs'[r][x].hash, ptrs'[r][x].mtime),
         Has(pl, p, t.hash), t.at = "index" => t.mtime = files[pl][p].mtime
  PROVE  RInv'
<1>1. /\ JobOK' /\ \A q \in Places \ {pl} : job'[q] = job[q]
      /\ job'[pl].cmd = job[pl].cmd
      /\ DOMAIN job'[pl].task = DOMAIN job[pl].task
      /\ job'[pl].task[p] = t
      /\ \A x \in DOMAIN job[pl].task \ {p} : job'[pl].task[x] = job[pl].task[x]
  BY SetTask DEF RInv
<1>2. p \in Paths /\ ~Landing(pl, p) /\ job[pl].cmd \notin {"pull", "browse", "delete", "clean"}
  BY JobFacts DEF RInv, Landing, At, Pushes
<1>3. FilesGrow(pl, p)
  <2>1. clock' >= clock
    BY RemoteAssumption DEF RInv, DataOK
  <2>2. \A q \in Places, x \in Paths : Landing(q, x)' => Landing(q, x)
    BY <1>1, <1>2 DEF Landing, At
  <2> QED
    BY <2>1, <2>2 DEF FilesGrow
<1>4. Truthful(p, files[pl][p].content, files[pl][p].mtime)
  BY <1>2, FileTruth DEF RInv, Has
<1>5. \A x \in DOMAIN job'[pl].task : Noted(pl, x)' =>
        Truthful(x, job'[pl].task[x].hash, job'[pl].task[x].mtime)
  BY <1>1, <1>2, <1>4 DEF Noted, RInv, TasksTrue, Has
<1>6. \A x \in DOMAIN job'[pl].task : HandledAt(pl, x)'
  <2> SUFFICES ASSUME NEW x \in DOMAIN job'[pl].task PROVE HandledAt(pl, x)'
    OBVIOUS
  <2>1. CASE x = p
    BY <1>1, <1>2, <2>1 DEF HandledAt, Has
  <2>2. CASE x # p
    <3>1. HandledAt(pl, x)
      BY <1>1, <2>2 DEF RInv, Handled
    <3> QED
      BY <1>1, <2>2, <3>1 DEF HandledAt, Has
  <2> QED
    BY <2>1, <2>2
<1>7. \A x \in Paths : index'[x] \notin {Absent, Corrupt} =>
        Truthful(x, index'[x].hash, index'[x].mtime)
  BY DEF RInv, IndexTrue
<1>8. CacheTrue'
  BY DEF RInv, CacheTrue
<1> QED
  BY <1>1, <1>3, <1>5, <1>6, <1>7, <1>8, Carry
-----------------------------------------------------------------------------
(* The actions.                                                            *)

LEMMA AtFacts ==
  ASSUME RInv, NEW pl \in Places, NEW p, NEW cmds, NEW at, At(pl, cmds, p, at)
  PROVE  /\ p \in DOMAIN job[pl].task /\ p \in Paths
         /\ job[pl].cmd \in cmds /\ job[pl].task[p].at = at
         /\ job[pl].task[p] \in Task /\ HandledAt(pl, p)
BY JobFacts DEF RInv, At, Handled

(* Programs of the project write new files.                                *)
LEMMA WriteStep ==
  ASSUME RInv, NEW pl \in Places, NEW p \in Paths, NEW c \in Contents, Write(pl, p, c)
  PROVE  RInv'
<1> DEFINE f == [content |-> c, mtime |-> clock + 1]
<1>1. clock \in Nat /\ clock' = clock + 1 /\ clock' \in 0..MaxClock
  BY RemoteAssumption DEF RInv, DataOK, Write
<1>2. f \in File /\ f.content = c /\ f.mtime = clock + 1
  BY <1>1 DEF File, Data
<1>3. files' = [files EXCEPT ![pl][p] = f]
  BY DEF Write
<1> HIDE DEF f
<1>4. /\ files' \in [Places -> [Paths -> File \cup {Absent}]]
      /\ \A q \in Places, x \in Paths : files'[q][x] = IF q = pl /\ x = p THEN f ELSE files[q][x]
      /\ \A q \in Places \ {pl} : files'[q] = files[q]
  BY <1>2, <1>3 DEF RInv, DataOK
<1>5. UNCHANGED <<commands, index, cache, temps, ptrs, job>>
  BY DEF Write, remote
<1>6. DataOK' /\ JobOK' /\ CacheTrue'
  BY <1>1, <1>4, <1>5 DEF RInv, DataOK, JobOK, CacheTrue, Clones
<1>7. \A q \in Places, x \in Paths : Landing(q, x)' <=> Landing(q, x)
  BY <1>5 DEF Landing, At
<1>8. FilesGrow(pl, p)
  BY <1>1, <1>2, <1>4, <1>7 DEF FilesGrow
<1>9. \A x \in DOMAIN job'[pl].task : HandledAt(pl, x)'
  <2> SUFFICES ASSUME NEW x \in DOMAIN job[pl].task PROVE HandledAt(pl, x)'
    BY <1>5
  <2>1. x \in Paths /\ HandledAt(pl, x)
    BY JobFacts DEF RInv, Handled
  <2>2. CASE x = p
    <3>1. job[pl].cmd \notin {"push", "overrides", "pull", "clean"}
      BY <2>2 DEF Write, Busy
    <3> QED
      BY <1>5, <2>1, <3>1 DEF HandledAt, Has, Pushes
  <2>3. CASE x # p
    BY <1>4, <1>5, <2>1, <2>3 DEF HandledAt, Has
  <2> QED
    BY <2>2, <2>3
<1>10. \A x \in Paths : index'[x] \notin {Absent, Corrupt} =>
        Truthful(x, index'[x].hash, index'[x].mtime)
  BY <1>5 DEF RInv, IndexTrue
<1>11. \A r \in Clones, x \in Paths : ptrs'[r][x] # Absent =>
        Truthful(x, ptrs'[r][x].hash, ptrs'[r][x].mtime)
  BY <1>5 DEF RInv, PtrsTrue
<1>12. \A x \in DOMAIN job'[pl].task : Noted(pl, x)' =>
         Truthful(x, job'[pl].task[x].hash, job'[pl].task[x].mtime)
  BY <1>5 DEF Noted, RInv, TasksTrue
<1> QED
  BY <1>4, <1>5, <1>6, <1>8, <1>9, <1>10, <1>11, <1>12, Carry

(* Commands end, also killed; some delete local files.                     *)
LEMMA WithoutFacts ==
  ASSUME DataOK, NEW pl \in Places, NEW S, Without(pl, S)
  PROVE  /\ files' \in [Places -> [Paths -> File \cup {Absent}]]
         /\ \A x \in Paths : files'[pl][x] = IF x \in S THEN Absent ELSE files[pl][x]
         /\ \A q \in Places \ {pl} : files'[q] = files[q]
BY DEF DataOK, Without

LEMMA StopStep ==
  ASSUME RInv, NEW pl \in Places, Stop(pl), UNCHANGED <<commands, remote, ptrs, clock>>,
         NEW S, files' = files \/ Without(pl, S)
  PROVE  RInv'
<1>1. /\ files' \in [Places -> [Paths -> File \cup {Absent}]]
      /\ \A q \in Places, x \in Paths : files'[q][x] # Absent => files'[q][x] = files[q][x]
      /\ \A q \in Places \ {pl} : files'[q] = files[q]
  BY WithoutFacts DEF RInv, DataOK
<1>2. DataOK' /\ UNCHANGED <<clock, index, cache>>
  BY <1>1 DEF RInv, DataOK, remote, Clones
<1>3. Idle \in Job /\ Idle.cmd = "idle" /\ DOMAIN Idle.task = {} /\ Become(pl, Idle)
  BY IdleFacts DEF Stop
<1>4. \A r \in Clones, x \in Paths : ptrs'[r][x] # Absent =>
        Truthful(x, ptrs'[r][x].hash, ptrs'[r][x].mtime)
  BY DEF RInv, PtrsTrue
<1> HIDE DEF Idle
<1> QED
  BY <1>1, <1>2, <1>3, <1>4, JobChanges

LEMMA EndSteps ==
  ASSUME RInv, NEW pl \in Places,
         EndPush(pl) \/ EndPull(pl) \/ EndBrowse(pl) \/ EndClean(pl) \/ EndPurge(pl) \/ Kill(pl)
  PROVE  RInv'
<1>1. CASE EndPush(pl)
  <2>1. Stop(pl) /\ UNCHANGED <<commands, remote, ptrs, clock>> /\ \E S : files' = files \/ Without(pl, S)
    BY <1>1 DEF EndPush
  <2> QED
    BY <2>1, StopStep
<1>2. CASE EndClean(pl)
  <2>1. Stop(pl) /\ UNCHANGED <<commands, remote, ptrs, clock>> /\ \E S : files' = files \/ Without(pl, S)
    BY <1>2 DEF EndClean
  <2> QED
    BY <2>1, StopStep
<1>3. CASE EndPull(pl) \/ EndBrowse(pl) \/ EndPurge(pl) \/ Kill(pl)
  <2>1. Stop(pl) /\ UNCHANGED <<commands, remote, ptrs, clock>> /\ files' = files
    BY <1>3 DEF EndPull, EndBrowse, EndPurge, Kill, local
  <2> QED
    BY <2>1, StopStep
<1> QED
  BY <1>1, <1>2, <1>3

(* purge and ls touch no file and no pointer while they run.               *)
LEMMA PurgeJobFacts ==
  ASSUME NEW c \in Running, NEW S \in SUBSET (Data \cup (Places \X Paths))
  PROVE  /\ PurgeJob(c, S) \in Job /\ PurgeJob(c, S).cmd = c /\ DOMAIN PurgeJob(c, S).task = {}
         /\ PurgeJob(c, S).hashes = S
<1>1. ASSUME NEW l \in TaskList, DOMAIN l = {}
      PROVE  /\ MakeJob(c, FALSE, l, S) \in Job /\ MakeJob(c, FALSE, l, S).cmd = c
             /\ DOMAIN MakeJob(c, FALSE, l, S).task = {} /\ MakeJob(c, FALSE, l, S).hashes = S
  BY <1>1 DEF MakeJob, Job
<1> QED
  BY <1>1, NoTasks DEF PurgeJob

LEMMA PurgeSteps ==
  ASSUME RInv, NEW pl \in Places, Purge(pl) \/ ListOrphans(pl) \/ RemoveOrphan(pl)
  PROVE  RInv'
<1>1. PICK c \in Running, S \in SUBSET (Data \cup (Places \X Paths)) :
        /\ Become(pl, PurgeJob(c, S)) /\ c \in {"purge", "orphans"}
        /\ UNCHANGED <<index, local>>
        /\ UNCHANGED <<cache, temps>> \/ \E h : /\ cache' = [b \in Data |-> IF b = h THEN Absent ELSE cache[b]]
                                               /\ temps' = temps \ {h}
        /\ commands' \in 0..MaxCommands
  <2>1. CASE Purge(pl)
    <3>1. {index[p].hash : p \in Indexed} \subseteq Data
      BY DEF RInv, DataOK, Indexed, Entry
    <3>2. commands' \in 0..MaxCommands
      BY <2>1, RemoteAssumption DEF Purge, Ready, RInv, DataOK
    <3> QED
      BY <2>1, <3>1, <3>2 DEF Purge, remote, Running
  <2>2. CASE ListOrphans(pl)
    <3>1. (Blobs \cup temps) \ job[pl].hashes \subseteq Data \cup (Places \X Paths)
      BY DEF RInv, DataOK, Blobs
    <3> QED
      BY <2>2, <3>1 DEF ListOrphans, remote, Running, RInv, DataOK
  <2>3. CASE RemoveOrphan(pl)
    <3>1. job[pl].hashes \subseteq Data \cup (Places \X Paths)
      BY JobFacts DEF RInv, Job
    <3>2. PICK h \in job[pl].hashes :
            /\ cache' = [b \in Data |-> IF b = h THEN Absent ELSE cache[b]]
            /\ temps' = temps \ {h}
            /\ Become(pl, PurgeJob("orphans", job[pl].hashes \ {h}))
            /\ UNCHANGED <<commands, index, local>>
      BY <2>3 DEF RemoveOrphan
    <3> QED
      BY <3>1, <3>2 DEF Running, RInv, DataOK
  <2> QED
    BY <2>1, <2>2, <2>3
<1> DEFINE j == PurgeJob(c, S)
<1>2. j \in Job /\ j.cmd = c /\ DOMAIN j.task = {}
  BY PurgeJobFacts
<1> HIDE DEF j
<1>3. JobOK' /\ job'[pl] = j /\ \A q \in Places \ {pl} : job'[q] = job[q]
  BY <1>1, <1>2, BecomeFacts DEF RInv, j
<1>4. DataOK' /\ CacheTrue'
  BY <1>1 DEF RInv, DataOK, CacheTrue, local, Clones
<1>5. FilesGrow(pl, pl)
  <2>1. clock' >= clock
    BY <1>1, RemoteAssumption DEF RInv, DataOK, local
  <2>2. \A q \in Places, x \in Paths : Landing(q, x)' => Landing(q, x)
    BY <1>2, <1>3 DEF Landing, At
  <2> QED
    BY <1>1, <2>1, <2>2 DEF FilesGrow, local
<1>6. \A x \in Paths : index'[x] \notin {Absent, Corrupt} =>
        Truthful(x, index'[x].hash, index'[x].mtime)
  BY <1>1 DEF RInv, IndexTrue
<1>7. \A r \in Clones, x \in Paths : ptrs'[r][x] # Absent =>
        Truthful(x, ptrs'[r][x].hash, ptrs'[r][x].mtime)
  BY <1>1 DEF RInv, PtrsTrue, local
<1> QED
  BY <1>1, <1>2, <1>3, <1>4, <1>5, <1>6, <1>7, Carry DEF local

(* Pushes start on files that are there.                                   *)
LEMMA PushJobFacts ==
  ASSUME NEW c \in Pushes, NEW S \in SUBSET Paths
  PROVE  \A force \in BOOLEAN :
           /\ PushJob(c, S, force) \in Job /\ PushJob(c, S, force).cmd = c
           /\ DOMAIN PushJob(c, S, force).task = S
           /\ \A x \in S : PushJob(c, S, force).task[x].at = "hash"
<1> DEFINE l == [p \in S |-> NewTask("hash", Absent, 0)]
<1>1. \A x \in S : l[x] \in Task /\ l[x].at = "hash"
  BY RemoteAssumption DEF NewTask, Task, Stages
<1>2. l \in [S -> Task]
  BY <1>1
<1>3. l \in TaskList /\ DOMAIN l = S
  BY <1>2, TaskListIntro
<1> HIDE DEF l
<1>4. c \in Running
  BY DEF Running, Pushes
<1>5. \A force \in BOOLEAN : PushJob(c, S, force) = [cmd |-> c, force |-> force, task |-> l, hashes |-> {}]
  BY DEF PushJob, MakeJob, l
<1> QED
  BY <1>1, <1>3, <1>4, <1>5 DEF Job

LEMMA PushJobStarts ==
  ASSUME RInv, NEW pl \in Places,
         NEW c \in Pushes, NEW S \in SUBSET Paths, S \subseteq Present(pl), Ready(pl, c),
         \E force \in BOOLEAN : Become(pl, PushJob(c, S, force)),
         UNCHANGED <<remote, local>>
  PROVE  RInv'
<1>1. PICK force \in BOOLEAN : Become(pl, PushJob(c, S, force))
  OBVIOUS
<1> DEFINE j == PushJob(c, S, force)
<1>2. /\ j \in Job /\ j.cmd = c /\ DOMAIN j.task = S
      /\ \A x \in S : j.task[x].at = "hash"
  BY PushJobFacts
<1>3. Become(pl, j)
  BY <1>1
<1> HIDE DEF j
<1>4. JobOK' /\ job'[pl] = j
  BY <1>2, <1>3, BecomeFacts DEF RInv
<1>5. commands' \in 0..MaxCommands
  BY RemoteAssumption DEF Ready, RInv, DataOK
<1>6. DataOK' /\ UNCHANGED <<clock, index, cache, files, ptrs>>
  BY <1>5 DEF RInv, DataOK, remote, local, Clones
<1>7. \A x \in DOMAIN j.task : j.task[x].at \notin {"land", "index"} /\ HandledAt(pl, x)'
  BY <1>2, <1>4, <1>6 DEF HandledAt, Pushes, Present
<1>8. \A r \in Clones, x \in Paths : ptrs'[r][x] # Absent =>
        Truthful(x, ptrs'[r][x].hash, ptrs'[r][x].mtime)
  BY <1>6 DEF RInv, PtrsTrue
<1>9. j.cmd # "browse"
  BY <1>2 DEF Pushes
<1> QED
  BY <1>2, <1>3, <1>6, <1>7, <1>8, <1>9, JobChanges

LEMMA StartPushStep ==
  ASSUME RInv, NEW pl \in Places, NEW S \in SUBSET Paths, NEW force \in BOOLEAN,
         StartPush(pl, S, force)
  PROVE  RInv'
<1>1. "push" \in Pushes
  BY DEF Pushes
<1> QED
  BY <1>1, PushJobStarts DEF StartPush

LEMMA StartOverridesStep ==
  ASSUME RInv, NEW pl \in Places, StartOverrides(pl)
  PROVE  RInv'
<1> DEFINE S == {p \in Pointed(pl) \cap Present(pl) : ptrs[pl][p].override}
<1>1. S \in SUBSET Paths /\ S \subseteq Present(pl)
  BY DEF Present
<1>2. /\ Ready(pl, "overrides")
      /\ \E force \in BOOLEAN : Become(pl, PushJob("overrides", S, force))
      /\ UNCHANGED <<remote, local>>
  BY DEF StartOverrides
<1> HIDE DEF S
<1>3. "overrides" \in Pushes
  BY DEF Pushes
<1> QED
  BY <1>1, <1>2, <1>3, PushJobStarts

(* Tasks of a pull, a browser, a deletion and a clean-up.                  *)
LEMMA TasksFacts ==
  ASSUME NEW c \in {"pull", "browse", "delete", "clean"}, NEW l \in TaskList
  PROVE  NewJob(c, l) \in Job /\ NewJob(c, l).cmd = c /\ NewJob(c, l).task = l
<1>1. c \in Running
  BY DEF Running
<1> QED
  BY <1>1, NewJobFacts

LEMMA PullTasksFacts ==
  ASSUME NEW S \in SUBSET Paths, NEW ptr, \A p \in S : ptr[p].hash \in Data
  PROVE  /\ PullTasks(S, ptr) \in TaskList /\ DOMAIN PullTasks(S, ptr) = S
         /\ \A p \in S : PullTasks(S, ptr)[p].at = "check" /\ PullTasks(S, ptr)[p].hash = ptr[p].hash
<1>1. \A p \in S : NewTask("check", ptr[p].hash, 0) \in Task
  BY RemoteAssumption DEF NewTask, Task, Stages
<1>2. PullTasks(S, ptr) \in [S -> Task]
  BY <1>1 DEF PullTasks
<1> QED
  BY <1>2, TaskListIntro DEF PullTasks, NewTask

(* A pull starts from pointers that are true.                              *)
LEMMA PullStarts ==
  ASSUME RInv, NEW pl \in Places, NEW S \in SUBSET Paths, NEW ptr, \A p \in S : ptr[p].hash \in Data,
         Become(pl, NewJob("pull", PullTasks(S, ptr))), UNCHANGED <<remote, files, clock>>,
         commands' \in 0..MaxCommands,
         ptrs' \in [Clones -> [Paths -> Pointer \cup {Absent}]],
         \A r \in Clones, x \in Paths : ptrs'[r][x] # Absent =>
           Truthful(x, ptrs'[r][x].hash, ptrs'[r][x].mtime)
  PROVE  RInv'
<1> DEFINE j == NewJob("pull", PullTasks(S, ptr))
<1>1. /\ PullTasks(S, ptr) \in TaskList /\ DOMAIN PullTasks(S, ptr) = S
      /\ \A p \in S : PullTasks(S, ptr)[p].at = "check" /\ PullTasks(S, ptr)[p].hash = ptr[p].hash
  BY PullTasksFacts
<1>2. j \in Job /\ j.cmd = "pull" /\ j.task = PullTasks(S, ptr)
  BY <1>1, TasksFacts
<1> HIDE DEF j
<1>3. Become(pl, j) /\ JobOK' /\ job'[pl] = j
  BY <1>2, BecomeFacts DEF RInv, j
<1>4. DataOK' /\ UNCHANGED <<clock, index, cache, files>>
  BY DEF RInv, DataOK, remote, Clones
<1>5. \A x \in DOMAIN j.task : j.task[x].at \notin {"land", "index"} /\ HandledAt(pl, x)'
  BY <1>1, <1>2, <1>3 DEF HandledAt, Pushes
<1> QED
  BY <1>2, <1>3, <1>4, <1>5, JobChanges

LEMMA AsPointerFacts ==
  ASSUME NEW e, e.hash \in Data, e.mtime \in 0..MaxClock
  PROVE  /\ AsPointer(e) \in Pointer /\ AsPointer(e) # Absent
         /\ AsPointer(e).hash = e.hash /\ AsPointer(e).mtime = e.mtime
<1>1. AsPointer(e) \in Pointer /\ AsPointer(e).hash = e.hash /\ AsPointer(e).mtime = e.mtime
  BY DEF AsPointer, Pointer
<1> QED
  BY <1>1, RemoteAssumption

LEMMA IndexEntries ==
  ASSUME RInv
  PROVE  \A p \in Indexed : /\ p \in Paths /\ index[p].hash \in Data /\ index[p].mtime \in 0..MaxClock
                            /\ Truthful(p, index[p].hash, index[p].mtime)
BY DEF RInv, DataOK, Indexed, Entry, IndexTrue

LEMMA SyncStep ==
  ASSUME RInv, NEW pl \in Places, Sync(pl)
  PROVE  RInv'
<1> DEFINE new == [p \in Paths |-> IF p \in Indexed THEN AsPointer(index[p]) ELSE ptrs[pl][p]]
<1>1. pl \in Clones /\ ptrs' = [ptrs EXCEPT ![pl] = new]
  BY DEF Sync, Clones
<1>2. \A p \in Indexed : /\ AsPointer(index[p]) \in Pointer
                         /\ AsPointer(index[p]).hash = index[p].hash
                         /\ AsPointer(index[p]).mtime = index[p].mtime
  BY IndexEntries, AsPointerFacts
<1>3. new \in [Paths -> Pointer \cup {Absent}]
  BY <1>1, <1>2 DEF RInv, DataOK
<1>4. \A p \in Paths : new[p] # Absent => Truthful(p, new[p].hash, new[p].mtime)
  BY <1>1, <1>2, IndexEntries DEF RInv, PtrsTrue
<1> HIDE DEF new
<1>5. ptrs' \in [Clones -> [Paths -> Pointer \cup {Absent}]]
  BY <1>1, <1>3 DEF RInv, DataOK
<1>6. \A r \in Clones, x \in Paths : ptrs'[r][x] # Absent =>
        Truthful(x, ptrs'[r][x].hash, ptrs'[r][x].mtime)
  BY <1>1, <1>4 DEF RInv, DataOK, PtrsTrue
<1>7. UNCHANGED <<remote, files, clock, job>> /\ commands' \in 0..MaxCommands
  BY RemoteAssumption DEF Sync, Ready, RInv, DataOK
<1>8. DataOK' /\ JobOK' /\ CacheTrue'
  BY <1>5, <1>7 DEF RInv, DataOK, JobOK, CacheTrue, remote, Clones
<1>9. FilesGrow(pl, pl)
  <2>1. clock' >= clock
    BY <1>7, RemoteAssumption DEF RInv, DataOK
  <2> QED
    BY <1>7, <2>1 DEF FilesGrow, Landing, At
<1>10. \A x \in Paths : index'[x] \notin {Absent, Corrupt} =>
        Truthful(x, index'[x].hash, index'[x].mtime)
  BY <1>7 DEF RInv, IndexTrue, remote
<1>11. \A x \in DOMAIN job'[pl].task : Noted(pl, x)' =>
         Truthful(x, job'[pl].task[x].hash, job'[pl].task[x].mtime)
  BY <1>7 DEF Noted, RInv, TasksTrue
<1>12. \A x \in DOMAIN job'[pl].task : HandledAt(pl, x)'
  BY <1>7 DEF RInv, Handled, HandledAt, Has
<1> QED
  BY <1>6, <1>7, <1>8, <1>9, <1>10, <1>11, <1>12, Carry

LEMMA PullNameStep ==
  ASSUME RInv, NEW pl \in Places, NEW p \in Paths, PullName(pl, p)
  PROVE  RInv'
<1>1. pl \in Clones /\ p \in Pointed(pl)
  BY DEF PullName, Clones
<1>2. ptrs[pl][p].hash \in Data
  BY <1>1 DEF Pointed, RInv, DataOK, Pointer
<1>3. UNCHANGED <<remote, files, clock, ptrs>> /\ commands' \in 0..MaxCommands
  BY RemoteAssumption DEF PullName, Ready, RInv, DataOK, local
<1>4. {p} \in SUBSET Paths /\ Become(pl, NewJob("pull", PullTasks({p}, ptrs[pl])))
  BY DEF PullName
<1>5. \A x \in {p} : ptrs[pl][x].hash \in Data
  BY <1>2
<1>6. \A r \in Clones, x \in Paths : ptrs'[r][x] # Absent =>
        Truthful(x, ptrs'[r][x].hash, ptrs'[r][x].mtime)
  BY <1>3 DEF RInv, PtrsTrue
<1>7. ptrs' \in [Clones -> [Paths -> Pointer \cup {Absent}]]
  BY <1>3 DEF RInv, DataOK
<1> QED
  BY <1>3, <1>4, <1>5, <1>6, <1>7, PullStarts

LEMMA EnsureLocalStep ==
  ASSUME RInv, NEW pl \in Places, NEW p \in Paths, EnsureLocal(pl, p)
  PROVE  RInv'
<1> DEFINE r == Home[pl]
           fetched == IF p \in Pointed(r) THEN ptrs[r] ELSE [ptrs[r] EXCEPT ![p] = AsPointer(index[p])]
<1>1. r \in Clones
  BY DEF Clones
<1>2. /\ p \in Pointed(r) \cup Indexed /\ ptrs' = [ptrs EXCEPT ![r] = fetched]
      /\ Become(pl, NewJob("pull", PullTasks({p}, fetched)))
      /\ UNCHANGED <<remote, files, clock>>
  BY DEF EnsureLocal
<1>3. commands' \in 0..MaxCommands
  BY RemoteAssumption DEF EnsureLocal, Ready, RInv, DataOK
<1>4. /\ fetched \in [Paths -> Pointer \cup {Absent}]
      /\ \A x \in Paths : fetched[x] # Absent => Truthful(x, fetched[x].hash, fetched[x].mtime)
      /\ fetched[p] \in Pointer
  <2>1. CASE p \in Pointed(r)
    BY <1>1, <2>1 DEF RInv, DataOK, PtrsTrue, Pointed
  <2>2. CASE p \notin Pointed(r)
    <3>1. p \in Indexed
      BY <1>2, <2>2
    <3>2. /\ AsPointer(index[p]) \in Pointer
          /\ AsPointer(index[p]).hash = index[p].hash /\ AsPointer(index[p]).mtime = index[p].mtime
          /\ Truthful(p, index[p].hash, index[p].mtime)
      BY <3>1, IndexEntries, AsPointerFacts
    <3>3. fetched = [ptrs[r] EXCEPT ![p] = AsPointer(index[p])]
      BY <2>2
    <3> HIDE DEF fetched, r
    <3> QED
      BY <1>1, <3>2, <3>3 DEF RInv, DataOK, PtrsTrue
  <2> QED
    BY <2>1, <2>2
<1> HIDE DEF fetched, r
<1>5. \A x \in {p} : fetched[x].hash \in Data
  BY <1>4 DEF Pointer
<1>6. /\ ptrs' \in [Clones -> [Paths -> Pointer \cup {Absent}]]
      /\ \A c \in Clones, x \in Paths : ptrs'[c][x] # Absent =>
           Truthful(x, ptrs'[c][x].hash, ptrs'[c][x].mtime)
  BY <1>1, <1>2, <1>4 DEF RInv, DataOK, PtrsTrue
<1>7. {p} \in SUBSET Paths
  OBVIOUS
<1> QED
  BY <1>2, <1>3, <1>5, <1>6, <1>7, PullStarts

LEMMA BrowseStep ==
  ASSUME RInv, NEW pl \in Places, Browse(pl)
  PROVE  RInv'
<1> DEFINE l == [p \in Indexed |-> NewTask("seen", index[p].hash, index[p].mtime)]
           j == NewJob("browse", l)
<1>1. \A p \in Indexed : l[p] \in Task /\ l[p].at = "seen" /\ l[p].hash = index[p].hash
                         /\ l[p].mtime = index[p].mtime
  BY IndexEntries DEF NewTask, Task, Stages
<1>2. Indexed \in SUBSET Paths /\ l \in [Indexed -> Task]
  BY <1>1 DEF Indexed
<1>3. l \in TaskList /\ DOMAIN l = Indexed
  BY <1>2, TaskListIntro
<1> HIDE DEF l
<1>4. j \in Job /\ j.cmd = "browse" /\ j.task = l
  BY <1>3, TasksFacts
<1>5. Become(pl, j) /\ UNCHANGED <<remote, local>> /\ commands' \in 0..MaxCommands
  BY RemoteAssumption DEF Browse, Ready, RInv, DataOK, l
<1> HIDE DEF j
<1>6. JobOK' /\ job'[pl] = j
  BY <1>4, <1>5, BecomeFacts DEF RInv
<1>7. DataOK' /\ UNCHANGED <<clock, index, cache, files, ptrs>>
  BY <1>5 DEF RInv, DataOK, remote, local, Clones
<1>8. \A x \in DOMAIN j.task : j.task[x].at \notin {"land", "index"} /\ HandledAt(pl, x)'
  <2> SUFFICES ASSUME NEW x \in Indexed PROVE l[x].at \notin {"land", "index"} /\ HandledAt(pl, x)'
    BY <1>3, <1>4
  <2>1. l[x].hash \in Data
    BY <1>1, IndexEntries
  <2> QED
    BY <1>1, <1>4, <1>6, <2>1 DEF HandledAt, Pushes
<1>9. \A x \in DOMAIN j.task : Truthful(x, j.task[x].hash, j.task[x].mtime)
  BY <1>1, <1>3, <1>4, IndexEntries
<1>10. \A r \in Clones, x \in Paths : ptrs'[r][x] # Absent =>
         Truthful(x, ptrs'[r][x].hash, ptrs'[r][x].mtime)
  BY <1>7 DEF RInv, PtrsTrue
<1> QED
  BY <1>4, <1>5, <1>7, <1>8, <1>9, <1>10, JobChanges

LEMMA BrowsePullStep ==
  ASSUME RInv, NEW pl \in Places, NEW S \in SUBSET Paths, BrowsePull(pl, S)
  PROVE  RInv'
<1> DEFINE seen == job[pl].task
           new == [p \in Paths |-> IF p \in S THEN AsPointer(seen[p]) ELSE ptrs[pl][p]]
<1>1. /\ job[pl].cmd = "browse" /\ S \subseteq DOMAIN seen
      /\ Become(pl, NewJob("pull", PullTasks(S, seen)))
      /\ UNCHANGED <<commands, remote, files, clock>>
      /\ ptrs' = [ptrs EXCEPT ![pl] = new]
  BY DEF BrowsePull
<1>2. \A p \in S : /\ seen[p].hash \in Data /\ seen[p].mtime \in 0..MaxClock
                   /\ Truthful(p, seen[p].hash, seen[p].mtime)
  BY <1>1, JobFacts DEF RInv, Handled, HandledAt, TasksTrue, Noted, Task
<1>3. \A p \in S : /\ AsPointer(seen[p]) \in Pointer
                   /\ AsPointer(seen[p]).hash = seen[p].hash
                   /\ AsPointer(seen[p]).mtime = seen[p].mtime
  BY <1>2, AsPointerFacts
<1>4. pl \in Clones => /\ new \in [Paths -> Pointer \cup {Absent}]
                       /\ \A p \in Paths : new[p] # Absent => Truthful(p, new[p].hash, new[p].mtime)
  BY <1>2, <1>3 DEF RInv, DataOK, PtrsTrue
<1> HIDE DEF new
<1>5. /\ ptrs' \in [Clones -> [Paths -> Pointer \cup {Absent}]]
      /\ \A r \in Clones, x \in Paths : ptrs'[r][x] # Absent =>
           Truthful(x, ptrs'[r][x].hash, ptrs'[r][x].mtime)
  BY <1>1, <1>4 DEF RInv, DataOK, PtrsTrue
<1>6. commands' \in 0..MaxCommands /\ \A p \in S : seen[p].hash \in Data
  BY <1>1, <1>2 DEF RInv, DataOK
<1> HIDE DEF seen
<1> QED
  BY <1>1, <1>5, <1>6, PullStarts

(* From here on the task list is replaced by one that says nothing of the  *)
(* files, or what is true of them.                                         *)
LEMMA BrowseDeleteStep ==
  ASSUME RInv, NEW pl \in Places, NEW S \in SUBSET Paths, BrowseDelete(pl, S)
  PROVE  RInv'
<1> DEFINE seen == job[pl].task
           l == [p \in S |-> NewTask("blob", seen[p].hash, seen[p].mtime)]
           j == NewJob("delete", l)
<1>1. /\ job[pl].cmd = "browse" /\ S \subseteq DOMAIN seen
      /\ Become(pl, j)
      /\ UNCHANGED <<commands, remote, local>>
  BY DEF BrowseDelete
<1>2. \A p \in S : seen[p].hash \in Data /\ seen[p].mtime \in 0..MaxClock
  BY <1>1, JobFacts DEF RInv, Handled, HandledAt, Task
<1>3. \A p \in S : l[p] \in Task /\ l[p].at = "blob" /\ l[p].hash = seen[p].hash
  BY <1>2 DEF NewTask, Task, Stages
<1>4. l \in [S -> Task]
  BY <1>3
<1>5. l \in TaskList /\ DOMAIN l = S
  BY <1>4, TaskListIntro
<1> HIDE DEF l
<1>6. j \in Job /\ j.cmd = "delete" /\ j.task = l
  BY <1>5, TasksFacts
<1> HIDE DEF j, seen
<1>7. JobOK' /\ job'[pl] = j
  BY <1>1, <1>6, BecomeFacts DEF RInv
<1>8. DataOK' /\ UNCHANGED <<clock, index, cache, files, ptrs>>
  BY <1>1 DEF RInv, DataOK, remote, local, Clones
<1>9. \A x \in DOMAIN j.task : j.task[x].at \notin {"land", "index"} /\ HandledAt(pl, x)'
  BY <1>2, <1>3, <1>5, <1>6, <1>7 DEF HandledAt, Pushes
<1>10. \A r \in Clones, x \in Paths : ptrs'[r][x] # Absent =>
         Truthful(x, ptrs'[r][x].hash, ptrs'[r][x].mtime)
  BY <1>8 DEF RInv, PtrsTrue
<1> QED
  BY <1>1, <1>6, <1>8, <1>9, <1>10, JobChanges

(* clean takes the word of pointers with the time of the file.             *)
LEMMA CleanStep ==
  ASSUME RInv, NEW pl \in Places, Clean(pl)
  PROVE  RInv'
<1> DEFINE S == {p \in Paths : SafeToDelete(pl, p)}
           l == [p \in S |-> NewTask("seen", ptrs[pl][p].hash, 0)]
           j == NewJob("clean", l)
<1>1. pl \in Clones
  BY DEF Clean, Clones
<1>2. \A p \in S : p \in Paths /\ Has(pl, p, ptrs[pl][p].hash) /\ ptrs[pl][p].hash \in Data
  BY <1>1 DEF SafeToDelete, Pointed, Present, Has, RInv, PtrsTrue, Truthful, DataOK, Pointer
<1>3. \A p \in S : l[p] \in Task /\ l[p].at = "seen" /\ l[p].hash = ptrs[pl][p].hash
  BY <1>2, RemoteAssumption DEF NewTask, Task, Stages
<1>4. S \in SUBSET Paths /\ l \in [S -> Task]
  BY <1>3
<1>5. l \in TaskList /\ DOMAIN l = S
  BY <1>4, TaskListIntro
<1>6. Become(pl, j) /\ UNCHANGED <<remote, local>> /\ commands' \in 0..MaxCommands
  BY RemoteAssumption DEF Clean, Ready, RInv, DataOK
<1> HIDE DEF l, S
<1>7. j \in Job /\ j.cmd = "clean" /\ j.task = l
  BY <1>5, TasksFacts
<1> HIDE DEF j
<1>8. JobOK' /\ job'[pl] = j
  BY <1>6, <1>7, BecomeFacts DEF RInv
<1>9. DataOK' /\ UNCHANGED <<clock, index, cache, files, ptrs>>
  BY <1>6 DEF RInv, DataOK, remote, local, Clones
<1>10. \A x \in DOMAIN j.task : j.task[x].at \notin {"land", "index"} /\ HandledAt(pl, x)'
  BY <1>2, <1>3, <1>5, <1>7, <1>8, <1>9 DEF HandledAt, Pushes, Has
<1>11. \A r \in Clones, x \in Paths : ptrs'[r][x] # Absent =>
         Truthful(x, ptrs'[r][x].hash, ptrs'[r][x].mtime)
  BY <1>9 DEF RInv, PtrsTrue
<1> QED
  BY <1>6, <1>7, <1>9, <1>10, <1>11, JobChanges

(* The steps of one file of a push.                                        *)
LEMMA CompareStep ==
  ASSUME RInv, NEW pl \in Places, NEW p \in Paths, Compare(pl, p)
  PROVE  RInv'
<1> DEFINE h == Digest(pl, p)
<1>1. /\ p \in DOMAIN job[pl].task /\ job[pl].cmd \in Pushes /\ HandledAt(pl, p)
  BY AtFacts DEF Compare
<1>2. files[pl][p] # Absent /\ h = files[pl][p].content /\ h \in Data
  BY <1>1, DigestIsContent DEF HandledAt
<1>3. ~Landing(pl, p)
  BY <1>1 DEF Landing, At, Pushes
<1>4. PICK at \in {"ok", "skipped", "blob"} :
        /\ job' = [job EXCEPT ![pl].task[p] = NewTask(at, h, 0)]
        /\ write_ptr(pl, p, h, FALSE) \/ write_ptr(pl, p, h, TRUE) \/ UNCHANGED ptrs
        /\ UNCHANGED <<commands, remote, files, clock>>
  BY DEF Compare
<1> HIDE DEF h
<1>5. NewTask(at, h, 0) \in Task /\ NewTask(at, h, 0).at = at /\ NewTask(at, h, 0).hash = h
  BY <1>2, RemoteAssumption DEF NewTask, Task, Stages
<1>6. Has(pl, p, h)
  BY <1>2 DEF Has
<1>7. /\ ptrs' \in [Clones -> [Paths -> Pointer \cup {Absent}]]
      /\ \A r \in Clones, x \in Paths : ptrs'[r][x] # Absent =>
           Truthful(x, ptrs'[r][x].hash, ptrs'[r][x].mtime)
  <2>1. CASE UNCHANGED ptrs
    BY <2>1 DEF RInv, DataOK, PtrsTrue
  <2>2. CASE \E flag \in BOOLEAN : write_ptr(pl, p, h, flag)
    BY <1>2, <1>3, <1>6, <2>2, write_ptr_True
  <2> QED
    BY <1>4, <2>1, <2>2
<1>8. DataOK' /\ UNCHANGED <<files, clock, index, cache>>
  BY <1>4, <1>7 DEF RInv, DataOK, remote, Clones
<1> DEFINE t == NewTask(at, h, 0)
<1>9. /\ t \in Task /\ job' = [job EXCEPT ![pl].task[p] = t] /\ Has(pl, p, t.hash)
      /\ t.at # "index"
  BY <1>4, <1>5, <1>6
<1> HIDE DEF t
<1> QED
  BY <1>1, <1>7, <1>8, <1>9, PushTaskSet

LEMMA FindBlobStep ==
  ASSUME RInv, NEW pl \in Places, NEW p \in Paths, FindBlob(pl, p)
  PROVE  RInv'
<1>1. /\ p \in DOMAIN job[pl].task /\ job[pl].cmd \in Pushes /\ HandledAt(pl, p)
      /\ job[pl].task[p].at = "blob"
  BY AtFacts DEF FindBlob
<1>2. PICK at \in {"ptr", "put"} : Go(pl, p, at) /\ temps' \in {temps, temps \cup {<<pl, p>>}}
  BY DEF FindBlob
<1>3. UNCHANGED <<commands, index, cache, files, ptrs, clock>>
  BY DEF FindBlob, local
<1>4. DataOK' /\ CacheTrue'
  BY <1>2, <1>3 DEF RInv, DataOK, CacheTrue, Clones
<1>5. /\ at \in Stages /\ at # "land" /\ job'[pl].cmd = job[pl].cmd /\ job'[pl].task[p].at = at
      /\ job'[pl].task[p].hash = job[pl].task[p].hash
  BY <1>1, <1>2, GoFacts DEF Stages, RInv
<1>6. HandledAt(pl, p)' /\ ~Noted(pl, p)'
  BY <1>1, <1>2, <1>3, <1>5 DEF HandledAt, Has, Noted, Pushes
<1> QED
  BY <1>1, <1>2, <1>3, <1>4, <1>5, <1>6, TaskMoves

LEMMA PutBlobStep ==
  ASSUME RInv, NEW pl \in Places, NEW p \in Paths, PutBlob(pl, p)
  PROVE  RInv'
<1>1. /\ p \in DOMAIN job[pl].task /\ job[pl].cmd \in Pushes /\ HandledAt(pl, p)
      /\ job[pl].task[p].at = "put"
  BY AtFacts DEF PutBlob
<1>2. Has(pl, p, job[pl].task[p].hash) /\ files[pl][p].content \in Data
  BY <1>1 DEF HandledAt, Has, RInv, DataOK, File
<1>3. PICK at \in {"ptr", "failed"} : Go(pl, p, at)
  BY DEF PutBlob
<1>4. UNCHANGED <<commands, index, files, ptrs, clock>> /\ temps' = temps \ {<<pl, p>>}
  BY DEF PutBlob, local
<1>5. cache' = cache \/ cache' = [cache EXCEPT ![job[pl].task[p].hash] = files[pl][p].content]
  BY DEF PutBlob
<1>6. cache' \in [Data -> Data \cup {Absent}] /\ CacheTrue'
  BY <1>2, <1>5 DEF RInv, DataOK, CacheTrue, Has
<1>7. DataOK'
  BY <1>4, <1>6 DEF RInv, DataOK, Clones
<1>8. /\ at \in Stages /\ at # "land" /\ job'[pl].cmd = job[pl].cmd /\ job'[pl].task[p].at = at
      /\ job'[pl].task[p].hash = job[pl].task[p].hash
  BY <1>1, <1>3, GoFacts DEF Stages, RInv
<1>9. HandledAt(pl, p)' /\ ~Noted(pl, p)'
  BY <1>1, <1>2, <1>3, <1>4, <1>8 DEF HandledAt, Has, Noted, Pushes
<1> QED
  BY <1>1, <1>3, <1>4, <1>6, <1>7, <1>8, <1>9, TaskMoves

LEMMA PushPointerStep ==
  ASSUME RInv, NEW pl \in Places, NEW p \in Paths, PushPointer(pl, p)
  PROVE  RInv'
<1> DEFINE h == job[pl].task[p].hash
           t == NewTask("index", h, files[pl][p].mtime)
<1>1. /\ p \in DOMAIN job[pl].task /\ job[pl].cmd \in Pushes /\ HandledAt(pl, p)
      /\ job[pl].task[p].at = "ptr"
  BY AtFacts DEF PushPointer
<1>2. /\ Has(pl, p, h) /\ h \in Data /\ files[pl][p].mtime \in 0..MaxClock
  BY <1>1 DEF HandledAt, Has, RInv, DataOK, File
<1>3. t \in Task /\ t.hash = h /\ t.mtime = files[pl][p].mtime
  BY <1>2 DEF NewTask, Task, Stages
<1>4. job' = [job EXCEPT ![pl].task[p] = t]
  BY DEF PushPointer
<1>5. UNCHANGED <<commands, remote, files, clock>>
  BY DEF PushPointer
<1>6. \E flag \in BOOLEAN : write_ptr(pl, p, h, flag)
  BY DEF PushPointer
<1> HIDE DEF h, t
<1>7. ~Landing(pl, p)
  BY <1>1 DEF Landing, At, Pushes
<1>8. /\ ptrs' \in [Clones -> [Paths -> Pointer \cup {Absent}]]
      /\ \A r \in Clones, x \in Paths : ptrs'[r][x] # Absent =>
           Truthful(x, ptrs'[r][x].hash, ptrs'[r][x].mtime)
  BY <1>2, <1>6, <1>7, write_ptr_True
<1>9. DataOK' /\ UNCHANGED <<files, clock, index, cache>>
  BY <1>5, <1>8 DEF RInv, DataOK, remote, Clones
<1> QED
  BY <1>1, <1>2, <1>3, <1>4, <1>8, <1>9, PushTaskSet

LEMMA PushIndexStep ==
  ASSUME RInv, NEW pl \in Places, NEW p \in Paths, PushIndex(pl, p)
  PROVE  RInv'
<1> DEFINE t == job[pl].task[p]
           e == [hash |-> t.hash, mtime |-> t.mtime]
<1>1. /\ p \in DOMAIN job[pl].task /\ job[pl].cmd \in Pushes /\ HandledAt(pl, p)
      /\ t.at = "index" /\ t \in Task
  BY AtFacts DEF PushIndex
<1>2. Truthful(p, t.hash, t.mtime) /\ Has(pl, p, t.hash) /\ t.hash \in Data /\ t.mtime \in 0..MaxClock
  BY <1>1 DEF HandledAt, Has, RInv, DataOK, File, TasksTrue, Noted, Task
<1>3. e \in Entry /\ e.hash = t.hash /\ e.mtime = t.mtime
  BY <1>2 DEF Entry
<1>4. index' = [index EXCEPT ![p] = e] /\ Go(pl, p, "ok") /\ UNCHANGED <<commands, cache, temps, files, ptrs, clock>>
  BY DEF PushIndex, local
<1> HIDE DEF e
<1>5. /\ index' \in [Paths -> Entry \cup {Absent, Corrupt}]
      /\ \A x \in Paths : index'[x] \notin {Absent, Corrupt} =>
           Truthful(x, index'[x].hash, index'[x].mtime)
  BY <1>2, <1>3, <1>4 DEF RInv, DataOK, IndexTrue
<1>6. DataOK' /\ CacheTrue'
  BY <1>4, <1>5 DEF RInv, DataOK, CacheTrue, Clones
<1>7. "ok" \in Stages
  BY DEF Stages
<1>8. /\ JobOK' /\ \A q \in Places \ {pl} : job'[q] = job[q]
      /\ job'[pl].cmd = job[pl].cmd
      /\ DOMAIN job'[pl].task = DOMAIN job[pl].task
      /\ job'[pl].task[p].at = "ok"
      /\ job'[pl].task[p].hash = t.hash
      /\ \A x \in DOMAIN job[pl].task \ {p} : job'[pl].task[x] = job[pl].task[x]
  BY <1>1, <1>4, <1>7, GoFacts DEF RInv
<1>9. FilesGrow(pl, p)
  <2>1. clock' >= clock
    BY <1>4, RemoteAssumption DEF RInv, DataOK
  <2>2. \A q \in Places, x \in Paths : Landing(q, x)' => Landing(q, x)
    BY <1>8 DEF Landing, At
  <2> QED
    BY <1>4, <2>1, <2>2 DEF FilesGrow
<1>10. \A x \in DOMAIN job'[pl].task : HandledAt(pl, x)'
  <2> SUFFICES ASSUME NEW x \in DOMAIN job[pl].task PROVE HandledAt(pl, x)'
    BY <1>8
  <2>1. CASE x = p
    BY <1>1, <1>2, <1>4, <1>8, <2>1 DEF HandledAt, Has, Pushes
  <2>2. CASE x # p
    <3>1. HandledAt(pl, x)
      BY DEF RInv, Handled
    <3> QED
      BY <1>4, <1>8, <2>2, <3>1 DEF HandledAt, Has
  <2> QED
    BY <2>1, <2>2
<1>11. \A x \in DOMAIN job'[pl].task : Noted(pl, x)' =>
         Truthful(x, job'[pl].task[x].hash, job'[pl].task[x].mtime)
  BY <1>1, <1>8 DEF Noted, RInv, TasksTrue, Pushes
<1>12. \A r \in Clones, x \in Paths : ptrs'[r][x] # Absent =>
        Truthful(x, ptrs'[r][x].hash, ptrs'[r][x].mtime)
  BY <1>4 DEF RInv, PtrsTrue
<1> QED
  BY <1>4, <1>5, <1>6, <1>8, <1>9, <1>10, <1>11, <1>12, Carry

LEMMA SftpErrorStep ==
  ASSUME RInv, NEW pl \in Places, NEW p \in Paths, SftpError(pl, p)
  PROVE  RInv'
<1>1. /\ p \in DOMAIN job[pl].task /\ job[pl].cmd \in Pushes \cup {"pull"} /\ HandledAt(pl, p)
  BY DEF SftpError, RInv, Handled
<1>2. /\ Go(pl, p, "failed") /\ temps' \in {temps, temps \ {<<pl, p>>}}
      /\ UNCHANGED <<commands, index, cache, files, ptrs, clock>>
  BY DEF SftpError, local
<1>3. DataOK' /\ CacheTrue'
  BY <1>2 DEF RInv, DataOK, CacheTrue, Clones
<1>4. "failed" \in Stages
  BY DEF Stages
<1>5. /\ job'[pl].cmd = job[pl].cmd /\ job'[pl].task[p].at = "failed"
      /\ job'[pl].task[p].hash = job[pl].task[p].hash
  BY <1>1, <1>2, <1>4, GoFacts DEF RInv
<1>6. HandledAt(pl, p)' /\ ~Noted(pl, p)'
  BY <1>1, <1>2, <1>5 DEF HandledAt, Has, Noted, Pushes
<1> QED
  BY <1>1, <1>2, <1>3, <1>4, <1>6, TaskMoves

(* The steps of one file of a pull.                                        *)
LEMMA CheckStep ==
  ASSUME RInv, NEW pl \in Places, NEW p \in Paths, Check(pl, p)
  PROVE  RInv'
<1>1. /\ p \in DOMAIN job[pl].task /\ job[pl].cmd \in {"pull"} /\ HandledAt(pl, p)
  BY AtFacts DEF Check
<1>2. PICK at \in {"ok", "get"} : Go(pl, p, at)
  BY DEF Check
<1>3. UNCHANGED <<commands, index, cache, temps, files, ptrs, clock>>
  BY DEF Check, local, remote
<1>4. DataOK' /\ CacheTrue'
  BY <1>3 DEF RInv, DataOK, CacheTrue, Clones
<1>5. at \in Stages /\ at # "land"
  BY DEF Stages
<1>6. /\ job'[pl].cmd = job[pl].cmd /\ job'[pl].task[p].at = at
      /\ job'[pl].task[p].hash = job[pl].task[p].hash
  BY <1>1, <1>2, <1>5, GoFacts DEF RInv
<1>7. HandledAt(pl, p)' /\ ~Noted(pl, p)'
  BY <1>1, <1>6 DEF HandledAt, Noted, Pushes
<1> QED
  BY <1>1, <1>2, <1>3, <1>4, <1>5, <1>7, TaskMoves

(* The file that a download writes gets a new time, and keeps it when it   *)
(* is whole.                                                               *)
LEMMA DownloadStep ==
  ASSUME RInv, NEW pl \in Places, NEW p \in DOMAIN job[pl].task, job[pl].cmd = "pull",
         NEW at \in {"land", "ptr"}, Go(pl, p, at), UNCHANGED <<commands, remote, ptrs>>,
         NEW f \in File, files' = [files EXCEPT ![pl][p] = f],
         job[pl].task[p].hash \in Data,
         clock' \in 0..MaxClock,
         \/ f.mtime = clock + 1 /\ clock' = clock + 1
         \/ Landing(pl, p) /\ at = "ptr" /\ files[pl][p] # Absent /\ f.mtime = files[pl][p].mtime /\ clock' = clock,
         at = "ptr" => f.content = job[pl].task[p].hash
  PROVE  RInv'
<1>1. p \in Paths /\ at \in Stages /\ f # Absent
  BY JobFacts, RemoteAssumption DEF RInv, Stages
<1>2. /\ JobOK' /\ \A q \in Places \ {pl} : job'[q] = job[q]
      /\ job'[pl].cmd = job[pl].cmd
      /\ DOMAIN job'[pl].task = DOMAIN job[pl].task
      /\ job'[pl].task[p].at = at
      /\ job'[pl].task[p].hash = job[pl].task[p].hash
      /\ \A x \in DOMAIN job[pl].task \ {p} : job'[pl].task[x] = job[pl].task[x]
  BY <1>1, GoFacts DEF RInv
<1>3. /\ files' \in [Places -> [Paths -> File \cup {Absent}]]
      /\ \A q \in Places, x \in Paths : files'[q][x] = IF q = pl /\ x = p THEN f ELSE files[q][x]
      /\ \A q \in Places \ {pl} : files'[q] = files[q]
  BY <1>1 DEF RInv, DataOK
<1>4. DataOK' /\ CacheTrue' /\ index' = index
  BY <1>3 DEF RInv, DataOK, CacheTrue, remote, Clones
<1>5. FilesGrow(pl, p)
  <2>1. clock' >= clock
    BY RemoteAssumption DEF RInv, DataOK
  <2>2. \A q \in Places, x \in Paths : ~(q = pl /\ x = p) => (Landing(q, x)' => Landing(q, x))
    BY <1>2 DEF Landing, At
  <2> QED
    BY <1>3, <2>1, <2>2 DEF FilesGrow
<1>6. \A x \in DOMAIN job'[pl].task : HandledAt(pl, x)'
  <2> SUFFICES ASSUME NEW x \in DOMAIN job[pl].task PROVE HandledAt(pl, x)'
    BY <1>2
  <2>1. CASE x = p
    BY <1>1, <1>2, <1>3, <2>1 DEF HandledAt, Has, Pushes
  <2>2. CASE x # p
    <3>1. HandledAt(pl, x) /\ x \in Paths
      BY JobFacts DEF RInv, Handled
    <3> QED
      BY <1>2, <1>3, <2>2, <3>1 DEF HandledAt, Has
  <2> QED
    BY <2>1, <2>2
<1>7. \A x \in DOMAIN job'[pl].task : Noted(pl, x)' =>
         Truthful(x, job'[pl].task[x].hash, job'[pl].task[x].mtime)
  BY <1>2 DEF Noted, Pushes
<1>8. \A x \in Paths : index'[x] \notin {Absent, Corrupt} =>
        Truthful(x, index'[x].hash, index'[x].mtime)
  BY <1>4 DEF RInv, IndexTrue
<1>9. \A r \in Clones, x \in Paths : ptrs'[r][x] # Absent =>
        Truthful(x, ptrs'[r][x].hash, ptrs'[r][x].mtime)
  BY DEF RInv, PtrsTrue
<1> QED
  BY <1>2, <1>3, <1>4, <1>5, <1>6, <1>7, <1>8, <1>9, Carry

LEMMA GetStep ==
  ASSUME RInv, NEW pl \in Places, NEW p \in Paths, Get(pl, p)
  PROVE  RInv'
<1>1. /\ p \in DOMAIN job[pl].task /\ job[pl].cmd = "pull" /\ HandledAt(pl, p)
  BY AtFacts DEF Get
<1>2. job[pl].task[p].hash \in Data
  BY <1>1 DEF HandledAt
<1>3. CASE job[pl].task[p].hash \in Blobs
  <2> DEFINE f == [content |-> Torn, mtime |-> clock + 1]
  <2>1. clock' = clock + 1 /\ clock' \in 0..MaxClock
    BY <1>3, RemoteAssumption DEF Get, RInv, DataOK
  <2>2. f \in File /\ f.mtime = clock + 1
    BY <2>1 DEF File, Data
  <2>3. files' = [files EXCEPT ![pl][p] = f] /\ Go(pl, p, "land") /\ UNCHANGED <<commands, remote, ptrs>>
    BY <1>3 DEF Get
  <2> HIDE DEF f
  <2> QED
    BY <1>1, <1>2, <2>1, <2>2, <2>3, DownloadStep
<1>4. CASE job[pl].task[p].hash \notin Blobs
  <2>1. Go(pl, p, "failed") /\ UNCHANGED <<commands, index, cache, temps, files, ptrs, clock>>
    BY <1>4 DEF Get, remote
  <2>2. DataOK' /\ CacheTrue'
    BY <2>1 DEF RInv, DataOK, CacheTrue, Clones
  <2>3. "failed" \in Stages
    BY DEF Stages
  <2>4. /\ job'[pl].cmd = job[pl].cmd /\ job'[pl].task[p].at = "failed"
        /\ job'[pl].task[p].hash = job[pl].task[p].hash
    BY <1>1, <2>1, <2>3, GoFacts DEF RInv
  <2>5. HandledAt(pl, p)' /\ ~Noted(pl, p)'
    BY <1>1, <2>4 DEF HandledAt, Noted, Pushes
  <2> QED
    BY <1>1, <2>1, <2>2, <2>3, <2>5, TaskMoves
<1> QED
  BY <1>3, <1>4

LEMMA LandStep ==
  ASSUME RInv, NEW pl \in Places, NEW p \in Paths, Land(pl, p)
  PROVE  RInv'
<1> DEFINE h == job[pl].task[p].hash
           f == [content |-> h, mtime |-> files[pl][p].mtime]
<1>1. /\ p \in DOMAIN job[pl].task /\ job[pl].cmd = "pull" /\ HandledAt(pl, p)
      /\ job[pl].task[p].at = "land"
  BY AtFacts DEF Land
<1>2. h \in Data /\ files[pl][p] \in File /\ files[pl][p] # Absent
  BY <1>1 DEF HandledAt, RInv, DataOK
<1>3. cache[h] = h
  BY <1>2 DEF Land, RInv, CacheTrue
<1>4. f \in File /\ f.mtime = files[pl][p].mtime /\ f.content = h
  BY <1>2 DEF File
<1>5. files' = [files EXCEPT ![pl][p] = f]
  <2>1. files' = [files EXCEPT ![pl][p] = [@ EXCEPT !.content = h]]
    BY <1>3 DEF Land
  <2>2. [files[pl][p] EXCEPT !.content = h] = f
    BY <1>2 DEF File
  <2> QED
    BY <2>1, <2>2
<1>6. Go(pl, p, "ptr") /\ UNCHANGED <<commands, remote, ptrs, clock>>
  BY DEF Land
<1>7. Landing(pl, p) /\ clock' \in 0..MaxClock
  BY <1>6 DEF Land, Landing, RInv, DataOK
<1> HIDE DEF f
<1> QED
  BY <1>1, <1>2, <1>4, <1>5, <1>6, <1>7, DownloadStep

LEMMA PullPointerStep ==
  ASSUME RInv, NEW pl \in Places, NEW p \in Paths, PullPointer(pl, p)
  PROVE  RInv'
<1> DEFINE h == job[pl].task[p].hash
<1>1. /\ p \in DOMAIN job[pl].task /\ job[pl].cmd = "pull" /\ HandledAt(pl, p)
      /\ job[pl].task[p].at = "ptr"
  BY AtFacts DEF PullPointer
<1>2. Has(pl, p, h) /\ h \in Data /\ ~Landing(pl, p)
  BY <1>1 DEF HandledAt, Landing, At
<1>3. Go(pl, p, "ok") /\ UNCHANGED <<commands, index, cache, temps, files, clock>>
  BY DEF PullPointer, remote
<1>4. \E flag \in BOOLEAN : write_ptr(pl, p, h, flag)
  BY DEF PullPointer
<1> HIDE DEF h
<1>5. /\ ptrs' \in [Clones -> [Paths -> Pointer \cup {Absent}]]
      /\ \A r \in Clones, x \in Paths : ptrs'[r][x] # Absent =>
           Truthful(x, ptrs'[r][x].hash, ptrs'[r][x].mtime)
  BY <1>2, <1>4, write_ptr_True
<1>6. "ok" \in Stages
  BY DEF Stages
<1>7. /\ JobOK' /\ \A q \in Places \ {pl} : job'[q] = job[q]
      /\ job'[pl].cmd = job[pl].cmd
      /\ DOMAIN job'[pl].task = DOMAIN job[pl].task
      /\ job'[pl].task[p].at = "ok"
      /\ job'[pl].task[p].hash = job[pl].task[p].hash
      /\ \A x \in DOMAIN job[pl].task \ {p} : job'[pl].task[x] = job[pl].task[x]
  BY <1>1, <1>3, <1>6, GoFacts DEF RInv
<1>8. DataOK' /\ CacheTrue'
  BY <1>3, <1>5 DEF RInv, DataOK, CacheTrue, Clones
<1>9. FilesGrow(pl, p)
  <2>1. clock' >= clock
    BY <1>3, RemoteAssumption DEF RInv, DataOK
  <2>2. \A q \in Places, x \in Paths : Landing(q, x)' => Landing(q, x)
    BY <1>7 DEF Landing, At
  <2> QED
    BY <1>3, <2>1, <2>2 DEF FilesGrow
<1>10. \A x \in DOMAIN job'[pl].task : HandledAt(pl, x)'
  <2> SUFFICES ASSUME NEW x \in DOMAIN job[pl].task PROVE HandledAt(pl, x)'
    BY <1>7
  <2>1. HandledAt(pl, x)
    BY DEF RInv, Handled
  <2> QED
    BY <1>1, <1>3, <1>7, <2>1 DEF HandledAt, Has, Pushes
<1>11. \A x \in DOMAIN job'[pl].task : Noted(pl, x)' =>
         Truthful(x, job'[pl].task[x].hash, job'[pl].task[x].mtime)
  BY <1>1, <1>7 DEF Noted, Pushes
<1>12. \A x \in Paths : index'[x] \notin {Absent, Corrupt} =>
        Truthful(x, index'[x].hash, index'[x].mtime)
  BY <1>3 DEF RInv, IndexTrue
<1> QED
  BY <1>3, <1>5, <1>7, <1>8, <1>9, <1>10, <1>11, <1>12, Carry

(* ls deletes a blob, then the pointers to it.                             *)
LEMMA DeleteBlobStep ==
  ASSUME RInv, NEW pl \in Places, NEW p \in Paths, DeleteBlob(pl, p)
  PROVE  RInv'
<1>1. /\ p \in DOMAIN job[pl].task /\ job[pl].cmd = "delete" /\ HandledAt(pl, p)
  BY AtFacts DEF DeleteBlob
<1>2. Go(pl, p, "index") /\ UNCHANGED <<commands, index, temps, files, ptrs, clock>>
  BY DEF DeleteBlob, local
<1>3. cache' = [cache EXCEPT ![job[pl].task[p].hash] = Absent]
  BY DEF DeleteBlob
<1>4. cache' \in [Data -> Data \cup {Absent}] /\ CacheTrue'
  BY <1>3 DEF RInv, DataOK, CacheTrue
<1>5. DataOK'
  BY <1>2, <1>4 DEF RInv, DataOK, Clones
<1>6. "index" \in Stages
  BY DEF Stages
<1>7. /\ job'[pl].cmd = job[pl].cmd /\ job'[pl].task[p].at = "index"
      /\ job'[pl].task[p].hash = job[pl].task[p].hash
  BY <1>1, <1>2, <1>6, GoFacts DEF RInv
<1>8. HandledAt(pl, p)' /\ ~Noted(pl, p)'
  BY <1>1, <1>7 DEF HandledAt, Noted, Pushes
<1> QED
  BY <1>1, <1>2, <1>4, <1>5, <1>6, <1>8, TaskMoves

LEMMA DeleteIndexStep ==
  ASSUME RInv, NEW pl \in Places, NEW p \in Paths, DeleteIndex(pl, p)
  PROVE  RInv'
<1>1. /\ p \in DOMAIN job[pl].task /\ job[pl].cmd = "delete" /\ HandledAt(pl, p)
  BY AtFacts DEF DeleteIndex
<1>2. /\ Go(pl, p, "ok") /\ UNCHANGED <<commands, cache, temps, files, clock>>
      /\ index' = [index EXCEPT ![p] = Absent] /\ ptrs' = [ptrs EXCEPT ![pl][p] = Absent]
  BY DEF DeleteIndex
<1>3. /\ index' \in [Paths -> Entry \cup {Absent, Corrupt}]
      /\ \A x \in Paths : index'[x] \notin {Absent, Corrupt} =>
           Truthful(x, index'[x].hash, index'[x].mtime)
  BY <1>2 DEF RInv, DataOK, IndexTrue
<1>4. /\ ptrs' \in [Clones -> [Paths -> Pointer \cup {Absent}]]
      /\ \A r \in Clones, x \in Paths : ptrs'[r][x] # Absent =>
           Truthful(x, ptrs'[r][x].hash, ptrs'[r][x].mtime)
  BY <1>2 DEF RInv, DataOK, PtrsTrue
<1>5. DataOK' /\ CacheTrue'
  BY <1>2, <1>3, <1>4 DEF RInv, DataOK, CacheTrue, Clones
<1>6. "ok" \in Stages
  BY DEF Stages
<1>7. /\ JobOK' /\ \A q \in Places \ {pl} : job'[q] = job[q]
      /\ job'[pl].cmd = job[pl].cmd
      /\ DOMAIN job'[pl].task = DOMAIN job[pl].task
      /\ job'[pl].task[p].hash = job[pl].task[p].hash
      /\ \A x \in DOMAIN job[pl].task \ {p} : job'[pl].task[x] = job[pl].task[x]
  BY <1>1, <1>2, <1>6, GoFacts DEF RInv
<1>8. FilesGrow(pl, p)
  <2>1. clock' >= clock
    BY <1>2, RemoteAssumption DEF RInv, DataOK
  <2>2. \A q \in Places, x \in Paths : Landing(q, x)' => Landing(q, x)
    BY <1>1, <1>7 DEF Landing, At
  <2> QED
    BY <1>2, <2>1, <2>2 DEF FilesGrow
<1>9. \A x \in DOMAIN job'[pl].task : HandledAt(pl, x)'
  <2> SUFFICES ASSUME NEW x \in DOMAIN job[pl].task PROVE HandledAt(pl, x)'
    BY <1>7
  <2>1. HandledAt(pl, x)
    BY DEF RInv, Handled
  <2> QED
    BY <1>1, <1>2, <1>7, <2>1 DEF HandledAt, Has, Pushes
<1>10. \A x \in DOMAIN job'[pl].task : Noted(pl, x)' =>
         Truthful(x, job'[pl].task[x].hash, job'[pl].task[x].mtime)
  BY <1>1, <1>7 DEF Noted, Pushes
<1> QED
  BY <1>2, <1>3, <1>4, <1>5, <1>7, <1>8, <1>9, <1>10, Carry

-----------------------------------------------------------------------------
LEMMA RInvInit == Init => RInv
<1> SUFFICES ASSUME Init PROVE RInv
  OBVIOUS
<1>1. Idle \in Job /\ Idle.cmd = "idle" /\ DOMAIN Idle.task = {}
  BY IdleFacts
<1>2. JobOK /\ \A pl \in Places : job[pl].cmd = "idle" /\ DOMAIN job[pl].task = {}
  <2> HIDE DEF Idle
  <2> QED
    BY <1>1 DEF Init, JobOK
<1>3. DataOK
  BY RemoteAssumption DEF Init, DataOK
<1>4. FileTimes /\ IndexTrue /\ PtrsTrue /\ CacheTrue
  BY DEF Init, FileTimes, IndexTrue, PtrsTrue, CacheTrue
<1>5. TasksTrue /\ Handled
  BY <1>2 DEF TasksTrue, Handled
<1> QED
  BY <1>2, <1>3, <1>4, <1>5 DEF RInv

LEMMA RInvStep == RInv /\ [Next]_vars => RInv'
<1> SUFFICES ASSUME RInv, [Next]_vars PROVE RInv'
  OBVIOUS
<1>1. CASE UNCHANGED vars
  BY <1>1 DEF vars, remote, local, RInv, DataOK, JobOK, Job, FileTimes, IndexTrue, PtrsTrue, TasksTrue,
     Handled, HandledAt, CacheTrue, Truthful, Landing, At, Noted, Has, Clones
<1>2. ASSUME NEW pl \in Places, NEW p \in Paths, FileStep(pl, p)
      PROVE  RInv'
  <2>1. CASE \E c \in Contents : Write(pl, p, c)
    BY <2>1, WriteStep
  <2>2. CASE PushStep(pl, p)
    BY <2>2, CompareStep, FindBlobStep, PutBlobStep, PushPointerStep, PushIndexStep DEF PushStep
  <2>3. CASE PullStep(pl, p)
    BY <2>3, CheckStep, GetStep, LandStep, PullPointerStep DEF PullStep
  <2>4. CASE SftpError(pl, p) \/ PullName(pl, p) \/ EnsureLocal(pl, p)
    BY <2>4, SftpErrorStep, PullNameStep, EnsureLocalStep
  <2>5. CASE DeleteBlob(pl, p) \/ DeleteIndex(pl, p)
    BY <2>5, DeleteBlobStep, DeleteIndexStep
  <2> QED
    BY <1>2, <2>1, <2>2, <2>3, <2>4, <2>5 DEF FileStep
<1>3. ASSUME NEW pl \in Places, NEW S \in SUBSET Paths, FilesStep(pl, S)
      PROVE  RInv'
  BY <1>3, StartPushStep, BrowsePullStep, BrowseDeleteStep DEF FilesStep
<1>4. ASSUME NEW pl \in Places, CommandStep(pl)
      PROVE  RInv'
  BY <1>4, StartOverridesStep, SyncStep, BrowseStep, CleanStep, PurgeSteps, EndSteps DEF CommandStep
<1> QED
  BY <1>1, <1>2, <1>3, <1>4 DEF Next

LEMMA RInvariant == Spec => []RInv
BY RInvInit, RInvStep, PTL DEF Spec

(* However many places and commands work on the store, index, blobs,       *)
(* pointers, files and jobs keep their types.                              *)
THEOREM TypeCorrect == Spec => []TypeOK
<1>1. RInv => TypeOK
  BY InvTypes DEF RInv
<1> QED
  BY <1>1, RInvariant, PTL

(* A pointer with the time of a file has the file's hash, whatever was     *)
(* pushed, pulled, browsed, deleted, interrupted or killed, in any order.  *)
THEOREM HashesAreTrue == Spec => []CachedHashIsTrue
<1>1. RInv => CachedHashIsTrue
  BY InvCached DEF RInv
<1> QED
  BY <1>1, RInvariant, PTL
=============================================================================
