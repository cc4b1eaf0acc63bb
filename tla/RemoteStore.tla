---------------------------- MODULE RemoteStore ----------------------------
(***************************************************************************)
(* The remote store of upload.py and execute/remote_storage.py: blobs in   *)
(* cache/ under their hash, an index of one pointer per project path, a    *)
(* .ptrs/ directory per clone of the project, and the commands that the    *)
(* processes working in a clone run on them: push, apply-overrides, pull,  *)
(* ensure_local, ls (pull or delete), clean and purge.                     *)
(*                                                                         *)
(* A place is a directory tree with one process using it: a clone of the   *)
(* project (then it is its own Home), or a node's scratch disk, whose      *)
(* files are registered in the .ptrs/ of its Home under virtual paths.     *)
(* The hash of a file is its content.                                      *)
(***************************************************************************)
EXTENDS Naturals, FiniteSets

CONSTANTS
  Places,     \* directory trees that hold files of the project
  Home,       \* Home[pl] : the clone whose .ptrs/ place pl uses
  Uses,       \* Uses[pl] : commands run at place pl
  NPaths,     \* project paths, numbered as _fetch_ptrs walks the index
  TopLevel,   \* paths whose pointer lies in .ptrs/ itself
  Name,       \* Name[p] : the file name of path p
  Contents,   \* contents of whole files
  Outputs,    \* <<place, path, content>>: what the project's programs write
  Torn,       \* the content of a file whose download was interrupted
  Size,       \* Size[c] : bytes of content c
  Orderly,    \* deletions are made alone, to the end, and of unshared blobs
  MaxClock,   \* bound: file writes and downloads of a behaviour
  MaxCommands,\* bound: commands of a behaviour
  Absent, Corrupt

Commands == {"push", "overrides", "sync", "pull", "ensure", "ls", "clean", "purge"}
Paths == 1..NPaths
Data == Contents \cup {Torn}
Entry == [hash : Data, mtime : 0..MaxClock]
Pointer == [hash : Data, mtime : 0..MaxClock, override : BOOLEAN]
File == [content : Data, mtime : 0..MaxClock]

ASSUME RemoteAssumption ==
  /\ Home \in [Places -> Places] /\ \A pl \in Places : Home[Home[pl]] = Home[pl]
  /\ Uses \in [Places -> SUBSET Commands]
  /\ NPaths \in Nat /\ TopLevel \subseteq Paths /\ DOMAIN Name = Paths
  /\ Outputs \subseteq Places \X Paths \X Contents
  /\ Torn \notin Contents /\ Size \in [Data -> Nat]
  /\ \A c \in Contents : Size[c] > Size[Torn]
  /\ Orderly \in BOOLEAN /\ MaxClock \in Nat /\ MaxCommands \in Nat
  /\ Absent # Corrupt
  /\ \A v \in {Absent, Corrupt} : v \notin Data \cup Entry \cup Pointer \cup File

VARIABLES
  index,   \* index[p] : the pointer stored under index/, Absent or Corrupt
  cache,   \* cache[h] : what the blob named h contains, or Absent
  temps,   \* uploads, going on or abandoned, under a temporary name
  files,   \* files[pl][p] : content and mtime
  ptrs,    \* ptrs[r][p] : the pointer in the .ptrs/ of clone r
  clock,
  commands,\* commands started so far
  job      \* job[pl] : the command running at place pl, and its files

remote == <<index, cache, temps>>
local == <<files, ptrs, clock>>
vars == <<remote, local, commands, job>>

Clones == {Home[pl] : pl \in Places}
Stages == {"hash", "blob", "put", "ptr", "index", "check", "get", "land",
           "seen", "ok", "skipped", "failed"}
Task == [at : Stages, hash : Data \cup {Absent}, mtime : 0..MaxClock]

MakeJob(c, force, tasks, hashes) == [cmd |-> c, force |-> force, task |-> tasks, hashes |-> hashes]
NewJob(c, tasks) == MakeJob(c, FALSE, tasks, {})
Idle == NewJob("idle", <<>>)
NewTask(at, hash, mtime) == [at |-> at, hash |-> hash, mtime |-> mtime]

Indexed == {p \in Paths : index[p] \notin {Absent, Corrupt}}
Present(pl) == {p \in Paths : files[pl][p] # Absent}
Blobs == {h \in Data : cache[h] # Absent}
Pointed(r) == {p \in Paths : ptrs[r][p] # Absent}

(* A pointer of the index, as it is written into a .ptrs/ directory.       *)
AsPointer(e) == [hash |-> e.hash, mtime |-> e.mtime, override |-> FALSE]

Init ==
  /\ index \in [Paths -> {Absent, Corrupt}]
  /\ cache = [h \in Data |-> Absent] /\ temps = {}
  /\ files = [pl \in Places |-> [p \in Paths |-> Absent]]
  /\ ptrs = [r \in Clones |-> [p \in Paths |-> Absent]]
  /\ clock = 0 /\ commands = 0
  /\ job = [pl \in Places |-> Idle]

-----------------------------------------------------------------------------
(* Starting and ending commands.                                           *)

Deleting == {"browse", "delete", "purge", "orphans"}
Alone(pl) == Orderly => \A q \in Places \ {pl} : job[q].cmd = "idle"
Undisturbed(pl) == Orderly => \A q \in Places \ {pl} : job[q].cmd \notin Deleting

Ready(pl, c) ==
  /\ job[pl].cmd = "idle" /\ c \in Uses[pl]
  /\ commands < MaxCommands /\ commands' = commands + 1
Become(pl, j) == job' = [job EXCEPT ![pl] = j]
Stop(pl) == Become(pl, Idle)
Settled(pl) == \A p \in DOMAIN job[pl].task : job[pl].task[p].at \in {"ok", "skipped", "failed"}

Pushes == {"push", "overrides"}

(* File p of a command among cmds is at stage at.                          *)
At(pl, cmds, p, at) ==
  /\ job[pl].cmd \in cmds /\ p \in DOMAIN job[pl].task /\ job[pl].task[p].at = at
Go(pl, p, at) ==
  job' = [job EXCEPT ![pl].task[p] = NewTask(at, job[pl].task[p].hash, job[pl].task[p].mtime)]

Busy(pl) == IF job[pl].cmd \in {"push", "overrides", "pull", "clean"} THEN DOMAIN job[pl].task ELSE {}

(* A program of the project writes a file that no command is handling.     *)
Write(pl, p, c) ==
  /\ <<pl, p, c>> \in Outputs /\ p \notin Busy(pl) /\ clock < MaxClock
  /\ clock' = clock + 1
  /\ files' = [files EXCEPT ![pl][p] = [content |-> c, mtime |-> clock + 1]]
  /\ UNCHANGED <<commands, remote, ptrs, job>>

(* The process dies; the names of its temporary uploads are never reused.  *)
Kill(pl) ==
  /\ job[pl].cmd # "idle"
  /\ Orderly => job[pl].cmd # "delete"
  /\ Stop(pl)
  /\ UNCHANGED <<commands, remote, local>>

-----------------------------------------------------------------------------
(* push                                                                    *)

load_ptr(pl, p) ==
  LET ptr == ptrs[Home[pl]][p]
  IN IF ptr # Absent /\ ptr.mtime = files[pl][p].mtime THEN ptr.hash ELSE Absent

(* Mutant: the time is rounded up.                                         *)
write_ptr_RoundedUp(pl, p, h, flag) ==
  ptrs' = [ptrs EXCEPT ![Home[pl]][p] =
             [hash |-> h, mtime |-> files[pl][p].mtime + 1, override |-> flag]]
write_ptr(pl, p, h, flag) ==
  ptrs' = [ptrs EXCEPT ![Home[pl]][p] =
             [hash |-> h, mtime |-> files[pl][p].mtime, override |-> flag]]

PushJob(c, S, force) == MakeJob(c, force, [p \in S |-> NewTask("hash", Absent, 0)], {})

(* Files outside the project are pushed one at a time, each under its      *)
(* virtual path.                                                           *)
StartPush(pl, S, force) ==
  /\ Ready(pl, "push") /\ Undisturbed(pl) /\ S # {} /\ S \subseteq Present(pl)
  /\ pl # Home[pl] => Cardinality(S) = 1
  /\ Become(pl, PushJob("push", S, force))
  /\ UNCHANGED <<remote, local>>

(* cmd_apply_overrides, after both prompts.                                *)
StartOverrides(pl) ==
  LET S == {p \in Pointed(pl) \cap Present(pl) : ptrs[pl][p].override}
  IN /\ Ready(pl, "overrides") /\ pl = Home[pl] /\ Undisturbed(pl) /\ S # {}
     /\ Become(pl, PushJob("overrides", S, TRUE))
     /\ UNCHANGED <<remote, local>>

(* The digest, then the remote index: the same hash ends the push, another *)
(* one asks twice, and marks the pointer when nobody is there to answer.   *)
Digest(pl, p) == IF load_ptr(pl, p) # Absent THEN load_ptr(pl, p) ELSE files[pl][p].content

(* Mutant: a local pointer that was uploaded once is taken for the remote  *)
(* one.                                                                    *)
Compare_LocalPointer(pl, p) ==
  /\ At(pl, Pushes, p, "hash")
  /\ job' = [job EXCEPT ![pl].task[p] =
               NewTask(IF load_ptr(pl, p) # Absent THEN "ok" ELSE "blob", Digest(pl, p), 0)]
  /\ UNCHANGED <<commands, remote, local>>
Compare(pl, p) ==
  LET h == Digest(pl, p)
      free == job[pl].force \/ p \notin Indexed
      same == ~free /\ index[p].hash = h
      conflict == ~free /\ index[p].hash # h
      Settle(at) == job' = [job EXCEPT ![pl].task[p] = NewTask(at, h, 0)]
  IN /\ At(pl, Pushes, p, "hash")
     /\ \/ same /\ write_ptr(pl, p, h, FALSE) /\ Settle("ok")
        \/ conflict /\ write_ptr(pl, p, h, TRUE) /\ Settle("skipped")
        \/ conflict /\ UNCHANGED ptrs /\ Settle("skipped")
        \/ ~same /\ UNCHANGED ptrs /\ Settle("blob")
     /\ UNCHANGED <<commands, remote, files, clock>>

FindBlob(pl, p) ==
  /\ At(pl, Pushes, p, "blob")
  /\ IF job[pl].task[p].hash \in Blobs
     THEN Go(pl, p, "ptr") /\ UNCHANGED temps
     ELSE Go(pl, p, "put") /\ temps' = temps \cup {<<pl, p>>}
  /\ UNCHANGED <<commands, index, cache, local>>

(* The upload is complete and renamed, unless its temporary file is gone.  *)
PutBlob(pl, p) ==
  /\ At(pl, Pushes, p, "put")
  /\ IF <<pl, p>> \in temps
     THEN /\ cache' = [cache EXCEPT ![job[pl].task[p].hash] = files[pl][p].content]
          /\ Go(pl, p, "ptr")
     ELSE UNCHANGED cache /\ Go(pl, p, "failed")
  /\ temps' = temps \ {<<pl, p>>}
  /\ UNCHANGED <<commands, index, local>>

PushPointer(pl, p) ==
  /\ At(pl, Pushes, p, "ptr")
  /\ write_ptr(pl, p, job[pl].task[p].hash, FALSE)
  /\ job' = [job EXCEPT ![pl].task[p] = NewTask("index", job[pl].task[p].hash, files[pl][p].mtime)]
  /\ UNCHANGED <<commands, remote, files, clock>>

PushIndex(pl, p) ==
  /\ At(pl, Pushes, p, "index")
  /\ LET t == job[pl].task[p]
     IN index' = [index EXCEPT ![p] = [hash |-> t.hash, mtime |-> t.mtime]]
  /\ Go(pl, p, "ok")
  /\ UNCHANGED <<commands, cache, temps, local>>

(* An SFTP call raises; a temporary upload may stay behind.                *)
SftpError(pl, p) ==
  /\ job[pl].cmd \in Pushes \cup {"pull"} /\ p \in DOMAIN job[pl].task
  /\ job[pl].task[p].at \in {"hash", "blob", "put", "index", "get", "land"}
  /\ Go(pl, p, "failed")
  /\ temps' \in {temps, temps \ {<<pl, p>>}}
  /\ UNCHANGED <<commands, index, cache, local>>

Without(pl, S) ==
  files' = [files EXCEPT ![pl] = [p \in Paths |-> IF p \in S THEN Absent ELSE @[p]]]

(* The command ends; without an error it may delete what was uploaded.     *)
EndPush(pl) ==
  LET result(r) == {p \in DOMAIN job[pl].task : job[pl].task[p].at = r}
  IN /\ job[pl].cmd \in Pushes /\ Settled(pl)
     /\ \/ UNCHANGED files
        \/ /\ job[pl].cmd = "push" /\ result("failed") = {} /\ result("ok") # {}
           /\ Without(pl, result("ok"))
     /\ Stop(pl)
     /\ UNCHANGED <<commands, remote, ptrs, clock>>

-----------------------------------------------------------------------------
(* pull and ensure_local                                                   *)

PullTasks(S, ptr) == [p \in S |-> NewTask("check", ptr[p].hash, 0)]

(* cmd_pull without a name: every pointer of the index replaces the local  *)
(* one.                                                                    *)
Sync(pl) ==
  /\ Ready(pl, "sync") /\ pl = Home[pl] /\ Undisturbed(pl) /\ Indexed # {}
  /\ ptrs' = [ptrs EXCEPT ![pl] =
                [p \in Paths |-> IF p \in Indexed THEN AsPointer(index[p]) ELSE @[p]]]
  /\ UNCHANGED <<remote, files, clock, job>>

PullName(pl, p) ==
  /\ Ready(pl, "pull") /\ pl = Home[pl] /\ Undisturbed(pl) /\ p \in Pointed(pl)
  /\ Become(pl, NewJob("pull", PullTasks({p}, ptrs[pl])))
  /\ UNCHANGED <<remote, local>>

_matches_known_size(pl, p) ==
  LET ptr == ptrs[Home[pl]][p]
  IN files[pl][p] # Absent /\ (ptr # Absent => Size[files[pl][p].content] = Size[ptr.hash])

(* No copy that looks whole: the pointer of the clone, or else that of the *)
(* index, says which blob to fetch.                                        *)
EnsureLocal(pl, p) ==
  LET r == Home[pl]
      fetched == IF p \in Pointed(r) THEN ptrs[r] ELSE [ptrs[r] EXCEPT ![p] = AsPointer(index[p])]
  IN /\ Ready(pl, "ensure") /\ Undisturbed(pl)
     /\ ~_matches_known_size(pl, p) /\ ~_matches_known_size(r, p)
     /\ p \in Pointed(r) \cup Indexed
     /\ ptrs' = [ptrs EXCEPT ![r] = fetched]
     /\ Become(pl, NewJob("pull", PullTasks({p}, fetched)))
     /\ UNCHANGED <<remote, files, clock>>

Check(pl, p) ==
  /\ At(pl, {"pull"}, p, "check")
  /\ IF p \in Present(pl) /\ files[pl][p].content = job[pl].task[p].hash
     THEN Go(pl, p, "ok")
     ELSE Go(pl, p, "get")
  /\ UNCHANGED <<commands, remote, local>>

(* sftp_get needs the blob, then writes straight to the destination.       *)
Get(pl, p) ==
  /\ At(pl, {"pull"}, p, "get")
  /\ IF job[pl].task[p].hash \in Blobs
     THEN /\ clock < MaxClock /\ clock' = clock + 1
          /\ files' = [files EXCEPT ![pl][p] = [content |-> Torn, mtime |-> clock + 1]]
          /\ Go(pl, p, "land")
     ELSE UNCHANGED <<clock, files>> /\ Go(pl, p, "failed")
  /\ UNCHANGED <<commands, remote, ptrs>>

(* The file is whole before its pointer takes its time; all the writes of  *)
(* one download count as one time.                                         *)
Land(pl, p) ==
  LET c == cache[job[pl].task[p].hash]
  IN /\ At(pl, {"pull"}, p, "land") /\ c # Absent
     /\ files' = [files EXCEPT ![pl][p].content = c]
     /\ Go(pl, p, "ptr")
     /\ UNCHANGED <<commands, remote, ptrs, clock>>

(* Mutant: the pointer is refreshed although the download failed.          *)
PullPointer_AnyEnd(pl, p) ==
  /\ job[pl].cmd = "pull" /\ p \in DOMAIN job[pl].task /\ p \in Present(pl)
  /\ job[pl].task[p].at \in {"ptr", "failed"}
  /\ write_ptr(pl, p, job[pl].task[p].hash, FALSE)
  /\ Go(pl, p, "ok")
  /\ UNCHANGED <<commands, remote, files, clock>>
PullPointer(pl, p) ==
  /\ At(pl, {"pull"}, p, "ptr")
  /\ write_ptr(pl, p, job[pl].task[p].hash, FALSE)
  /\ Go(pl, p, "ok")
  /\ UNCHANGED <<commands, remote, files, clock>>

EndPull(pl) ==
  /\ job[pl].cmd = "pull" /\ Settled(pl)
  /\ Stop(pl)
  /\ UNCHANGED <<commands, remote, local>>

-----------------------------------------------------------------------------
(* ls: a snapshot of the index is browsed, then files of it are pulled or  *)
(* deleted.                                                                *)

Browse(pl) ==
  /\ Ready(pl, "ls") /\ pl = Home[pl] /\ Alone(pl) /\ Indexed # {}
  /\ Become(pl, NewJob("browse", [p \in Indexed |-> NewTask("seen", index[p].hash, index[p].mtime)]))
  /\ UNCHANGED <<remote, local>>

BrowsePull(pl, S) ==
  LET seen == job[pl].task
  IN /\ job[pl].cmd = "browse" /\ S # {} /\ S \subseteq DOMAIN seen
     /\ ptrs' = [ptrs EXCEPT ![pl] =
                   [p \in Paths |-> IF p \in S THEN AsPointer(seen[p]) ELSE @[p]]]
     /\ Become(pl, NewJob("pull", PullTasks(S, seen)))
     /\ UNCHANGED <<commands, remote, files, clock>>

Unshared(S) == \A p \in S, q \in Indexed \ S : index[q].hash # index[p].hash

BrowseDelete(pl, S) ==
  LET seen == job[pl].task
  IN /\ job[pl].cmd = "browse" /\ S # {} /\ S \subseteq DOMAIN seen
     /\ Orderly => Unshared(S)
     /\ Become(pl, NewJob("delete", [p \in S |-> NewTask("blob", seen[p].hash, seen[p].mtime)]))
     /\ UNCHANGED <<commands, remote, local>>

DeleteBlob(pl, p) ==
  /\ At(pl, {"delete"}, p, "blob")
  /\ cache' = [cache EXCEPT ![job[pl].task[p].hash] = Absent]
  /\ Go(pl, p, "index")
  /\ UNCHANGED <<commands, index, temps, local>>

(* Mutant: the index entry stays.                                          *)
DeleteIndex_LocalOnly(pl, p) ==
  /\ At(pl, {"delete"}, p, "index")
  /\ ptrs' = [ptrs EXCEPT ![pl][p] = Absent]
  /\ Go(pl, p, "ok")
  /\ UNCHANGED <<commands, index, cache, temps, files, clock>>
DeleteIndex(pl, p) ==
  /\ At(pl, {"delete"}, p, "index")
  /\ index' = [index EXCEPT ![p] = Absent]
  /\ ptrs' = [ptrs EXCEPT ![pl][p] = Absent]
  /\ Go(pl, p, "ok")
  /\ UNCHANGED <<commands, cache, temps, files, clock>>

EndBrowse(pl) ==
  /\ job[pl].cmd = "browse" \/ (job[pl].cmd = "delete" /\ Settled(pl))
  /\ Stop(pl)
  /\ UNCHANGED <<commands, remote, local>>

-----------------------------------------------------------------------------
(* clean and purge                                                         *)

(* remote_ptrs[Name[p]]: the last pointer of that file name wins.          *)
SameName(p) == {q \in Indexed : Name[q] = Name[p]}
RemoteNamed(p) == index[CHOOSE q \in SameName(p) : \A o \in SameName(p) : o <= q]

SafeToDelete(r, p) ==
  LET ptr == ptrs[r][p]
  IN /\ p \in TopLevel \cap Pointed(r) \cap Present(r)
     /\ ptr.mtime = files[r][p].mtime
     /\ SameName(p) # {} /\ RemoteNamed(p).hash = ptr.hash

Clean(pl) ==
  LET S == {p \in Paths : SafeToDelete(pl, p)}
  IN /\ Ready(pl, "clean") /\ pl = Home[pl] /\ Undisturbed(pl) /\ S # {}
     /\ Become(pl, NewJob("clean", [p \in S |-> NewTask("seen", ptrs[pl][p].hash, 0)]))
     /\ UNCHANGED <<remote, local>>

EndClean(pl) ==
  /\ job[pl].cmd = "clean"
  /\ UNCHANGED files \/ Without(pl, DOMAIN job[pl].task)
  /\ Stop(pl)
  /\ UNCHANGED <<commands, remote, ptrs, clock>>

PurgeJob(c, hashes) == MakeJob(c, FALSE, <<>>, hashes)

Purge(pl) ==
  /\ Ready(pl, "purge") /\ Alone(pl)
  /\ Become(pl, PurgeJob("purge", {index[p].hash : p \in Indexed}))
  /\ UNCHANGED <<remote, local>>

(* Mutant: every blob is listed.                                           *)
ListOrphans_All(pl) ==
  /\ job[pl].cmd = "purge"
  /\ Become(pl, PurgeJob("orphans", Blobs \cup temps))
  /\ UNCHANGED <<commands, remote, local>>
(* Everything under cache/ that no pointer named when the index was read,  *)
(* uploads under a temporary name included.                                *)
ListOrphans(pl) ==
  /\ job[pl].cmd = "purge"
  /\ Become(pl, PurgeJob("orphans", (Blobs \cup temps) \ job[pl].hashes))
  /\ UNCHANGED <<commands, remote, local>>

(* A file that is gone by now ends the command with an error.              *)
RemoveOrphan(pl) == \E h \in job[pl].hashes :
  /\ job[pl].cmd = "orphans" /\ h \in Blobs \cup temps
  /\ cache' = [b \in Data |-> IF b = h THEN Absent ELSE cache[b]]
  /\ temps' = temps \ {h}
  /\ Become(pl, PurgeJob("orphans", job[pl].hashes \ {h}))
  /\ UNCHANGED <<commands, index, local>>

EndPurge(pl) ==
  /\ job[pl].cmd = "orphans"
  /\ Stop(pl)
  /\ UNCHANGED <<commands, remote, local>>

-----------------------------------------------------------------------------
PushStep(pl, p) ==
  \/ Compare(pl, p) \/ FindBlob(pl, p) \/ PutBlob(pl, p)
  \/ PushPointer(pl, p) \/ PushIndex(pl, p)

PullStep(pl, p) == Check(pl, p) \/ Get(pl, p) \/ Land(pl, p) \/ PullPointer(pl, p)

FileStep(pl, p) ==
  \/ \E c \in Contents : Write(pl, p, c)
  \/ PushStep(pl, p) \/ PullStep(pl, p) \/ SftpError(pl, p)
  \/ PullName(pl, p) \/ EnsureLocal(pl, p)
  \/ DeleteBlob(pl, p) \/ DeleteIndex(pl, p)

FilesStep(pl, S) ==
  \/ \E force \in BOOLEAN : StartPush(pl, S, force)
  \/ BrowsePull(pl, S) \/ BrowseDelete(pl, S)

CommandStep(pl) ==
  \/ StartOverrides(pl) \/ EndPush(pl) \/ Sync(pl) \/ EndPull(pl)
  \/ Browse(pl) \/ EndBrowse(pl) \/ Clean(pl) \/ EndClean(pl)
  \/ Purge(pl) \/ ListOrphans(pl) \/ RemoveOrphan(pl) \/ EndPurge(pl) \/ Kill(pl)

Next == \E pl \in Places :
  \/ \E p \in Paths : FileStep(pl, p)
  \/ \E S \in SUBSET Paths : FilesStep(pl, S)
  \/ CommandStep(pl)

Spec == Init /\ [][Next]_vars

-----------------------------------------------------------------------------
(* Type invariant.                                                         *)
TypeOK ==
  /\ index \in [Paths -> Entry \cup {Absent, Corrupt}]
  /\ cache \in [Data -> Data \cup {Absent}]
  /\ temps \subseteq Places \X Paths
  /\ files \in [Places -> [Paths -> File \cup {Absent}]]
  /\ ptrs \in [Clones -> [Paths -> Pointer \cup {Absent}]]
  /\ clock \in 0..MaxClock /\ commands \in 0..MaxCommands
  /\ DOMAIN job = Places
  /\ \A pl \in Places :
       /\ job[pl].force \in BOOLEAN
       /\ DOMAIN job[pl].task \subseteq Paths
       /\ \A p \in DOMAIN job[pl].task : job[pl].task[p] \in Task

(* An index pointer names a blob that is there and has the content of that *)
(* name, unless ls is deleting the path: pushes interrupted anywhere,      *)
(* uploads left behind and purges never make a pointer that cannot be      *)
(* pulled.                                                                 *)
IndexNamesBlob ==
  \A p \in Indexed :
    \/ cache[index[p].hash] = index[p].hash
    \/ \E pl \in Places : job[pl].cmd = "delete" /\ p \in DOMAIN job[pl].task

(* What load_ptr relies on: a pointer with the time of the file has its    *)
(* hash, wherever the pointer came from.                                   *)
CachedHashIsTrue ==
  \A pl \in Places, p \in Paths :
    files[pl][p] # Absent /\ load_ptr(pl, p) # Absent => load_ptr(pl, p) = files[pl][p].content

(* purge deletes no blob that a pointer of the index names.                *)
PurgeKeepsReferenced ==
  [][\A h \in Data :
       (\E pl \in Places : job[pl].cmd = "orphans" /\ h \in job[pl].hashes \ job'[pl].hashes)
         /\ cache'[h] # cache[h]
         => \A p \in Indexed : index[p].hash # h]_vars

(* push -y and clean delete a local file only when its content is in the   *)
(* store at that moment.                                                   *)
DeletedIsStored ==
  [][\A pl \in Places, p \in Paths :
       files[pl][p] # Absent /\ files'[pl][p] = Absent
         => \E h \in Data : cache[h] = files[pl][p].content]_vars

(* What a path gives is what was last pushed there, until the path itself  *)
(* is deleted: dedup'd blobs, replaced versions and purges never change or *)
(* lose another path.                                                      *)
Store == INSTANCE PathStore WITH
  Paths <- Paths,
  Nothing <- Absent,
  store <- [p \in Paths |-> IF p \in Indexed THEN cache[index[p].hash] ELSE Absent],
  asked <- UNION {IF job[pl].cmd = "delete" THEN DOMAIN job[pl].task ELSE {} : pl \in Places}
ImplementsStore == Store!Spec
=============================================================================
