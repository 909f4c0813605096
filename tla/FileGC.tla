------------------------------- MODULE FileGC -------------------------------
(***************************************************************************)
(* The files of a backend host and their garbage collection: cleanDir of   *)
(* gc.js on the output directory and on the temporary directory, while     *)
(* jobs write files there and after the collection of the status objects,  *)
(* which comes first in every run.  StatusGC has the interleavings of that *)
(* first part; here it is one step.                                        *)
(*                                                                         *)
(* The output directory has one subdirectory, named after the first two    *)
(* characters of the ids, and in it one rendered file per id; the          *)
(* temporary directory has one scratch file per id.  By default the output *)
(* directory lies in the temporary directory.  A path that is absent has   *)
(* no mtime; writing in a directory changes the directory's mtime when an  *)
(* entry comes or goes.                                                    *)
(*                                                                         *)
(* cleanDir works on the entries of a directory side by side.  An entry is *)
(* a task that is at "stat", then at "unlink" for a file, and for a        *)
(* directory at "read" (its entries become tasks), "entries" (until they   *)
(* are done; the directory is read again) and "rmdir".                     *)
(***************************************************************************)
EXTENDS Integers, FiniteSets

CONSTANTS Ids,               \* collection ids with the same first characters
          Nested,            \* output_dir is temp_dir/ocg-output
          JobLifetime,       \* config.garbage_collection.job_lifetime
          JobFileLifetime,   \* .job_file_lifetime
          TempFileLifetime,  \* .temp_file_lifetime
          MaxRunTime,        \* how long a collection may take
          MaxJobTime,        \* how long a job may take
          MaxTime            \* bound of the model: the clock stops here

ASSUME FileGCAssumption ==
  /\ Nested \in BOOLEAN
  /\ {JobLifetime, JobFileLifetime, TempFileLifetime} \subseteq Nat
  /\ {MaxRunTime, MaxJobTime, MaxTime} \subseteq Nat

Absent == -1

Temp == <<"temp", "">>
OutputDir == <<"output", "">>
Prefix == <<"prefix", "">>
Artifact(id) == <<"artifact", id>>
Scratch(id) == <<"scratch", id>>

Dirs == {OutputDir, Prefix}
Paths == Dirs \cup {Artifact(id) : id \in Ids} \cup {Scratch(id) : id \in Ids}

Entries(dir) ==
  CASE dir = Temp      -> {Scratch(id) : id \in Ids} \cup (IF Nested THEN {OutputDir} ELSE {})
    [] dir = OutputDir -> {Prefix}
    [] dir = Prefix    -> {Artifact(id) : id \in Ids}
    [] OTHER           -> {}

VARIABLES mtime,      \* of each path, or Absent
          now,
          jobs,       \* jobs[id]: the stage of the job and when it started
          finished,   \* finished[id]: the timestamp of a finished status, which
                      \* names the rendered file, or Absent
          phase,      \* of the collection run
          started,    \* when the run started
          expire,     \* mtimes up to this one are old
          tasks,      \* what cleanDir is working on
          clobbered   \* ids whose file was taken after it was written anew

vars == <<mtime, now, jobs, finished, phase, started, expire, tasks, clobbered>>

Exists(p) == mtime[p] # Absent
Present(dir) == {p \in Entries(dir) : Exists(p)}

Stages == {"idle", "mkdirp", "utimes", "rendering", "mkdirp again", "utimes again", "stat", "ending"}
Steps == {"stat", "unlink", "read", "entries", "rmdir"}

Task(p, force, step, seen) == [path |-> p, force |-> force, step |-> step, seen |-> seen]

TypeOK ==
  /\ mtime \in [Paths -> {Absent} \cup (0..MaxTime)]
  /\ now \in 0..MaxTime
  /\ jobs \in [Ids -> [stage : Stages, since : 0..MaxTime]]
  /\ finished \in [Ids -> {Absent} \cup (0..MaxTime)]
  /\ phase \in {"idle", "status", "output", "temp"}
  /\ started \in 0..MaxTime
  /\ tasks \subseteq [path : Paths, force : {0, 1}, step : Steps, seen : {Absent} \cup (0..MaxTime)]
  /\ clobbered \subseteq Ids
  /\ Exists(Prefix) => Exists(OutputDir)
  /\ \A id \in Ids : Exists(Artifact(id)) => Exists(Prefix)

Init ==
  /\ mtime = [p \in Paths |-> IF p = OutputDir THEN 0 ELSE Absent]
  /\ now = 0
  /\ jobs = [id \in Ids |-> [stage |-> "idle", since |-> 0]]
  /\ finished = [id \in Ids |-> Absent]
  /\ phase = "idle"
  /\ started = 0
  /\ expire = 0
  /\ tasks = {}
  /\ clobbered = {}

-----------------------------------------------------------------------------

\* The directory a path is an entry of.
DirOf(p) ==
  CASE p = OutputDir -> Temp
    [] p = Prefix -> OutputDir
    [] p[1] = "artifact" -> Prefix
    [] OTHER -> Temp

\* p is written; its directory changes if p is new.  Nobody looks at the mtime
\* of the temporary directory.
Written(fs, p) ==
  [q \in Paths |-> IF q = p \/ (q = DirOf(p) /\ fs[p] = Absent) THEN now ELSE fs[q]]

Removed(p) == [q \in Paths |-> IF q = p THEN Absent ELSE IF q = DirOf(p) THEN now ELSE mtime[q]]

-----------------------------------------------------------------------------

\* The jobs: runRenderer and mkFilename of backend.js.

\* The statuses of these ids are finished no more, or gone.
Without(ids) == [id \in Ids |-> IF id \in ids THEN Absent ELSE finished[id]]

NoJob == [stage |-> "idle", since |-> 0]
Stage(id, stage) == jobs' = [jobs EXCEPT ![id].stage = stage]
EndJob(id) == jobs' = [jobs EXCEPT ![id] = NoJob]
UnchangedGC == UNCHANGED <<phase, started, expire, tasks>>

\* The metabook and the bundle are written, and the job is reported to be under
\* way.  The status was pending, or finished if the id was queued twice: it then
\* goes on to name the file of the earlier run (see HandleDownloadFile).
StartJob(id) ==
  /\ jobs[id].stage = "idle"
  /\ jobs' = [jobs EXCEPT ![id] = [stage |-> "mkdirp", since |-> now]]
  /\ mtime' = Written(mtime, Scratch(id))
  /\ finished' = Without({id})
  /\ UNCHANGED <<now, clobbered>> /\ UnchangedGC

\* mkdirp: the directories that are missing are made.
Mkdirp(id) ==
  /\ jobs[id].stage \in {"mkdirp", "mkdirp again"}
  /\ LET output == IF Exists(OutputDir) THEN mtime ELSE Written(mtime, OutputDir)
     IN  mtime' = IF Exists(Prefix) THEN mtime ELSE Written(output, Prefix)
  /\ Stage(id, IF jobs[id].stage = "mkdirp" THEN "utimes" ELSE "utimes again")
  /\ UNCHANGED <<now, finished, clobbered>> /\ UnchangedGC

\* utimes: it fails when the directory is gone again.
Utimes(id) ==
  /\ jobs[id].stage \in {"utimes", "utimes again"}
  /\ IF Exists(Prefix)
     THEN /\ mtime' = [mtime EXCEPT ![Prefix] = now]
          /\ Stage(id, IF jobs[id].stage = "utimes" THEN "rendering" ELSE "stat")
     ELSE /\ Stage(id, "ending")
          /\ UNCHANGED mtime
  /\ UNCHANGED <<now, finished, clobbered>> /\ UnchangedGC

\* The renderer succeeds, which it can only while its directory is there.
Render(id) ==
  /\ jobs[id].stage = "rendering"
  /\ Exists(Prefix)
  /\ mtime' = Written(mtime, Artifact(id))
  /\ Stage(id, "mkdirp again")
  /\ clobbered' = clobbered \ {id}
  /\ UNCHANGED <<now, finished>> /\ UnchangedGC

\* The renderer, redis or a file operation fails.
JobFails(id) ==
  /\ jobs[id].stage \notin {"idle", "ending"}
  /\ Stage(id, "ending")
  /\ UNCHANGED <<mtime, now, finished, clobbered>> /\ UnchangedGC

\* fs.stat of the rendered file; then the status is published.
Finish(id) ==
  /\ jobs[id].stage = "stat"
  /\ finished' = IF Exists(Artifact(id)) THEN [finished EXCEPT ![id] = now] ELSE finished
  /\ Stage(id, "ending")
  /\ UNCHANGED <<mtime, now, clobbered>> /\ UnchangedGC

\* rimraf.
Cleanup(id) ==
  /\ jobs[id].stage = "ending"
  /\ mtime' = IF Exists(Scratch(id)) THEN Removed(Scratch(id)) ELSE mtime
  /\ EndJob(id)
  /\ UNCHANGED <<now, finished, clobbered>> /\ UnchangedGC

\* The thread dies and leaves what it has written.
Crash(id) ==
  /\ jobs[id].stage # "idle"
  /\ EndJob(id)
  /\ UNCHANGED <<mtime, now, finished, clobbered>> /\ UnchangedGC

JobStep(id) ==
  \/ Mkdirp(id)
  \/ Utimes(id)
  \/ Render(id)
  \/ JobFails(id)
  \/ Finish(id)
  \/ Cleanup(id)

-----------------------------------------------------------------------------

\* The collector: doGCRun and cleanDir of gc.js.

UnchangedJobs == UNCHANGED <<jobs, finished, clobbered>>

Readdir(dir, force) == {Task(p, force, "stat", Absent) : p \in Present(dir)}

\* Faulty: the lifetime is left out.
CleanDirNow(dir, lifetime, force) ==
  /\ expire' = now
  /\ tasks' = Readdir(dir, force)

\* cleanDir(dir, lifetime, force) begins; without a lifetime it does nothing.
CleanDir(dir, lifetime, force) ==
  /\ expire' = now - lifetime
  /\ tasks' = IF lifetime = 0 THEN {} ELSE Readdir(dir, force)

Expired == {id \in Ids : finished[id] # Absent /\ finished[id] + JobLifetime < now}

\* Faulty: the run goes on although redis has failed.
StartRunWithoutRedis ==
  /\ phase = "idle"
  /\ phase' = "status"
  /\ started' = now
  /\ UNCHANGED <<mtime, now, jobs, finished, expire, tasks, clobbered>>

\* The status objects that are too old are removed first.
StartRun ==
  /\ phase = "idle"
  /\ phase' = "status"
  /\ started' = now
  /\ finished' = Without(Expired)
  /\ UNCHANGED <<mtime, now, jobs, expire, tasks, clobbered>>

\* Redis fails after some of them: the run is over.
AbortedRun ==
  /\ phase = "idle"
  /\ \E ids \in SUBSET Expired : finished' = Without(ids)
  /\ UNCHANGED <<mtime, now, jobs, phase, started, expire, tasks, clobbered>>

\* Faulty: young subdirectories are skipped.
CleanOutputDirByAge ==
  /\ phase = "status"
  /\ phase' = "output"
  /\ CleanDir(OutputDir, JobFileLifetime, 0)
  /\ UNCHANGED <<mtime, now, started>> /\ UnchangedJobs

\* `force' is 1: the subdirectories are entered whatever their mtime.
CleanOutputDir ==
  /\ phase = "status"
  /\ phase' = "output"
  /\ CleanDir(OutputDir, JobFileLifetime, 1)
  /\ UNCHANGED <<mtime, now, started>> /\ UnchangedJobs

CleanTempDir ==
  /\ phase = "output"
  /\ tasks = {}
  /\ phase' = "temp"
  /\ CleanDir(Temp, TempFileLifetime, 0)
  /\ UNCHANGED <<mtime, now, started>> /\ UnchangedJobs

EndRun ==
  /\ phase = "temp"
  /\ tasks = {}
  /\ phase' = "idle"
  /\ started' = 0
  /\ expire' = 0
  /\ UNCHANGED <<mtime, now, tasks>> /\ UnchangedJobs

UnchangedButTasks == UNCHANGED <<now, phase, started, expire>> /\ UnchangedJobs

\* The task is done, or goes on at the next step.
Done(x) == tasks' = tasks \ {x}
GoesOn(x, y) == tasks' = (tasks \ {x}) \cup {y}

\* Young files are safe, young directories where they are not forced.
Safe(x) == mtime[x.path] > expire /\ (x.path \in Dirs => x.force = 0)

\* `force' for the entries of a directory.
ForceBelow(x) == IF x.force > 0 THEN x.force - 1 ELSE 0

\* lstat: the entry is gone, safe, a directory or a file.
Lstat(x) ==
  /\ x.step = "stat"
  /\ \/ /\ ~Exists(x.path) \/ Safe(x)
        /\ Done(x)
     \/ /\ Exists(x.path) /\ ~Safe(x)
        /\ IF x.path \in Dirs
           THEN GoesOn(x, Task(x.path, ForceBelow(x), "read", Absent))
           ELSE GoesOn(x, Task(x.path, x.force, "unlink", mtime[x.path]))
  /\ UNCHANGED mtime /\ UnchangedButTasks

\* The recursive call of clean.
ReadEntries(x) ==
  /\ x.step = "read"
  /\ tasks' = (tasks \ {x}) \cup {[x EXCEPT !.step = "entries"]}
                            \cup (IF Exists(x.path) THEN Readdir(x.path, x.force) ELSE {})
  /\ UNCHANGED mtime /\ UnchangedButTasks

\* Its entries are done: the directory is read again.
ReadAgain(x) ==
  /\ x.step = "entries"
  /\ \A y \in tasks : y.path \notin Entries(x.path)
  /\ IF Exists(x.path) /\ Present(x.path) = {}
     THEN GoesOn(x, [x EXCEPT !.step = "rmdir"])
     ELSE Done(x)
  /\ UNCHANGED mtime /\ UnchangedButTasks

\* Faulty: whatever has come meanwhile, the directory goes.
RmdirAsRead(x) ==
  /\ x.step = "rmdir"
  /\ Done(x)
  /\ mtime' = IF Exists(x.path) THEN Removed(x.path) ELSE mtime
  /\ UnchangedButTasks

\* It fails on a directory that is gone or not empty any more.
Rmdir(x) ==
  /\ x.step = "rmdir"
  /\ Done(x)
  /\ mtime' = IF Exists(x.path) /\ Present(x.path) = {} THEN Removed(x.path) ELSE mtime
  /\ UnchangedButTasks

Unlink(x) ==
  /\ x.step = "unlink"
  /\ Done(x)
  /\ mtime' = IF Exists(x.path) THEN Removed(x.path) ELSE mtime
  /\ clobbered' = clobbered \cup
                    {id \in Ids : x.path = Artifact(id) /\ mtime[x.path] > x.seen}
  /\ UNCHANGED <<now, jobs, finished, phase, started, expire>>

CleanStep(x) ==
  \/ Lstat(x)
  \/ ReadEntries(x)
  \/ ReadAgain(x)
  \/ Rmdir(x)
  \/ Unlink(x)

CollectorStep ==
  \/ StartRun
  \/ CleanOutputDir
  \/ CleanTempDir
  \/ EndRun
  \/ \E x \in tasks : CleanStep(x)

-----------------------------------------------------------------------------

\* No run and no job takes longer than it may.
Tick ==
  /\ now < MaxTime
  /\ phase # "idle" => now - started < MaxRunTime
  /\ \A id \in Ids : jobs[id].stage # "idle" => now - jobs[id].since < MaxJobTime
  /\ now' = now + 1
  /\ UNCHANGED <<mtime, jobs, finished, phase, started, expire, tasks, clobbered>>

Next ==
  \/ \E id \in Ids : StartJob(id) \/ JobStep(id) \/ Crash(id)
  \/ CollectorStep
  \/ AbortedRun
  \/ Tick

Spec == Init /\ [][Next]_vars

\* Runs are started again and again and come to an end, jobs end, time passes.
\* Redis need not fail, nor clients ask for anything.
Fairness ==
  /\ WF_vars(CollectorStep)
  /\ WF_vars(Tick)
  /\ \A id \in Ids : WF_vars(JobStep(id))

FairSpec == Spec /\ Fairness

-----------------------------------------------------------------------------

\* A file that somebody counts on: a finished status names it, or a job that
\* has not reached its clean-up works with it.
InUse(p) ==
  \E id \in Ids : \/ p = Artifact(id) /\ finished[id] # Absent
                  \/ p = Scratch(id) /\ jobs[id].stage \notin {"idle", "ending"}

\* The collector takes a file in use only if it was written anew after the
\* collector had looked at its age.  For rendered files this rests on the order
\* of a run, status objects first, and on job_file_lifetime being longer than
\* job_lifetime by more than a run and a job may take; for scratch files on
\* temp_file_lifetime being "longer than the longest expected job runtime".
CollectsOnlyUnused ==
  [][\A x \in tasks :
       Unlink(x) /\ Exists(x.path) /\ InUse(x.path) => mtime[x.path] > x.seen]_vars

\* A finished status names a file that is there, as long as the status is: the
\* file outlives it, unless it is clobbered.
NamedFilesExist ==
  \A id \in Ids : finished[id] # Absent => Exists(Artifact(id)) \/ id \in clobbered

Old(p, lifetime) == lifetime > 0 /\ Exists(p) /\ mtime[p] + lifetime <= now

\* A run never leaves the directories in a state that keeps an old file for
\* ever: rendered files, whatever the age of their directory, and what crashed
\* jobs have left go away, unless they are written anew.
OldFilesGo ==
  \A id \in Ids :
    /\ Old(Artifact(id), JobFileLifetime) ~> ~Old(Artifact(id), JobFileLifetime)
    /\ Old(Scratch(id), TempFileLifetime) ~> ~Old(Scratch(id), TempFileLifetime)

\* "Lifetime, in seconds, of any successful job artifacts on the file system":
\* a rendered file that was seen to be younger is not collected.
ArtifactLives ==
  [][\A x \in tasks, id \in Ids :
       Unlink(x) /\ x.path = Artifact(id) => x.seen + JobFileLifetime <= now]_vars

=============================================================================
