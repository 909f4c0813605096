-------------------------- MODULE RetrievalProofs ---------------------------
(***************************************************************************)
(* Proofs about the files of a host and the downloads from it, for any     *)
(* number of collections and clients and any length of the lifetimes.      *)
(***************************************************************************)
EXTENDS Retrieval, TLAPS

-----------------------------------------------------------------------------
(* Paths *)

\* A path is a directory, a rendered file or a scratch file, and lies in one
\* directory.
LEMMA PathFacts ==
  /\ OutputDir \in Paths /\ Prefix \in Paths /\ OutputDir # Prefix
  /\ Temp \notin Paths
  /\ DirOf(OutputDir) = Temp /\ DirOf(Prefix) = OutputDir
  /\ Entries(OutputDir) = {Prefix} /\ Entries(Prefix) = {Artifact(id) : id \in Ids}
  /\ Entries(Temp) \subseteq Paths
  /\ ~Nested => Entries(Temp) = {Scratch(id) : id \in Ids}
  /\ \A id \in Ids : /\ Artifact(id) \in Paths \ Dirs /\ Scratch(id) \in Paths \ Dirs
                     /\ DirOf(Artifact(id)) = Prefix /\ DirOf(Scratch(id)) = Temp
                     /\ Entries(Artifact(id)) = {} /\ Entries(Scratch(id)) = {}
  /\ \A i, j \in Ids : /\ Artifact(i) # Scratch(j)
                       /\ Artifact(i) = Artifact(j) => i = j
                       /\ Scratch(i) = Scratch(j) => i = j
  BY DEF OutputDir, Prefix, Temp, Paths, Dirs, DirOf, Entries, Artifact, Scratch

\* What is in a directory are paths.
LEMMA EntriesType == ASSUME NEW p \in Paths \union {Temp} PROVE Entries(p) \subseteq Paths
  BY PathFacts DEF Paths, Dirs

Mtimes == {Absent} \union (0..MaxTime)

\* A write changes the mtimes of a path and of its directory, no others.
LEMMA WrittenType ==
  ASSUME NEW fs \in [Paths -> Mtimes], now \in 0..MaxTime, NEW p \in Paths
  PROVE  /\ Written(fs, p) \in [Paths -> Mtimes]
         /\ Written(fs, p)[p] = now
         /\ \A q \in Paths : /\ q # p /\ q # DirOf(p) => Written(fs, p)[q] = fs[q]
                             /\ Written(fs, p)[q] \in {fs[q], now}
  BY DEF Written, Mtimes

\* So does a removal.
LEMMA RemovedType ==
  ASSUME mtime \in [Paths -> Mtimes], now \in 0..MaxTime, NEW p \in Paths
  PROVE  /\ Removed(p) \in [Paths -> Mtimes]
         /\ Removed(p)[p] = Absent
         /\ \A q \in Paths : /\ q # p /\ q # DirOf(p) => Removed(p)[q] = mtime[q]
                             /\ q # p => Removed(p)[q] \in {mtime[q], now}
  BY DEF Removed, Mtimes

\* The clock reads a natural number, never the mtime of nothing.
LEMMA NowExists == ASSUME NEW t \in 0..MaxTime PROVE t # Absent
  BY DEF Absent

-----------------------------------------------------------------------------
(* Type correctness *)

TreeOK ==
  /\ Exists(Prefix) => Exists(OutputDir)
  /\ \A id \in Ids : Exists(Artifact(id)) => Exists(Prefix)

TaskSet == [path : Paths, force : {0, 1}, step : Steps, seen : Mtimes]

\* Only files are unlinked, and only directories are read and removed.
TasksOK ==
  /\ tasks \subseteq TaskSet
  /\ expire \in Int
  /\ \A x \in tasks : /\ x.step = "unlink" => x.path \notin Dirs
                      /\ x.step \in {"read", "entries", "rmdir"} => x.path \in Dirs

TypeInv == TypeOK /\ TasksOK

\* The clock has room to start.
LEMMA MaxTimeType == MaxTime \in Nat
  BY FileGCAssumption

\* Types that only say what each variable may be.
LEMMA TypeParts ==
  TypeOK <=> /\ mtime \in [Paths -> Mtimes]
             /\ now \in 0..MaxTime
             /\ jobs \in [Ids -> [stage : Stages, since : 0..MaxTime]]
             /\ finished \in [Ids -> Mtimes]
             /\ phase \in {"idle", "status", "output", "temp"}
             /\ started \in 0..MaxTime
             /\ tasks \subseteq TaskSet
             /\ clobbered \subseteq Ids
             /\ TreeOK
  BY DEF TypeOK, Mtimes, TaskSet, TreeOK

\* Writing a file in a directory that is there leaves the tree a tree.
LEMMA WrittenTree ==
  ASSUME mtime \in [Paths -> Mtimes], now \in 0..MaxTime, TreeOK, NEW id \in Ids,
         \/ mtime' = Written(mtime, Scratch(id))
         \/ Exists(Prefix) /\ mtime' = Written(mtime, Artifact(id))
  PROVE  mtime' \in [Paths -> Mtimes] /\ TreeOK'
  <1>1. now # Absent
    BY NowExists
  <1>2. /\ Scratch(id) \in Paths /\ Artifact(id) \in Paths
        /\ DirOf(Scratch(id)) \notin Paths
    BY PathFacts
  <1>3. /\ mtime' \in [Paths -> Mtimes]
        /\ \A q \in Paths : /\ mtime'[q] \in {mtime[q], now}
                            /\ q = Scratch(id) \/ Exists(Prefix) \/ mtime'[q] = mtime[q]
    <2>1. CASE mtime' = Written(mtime, Scratch(id))
      BY <1>2, <2>1, WrittenType
    <2>2. CASE Exists(Prefix) /\ mtime' = Written(mtime, Artifact(id))
      BY <1>2, <2>2, WrittenType
    <2>. QED
      BY <2>1, <2>2
  <1>. QED
    BY <1>1, <1>3, PathFacts DEF TreeOK, Exists

\* Removing a file, or a directory that is empty, leaves the tree a tree.
LEMMA RemovedTree ==
  ASSUME mtime \in [Paths -> Mtimes], now \in 0..MaxTime, TreeOK, NEW p \in Paths,
         Exists(p), p \in Dirs => Present(p) = {}, mtime' = Removed(p)
  PROVE  mtime' \in [Paths -> Mtimes] /\ TreeOK'
  <1>1. now # Absent
    BY NowExists
  <1>2. /\ mtime' \in [Paths -> Mtimes] /\ mtime'[p] = Absent
        /\ \A q \in Paths : /\ q # p /\ q # DirOf(p) => mtime'[q] = mtime[q]
                            /\ q # p => mtime'[q] \in {mtime[q], now}
    BY RemovedType
  <1>3. CASE p = OutputDir
    <2>1. ~Exists(Prefix)
      BY <1>3, PathFacts DEF Present, Dirs
    <2>. QED
      BY <1>2, <1>3, <2>1, PathFacts DEF TreeOK, Exists
  <1>4. CASE p = Prefix
    <2>1. \A id \in Ids : ~Exists(Artifact(id))
      BY <1>4, PathFacts DEF Present, Dirs
    <2>. QED
      BY <1>1, <1>2, <1>4, <2>1, PathFacts DEF TreeOK, Exists
  <1>5. CASE \E id \in Ids : p = Artifact(id)
    BY <1>1, <1>2, <1>5, PathFacts DEF TreeOK, Exists, Dirs
  <1>6. CASE \E id \in Ids : p = Scratch(id)
    BY <1>1, <1>2, <1>6, PathFacts DEF TreeOK, Exists, Dirs
  <1>. QED
    BY <1>3, <1>4, <1>5, <1>6 DEF Paths, Dirs

\* Every step of a job keeps the types.
LEMMA JobType ==
  ASSUME TypeInv, NEW id \in Ids, StartJob(id) \/ JobStep(id) \/ Crash(id)
  PROVE  TypeInv'
  <1>1. /\ mtime \in [Paths -> Mtimes] /\ now \in 0..MaxTime /\ TreeOK
        /\ jobs \in [Ids -> [stage : Stages, since : 0..MaxTime]]
        /\ finished \in [Ids -> Mtimes] /\ clobbered \subseteq Ids
    BY TypeParts DEF TypeInv
  <1>2. ASSUME mtime' \in [Paths -> Mtimes], TreeOK',
               jobs' \in [Ids -> [stage : Stages, since : 0..MaxTime]],
               finished' \in [Ids -> Mtimes], clobbered' \subseteq Ids,
               UNCHANGED now, UnchangedGC
        PROVE  TypeInv'
    BY <1>2 DEF UnchangedGC, TypeInv, TypeOK, TasksOK, TreeOK, Mtimes
  <1>3. \A stage \in Stages : [jobs EXCEPT ![id].stage = stage]
                               \in [Ids -> [stage : Stages, since : 0..MaxTime]]
    BY <1>1
  <1>4. \A since \in 0..MaxTime, stage \in Stages :
          [jobs EXCEPT ![id] = [stage |-> stage, since |-> since]]
            \in [Ids -> [stage : Stages, since : 0..MaxTime]]
    BY <1>1
  <1>5. UNCHANGED mtime => TreeOK'
    BY <1>1 DEF TreeOK, Exists
  <1>6. 0 \in 0..MaxTime /\ "idle" \in Stages /\ "mkdirp" \in Stages
    BY MaxTimeType DEF Stages
  <1>7. CASE StartJob(id)
    <2>1. mtime' \in [Paths -> Mtimes] /\ TreeOK'
      BY <1>1, <1>7, WrittenTree DEF StartJob
    <2>2. jobs' \in [Ids -> [stage : Stages, since : 0..MaxTime]]
      BY <1>1, <1>4, <1>6, <1>7 DEF StartJob
    <2>3. finished' \in [Ids -> Mtimes]
      BY <1>1, <1>7 DEF StartJob, Without, Mtimes
    <2>. QED
      BY <1>1, <1>2, <1>7, <2>1, <2>2, <2>3 DEF StartJob
  <1>8. CASE Mkdirp(id)
    <2>. DEFINE output == IF Exists(OutputDir) THEN mtime ELSE Written(mtime, OutputDir)
    <2>1. now # Absent
      BY <1>1, NowExists
    <2>2. /\ output \in [Paths -> Mtimes] /\ output[OutputDir] # Absent
          /\ \A q \in Paths : q # OutputDir => output[q] = mtime[q]
      <3>1. OutputDir \in Paths /\ DirOf(OutputDir) \notin Paths
        BY PathFacts
      <3>2. CASE Exists(OutputDir)
        BY <1>1, <3>2 DEF Exists
      <3>3. CASE ~Exists(OutputDir)
        BY <1>1, <2>1, <3>1, <3>3, WrittenType
      <3>. QED
        BY <3>2, <3>3
    <2>3. mtime' = IF Exists(Prefix) THEN mtime ELSE Written(output, Prefix)
      BY <1>8 DEF Mkdirp
    <2>. HIDE DEF output
    <2>4. CASE Exists(Prefix)
      BY <1>1, <1>2, <1>3, <1>5, <1>8, <2>3, <2>4 DEF Mkdirp, Stage, Stages
    <2>5. CASE ~Exists(Prefix)
      <3>1. /\ mtime' \in [Paths -> Mtimes] /\ mtime'[Prefix] = now
            /\ mtime'[OutputDir] \in {output[OutputDir], now}
        BY <1>1, <2>2, <2>3, <2>5, WrittenType, PathFacts
      <3>2. TreeOK'
        BY <2>1, <2>2, <3>1 DEF TreeOK, Exists
      <3>. QED
        BY <1>1, <1>2, <1>3, <1>8, <3>1, <3>2 DEF Mkdirp, Stage, Stages
    <2>. QED
      BY <2>4, <2>5
  <1>9. CASE Utimes(id)
    <2>1. mtime' = mtime \/ (Exists(Prefix) /\ mtime' = [mtime EXCEPT ![Prefix] = now])
      BY <1>9 DEF Utimes
    <2>2. mtime' \in [Paths -> Mtimes] /\ TreeOK'
      BY <1>1, <2>1, PathFacts, NowExists DEF TreeOK, Exists, Mtimes
    <2>. QED
      BY <1>1, <1>2, <1>3, <1>9, <2>2 DEF Utimes, Stage, Stages
  <1>10. CASE Render(id)
    <2>1. mtime' \in [Paths -> Mtimes] /\ TreeOK'
      BY <1>1, <1>10, WrittenTree DEF Render
    <2>. QED
      BY <1>1, <1>2, <1>3, <1>10, <2>1 DEF Render, Stage, Stages
  <1>11. CASE JobFails(id)
    BY <1>1, <1>2, <1>3, <1>5, <1>11 DEF JobFails, Stage, Stages
  <1>12. CASE Finish(id)
    <2>1. finished' \in [Ids -> Mtimes]
      BY <1>1, <1>12 DEF Finish, Mtimes
    <2>. QED
      BY <1>1, <1>2, <1>3, <1>5, <1>12, <2>1 DEF Finish, Stage, Stages
  <1>13. CASE Cleanup(id)
    <2>1. Scratch(id) \in Paths \ Dirs
      BY PathFacts
    <2>2. mtime' \in [Paths -> Mtimes] /\ TreeOK'
      BY <1>1, <1>5, <1>13, <2>1, RemovedTree DEF Cleanup
    <2>. QED
      BY <1>1, <1>2, <1>4, <1>6, <1>13, <2>2 DEF Cleanup, EndJob, NoJob
  <1>14. CASE Crash(id)
    BY <1>1, <1>2, <1>4, <1>5, <1>6, <1>14 DEF Crash, EndJob, NoJob
  <1>. QED
    BY <1>7, <1>8, <1>9, <1>10, <1>11, <1>12, <1>13, <1>14 DEF JobStep

\* The tasks a directory is read into.
LEMMA ReaddirType ==
  ASSUME NEW p \in Paths \union {Temp}, NEW force \in {0, 1}
  PROVE  /\ Readdir(p, force) \subseteq TaskSet
         /\ \A x \in Readdir(p, force) :
              x.step = "stat" /\ x.path \in Entries(p) /\ x.seen = Absent
  BY EntriesType DEF Readdir, Present, Task, TaskSet, Steps, Mtimes

\* Every step of a task keeps the types.
LEMMA CleanType ==
  ASSUME TypeInv, NEW x \in tasks, CleanStep(x)
  PROVE  TypeInv'
  <1>1. /\ mtime \in [Paths -> Mtimes] /\ now \in 0..MaxTime /\ TreeOK
        /\ clobbered \subseteq Ids /\ tasks \subseteq TaskSet
    BY TypeParts DEF TypeInv
  <1>2. ASSUME mtime' \in [Paths -> Mtimes], TreeOK', clobbered' \subseteq Ids,
               UNCHANGED <<now, jobs, finished, phase, started, expire>>,
               NEW Y, tasks' \subseteq tasks \union Y, Y \subseteq TaskSet,
               \A y \in Y : /\ y.step = "unlink" => y.path \notin Dirs
                            /\ y.step \in {"read", "entries", "rmdir"} => y.path \in Dirs
        PROVE  TypeInv'
    <2>1. tasks' \subseteq TaskSet
      BY <1>1, <1>2
    <2>2. ASSUME NEW y \in tasks'
          PROVE  /\ y.step = "unlink" => y.path \notin Dirs
                 /\ y.step \in {"read", "entries", "rmdir"} => y.path \in Dirs
      <3>1. CASE y \in tasks
        BY <3>1 DEF TypeInv, TasksOK
      <3>2. CASE y \in Y
        BY <1>2, <3>2
      <3>. QED
        BY <1>2, <3>1, <3>2
    <2>3. TasksOK'
      BY <1>2, <2>1, <2>2 DEF TypeInv, TasksOK
    <2>. QED
      BY <1>2, <2>1, <2>3 DEF TypeInv, TypeOK, TreeOK, Mtimes, TaskSet
  <1>11. ASSUME mtime' \in [Paths -> Mtimes], TreeOK', clobbered' \subseteq Ids,
                UNCHANGED <<now, jobs, finished, phase, started, expire>>,
                tasks' \subseteq tasks
         PROVE  TypeInv'
    <2>1. TasksOK' /\ tasks' \subseteq TaskSet
      BY <1>1, <1>11 DEF TypeInv, TasksOK
    <2>. QED
      BY <1>11, <2>1 DEF TypeInv, TypeOK, TreeOK, Mtimes, TaskSet
  <1>3. UNCHANGED mtime => TreeOK'
    BY <1>1 DEF TreeOK, Exists
  <1>4. /\ x.path \in Paths /\ x.force \in {0, 1} /\ x.seen \in Mtimes /\ x.step \in Steps
        /\ x = [path |-> x.path, force |-> x.force, step |-> x.step, seen |-> x.seen]
    BY <1>1 DEF TaskSet
  <1>5. /\ x.step = "unlink" => x.path \notin Dirs
        /\ x.step \in {"read", "entries", "rmdir"} => x.path \in Dirs
    BY DEF TypeInv, TasksOK
  <1>6. CASE Lstat(x)
    <2>1. CASE Done(x)
      BY <1>1, <1>3, <1>6, <1>11, <2>1 DEF Lstat, UnchangedButTasks, UnchangedJobs, Done
    <2>2. CASE x.path \in Dirs /\ GoesOn(x, Task(x.path, ForceBelow(x), "read", Absent))
      <3>1. ForceBelow(x) \in {0, 1}
        BY <1>4 DEF ForceBelow
      <3>. DEFINE Y == {Task(x.path, ForceBelow(x), "read", Absent)}
      <3>2. Y \subseteq TaskSet /\ \A y \in Y : y.step = "read" /\ y.path \in Dirs
        BY <1>4, <2>2, <3>1 DEF Task, TaskSet, Steps, Mtimes
      <3>3. tasks' \subseteq tasks \union Y
        BY <2>2 DEF GoesOn
      <3>. HIDE DEF Y
      <3>. QED
        BY <1>1, <1>2, <1>3, <1>6, <3>2, <3>3 DEF Lstat, UnchangedButTasks, UnchangedJobs
    <2>3. CASE /\ x.path \notin Dirs
               /\ GoesOn(x, Task(x.path, x.force, "unlink", mtime[x.path]))
      <3>. DEFINE Y == {Task(x.path, x.force, "unlink", mtime[x.path])}
      <3>2. Y \subseteq TaskSet /\ \A y \in Y : y.step = "unlink" /\ y.path \notin Dirs
        BY <1>1, <1>4, <2>3 DEF Task, TaskSet, Steps, Mtimes
      <3>3. tasks' \subseteq tasks \union Y
        BY <2>3 DEF GoesOn
      <3>. HIDE DEF Y
      <3>. QED
        BY <1>1, <1>2, <1>3, <1>6, <3>2, <3>3 DEF Lstat, UnchangedButTasks, UnchangedJobs
    <2>. QED
      BY <1>6, <2>1, <2>2, <2>3 DEF Lstat
  <1>7. CASE ReadEntries(x)
    <2>. DEFINE Y == {[x EXCEPT !.step = "entries"]} \union Readdir(x.path, x.force)
    <2>1. Y \subseteq TaskSet
      BY <1>1, <1>4, ReaddirType DEF TaskSet, Steps
    <2>2. \A y \in Y : (y.step = "entries" /\ y.path \in Dirs) \/ y.step = "stat"
      BY <1>4, <1>5, <1>7, ReaddirType DEF ReadEntries
    <2>3. tasks' \subseteq tasks \union Y
      BY <1>7 DEF ReadEntries
    <2>. HIDE DEF Y
    <2>. QED
      BY <1>1, <1>2, <1>3, <1>7, <2>1, <2>2, <2>3
         DEF ReadEntries, UnchangedButTasks, UnchangedJobs
  <1>8. CASE ReadAgain(x)
    <2>. DEFINE Y == {[x EXCEPT !.step = "rmdir"]}
    <2>1. Y \subseteq TaskSet /\ \A y \in Y : y.step = "rmdir" /\ y.path \in Dirs
      BY <1>4, <1>5, <1>8 DEF ReadAgain, TaskSet, Steps
    <2>2. tasks' \subseteq tasks \union Y
      BY <1>8 DEF ReadAgain, Done, GoesOn
    <2>. HIDE DEF Y
    <2>. QED
      BY <1>1, <1>2, <1>3, <1>8, <2>1, <2>2 DEF ReadAgain, UnchangedButTasks, UnchangedJobs
  <1>9. CASE Rmdir(x)
    <2>1. mtime' \in [Paths -> Mtimes] /\ TreeOK'
      BY <1>1, <1>3, <1>4, <1>9, RemovedTree DEF Rmdir
    <2>. QED
      BY <1>1, <1>9, <1>11, <2>1 DEF Rmdir, Done, UnchangedButTasks, UnchangedJobs
  <1>10. CASE Unlink(x)
    <2>1. mtime' \in [Paths -> Mtimes] /\ TreeOK'
      BY <1>1, <1>3, <1>4, <1>5, <1>10, RemovedTree DEF Unlink
    <2>2. clobbered' \subseteq Ids
      BY <1>1, <1>10 DEF Unlink
    <2>. QED
      BY <1>10, <1>11, <2>1, <2>2 DEF Unlink, Done
  <1>. QED
    BY <1>6, <1>7, <1>8, <1>9, <1>10 DEF CleanStep

\* Every step keeps the types.
LEMMA HostStepType == ASSUME TypeInv, [Next]_vars PROVE TypeInv'
  <1>. USE DEF TypeInv, TypeOK, TasksOK, TaskSet, Mtimes, Exists
  <1>1. /\ finished \in [Ids -> Mtimes] /\ now \in 0..MaxTime /\ tasks \subseteq TaskSet
        /\ now \in Int /\ MaxTime \in Nat
    BY MaxTimeType
  <1>2. \A ids : Without(ids) \in [Ids -> Mtimes]
    BY DEF Without
  <1>3. ASSUME NEW dir \in Paths \union {Temp}, NEW lifetime \in Nat, NEW force \in {0, 1},
               CleanDir(dir, lifetime, force)
        PROVE  TasksOK'
    BY <1>1, <1>3, ReaddirType DEF CleanDir
  <1>4. CASE StartRun \/ AbortedRun
    BY <1>2, <1>4 DEF StartRun, AbortedRun
  <1>5. CASE CleanOutputDir
    <2>1. TasksOK'
      BY <1>3, <1>5, PathFacts, FileGCAssumption DEF CleanOutputDir
    <2>. QED
      BY <1>5, <2>1 DEF CleanOutputDir, UnchangedJobs
  <1>6. CASE CleanTempDir
    <2>1. TasksOK'
      BY <1>3, <1>6, FileGCAssumption DEF CleanTempDir
    <2>. QED
      BY <1>6, <2>1 DEF CleanTempDir, UnchangedJobs
  <1>7. CASE EndRun
    BY <1>1, <1>7 DEF EndRun, UnchangedJobs
  <1>8. CASE Tick
    <2>1. now' \in 0..MaxTime
      BY <1>1, <1>8 DEF Tick
    <2>. QED
      BY <1>8, <2>1 DEF Tick
  <1>9. CASE UNCHANGED vars
    BY <1>9 DEF vars
  <1>. QED
    BY <1>4, <1>5, <1>6, <1>7, <1>8, <1>9, JobType, CleanType DEF Next, CollectorStep

\* At first there is an empty output directory and nobody at work.
LEMMA HostInitType == Init => TypeInv
  <1>1. 0 \in 0..MaxTime
    BY MaxTimeType
  <1>2. Init => mtime \in [Paths -> Mtimes] /\ TreeOK
    BY <1>1, PathFacts DEF Init, TreeOK, Exists, Mtimes, Dirs
  <1>3. Init => TasksOK
    BY DEF Init, TasksOK
  <1>. QED
    BY <1>1, <1>2, <1>3 DEF Init, TypeInv, TypeOK, TreeOK, Mtimes, Stages

\* A step that concerns clients is none of the host.
LEMMA HostSteps == [RetrievalNext]_retrievalVars => [Next]_vars
  BY DEF RetrievalNext, HostActs, Ask, Serve, HandleRenderStatus, HandleDownloadFile, StatFile,
         OpenFile, StreamFails, HgetFails, Await, Reply, retrievalVars

\* The state of a host and of the requests for its files is well formed.
THEOREM RetrievalTypeCorrect == RetrievalSpec => []RetrievalTypeOK
  <1>. DEFINE Inv == TypeInv /\ RetrievalTypeOK
  <1>1. RetrievalInit => Inv
    BY HostInitType DEF RetrievalInit, RetrievalTypeOK, ConnPCs, Replies, TypeInv
  <1>2. ASSUME Inv, [RetrievalNext]_retrievalVars PROVE Inv'
    <2>1. TypeInv'
      BY <1>2, HostSteps, HostStepType
    <2>2. conn' \in [Clients -> [pc : ConnPCs, id : Ids, reply : Replies]]
      <3>1. conn \in [Clients -> [pc : ConnPCs, id : Ids, reply : Replies]]
        BY <1>2 DEF RetrievalTypeOK
      <3>2. ASSUME NEW c \in Clients, NEW pc \in ConnPCs, Await(c, pc)
            PROVE  conn' \in [Clients -> [pc : ConnPCs, id : Ids, reply : Replies]]
        BY <3>1, <3>2 DEF Await
      <3>3. ASSUME NEW c \in Clients, NEW code \in Replies, Reply(c, code)
            PROVE  conn' \in [Clients -> [pc : ConnPCs, id : Ids, reply : Replies]]
        BY <3>1, <3>3 DEF Reply, ConnPCs
      <3>4. ASSUME NEW c \in Clients, Ask(c)
            PROVE  conn' \in [Clients -> [pc : ConnPCs, id : Ids, reply : Replies]]
        BY <3>1, <3>4 DEF Ask, ConnPCs, Replies
      <3>5. ASSUME NEW c \in Clients, StreamFails(c)
            PROVE  conn' \in [Clients -> [pc : ConnPCs, id : Ids, reply : Replies]]
        BY <3>1, <3>5 DEF StreamFails, ConnPCs, Replies
      <3>6. ASSUME NEW c \in Clients, \/ HandleRenderStatus(c) \/ HandleDownloadFile(c)
                                      \/ StatFile(c) \/ OpenFile(c) \/ HgetFails(c)
            PROVE  conn' \in [Clients -> [pc : ConnPCs, id : Ids, reply : Replies]]
        BY <3>2, <3>3, <3>6 DEF HandleRenderStatus, HandleDownloadFile, StatFile, OpenFile,
           HgetFails, ConnPCs, Replies
      <3>7. CASE HostActs \/ UNCHANGED retrievalVars
        BY <3>1, <3>7 DEF HostActs, retrievalVars
      <3>. QED
        BY <1>2, <3>4, <3>5, <3>6, <3>7 DEF RetrievalNext, Serve
    <2>. QED
      BY <2>1, <2>2 DEF RetrievalTypeOK, TypeInv
  <1>3. Inv => RetrievalTypeOK
    OBVIOUS
  <1>. QED
    BY <1>1, <1>2, <1>3, PTL DEF RetrievalSpec

-----------------------------------------------------------------------------
(* The ages of files *)

\* What the configuration must be like, the output directory outside of the
\* temporary directory included.
LifetimesSuffice ==
  /\ ~Nested
  /\ JobFileLifetime > JobLifetime + MaxRunTime + MaxJobTime
  /\ TempFileLifetime > MaxJobTime

Active(id) == jobs[id].stage \notin {"idle", "ending"}
HasRendered(id) == jobs[id].stage \in {"mkdirp again", "utimes again", "stat"}

\* Jobs and runs are as young as their limits say, and a file as its job.
JobAges ==
  \A id \in Ids :
    /\ jobs[id].stage # "idle" => jobs[id].since <= now /\ now - jobs[id].since <= MaxJobTime
    /\ Active(id) /\ Exists(Scratch(id)) => mtime[Scratch(id)] >= jobs[id].since
    /\ HasRendered(id) /\ Exists(Artifact(id)) => mtime[Artifact(id)] >= jobs[id].since

\* A status that names a file is not much older than the file, and during a run
\* not older than the run found it.
StatusAges ==
  \A id \in Ids : finished[id] # Absent =>
    /\ finished[id] <= now
    /\ phase # "idle" => started <= finished[id] + JobLifetime
    /\ Exists(Artifact(id)) => finished[id] <= mtime[Artifact(id)] + MaxJobTime

\* Nothing is unlinked that was young when it was looked at.
RunAges ==
  /\ phase # "idle" => started <= now /\ now - started <= MaxRunTime
  /\ phase = "output" => expire + JobFileLifetime <= started + MaxRunTime
  /\ phase = "temp" => expire + TempFileLifetime <= now
  /\ \A x \in tasks :
       /\ phase \in {"output", "temp"}
       /\ phase = "output" <=> \A id \in Ids : x.path # Scratch(id)
       /\ x.step = "unlink" => x.seen <= expire

AgeInv == JobAges /\ StatusAges /\ RunAges

\* All the times are numbers.
LEMMA Times ==
  ASSUME TypeInv
  PROVE  /\ now \in Int /\ started \in Int /\ expire \in Int /\ now >= 0
         /\ \A p \in Paths : mtime[p] \in Int
         /\ \A id \in Ids : jobs[id].since \in Int /\ finished[id] \in Int
         /\ \A x \in tasks : x.path \in Paths /\ x.seen \in Int
         /\ MaxTime \in Nat /\ MaxRunTime \in Nat /\ MaxJobTime \in Nat
         /\ JobLifetime \in Nat /\ JobFileLifetime \in Nat /\ TempFileLifetime \in Nat
  <1>1. /\ MaxTime \in Nat /\ MaxRunTime \in Nat /\ MaxJobTime \in Nat
        /\ JobLifetime \in Nat /\ JobFileLifetime \in Nat /\ TempFileLifetime \in Nat
    BY FileGCAssumption
  <1>2. Mtimes \subseteq Int /\ 0..MaxTime \subseteq Int
    BY <1>1 DEF Mtimes, Absent
  <1>3. /\ mtime \in [Paths -> Mtimes] /\ now \in 0..MaxTime /\ started \in 0..MaxTime
        /\ jobs \in [Ids -> [stage : Stages, since : 0..MaxTime]]
        /\ finished \in [Ids -> Mtimes] /\ tasks \subseteq TaskSet /\ expire \in Int
    BY TypeParts DEF TypeInv, TasksOK
  <1>4. /\ \A p \in Paths : mtime[p] \in Int
        /\ \A id \in Ids : jobs[id].since \in Int /\ finished[id] \in Int
    BY <1>2, <1>3
  <1>5. \A x \in tasks : x.path \in Paths /\ x.seen \in Int
    BY <1>2, <1>3 DEF TaskSet
  <1>. QED
    BY <1>1, <1>3, <1>4, <1>5

\* Directories lie in directories.
LEMMA ParentIsDir == \A p \in Paths : DirOf(p) \in Dirs \union {Temp}
  BY PathFacts DEF Paths, Dirs

\* What a step does to the files, leaving the directories aside.
FilesBut(f) == \A p \in Paths \ Dirs : p # f => mtime'[p] = mtime[p]

\* Writing a path touches no other file.
LEMMA WriteTouches ==
  ASSUME NEW fs \in [Paths -> Mtimes], now \in 0..MaxTime, NEW p \in Paths
  PROVE  \A q \in Paths \ Dirs : q # p => Written(fs, p)[q] = fs[q]
  BY WrittenType, ParentIsDir, PathFacts

\* Nor does removing one.
LEMMA RemovalTouches ==
  ASSUME mtime \in [Paths -> Mtimes], now \in 0..MaxTime, NEW p \in Paths
  PROVE  \A q \in Paths \ Dirs : q # p => Removed(p)[q] = mtime[q]
  BY RemovedType, ParentIsDir, PathFacts

\* What each step of a job does to the files.
LEMMA JobFiles ==
  ASSUME TypeInv, NEW id \in Ids
  PROVE  /\ StartJob(id) => FilesBut(Scratch(id)) /\ mtime'[Scratch(id)] = now
         /\ Render(id) => FilesBut(Artifact(id)) /\ mtime'[Artifact(id)] = now
         /\ Cleanup(id) => FilesBut(Scratch(id))
         /\ Mkdirp(id) \/ Utimes(id) => FilesBut(Prefix)
         /\ JobFails(id) \/ Finish(id) \/ Crash(id) => UNCHANGED mtime
  <1>1. mtime \in [Paths -> Mtimes] /\ now \in 0..MaxTime
    BY TypeParts DEF TypeInv
  <1>2. Scratch(id) \in Paths /\ Artifact(id) \in Paths /\ OutputDir \in Paths /\ Prefix \in Paths
    BY PathFacts
  <1>3. OutputDir \in Dirs /\ Prefix \in Dirs
    BY DEF Dirs
  <1>4. Mkdirp(id) => FilesBut(Prefix)
    <2>. DEFINE output == IF Exists(OutputDir) THEN mtime ELSE Written(mtime, OutputDir)
    <2>1. output \in [Paths -> Mtimes] /\ \A p \in Paths \ Dirs : output[p] = mtime[p]
      BY <1>1, <1>2, <1>3, WrittenType, WriteTouches
    <2>2. Mkdirp(id) => mtime' = IF Exists(Prefix) THEN mtime ELSE Written(output, Prefix)
      BY DEF Mkdirp
    <2>. HIDE DEF output
    <2>. QED
      BY <1>1, <1>2, <1>3, <2>1, <2>2, WriteTouches DEF FilesBut
  <1>5. Utimes(id) => FilesBut(Prefix)
    BY <1>1, <1>3 DEF Utimes, FilesBut
  <1>6. StartJob(id) => FilesBut(Scratch(id)) /\ mtime'[Scratch(id)] = now
    BY <1>1, <1>2, WrittenType, WriteTouches DEF StartJob, FilesBut
  <1>7. Render(id) => FilesBut(Artifact(id)) /\ mtime'[Artifact(id)] = now
    <2>1. Render(id) => mtime' = Written(mtime, Artifact(id))
      BY DEF Render
    <2>2. Written(mtime, Artifact(id))[Artifact(id)] = now
      BY <1>1, <1>2, WrittenType
    <2>. QED
      BY <1>1, <1>2, <2>1, <2>2, WriteTouches DEF FilesBut
  <1>8. Cleanup(id) => FilesBut(Scratch(id))
    BY <1>1, <1>2, RemovalTouches DEF Cleanup, FilesBut
  <1>. QED
    BY <1>4, <1>5, <1>6, <1>7, <1>8 DEF JobFails, Finish, Crash

\* A task changes no file but one that it unlinks.
LEMMA CleanFiles ==
  ASSUME TypeInv, NEW x \in tasks, CleanStep(x)
  PROVE  /\ FilesBut(x.path)
         /\ Unlink(x) \/ (\A p \in Paths \ Dirs : mtime'[p] = mtime[p])
         /\ x.path \in Paths \ Dirs => mtime'[x.path] \in {mtime[x.path], Absent}
  <1>1. mtime \in [Paths -> Mtimes] /\ now \in 0..MaxTime /\ x.path \in Paths
    BY TypeParts DEF TypeInv, TaskSet
  <1>2. CASE Lstat(x) \/ ReadEntries(x) \/ ReadAgain(x)
    BY <1>2 DEF Lstat, ReadEntries, ReadAgain, FilesBut
  <1>3. CASE Rmdir(x)
    <2>1. x.path \in Dirs
      BY <1>3 DEF Rmdir, TypeInv, TasksOK
    <2>. QED
      BY <1>1, <1>3, <2>1, RemovalTouches DEF Rmdir, FilesBut
  <1>4. CASE Unlink(x)
    BY <1>1, <1>4, RemovalTouches, RemovedType DEF Unlink, FilesBut
  <1>. QED
    BY <1>2, <1>3, <1>4 DEF CleanStep

\* Files are no directories, and there are two kinds of them.
LEMMA FileFacts ==
  /\ \A id \in Ids : Artifact(id) \in Paths \ Dirs /\ Scratch(id) \in Paths \ Dirs
  /\ \A i, j \in Ids : /\ Artifact(i) # Scratch(j)
                       /\ Artifact(i) = Artifact(j) => i = j
                       /\ Scratch(i) = Scratch(j) => i = j
  /\ \A id \in Ids : Artifact(id) # Prefix /\ Scratch(id) # Prefix
  BY PathFacts DEF Dirs

\* Every step of a job keeps the ages.
LEMMA JobKeepsAges ==
  ASSUME TypeInv, AgeInv, NEW id \in Ids, StartJob(id) \/ JobStep(id) \/ Crash(id)
  PROVE  AgeInv'
  <1>. USE DEF Exists
  <1>1. /\ UNCHANGED <<now, phase, started, expire, tasks>>
        /\ \A i \in Ids : i # id => jobs'[i] = jobs[i] /\ finished'[i] = finished[i]
    BY TypeParts DEF StartJob, JobStep, Crash, Mkdirp, Utimes, Render, JobFails, Finish, Cleanup,
       Stage, EndJob, UnchangedGC, Without, TypeInv
  <1>2. RunAges'
    BY <1>1 DEF AgeInv, RunAges
  <1>3. now \in Int /\ started \in Int /\ now # Absent /\ MaxJobTime \in Nat /\ JobLifetime \in Nat
    BY Times, NowExists, TypeParts DEF Absent
  <1>4. \A i \in Ids : i # id => /\ mtime'[Artifact(i)] = mtime[Artifact(i)]
                              /\ mtime'[Scratch(i)] = mtime[Scratch(i)]
    BY JobFiles, FileFacts DEF FilesBut, JobStep
  <1>5. jobs \in [Ids -> [stage : Stages, since : 0..MaxTime]] /\ finished \in [Ids -> Mtimes]
    BY TypeParts DEF TypeInv
  <1>6. /\ mtime[Artifact(id)] \in Int /\ mtime[Scratch(id)] \in Int
        /\ jobs[id].since \in Int /\ finished[id] \in Int
    BY Times, FileFacts
  <1>7. ASSUME \/ jobs'[id].stage = "idle"
               \/ jobs'[id].since = jobs[id].since /\ jobs[id].stage # "idle"
               \/ jobs'[id].since = now,
               Active(id)' /\ mtime'[Scratch(id)] # Absent =>
                 mtime'[Scratch(id)] >= jobs'[id].since,
               HasRendered(id)' /\ mtime'[Artifact(id)] # Absent =>
                 mtime'[Artifact(id)] >= jobs'[id].since
        PROVE  JobAges'
    <2>. SUFFICES ASSUME NEW i \in Ids
                  PROVE  /\ jobs'[i].stage # "idle" => /\ jobs'[i].since <= now'
                                                       /\ now' - jobs'[i].since <= MaxJobTime
                         /\ Active(i)' /\ mtime'[Scratch(i)] # Absent =>
                              mtime'[Scratch(i)] >= jobs'[i].since
                         /\ HasRendered(i)' /\ mtime'[Artifact(i)] # Absent =>
                              mtime'[Artifact(i)] >= jobs'[i].since
      BY DEF JobAges
    <2>1. CASE i # id
      BY <1>1, <1>4, <2>1 DEF AgeInv, JobAges, Active, HasRendered
    <2>2. CASE i = id
      BY <1>1, <1>3, <1>7, <2>2 DEF AgeInv, JobAges
    <2>. QED
      BY <2>1, <2>2
  <1>8. ASSUME \/ finished'[id] = Absent
               \/ /\ finished'[id] = finished[id]
                  /\ mtime'[Artifact(id)] \in {Absent, mtime[Artifact(id)], now}
               \/ /\ finished'[id] = now
                  /\ mtime'[Artifact(id)] # Absent => now <= mtime'[Artifact(id)] + MaxJobTime
        PROVE  StatusAges'
    <2>. SUFFICES ASSUME NEW i \in Ids, finished'[i] # Absent
                  PROVE  /\ finished'[i] <= now'
                         /\ phase' # "idle" => started' <= finished'[i] + JobLifetime
                         /\ mtime'[Artifact(i)] # Absent =>
                              finished'[i] <= mtime'[Artifact(i)] + MaxJobTime
      BY DEF StatusAges
    <2>1. CASE i # id
      BY <1>1, <1>4, <2>1 DEF AgeInv, StatusAges
    <2>2. CASE i = id
      BY <1>1, <1>3, <1>6, <1>8, <2>2 DEF AgeInv, StatusAges, RunAges
    <2>. QED
      BY <2>1, <2>2
  <1>9. CASE StartJob(id)
    <2>1. /\ jobs'[id] = [stage |-> "mkdirp", since |-> now] /\ finished'[id] = Absent
          /\ mtime'[Scratch(id)] = now
      BY <1>5, <1>9, JobFiles DEF StartJob, Without
    <2>. QED
      BY <1>2, <1>3, <1>7, <1>8, <2>1 DEF AgeInv, HasRendered
  <1>10. ASSUME NEW stage \in Stages, jobs[id].stage # "idle", Stage(id, stage)
         PROVE  jobs'[id].stage = stage /\ jobs'[id].since = jobs[id].since
    BY <1>5, <1>10 DEF Stage
  <1>11. CASE Mkdirp(id) \/ Utimes(id)
    <2>1. /\ mtime'[Artifact(id)] = mtime[Artifact(id)] /\ mtime'[Scratch(id)] = mtime[Scratch(id)]
          /\ UNCHANGED finished
      BY <1>11, JobFiles, FileFacts DEF FilesBut, Mkdirp, Utimes
    <2>2. /\ jobs[id].stage # "idle" /\ jobs'[id].since = jobs[id].since
          /\ Active(id) /\ (HasRendered(id)' => HasRendered(id))
      BY <1>10, <1>11 DEF Mkdirp, Utimes, Stages, Active, HasRendered
    <2>. QED
      BY <1>2, <1>7, <1>8, <2>1, <2>2 DEF AgeInv, JobAges
  <1>12. CASE Render(id)
    <2>1. mtime'[Artifact(id)] = now /\ mtime'[Scratch(id)] = mtime[Scratch(id)] /\ UNCHANGED finished
      BY <1>12, JobFiles, FileFacts DEF FilesBut, Render
    <2>2. /\ jobs[id].stage # "idle" /\ jobs'[id].since = jobs[id].since
          /\ Active(id) /\ jobs[id].since <= now
      BY <1>10, <1>12 DEF Render, Stages, Active, AgeInv, JobAges
    <2>. QED
      BY <1>2, <1>7, <1>8, <2>1, <2>2 DEF AgeInv, JobAges
  <1>13. CASE JobFails(id)
    <2>1. jobs'[id].stage = "ending" /\ jobs'[id].since = jobs[id].since /\ jobs[id].stage # "idle"
      BY <1>10, <1>13 DEF JobFails, Stages
    <2>. QED
      BY <1>2, <1>7, <1>8, <1>13, <2>1 DEF JobFails, AgeInv, Active, HasRendered
  <1>14. CASE Finish(id)
    <2>1. /\ jobs'[id].stage = "ending" /\ jobs'[id].since = jobs[id].since
          /\ jobs[id].stage # "idle" /\ HasRendered(id) /\ UNCHANGED mtime
      BY <1>10, <1>14 DEF Finish, Stages, HasRendered
    <2>2. StatusAges'
      <3>1. CASE mtime[Artifact(id)] # Absent
        <4>1. finished'[id] = now
          BY <1>5, <1>14, <3>1 DEF Finish
        <4>2. /\ mtime[Artifact(id)] >= jobs[id].since
              /\ now - jobs[id].since <= MaxJobTime
          BY <2>1, <3>1 DEF AgeInv, JobAges
        <4>. QED
          BY <1>3, <1>6, <1>8, <2>1, <4>1, <4>2
      <3>2. CASE mtime[Artifact(id)] = Absent
        BY <1>8, <1>14, <2>1, <3>2 DEF Finish
      <3>. QED
        BY <3>1, <3>2
    <2>. QED
      BY <1>2, <1>7, <2>1, <2>2 DEF AgeInv, Active, HasRendered
  <1>15. CASE Cleanup(id) \/ Crash(id)
    <2>1. jobs'[id].stage = "idle" /\ UNCHANGED finished
      BY <1>5, <1>15 DEF Cleanup, Crash, EndJob, NoJob
    <2>2. mtime'[Artifact(id)] = mtime[Artifact(id)]
      BY <1>15, JobFiles, FileFacts DEF FilesBut
    <2>. QED
      BY <1>2, <1>7, <1>8, <2>1, <2>2 DEF AgeInv, Active, HasRendered
  <1>. QED
    BY <1>9, <1>11, <1>12, <1>13, <1>14, <1>15 DEF JobStep

\* Every step of a task keeps the ages.
LEMMA CleanKeepsAges ==
  ASSUME TypeInv, AgeInv, NEW x \in tasks, CleanStep(x)
  PROVE  AgeInv'
  <1>1. UNCHANGED <<now, jobs, finished, phase, started, expire>>
    BY DEF CleanStep, Lstat, ReadEntries, ReadAgain, Rmdir, Unlink, UnchangedButTasks, UnchangedJobs
  <1>2. \A p \in Paths \ Dirs : mtime'[p] \in {mtime[p], Absent}
    BY CleanFiles DEF FilesBut
  <1>3. JobAges'
    BY <1>1, <1>2, FileFacts DEF AgeInv, JobAges, Active, HasRendered, Exists
  <1>4. StatusAges'
    BY <1>1, <1>2, FileFacts DEF AgeInv, StatusAges, Exists
  <1>5. x.path \in Paths /\ x \in TaskSet /\ mtime[x.path] \in Int /\ expire \in Int
    BY Times, TypeParts DEF TypeInv
  <1>6. ASSUME NEW y \in tasks', y \notin tasks
        PROVE  /\ phase = "output" <=> \A id \in Ids : y.path # Scratch(id)
               /\ y.step = "unlink" => y.seen <= expire
    <2>1. ASSUME y.path = x.path PROVE phase = "output" <=> \A id \in Ids : y.path # Scratch(id)
      BY <2>1 DEF AgeInv, RunAges
    <2>2. CASE Lstat(x)
      <3>1. ~Safe(x) /\ y = IF x.path \in Dirs
                            THEN Task(x.path, ForceBelow(x), "read", Absent)
                            ELSE Task(x.path, x.force, "unlink", mtime[x.path])
        BY <1>6, <2>2 DEF Lstat, Done, GoesOn
      <3>2. y.path = x.path /\ (y.step = "unlink" => x.path \notin Dirs /\ y.seen = mtime[x.path])
        BY <3>1 DEF Task
      <3>. QED
        BY <1>5, <2>1, <3>1, <3>2 DEF Safe
    <2>3. CASE ReadEntries(x)
      <3>1. y = [x EXCEPT !.step = "entries"] \/ y \in Readdir(x.path, x.force)
        BY <1>6, <2>3 DEF ReadEntries
      <3>2. CASE y = [x EXCEPT !.step = "entries"]
        <4>1. y.path = x.path /\ y.step = "entries"
          BY <1>5, <3>2 DEF TaskSet
        <4>. QED
          BY <2>1, <4>1
      <3>3. CASE y \in Readdir(x.path, x.force)
        <4>1. x.path \in Dirs
          BY <2>3 DEF ReadEntries, TypeInv, TasksOK
        <4>2. phase = "output"
          BY <4>1, FileFacts DEF AgeInv, RunAges
        <4>3. y.path \in Entries(x.path) /\ y.step = "stat"
          BY <3>3 DEF Readdir, Present, Task
        <4>4. \A id \in Ids : y.path # Scratch(id)
          BY <4>1, <4>3, PathFacts, FileFacts DEF Dirs
        <4>. QED
          BY <4>2, <4>3, <4>4
      <3>. QED
        BY <3>1, <3>2, <3>3
    <2>4. CASE ReadAgain(x)
      <3>1. y = [x EXCEPT !.step = "rmdir"]
        BY <1>6, <2>4 DEF ReadAgain, Done, GoesOn
      <3>2. y.path = x.path /\ y.step = "rmdir"
        BY <1>5, <3>1 DEF TaskSet
      <3>. QED
        BY <2>1, <3>2
    <2>5. CASE Rmdir(x) \/ Unlink(x)
      BY <1>6, <2>5 DEF Rmdir, Unlink, Done
    <2>. QED
      BY <2>2, <2>3, <2>4, <2>5 DEF CleanStep
  <1>7. \A y \in tasks' : /\ phase \in {"output", "temp"}
                          /\ phase = "output" <=> \A id \in Ids : y.path # Scratch(id)
                          /\ y.step = "unlink" => y.seen <= expire
    BY <1>6 DEF AgeInv, RunAges
  <1>8. RunAges'
    BY <1>1, <1>7 DEF AgeInv, RunAges
  <1>. QED
    BY <1>3, <1>4, <1>8 DEF AgeInv

\* So does every step of the host.
LEMMA HostKeepsAges ==
  ASSUME LifetimesSuffice, TypeInv, AgeInv, [Next]_vars
  PROVE  AgeInv'
  <1>1. /\ now \in Int /\ started \in Int /\ expire \in Int
        /\ MaxRunTime \in Nat /\ MaxJobTime \in Nat
        /\ JobLifetime \in Nat /\ JobFileLifetime \in Nat /\ TempFileLifetime \in Nat
        /\ \A id \in Ids : jobs[id].since \in Int /\ finished[id] \in Int
    BY Times
  <1>2. JobFileLifetime # 0 /\ TempFileLifetime # 0
    BY <1>1 DEF LifetimesSuffice
  <1>3. (UNCHANGED <<mtime, now, jobs>>) => JobAges'
    BY DEF AgeInv, JobAges, Active, HasRendered, Exists
  <1>4. ASSUME UNCHANGED <<mtime, now, finished>>,
               phase' # "idle" => phase # "idle" /\ started' = started
        PROVE  StatusAges'
    BY <1>4 DEF AgeInv, StatusAges, Exists
  <1>5. CASE \E id \in Ids : StartJob(id) \/ JobStep(id) \/ Crash(id)
    BY <1>5, JobKeepsAges
  <1>6. CASE \E x \in tasks : CleanStep(x)
    BY <1>6, CleanKeepsAges
  <1>7. CASE StartRun
    <2>1. /\ phase' = "status" /\ started' = now
          /\ UNCHANGED <<mtime, now, jobs, expire, tasks>> /\ tasks = {}
      BY <1>7 DEF StartRun, AgeInv, RunAges
    <2>2. \A id \in Ids : finished'[id] # Absent =>
            finished'[id] = finished[id] /\ now <= finished[id] + JobLifetime
      BY <1>1, <1>7 DEF StartRun, Without, Expired
    <2>3. StatusAges'
      BY <2>1, <2>2 DEF AgeInv, StatusAges, Exists
    <2>4. RunAges'
      BY <1>1, <2>1 DEF RunAges
    <2>. QED
      BY <1>3, <2>1, <2>3, <2>4 DEF AgeInv
  <1>8. CASE AbortedRun
    <2>1. UNCHANGED <<mtime, now, jobs, phase, started, expire, tasks>>
      BY <1>8 DEF AbortedRun
    <2>2. \A id \in Ids : finished'[id] # Absent => finished'[id] = finished[id]
      BY <1>8 DEF AbortedRun, Without
    <2>3. StatusAges'
      BY <2>1, <2>2 DEF AgeInv, StatusAges, Exists
    <2>4. RunAges'
      BY <2>1 DEF AgeInv, RunAges
    <2>. QED
      BY <1>3, <2>1, <2>3, <2>4 DEF AgeInv
  <1>9. CASE CleanOutputDir
    <2>1. /\ phase = "status" /\ phase' = "output" /\ expire' = now - JobFileLifetime
          /\ tasks' = Readdir(OutputDir, 1)
          /\ UNCHANGED <<mtime, now, started, jobs, finished>>
      BY <1>2, <1>9 DEF CleanOutputDir, CleanDir, UnchangedJobs
    <2>2. \A y \in tasks' : y.step = "stat" /\ y.path = Prefix
      BY <2>1, PathFacts DEF Readdir, Present, Task
    <2>3. RunAges'
      BY <1>1, <2>1, <2>2, FileFacts DEF AgeInv, RunAges
    <2>. QED
      BY <1>3, <1>4, <2>1, <2>3 DEF AgeInv
  <1>10. CASE CleanTempDir
    <2>1. /\ phase = "output" /\ phase' = "temp" /\ expire' = now - TempFileLifetime
          /\ tasks' = Readdir(Temp, 0)
          /\ UNCHANGED <<mtime, now, started, jobs, finished>>
      BY <1>2, <1>10 DEF CleanTempDir, CleanDir, UnchangedJobs
    <2>2. \A y \in tasks' : y.step = "stat" /\ \E id \in Ids : y.path = Scratch(id)
      BY <2>1, PathFacts DEF Readdir, Present, Task, LifetimesSuffice
    <2>3. RunAges'
      BY <1>1, <2>1, <2>2 DEF AgeInv, RunAges
    <2>. QED
      BY <1>3, <1>4, <2>1, <2>3 DEF AgeInv
  <1>11. CASE EndRun
    <2>1. phase' = "idle" /\ tasks' = {} /\ UNCHANGED <<mtime, now, jobs, finished>>
      BY <1>11 DEF EndRun, UnchangedJobs
    <2>2. RunAges'
      BY <2>1 DEF RunAges
    <2>. QED
      BY <1>3, <1>4, <2>1, <2>2 DEF AgeInv
  <1>12. CASE Tick
    <2>1. /\ now' = now + 1 /\ UNCHANGED <<mtime, jobs, finished, phase, started, expire, tasks>>
          /\ phase # "idle" => now - started < MaxRunTime
          /\ \A id \in Ids : jobs[id].stage # "idle" => now - jobs[id].since < MaxJobTime
      BY <1>12 DEF Tick
    <2>2. JobAges'
      <3>1. ASSUME NEW id \in Ids, jobs'[id].stage # "idle"
            PROVE  jobs'[id].since <= now' /\ now' - jobs'[id].since <= MaxJobTime
        <4>1. jobs[id].since \in Int /\ now - jobs[id].since < MaxJobTime /\ jobs[id].since <= now
          BY <1>1, <2>1, <3>1 DEF AgeInv, JobAges
        <4>2. jobs[id].since <= now + 1 /\ (now + 1) - jobs[id].since <= MaxJobTime
          BY <1>1, <4>1
        <4>3. now' = now + 1 /\ jobs'[id].since = jobs[id].since
          BY <2>1
        <4>. QED
          BY <4>2, <4>3
      <3>2. SUFFICES ASSUME NEW i \in Ids
                     PROVE  /\ jobs'[i].stage # "idle" => /\ jobs'[i].since <= now'
                                                          /\ now' - jobs'[i].since <= MaxJobTime
                            /\ Active(i)' /\ mtime'[Scratch(i)] # Absent =>
                                 mtime'[Scratch(i)] >= jobs'[i].since
                            /\ HasRendered(i)' /\ mtime'[Artifact(i)] # Absent =>
                                 mtime'[Artifact(i)] >= jobs'[i].since
        BY DEF JobAges, Exists
      <3>3. jobs'[i] = jobs[i] /\ mtime' = mtime /\ now' = now + 1
        BY <2>1
      <3>. QED
        BY <3>1, <3>3 DEF AgeInv, JobAges, Active, HasRendered, Exists
    <2>3. StatusAges'
      BY <1>1, <2>1 DEF AgeInv, StatusAges, Exists
    <2>4. RunAges'
      BY <1>1, <2>1 DEF AgeInv, RunAges
    <2>. QED
      BY <2>2, <2>3, <2>4 DEF AgeInv
  <1>13. CASE UNCHANGED vars
    BY <1>3, <1>4, <1>13 DEF vars, AgeInv, RunAges
  <1>. QED
    BY <1>5, <1>6, <1>7, <1>8, <1>9, <1>10, <1>11, <1>12, <1>13 DEF Next, CollectorStep

-----------------------------------------------------------------------------
(* What the collector takes *)

\* A file in use that is about to be unlinked has been written anew.
LEMMA UnlinkedIsUnused ==
  ASSUME LifetimesSuffice, TypeInv, AgeInv, NEW x \in tasks, x.step = "unlink",
         Exists(x.path), InUse(x.path)
  PROVE  mtime[x.path] > x.seen
  <1>1. /\ x.path \in Paths /\ x.seen \in Int /\ mtime[x.path] \in Int /\ expire \in Int
        /\ now \in Int /\ started \in Int
        /\ MaxRunTime \in Nat /\ MaxJobTime \in Nat
        /\ JobLifetime \in Nat /\ JobFileLifetime \in Nat /\ TempFileLifetime \in Nat
        /\ \A id \in Ids : jobs[id].since \in Int /\ finished[id] \in Int
    BY Times
  <1>2. x.seen <= expire /\ phase \in {"output", "temp"}
    BY DEF AgeInv, RunAges
  <1>3. ASSUME NEW id \in Ids, x.path = Artifact(id), finished[id] # Absent
        PROVE  mtime[x.path] > x.seen
    <2>1. phase = "output"
      BY <1>3, FileFacts DEF AgeInv, RunAges
    <2>2. expire + JobFileLifetime <= started + MaxRunTime
      BY <2>1 DEF AgeInv, RunAges
    <2>3. started <= finished[id] + JobLifetime /\ finished[id] <= mtime[x.path] + MaxJobTime
      BY <1>3, <2>1 DEF AgeInv, StatusAges
    <2>. QED
      BY <1>1, <1>2, <2>2, <2>3 DEF LifetimesSuffice
  <1>4. ASSUME NEW id \in Ids, x.path = Scratch(id), Active(id)
        PROVE  mtime[x.path] > x.seen
    <2>1. phase = "temp"
      BY <1>2, <1>4 DEF AgeInv, RunAges
    <2>2. expire + TempFileLifetime <= now
      BY <2>1 DEF AgeInv, RunAges
    <2>3. now - jobs[id].since <= MaxJobTime /\ mtime[x.path] >= jobs[id].since
      BY <1>4 DEF AgeInv, JobAges, Active
    <2>. QED
      BY <1>1, <1>2, <2>2, <2>3 DEF LifetimesSuffice
  <1>. QED
    BY <1>3, <1>4 DEF InUse, Active

\* Every step keeps the files that are named.
LEMMA NamedKept ==
  ASSUME LifetimesSuffice, TypeInv, AgeInv, NamedFilesExist, [Next]_vars
  PROVE  NamedFilesExist'
  <1>1. SUFFICES ASSUME NEW i \in Ids, finished'[i] # Absent
                 PROVE  mtime'[Artifact(i)] # Absent \/ i \in clobbered'
    BY DEF NamedFilesExist, Exists
  <1>2. ASSUME finished'[i] = finished[i], mtime'[Artifact(i)] = mtime[Artifact(i)],
               i \in clobbered => i \in clobbered'
        PROVE  mtime'[Artifact(i)] # Absent \/ i \in clobbered'
    BY <1>1, <1>2 DEF NamedFilesExist, Exists
  <1>3. now # Absent /\ finished \in [Ids -> Mtimes] /\ Artifact(i) \in Paths \ Dirs
    BY NowExists, TypeParts, FileFacts DEF TypeInv
  <1>4. CASE \E id \in Ids : StartJob(id)
    <2>1. PICK id \in Ids : StartJob(id)
      BY <1>4
    <2>2. i # id /\ finished'[i] = finished[i] /\ UNCHANGED clobbered
      BY <1>1, <2>1 DEF StartJob, Without
    <2>. QED
      BY <1>2, <1>3, <2>1, <2>2, JobFiles, FileFacts DEF FilesBut
  <1>5. CASE \E id \in Ids : Render(id)
    <2>1. PICK id \in Ids : Render(id)
      BY <1>5
    <2>2. UNCHANGED finished /\ clobbered' = clobbered \ {id}
      BY <2>1 DEF Render
    <2>3. FilesBut(Artifact(id)) /\ mtime'[Artifact(id)] = now
      BY <2>1, JobFiles
    <2>4. CASE i = id
      BY <1>3, <2>3, <2>4
    <2>5. CASE i # id
      BY <1>2, <1>3, <2>2, <2>3, <2>5, FileFacts DEF FilesBut
    <2>. QED
      BY <2>4, <2>5
  <1>6. CASE \E id \in Ids : Finish(id)
    <2>1. PICK id \in Ids : Finish(id)
      BY <1>6
    <2>2. UNCHANGED <<mtime, clobbered>>
      BY <2>1 DEF Finish
    <2>3. CASE finished'[i] = finished[i]
      BY <1>2, <2>2, <2>3
    <2>4. CASE finished'[i] # finished[i]
      BY <1>3, <2>1, <2>2, <2>4 DEF Finish, Exists
    <2>. QED
      BY <2>3, <2>4
  <1>7. CASE \E id \in Ids : Mkdirp(id) \/ Utimes(id) \/ JobFails(id) \/ Cleanup(id) \/ Crash(id)
    <2>1. PICK id \in Ids : Mkdirp(id) \/ Utimes(id) \/ JobFails(id) \/ Cleanup(id) \/ Crash(id)
      BY <1>7
    <2>2. UNCHANGED <<finished, clobbered>>
      BY <2>1 DEF Mkdirp, Utimes, JobFails, Cleanup, Crash
    <2>3. mtime'[Artifact(i)] = mtime[Artifact(i)]
      BY <1>3, <2>1, JobFiles, FileFacts DEF FilesBut
    <2>. QED
      BY <1>2, <2>2, <2>3
  <1>8. CASE \E x \in tasks : CleanStep(x)
    <2>1. PICK x \in tasks : CleanStep(x)
      BY <1>8
    <2>2. UNCHANGED finished
      BY <2>1 DEF CleanStep, Lstat, ReadEntries, ReadAgain, Rmdir, Unlink, UnchangedButTasks,
                  UnchangedJobs
    <2>3. CASE ~Unlink(x)
      <3>1. UNCHANGED clobbered
        BY <2>1, <2>3 DEF CleanStep, Lstat, ReadEntries, ReadAgain, Rmdir, UnchangedButTasks,
                          UnchangedJobs
      <3>. QED
        BY <1>2, <1>3, <2>1, <2>2, <2>3, <3>1, CleanFiles
    <2>4. CASE Unlink(x)
      <3>1. /\ clobbered' = clobbered \union
                              {id \in Ids : x.path = Artifact(id) /\ mtime[x.path] > x.seen}
            /\ x.step = "unlink"
        BY <2>4 DEF Unlink
      <3>2. CASE x.path # Artifact(i)
        <4>1. mtime'[Artifact(i)] = mtime[Artifact(i)]
          BY <1>3, <2>1, <3>2, CleanFiles DEF FilesBut
        <4>. QED
          BY <1>2, <2>2, <3>1, <4>1
      <3>3. CASE x.path = Artifact(i) /\ Exists(x.path)
        BY <1>1, <2>2, <3>1, <3>3, UnlinkedIsUnused DEF InUse
      <3>4. CASE x.path = Artifact(i) /\ ~Exists(x.path)
        BY <1>1, <2>2, <3>1, <3>4 DEF NamedFilesExist
      <3>. QED
        BY <3>2, <3>3, <3>4
    <2>. QED
      BY <2>3, <2>4
  <1>9. CASE StartRun \/ AbortedRun
    <2>1. UNCHANGED <<mtime, clobbered>> /\ finished'[i] = finished[i]
      BY <1>1, <1>9 DEF StartRun, AbortedRun, Without
    <2>. QED
      BY <1>2, <2>1
  <1>10. CASE CleanOutputDir \/ CleanTempDir \/ EndRun \/ Tick \/ UNCHANGED vars
    <2>1. UNCHANGED <<mtime, finished, clobbered>>
      BY <1>10 DEF CleanOutputDir, CleanTempDir, EndRun, Tick, UnchangedJobs, vars
    <2>. QED
      BY <1>2, <2>1
  <1>. QED
    BY <1>4, <1>5, <1>6, <1>7, <1>8, <1>9, <1>10 DEF Next, JobStep, CollectorStep

\* A client whose request is under way has no reply.
Unanswered == \A c \in Clients : conn[c].pc # "none" => conn[c].reply = "none"

FileInv == TypeInv /\ RetrievalTypeOK /\ AgeInv /\ NamedFilesExist /\ Unanswered

\* No request is under way in the beginning, and none is answered twice.
LEMMA UnansweredKept ==
  ASSUME RetrievalTypeOK, Unanswered, [RetrievalNext]_retrievalVars
  PROVE  Unanswered'
  <1>1. conn \in [Clients -> [pc : ConnPCs, id : Ids, reply : Replies]]
    BY DEF RetrievalTypeOK
  <1>2. ASSUME NEW c \in Clients, NEW pc \in ConnPCs, conn[c].pc # "none", Await(c, pc)
        PROVE  Unanswered'
    BY <1>1, <1>2 DEF Await, Unanswered
  <1>3. ASSUME NEW c \in Clients, NEW code \in Replies, Reply(c, code)
        PROVE  Unanswered'
    BY <1>1, <1>3 DEF Reply, Unanswered
  <1>4. ASSUME NEW c \in Clients, Ask(c) PROVE Unanswered'
    BY <1>1, <1>4 DEF Ask, Unanswered
  <1>5. ASSUME NEW c \in Clients, StreamFails(c) PROVE Unanswered'
    BY <1>1, <1>5 DEF StreamFails, Unanswered
  <1>6. ASSUME NEW c \in Clients, \/ HandleRenderStatus(c) \/ HandleDownloadFile(c)
                                  \/ StatFile(c) \/ OpenFile(c) \/ HgetFails(c)
        PROVE  Unanswered'
    BY <1>2, <1>3, <1>6 DEF HandleRenderStatus, HandleDownloadFile, StatFile, OpenFile, HgetFails,
       ConnPCs, Replies
  <1>7. CASE HostActs \/ UNCHANGED retrievalVars
    BY <1>7 DEF HostActs, retrievalVars, Unanswered
  <1>. QED
    BY <1>4, <1>5, <1>6, <1>7 DEF RetrievalNext, Serve

\* The inductive invariant that the theorems below rest on.
LEMMA FilesInvariant ==
  ASSUME LifetimesSuffice
  PROVE  /\ RetrievalInit => FileInv
         /\ FileInv /\ RetrievalTypeOK' /\ [RetrievalNext]_retrievalVars => FileInv'
  <1>1. RetrievalInit => FileInv
    <2>1. Init => AgeInv /\ NamedFilesExist
      <3>1. Init => \A id \in Ids : jobs[id].stage = "idle" /\ finished[id] = Absent
        BY DEF Init
      <3>2. Init => phase = "idle" /\ tasks = {}
        BY DEF Init
      <3>3. Init => JobAges /\ StatusAges /\ NamedFilesExist
        BY <3>1 DEF JobAges, StatusAges, NamedFilesExist, Active, HasRendered
      <3>4. Init => RunAges
        BY <3>2 DEF RunAges
      <3>. QED
        BY <3>3, <3>4 DEF AgeInv
    <2>2. RetrievalInit => Unanswered
      BY DEF RetrievalInit, Unanswered
    <2>. QED
      BY <2>1, <2>2, HostInitType
         DEF RetrievalInit, FileInv, RetrievalTypeOK, ConnPCs, Replies, TypeInv
  <1>2. ASSUME FileInv, [RetrievalNext]_retrievalVars, RetrievalTypeOK' PROVE FileInv'
    <2>1. [Next]_vars
      BY <1>2, HostSteps
    <2>. QED
      BY <1>2, <2>1, HostStepType, HostKeepsAges, NamedKept, UnansweredKept DEF FileInv
  <1>. QED
    BY <1>1, <1>2

\* With such lifetimes a finished status names a file that is there, or that
\* was taken after it was written anew.
THEOREM NamedFilesStay ==
  ASSUME LifetimesSuffice
  PROVE  RetrievalSpec => []NamedFilesExist
  <1>1. RetrievalInit => FileInv
    BY FilesInvariant
  <1>2. FileInv /\ RetrievalTypeOK' /\ [RetrievalNext]_retrievalVars => FileInv'
    BY FilesInvariant
  <1>3. FileInv => NamedFilesExist
    BY DEF FileInv
  <1>. QED
    BY <1>1, <1>2, <1>3, RetrievalTypeCorrect, PTL DEF RetrievalSpec

\* The collector takes no file that is in use, unless it was written anew.
THEOREM OnlyUnusedGo ==
  ASSUME LifetimesSuffice
  PROVE  RetrievalSpec => CollectsOnlyUnused
  <1>1. RetrievalInit => FileInv
    BY FilesInvariant
  <1>2. FileInv /\ RetrievalTypeOK' /\ [RetrievalNext]_retrievalVars => FileInv'
    BY FilesInvariant
  <1>3. FileInv /\ [RetrievalNext]_retrievalVars =>
          [\A x \in tasks :
             Unlink(x) /\ Exists(x.path) /\ InUse(x.path) => mtime[x.path] > x.seen]_vars
    BY UnlinkedIsUnused DEF FileInv, Unlink
  <1>. QED
    BY <1>1, <1>2, <1>3, RetrievalTypeCorrect, PTL DEF RetrievalSpec, CollectsOnlyUnused

\* A download whose status named a file fails only if the status went, or its
\* file was taken after it was written anew; nothing else ends the thread.
THEOREM DownloadsSucceed ==
  ASSUME LifetimesSuffice
  PROVE  RetrievalSpec => DownloadsFailOnlyWithStatus
  <1>1. RetrievalInit => FileInv
    BY FilesInvariant
  <1>2. FileInv /\ RetrievalTypeOK' /\ [RetrievalNext]_retrievalVars => FileInv'
    BY FilesInvariant
  <1>. DEFINE Good ==
         \A c \in Clients :
           /\ conn[c].pc = "stat" /\ conn'[c].reply = "404" => Lost(conn[c].id)
           /\ conn[c].pc # "none" /\ conn'[c].reply = "broken" =>
                \E d \in Clients : conn[d].pc = "open" /\ Lost(conn[d].id)
  <1>3. ASSUME FileInv, RetrievalNext PROVE Good
    <2>1. /\ conn \in [Clients -> [pc : ConnPCs, id : Ids, reply : Replies]]
          /\ Unanswered
      BY <1>3 DEF FileInv, RetrievalTypeOK
    <2>2. \A id \in Ids : ~Exists(Artifact(id)) => Lost(id)
      BY <1>3 DEF FileInv, NamedFilesExist, Lost, Named
    <2>3. ASSUME NEW c \in Clients, conn'[c] = conn[c], conn[c].pc # "none"
          PROVE  conn'[c].reply = "none"
      BY <2>1, <2>3 DEF Unanswered
    <2>4. ASSUME NEW d \in Clients, NEW new, conn' = [conn EXCEPT ![d] = new],
                 \/ new.reply \in {"none", "200", "500"}
                 \/ conn[d].pc # "stat" /\ new.reply # "broken"
                 \/ new.reply # "broken" /\ Lost(conn[d].id)
          PROVE  Good
      <3>. SUFFICES ASSUME NEW c \in Clients
                    PROVE  /\ conn[c].pc = "stat" /\ conn'[c].reply = "404" => Lost(conn[c].id)
                           /\ conn[c].pc # "none" => conn'[c].reply # "broken"
        OBVIOUS
      <3>1. CASE c # d
        BY <2>1, <2>3, <2>4, <3>1
      <3>2. CASE c = d
        BY <2>1, <2>4, <3>2
      <3>. QED
        BY <3>1, <3>2
    <2>5. ASSUME NEW c \in Clients, NEW pc, conn[c].pc # "none", Await(c, pc) PROVE Good
      <3>1. conn' = [conn EXCEPT ![c] = [conn[c] EXCEPT !.pc = pc]]
        BY <2>1, <2>5 DEF Await
      <3>2. [conn[c] EXCEPT !.pc = pc].reply = "none"
        BY <2>1, <2>5 DEF Unanswered
      <3>. QED
        BY <2>4, <3>1, <3>2
    <2>6. ASSUME NEW c \in Clients, NEW code \in Replies \ {"broken"}, Reply(c, code),
                 conn[c].pc = "stat" /\ code = "404" => Lost(conn[c].id)
          PROVE  Good
      <3>1. conn' = [conn EXCEPT ![c] = [conn[c] EXCEPT !.pc = "none", !.reply = code]]
        BY <2>6 DEF Reply
      <3>2. [conn[c] EXCEPT !.pc = "none", !.reply = code].reply = code
        BY <2>1
      <3>. QED
        BY <2>4, <2>6, <3>1, <3>2 DEF Replies
    <2>7. CASE HostActs
      BY <2>3, <2>7 DEF HostActs
    <2>8. CASE \E c \in Clients : Ask(c)
      <3>1. PICK c \in Clients : Ask(c)
        BY <2>8
      <3>2. PICK id \in Ids, pc \in {"poll", "hget"} :
              conn' = [conn EXCEPT ![c] = [pc |-> pc, id |-> id, reply |-> "none"]]
        BY <3>1 DEF Ask
      <3>. QED
        BY <2>4, <3>2
    <2>9. CASE \E c \in Clients : StreamFails(c)
      <3>1. PICK d \in Clients : StreamFails(d)
        BY <2>9
      <3>2. conn[d].pc = "open" /\ Lost(conn[d].id)
        BY <2>1, <2>2, <3>1 DEF StreamFails
      <3>3. \A c \in Clients : conn[c].pc # "none" => conn'[c].reply = "broken"
        BY <2>1, <3>1 DEF StreamFails
      <3>. QED
        BY <3>2, <3>3
    <2>10. CASE \E c \in Clients : HandleRenderStatus(c) \/ HandleDownloadFile(c) \/ HgetFails(c)
      BY <2>5, <2>6, <2>10 DEF HandleRenderStatus, HandleDownloadFile, HgetFails, Replies
    <2>11. CASE \E c \in Clients : StatFile(c) \/ OpenFile(c)
      BY <2>1, <2>2, <2>5, <2>6, <2>11 DEF StatFile, OpenFile, Replies
    <2>. QED
      BY <1>3, <2>7, <2>8, <2>9, <2>10, <2>11 DEF RetrievalNext, Serve
  <1>4. FileInv /\ [RetrievalNext]_retrievalVars => [Good]_retrievalVars
    BY <1>3
  <1>. QED
    BY <1>1, <1>2, <1>4, RetrievalTypeCorrect, PTL DEF RetrievalSpec, DownloadsFailOnlyWithStatus

=============================================================================
