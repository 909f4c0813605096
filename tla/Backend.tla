------------------------------ MODULE Backend -------------------------------
(***************************************************************************)
(* The backend workers (lib/threads/backend.js).  A worker takes a         *)
(* collection id off the queue, reads its status object, and runs the      *)
(* bundler and the renderer as child processes, writing its in-memory copy *)
(* of the status object back to redis at every stage.  The program counter *)
(* names what the worker waits for:                                        *)
(*                                                                         *)
(*   "waiting"    BLPOP                  "rendering"  the renderer         *)
(*   "popped"     HGET                   "rendered"   touch and stat       *)
(*   "fetched"    writing the metabook   "failing"    the error handler    *)
(*   "bundling"   the bundler            "cleanup"    rimraf               *)
(*   "bundled"    mkdir                                                    *)
(*                                                                         *)
(* The scratch files of a job are named after its collection id alone, so  *)
(* two workers of one host that work on the same id share them.            *)
(*                                                                         *)
(* The handler of a child's messages holds the in-memory details of its    *)
(* job and is never detached.  A message that node reads after the child's *)
(* exit event is handled like any other, in whatever state the worker is,  *)
(* after the outcome is out or while it waits for the next job.            *)
(***************************************************************************)
EXTENDS JobStore

CONSTANTS Workers,   \* the backend threads
          HostOf     \* the machine of each thread

ASSUME BackendAssumption == HostOf \in [Workers -> Hosts]

VARIABLES wpc,       \* where each worker is
          item,      \* the collection id it works on
          details,   \* its in-memory JobDetails, or those of the job it has left
          scratch,   \* the scratch file names the job has set so far
          files,     \* the scratch files on disk
          outputs    \* the rendered files on disk

backendVars == <<wpc, item, details, scratch, files, outputs>>

WorkerPCs == {"waiting", "popped", "fetched", "bundling", "bundled",
              "rendering", "rendered", "failing", "cleanup"}

\* metabookFile, bundleFile and renderTempDir.
Kinds == {"metabook", "bundle", "tempdir"}
Files == Hosts \X Keys \X Kinds

BackendTypeOK ==
  /\ wpc \in [Workers -> WorkerPCs]
  /\ item \in [Workers -> Keys \union {Null}]
  /\ details \in [Workers -> Details \union {Null}]
  /\ scratch \in [Workers -> SUBSET Kinds]
  /\ files \subseteq Files
  /\ outputs \subseteq Hosts \X Keys
  /\ \A w \in Workers :
       /\ wpc[w] # "waiting" => item[w] # Null
       /\ wpc[w] \notin {"waiting", "popped"} => details[w] # Null /\ details[w].id = item[w]

BackendInit ==
  /\ wpc = [w \in Workers |-> "waiting"]
  /\ item = [w \in Workers |-> Null]
  /\ details = [w \in Workers |-> Null]
  /\ scratch = [w \in Workers |-> {}]
  /\ files = {}
  /\ outputs = {}

-----------------------------------------------------------------------------

Wpc(w, pc) == wpc' = [wpc EXCEPT ![w] = pc]

File(w, kind) == <<HostOf[w], item[w], kind>>
Output(w) == <<HostOf[w], item[w]>>

\* The scratch files the worker's job has named, on disk or not.
Named(w) == {File(w, kind) : kind \in scratch[w]}

\* Update the in-memory details and HSET their JSON.
Publish(w, jd) ==
  /\ details' = [details EXCEPT ![w] = jd]
  /\ HSet(jd)

\* The same for a report of progress, which goes on if redis refuses it.
Report(w) ==
  /\ details' = [details EXCEPT ![w] = UpdateProgress(details[w], now)]
  /\ \/ HSet(UpdateProgress(details[w], now))
     \/ "HSET" \in RedisFaults /\ UNCHANGED status

\* A child of the job was started.  runBundler forks the bundler in the step
\* that names its file.
ChildStarted(w) == "bundle" \in scratch[w]

\* A child of the job in the details may still be heard from.
ChildHeard(w) ==
  IF wpc[w] \in {"waiting", "popped"} THEN details[w] # Null ELSE ChildStarted(w)

\* The job of the details has left its children behind.
Over(w) == wpc[w] \in {"waiting", "popped", "cleanup"}

Leave(w) ==
  /\ Wpc(w, "waiting")
  /\ item' = [item EXCEPT ![w] = Null]
  /\ scratch' = [scratch EXCEPT ![w] = {}]

\* The job is done.  Its details live on in the message handlers of its children,
\* here until the details of the next job arrive (a bound of the model).
Forget(w) ==
  /\ Leave(w)
  /\ details' = [details EXCEPT ![w] = IF ChildStarted(w) THEN @ ELSE Null]

-----------------------------------------------------------------------------

GetNewItemFromQueue(w) ==
  /\ wpc[w] = "waiting"
  /\ queue # <<>>
  /\ item' = [item EXCEPT ![w] = Head(queue)]
  /\ queue' = Tail(queue)
  /\ Wpc(w, "popped")
  /\ UNCHANGED <<status, now, details, scratch, files, outputs>>

\* Faulty: a missing status is waited for.
NewKnownItemFromQueue(w) ==
  /\ wpc[w] = "popped"
  /\ status[item[w]] # Null
  /\ details' = [details EXCEPT ![w] = [status[item[w]] EXCEPT !.host = HostOf[w]]]
  /\ scratch' = [scratch EXCEPT ![w] = {"metabook"}]
  /\ Wpc(w, "fetched")
  /\ UNCHANGED <<storeVars, item, files, outputs>>

\* The reply of HGET: newItemFromQueue parses it, signs it with the host and
\* starts to save the metabook.  From here on the id is the one in the details.
NewItemFromQueue(w) ==
  /\ wpc[w] = "popped"
  /\ LET jd == [FromJson(status[item[w]], now) EXCEPT !.host = HostOf[w]]
     IN  /\ details' = [details EXCEPT ![w] = jd]
         /\ item' = [item EXCEPT ![w] = jd.id]
  /\ scratch' = [scratch EXCEPT ![w] = {"metabook"}]
  /\ Wpc(w, "fetched")
  /\ UNCHANGED <<storeVars, files, outputs>>

RunBundler(w) ==
  /\ wpc[w] = "fetched"
  /\ \/ /\ files' = files \union {File(w, "metabook")}
        /\ scratch' = [scratch EXCEPT ![w] = @ \union {"bundle"}]
        /\ Report(w)
        /\ Wpc(w, "bundling")
     \/ /\ files' \in {files, files \union {File(w, "metabook")}}  \* writeFile fails
        /\ Wpc(w, "failing")
        /\ UNCHANGED <<status, details, scratch>>
  /\ UNCHANGED <<queue, now, item, outputs>>

\* A status message of a child process.  Nothing asks whether the child, or the
\* whole job, has ended.
ProcessReceivedMessage(w) ==
  /\ ChildHeard(w)
  /\ Report(w)
  /\ UNCHANGED <<queue, now, wpc, item, scratch, files, outputs>>

\* The bundler exits: with code 0, or in any other way, the time limit included.
BundlerExits(w) ==
  /\ wpc[w] = "bundling"
  /\ files' \in {files, files \union {File(w, "bundle")}}
  /\ \/ /\ scratch' = [scratch EXCEPT ![w] = @ \union {"tempdir"}]
        /\ Wpc(w, "bundled")
     \/ /\ Wpc(w, "failing")
        /\ UNCHANGED scratch
  /\ UNCHANGED <<storeVars, item, details, outputs>>

\* Faulty: the writer of the job is not looked up.
RunAnyRenderer(w) ==
  /\ wpc[w] = "bundled"
  /\ files' = files \union {File(w, "tempdir")}
  /\ Publish(w, UpdateProgress(details[w], now))
  /\ Wpc(w, "rendering")
  /\ UNCHANGED <<queue, now, item, scratch, outputs>>

(***************************************************************************)
(* mkdir of the renderer's directory, which fails if the directory exists  *)
(* (or if the disk does not let it); then runRenderer, which refuses an    *)
(* unknown writer, reports, and touches the output directory.  If touch    *)
(* fails, the report is out already; if redis refuses it, the job fails as *)
(* well.  A phantom job would fail before mkdir, on a path made with the  *)
(* number 0; here it may get as far as the writer.                         *)
(***************************************************************************)
RunRenderer(w) ==
  /\ wpc[w] = "bundled"
  /\ \/ /\ Wpc(w, "failing")
        /\ UNCHANGED <<status, details, files>>
     \/ /\ File(w, "tempdir") \notin files
        /\ files' = files \union {File(w, "tempdir")}
        /\ \/ /\ details[w].writer \notin Writers
              /\ Wpc(w, "failing")
              /\ UNCHANGED <<status, details>>
           \/ /\ details[w].writer \in Writers
              /\ \/ Publish(w, UpdateProgress(details[w], now)) /\ Wpc(w, "rendering")
                 \/ Report(w) /\ Wpc(w, "failing")
  /\ UNCHANGED <<queue, now, item, scratch, outputs>>

RendererExits(w) ==
  /\ wpc[w] = "rendering"
  /\ outputs' \in {outputs, outputs \union {Output(w)}}
  /\ Wpc(w, "rendered") \/ Wpc(w, "failing")
  /\ UNCHANGED <<storeVars, item, details, scratch, files>>

\* Faulty: the output is not looked for.
FinishUnseen(w) ==
  /\ wpc[w] = "rendered"
  /\ \/ /\ details[w].book = "full"
        /\ Publish(w, UpdateFinished(details[w], HostOf[w], now))
        /\ Wpc(w, "cleanup")
     \/ /\ Wpc(w, "failing")
        /\ UNCHANGED <<status, details>>
  /\ UNCHANGED <<queue, now, item, scratch, files, outputs>>

\* Faulty: a failing stat is not caught.
FinishUncaught(w) ==
  /\ wpc[w] = "rendered"
  /\ Output(w) \in outputs
  /\ details[w].book = "full"
  /\ Publish(w, UpdateFinished(details[w], HostOf[w], now))
  /\ Wpc(w, "cleanup")
  /\ UNCHANGED <<queue, now, item, scratch, files, outputs>>

\* touch and stat of the output, then the title, which an empty metabook does
\* not have: reading metabook.items.length throws.
Finish(w) ==
  /\ wpc[w] = "rendered"
  /\ \/ /\ Output(w) \in outputs
        /\ details[w].book = "full"
        /\ Publish(w, UpdateFinished(details[w], HostOf[w], now))
        /\ Wpc(w, "cleanup")
     \/ /\ Wpc(w, "failing")
        /\ UNCHANGED <<status, details>>
  /\ UNCHANGED <<queue, now, item, scratch, files, outputs>>

\* Faulty: the failure is not written to redis.
ReportErrorNowhere(w) ==
  /\ wpc[w] = "failing"
  /\ Wpc(w, "cleanup")
  /\ UNCHANGED <<storeVars, item, details, scratch, files, outputs>>

\* The error handler.  Moving files to the post mortem directory takes them
\* out of the scratch directory as the clean-up that waits for it does.
ReportError(w) ==
  /\ wpc[w] = "failing"
  /\ Publish(w, UpdateError(details[w], now))
  /\ Wpc(w, "cleanup")
  /\ UNCHANGED <<queue, now, item, scratch, files, outputs>>

\* Redis refuses the outcome, which is logged and not tried again.
ReportLost(w) ==
  /\ "HSET" \in RedisFaults
  /\ \/ /\ wpc[w] = "rendered"
        /\ Output(w) \in outputs
        /\ details[w].book = "full"
        /\ details' = [details EXCEPT ![w] = UpdateFinished(@, HostOf[w], now)]
     \/ /\ wpc[w] = "failing"
        /\ details' = [details EXCEPT ![w] = UpdateError(@, now)]
  /\ Wpc(w, "cleanup")
  /\ UNCHANGED <<storeVars, item, scratch, files, outputs>>

\* Faulty: the renderer's directory is forgotten.
CleanupFilesOnly(w) ==
  /\ wpc[w] = "cleanup"
  /\ files' = files \ {File(w, "metabook"), File(w, "bundle")}
  /\ Forget(w)
  /\ UNCHANGED <<storeVars, outputs>>

\* Faulty: the outcome is written once more when everything is cleaned up.
CleanupThenReport(w) ==
  /\ wpc[w] = "cleanup"
  /\ files' = files \ Named(w)
  /\ HSet(details[w])
  /\ Forget(w)
  /\ UNCHANGED <<queue, now, outputs>>

Cleanup(w) ==
  /\ wpc[w] = "cleanup"
  /\ files' = files \ Named(w)
  /\ Forget(w)
  /\ UNCHANGED <<storeVars, outputs>>

\* The thread dies -- SIGINT, a lost redis connection, a crash of node -- and
\* the coordinator starts another in its place.  The job dies with it, and
\* so do the ears for its children.
Crash(w) ==
  /\ wpc[w] # "waiting"
  /\ Leave(w)
  /\ details' = [details EXCEPT ![w] = Null]
  /\ UNCHANGED <<storeVars, files, outputs>>

\* Every step of a worker that brings its job forward.
BackendAdvance(w) ==
  \/ GetNewItemFromQueue(w)
  \/ NewItemFromQueue(w)
  \/ RunBundler(w)
  \/ BundlerExits(w)
  \/ RunRenderer(w)
  \/ RendererExits(w)
  \/ Finish(w)
  \/ ReportError(w)
  \/ Cleanup(w)

BackendStep(w) == BackendAdvance(w) \/ ProcessReceivedMessage(w)

=============================================================================
