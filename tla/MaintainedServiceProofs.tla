---------------------- MODULE MaintainedServiceProofs -----------------------
(***************************************************************************)
(* Proofs about MaintainedService, for any number of requests, workers and *)
(* collectors and any size of the batches.  They build on the effects that *)
(* RenderServiceProofs works out for the steps of the service.             *)
(***************************************************************************)
EXTENDS MaintainedService, RenderServiceProofs, SequenceTheorems

-----------------------------------------------------------------------------
(* Type correctness *)

\* A field of the hash turns into a status object, if only into a phantom.
LEMMA FromJsonType ==
  ASSUME StoreTypeOK, NEW k \in Keys
  PROVE  /\ FromJson(status[k], now) \in Details
         /\ status[k] # Null => FromJson(status[k], now) = status[k] /\ status[k].id = k
         /\ status[k] = Null => /\ FromJson(status[k], now).id = PhantomId
                                /\ FromJson(status[k], now).writer = NoWriter
  <1>1. now \in Nat /\ PhantomId \in Keys /\ "empty" \in Books
    BY DEF StoreTypeOK, Keys, Books
  <1>2. NewJobDetails(PhantomId, "empty", NoWriter, now) \in Details
    BY <1>1, NewJobDetailsType
  <1>3. NewJobDetails(PhantomId, "empty", NoWriter, now).writer = NoWriter
    BY DEF NewJobDetails
  <1>. QED
    BY <1>1, <1>2, <1>3, NewJobDetailsType DEF StoreTypeOK, FromJson

\* The status objects the script is about to fail lie under their own ids.
LEMMA KilledType ==
  ASSUME ClearTypeOK, NEW k \in Keys, Killed(k) # {}
  PROVE  /\ (CHOOSE jd \in Killed(k) : TRUE) \in Details
         /\ (CHOOSE jd \in Killed(k) : TRUE).id = k
         /\ (CHOOSE jd \in Killed(k) : TRUE) \in Killed(k)
  <1>1. (CHOOSE jd \in Killed(k) : TRUE) \in Killed(k)
    OBVIOUS
  <1>. QED
    BY <1>1 DEF Killed, ClearTypeOK

\* A collector keeps the types of the store and of its run.
LEMMA CollectorType ==
  ASSUME StoreTypeOK, GCTypeOK, NEW c \in Collectors, GCStep(c)
  PROVE  StoreTypeOK' /\ GCTypeOK'
  <1>1. now \in Nat /\ runs \in Nat
    BY DEF StoreTypeOK, GCTypeOK
  <1>2. CASE StartGCRun(c)
    <2>1. Fields \subseteq Keys
      BY DEF Fields
    <2>. QED
      BY <1>1, <1>2, <2>1 DEF StartGCRun, storeVars, StoreTypeOK, GCTypeOK
  <1>3. ASSUME NEW k \in Keys, ScanKey(c, k) PROVE StoreTypeOK' /\ GCTypeOK'
    <2>. DEFINE id == FromJson(status[k], now).id
    <2>1. id \in Keys
      BY FromJsonType DEF Details
    <2>2. \/ scan' = [scan EXCEPT ![c].unread = @ \ {k}, ![c].doomed = @ \union {id}]
          \/ scan' = [scan EXCEPT ![c].unread = @ \ {k}]
      BY <1>3 DEF ScanKey
    <2>3. UNCHANGED <<storeVars, runs>>
      BY <1>3 DEF ScanKey
    <2>. HIDE DEF id
    <2>4. scan' \in [Collectors -> [task : Tasks \union {Null}, started : Nat,
                                    unread : SUBSET Keys, doomed : SUBSET Keys]]
      <3>1. CASE scan' = [scan EXCEPT ![c].unread = @ \ {k}]
        BY <3>1 DEF GCTypeOK
      <3>2. CASE scan' = [scan EXCEPT ![c].unread = @ \ {k}, ![c].doomed = @ \union {id}]
        <4>. DEFINE once == [scan EXCEPT ![c].unread = @ \ {k}]
        <4>1. once \in [Collectors -> [task : Tasks \union {Null}, started : Nat,
                                       unread : SUBSET Keys, doomed : SUBSET Keys]]
          BY DEF GCTypeOK
        <4>2. scan' = [once EXCEPT ![c].doomed = @ \union {id}]
          BY <3>2
        <4>. HIDE DEF once
        <4>. QED
          BY <2>1, <4>1, <4>2
      <3>. QED
        BY <2>2, <3>1, <3>2
    <2>. QED
      BY <2>3, <2>4 DEF storeVars, StoreTypeOK, GCTypeOK
  <1>4. ASSUME NEW k \in Keys, DeleteKey(c, k) PROVE StoreTypeOK' /\ GCTypeOK'
    BY <1>4 DEF DeleteKey, StoreTypeOK, GCTypeOK
  <1>5. CASE EndGCRun(c)
    <2>1. NotRunning \in [task : Tasks \union {Null}, started : Nat,
                          unread : SUBSET Keys, doomed : SUBSET Keys]
      BY DEF NotRunning
    <2>2. scan' = [scan EXCEPT ![c] = NotRunning] /\ UNCHANGED <<storeVars, runs>>
      BY <1>5 DEF EndGCRun
    <2>. QED
      BY <2>1, <2>2 DEF storeVars, StoreTypeOK, GCTypeOK
  <1>. QED
    BY <1>2, <1>3, <1>4, <1>5 DEF GCStep

\* The ids at the head of the queue are keys.
LEMMA FirstType == ASSUME StoreTypeOK, NEW n \in Nat PROVE First(n) \subseteq Keys
  BY DEF First, StoreTypeOK

\* So does the script.
LEMMA ScriptType ==
  ASSUME StoreTypeOK, ClearTypeOK, ClearAdvance
  PROVE  StoreTypeOK' /\ ClearTypeOK'
  <1>1. clear.remaining \in Nat /\ clears \in Nat /\ now \in Nat
    BY DEF ClearTypeOK, StoreTypeOK
  <1>2. CASE GetMetabookIds
    <2>. DEFINE size == Smaller(BatchSize, clear.remaining)
    <2>1. size \in Nat /\ size <= clear.remaining
      BY <1>1, ClearQueueAssumption DEF Smaller
    <2>. HIDE DEF size
    <2>2. First(size) \subseteq Keys /\ First(size + 1) \subseteq Keys
      BY <2>1, FirstType
    <2>3. clear.remaining - size \in Nat
      BY <1>1, <2>1
    <2>4. SubSeq(queue, size + 1, Len(queue)) \in Seq(Keys)
      BY <2>1, SubSeqProperties DEF StoreTypeOK
    <2>5. /\ clear' = [clear EXCEPT !.pc = "get", !.remaining = @ - size,
                                    !.listed = First(size + 1), !.removed = First(size)]
          /\ queue' = SubSeq(queue, size + 1, Len(queue))
          /\ UNCHANGED <<status, now, clears>>
      BY <1>2 DEF GetMetabookIds, size
    <2>. QED
      BY <2>2, <2>3, <2>4, <2>5 DEF StoreTypeOK, ClearTypeOK, ClearPCs
  <1>3. CASE GetJobStatuses
    <2>. DEFINE pending == {k \in clear.listed : FromJson(status[k], now).state = "pending"}
    <2>1. clear.listed \subseteq Keys
      BY DEF ClearTypeOK
    <2>2. {FromJson(status[k], now) : k \in pending} \subseteq Details
      BY <2>1, FromJsonType
    <2>3. /\ clear' = [clear EXCEPT !.pc = "update",
                         !.removed = {k \in @ \intersect pending : status[k] # Null},
                         !.jobs = {FromJson(status[k], now) : k \in pending}]
          /\ UNCHANGED <<storeVars, clears>>
      BY <1>3 DEF GetJobStatuses
    <2>. HIDE DEF pending
    <2>. QED
      BY <2>2, <2>3 DEF storeVars, StoreTypeOK, ClearTypeOK, ClearPCs
  <1>4. CASE UpdateJobStatuses
    <2>1. ASSUME NEW k \in Keys
          PROVE  /\ status'[k] \in Details \union {Null}
                 /\ status'[k] # Null => status'[k].id = k
      <3>1. CASE Killed(k) = {}
        BY <1>4, <3>1 DEF UpdateJobStatuses, StoreTypeOK
      <3>2. CASE Killed(k) # {}
        BY <1>1, <1>4, <3>2, KilledType, UpdateType DEF UpdateJobStatuses
      <3>. QED
        BY <3>1, <3>2
    <2>2. status' \in [Keys -> Details \union {Null}]
      BY <1>4, <2>1 DEF UpdateJobStatuses
    <2>3. ClearTypeOK'
      BY <1>1, <1>4 DEF UpdateJobStatuses, NotClearing, ClearTypeOK, ClearPCs
    <2>. QED
      BY <1>4, <2>1, <2>2, <2>3 DEF UpdateJobStatuses, StoreTypeOK
  <1>. QED
    BY <1>2, <1>3, <1>4 DEF ClearAdvance

\* Every step keeps the whole state well formed.
LEMMA MaintainedStepType ==
  ASSUME MaintainedTypeOK, [MaintainedNext]_allVars
  PROVE  MaintainedTypeOK'
  <1>. USE DEF MaintainedTypeOK, maintenanceVars, gcVars, clearVars
  <1>1. CASE ServiceActs \/ UNCHANGED allVars
    <2>1. TypeOK'
      BY <1>1, StepType DEF ServiceActs, allVars
    <2>. QED
      BY <1>1, <2>1 DEF ServiceActs, allVars, GCTypeOK, ClearTypeOK
  <1>2. ASSUME UnchangedService, StoreTypeOK', orphaned' \subseteq Keys
        PROVE  TypeOK'
    BY <1>2 DEF UnchangedService, TypeOK, backendVars, RequestTypeOK, BackendTypeOK
  <1>3. orphaned \subseteq Keys /\ StoreTypeOK
    BY DEF TypeOK
  <1>4. ASSUME NEW c \in Collectors, CollectorActs(c) PROVE MaintainedTypeOK'
    BY <1>2, <1>3, <1>4, CollectorType DEF CollectorActs, ClearTypeOK
  <1>5. CASE ScriptStarts
    <2>1. Len(queue) \in Nat /\ clears + 1 \in Nat
      BY <1>3 DEF StoreTypeOK, ClearTypeOK
    <2>2. ClearTypeOK'
      BY <1>5, <2>1 DEF ScriptStarts, StartClear, NotClearing, ClearTypeOK, ClearPCs
    <2>. QED
      BY <1>2, <1>3, <1>5, <2>2 DEF ScriptStarts, StartClear, storeVars, StoreTypeOK, GCTypeOK
  <1>6. CASE ScriptActs
    BY <1>2, <1>3, <1>6, ScriptType DEF ScriptActs, GCTypeOK
  <1>7. CASE ScriptDies
    BY <1>2, <1>3, <1>7 DEF ScriptDies, ClearDies, NotClearing, storeVars, StoreTypeOK,
                            ClearTypeOK, ClearPCs, GCTypeOK
  <1>. QED
    BY <1>1, <1>4, <1>5, <1>6, <1>7 DEF MaintainedNext

\* Nobody is running at first.
LEMMA MaintainedInitType == MaintainedInit => MaintainedTypeOK
  BY InitType DEF MaintainedInit, MaintainedTypeOK, GCInit, GCTypeOK, NotRunning,
                  ClearInit, ClearTypeOK, NotClearing, ClearPCs

\* Whatever is taken away, declared failed or made up, what lies under an id is
\* a status object of that id.
THEOREM MaintainedTypeCorrect == MaintainedSpec => []MaintainedTypeOK
  BY MaintainedInitType, MaintainedStepType, PTL DEF MaintainedSpec

-----------------------------------------------------------------------------
(* Scratch files *)

\* The steps outside the service touch no scratch file and no worker.
LEMMA OthersKeepScratch ==
  ASSUME ScratchInv, UnchangedService
  PROVE  ScratchInv'
  BY DEF ScratchInv, NoScratchLeak, UnchangedService, backendVars, Named, File

\* Scratch files never outlive their job, also when its status is taken away or
\* declared failed while a worker has it.
THEOREM MaintainedScratch == MaintainedSpec => []NoScratchLeak
  <1>1. MaintainedInit => ScratchInv
    BY DEF MaintainedInit, Init, BackendInit, ScratchInv, NoScratchLeak
  <1>2. ASSUME MaintainedTypeOK, ScratchInv, [MaintainedNext]_allVars
        PROVE  ScratchInv'
    <2>1. TypeOK
      BY <1>2 DEF MaintainedTypeOK
    <2>2. CASE [Next]_vars
      BY <1>2, <2>1, <2>2, StepScratch
    <2>3. CASE UnchangedService
      BY <1>2, <2>3, OthersKeepScratch
    <2>. QED
      BY <1>2, <2>2, <2>3 DEF MaintainedNext, ServiceActs, CollectorActs, ScriptStarts,
         ScriptActs, ScriptDies, allVars
  <1>3. MaintainedTypeOK /\ ScratchInv /\ [MaintainedNext]_allVars => ScratchInv'
    BY <1>2
  <1>4. ScratchInv => NoScratchLeak
    BY DEF ScratchInv
  <1>. QED
    BY <1>1, <1>3, <1>4, MaintainedTypeCorrect, PTL DEF MaintainedSpec

-----------------------------------------------------------------------------
(* The phantom job *)

\* Nobody queues the phantom's id, so whoever works on it made it up, and what
\* is made up has no writer.
PhantomInv ==
  /\ \A i \in 1..Len(queue) : queue[i] # PhantomId
  /\ \A w \in Workers :
       /\ wpc[w] = "popped" => item[w] # PhantomId
       /\ details[w] # Null /\ details[w].id = PhantomId => details[w].writer = NoWriter
  /\ PhantomNeverRenders

\* An update of a status object keeps its writer.
LEMMA UpdateKeepsWriter ==
  ASSUME NEW jd \in Details, NEW time \in Nat, NEW host \in Hosts
  PROVE  /\ UpdateProgress(jd, time).writer = jd.writer
         /\ UpdateProgress(jd, time).state = "progress"
         /\ UpdateError(jd, time).writer = jd.writer
         /\ UpdateError(jd, time).state = "failed"
         /\ UpdateFinished(jd, host, time).writer = jd.writer
  BY DEF UpdateProgress, UpdateError, UpdateFinished, Details

\* A report in which a phantom job neither gets a writer nor finishes, on the job
\* of a worker or on the one before, by a worker that does not go on to render a
\* phantom job.
LEMMA ReportKeepsPhantom ==
  ASSUME TypeOK, PhantomInv, NEW w \in Workers, NEW jd \in Details,
         details[w] # Null, jd.id = details[w].id, jd.writer = details[w].writer,
         jd.id = PhantomId => jd.state # "finished",
         details' = [details EXCEPT ![w] = jd],
         HSet(jd) \/ UNCHANGED status,
         NEW pc, wpc' = [wpc EXCEPT ![w] = pc], pc # "popped" \/ pc = wpc[w],
         item[w] = PhantomId => pc \notin {"rendering", "rendered"},
         UNCHANGED <<queue, item, outputs>>
  PROVE  PhantomInv'
  <1>1. jd.id \in Keys /\ PhantomId \in Keys
    BY DEF Keys, Details
  <1>2. status'[PhantomId] # Null => status'[PhantomId].state # "finished"
    <2>1. CASE UNCHANGED status
      BY <2>1 DEF PhantomInv, PhantomNeverRenders
    <2>2. CASE HSet(jd)
      BY <1>1, <2>2 DEF HSet, PhantomInv, PhantomNeverRenders, TypeOK, StoreTypeOK
    <2>. QED
      BY <2>1, <2>2
  <1>. QED
    BY <1>2 DEF PhantomInv, PhantomNeverRenders, TypeOK, BackendTypeOK

\* A worker that goes on without a report.
LEMMA WorkKeepsPhantom ==
  ASSUME TypeOK, PhantomInv, NEW w \in Workers,
         NEW pc, wpc' = [wpc EXCEPT ![w] = pc], pc # "popped",
         item[w] = PhantomId => pc \notin {"rendering", "rendered"},
         UNCHANGED <<queue, status, item, details, outputs>>
  PROVE  PhantomInv'
  BY DEF PhantomInv, PhantomNeverRenders, TypeOK, BackendTypeOK

\* The end of a job, in whatever way.
LEMMA LeaveKeepsPhantom ==
  ASSUME TypeOK, PhantomInv, NEW w \in Workers, Leave(w), UNCHANGED <<queue, status, outputs>>,
         \E kept \in {details[w], Null} : details' = [details EXCEPT ![w] = kept]
  PROVE  PhantomInv'
  <1>1. Null # PhantomId
    BY JobDetailsAssumption
  <1>. QED
    BY <1>1 DEF Leave, Wpc, PhantomInv, PhantomNeverRenders, TypeOK, BackendTypeOK

\* No step of a worker brings a phantom job to its renderer.
LEMMA BackendKeepsPhantom ==
  ASSUME TypeOK, PhantomInv, NEW w \in Workers, BackendStep(w)
  PROVE  PhantomInv'
  <1>. USE DEF Wpc
  <1>. DEFINE progress == UpdateProgress(details[w], now)
              failed == UpdateError(details[w], now)
              finished == UpdateFinished(details[w], HostOf[w], now)
  <1>1. now \in Nat /\ HostOf[w] \in Hosts
    BY BackendAssumption DEF TypeOK, StoreTypeOK
  <1>2. ASSUME details[w] # Null
        PROVE  /\ progress \in Details /\ progress.id = details[w].id
               /\ progress.writer = details[w].writer /\ progress.state # "finished"
               /\ failed \in Details /\ failed.id = details[w].id
               /\ failed.writer = details[w].writer /\ failed.state # "finished"
               /\ finished \in Details /\ finished.id = details[w].id
               /\ finished.writer = details[w].writer
    <2>1. details[w] \in Details
      BY <1>2 DEF TypeOK, BackendTypeOK
    <2>2. /\ progress.state # "finished" /\ failed.state # "finished"
          /\ progress.writer = details[w].writer /\ failed.writer = details[w].writer
          /\ finished.writer = details[w].writer
      BY <1>1, <2>1, UpdateKeepsWriter
    <2>. QED
      BY <1>1, <2>1, <2>2, UpdateType, UpdateFinishedType
  <1>3. ASSUME Report(w)
        PROVE  details' = [details EXCEPT ![w] = progress] /\ (HSet(progress) \/ UNCHANGED status)
    BY <1>3 DEF Report
  <1>4. ASSUME NEW jd, Publish(w, jd)
        PROVE  details' = [details EXCEPT ![w] = jd] /\ HSet(jd)
    BY <1>4 DEF Publish
  <1>5. /\ item[w] = PhantomId => wpc[w] \notin {"popped", "rendering", "rendered"}
        /\ wpc[w] \notin {"waiting", "popped"} => details[w] # Null /\ details[w].id = item[w]
    BY DEF PhantomInv, PhantomNeverRenders, TypeOK, BackendTypeOK
  <1>. HIDE DEF progress, failed, finished
  <1>6. CASE GetNewItemFromQueue(w)
    <2>1. Head(queue) = queue[1] /\ 1 \in 1..Len(queue)
      BY <1>6 DEF GetNewItemFromQueue, TypeOK, StoreTypeOK
    <2>2. \A i \in 1..Len(queue') : i + 1 \in 1..Len(queue) /\ queue'[i] = queue[i + 1]
      BY <1>6 DEF GetNewItemFromQueue, TypeOK, StoreTypeOK
    <2>3. \A i \in 1..Len(queue') : queue'[i] # PhantomId
      BY <2>2 DEF PhantomInv
    <2>4. item' = [item EXCEPT ![w] = queue[1]] /\ queue[1] # PhantomId
      BY <1>6, <2>1 DEF GetNewItemFromQueue, PhantomInv
    <2>5. /\ wpc[w] = "waiting" /\ wpc' = [wpc EXCEPT ![w] = "popped"]
          /\ UNCHANGED <<status, details, outputs>>
      BY <1>6 DEF GetNewItemFromQueue
    <2>. QED
      BY <2>3, <2>4, <2>5 DEF PhantomInv, PhantomNeverRenders, TypeOK, BackendTypeOK
  <1>7. CASE NewItemFromQueue(w)
    <2>. DEFINE jd == [FromJson(status[item[w]], now) EXCEPT !.host = HostOf[w]]
    <2>1. item[w] \in Keys /\ item[w] # PhantomId
      BY <1>5, <1>7 DEF NewItemFromQueue, TypeOK, BackendTypeOK
    <2>2. FromJson(status[item[w]], now) \in Details
      BY <2>1, FromJsonType DEF TypeOK
    <2>3. jd.id = PhantomId => jd.writer = NoWriter
      BY <2>1, <2>2, FromJsonType DEF TypeOK, Details
    <2>4. /\ details' = [details EXCEPT ![w] = jd] /\ item' = [item EXCEPT ![w] = jd.id]
          /\ wpc' = [wpc EXCEPT ![w] = "fetched"]
          /\ UNCHANGED <<queue, status, outputs>>
      BY <1>7 DEF NewItemFromQueue, storeVars
    <2>. HIDE DEF jd
    <2>. QED
      BY <2>3, <2>4 DEF PhantomInv, PhantomNeverRenders, TypeOK, BackendTypeOK
  <1>8. CASE RunBundler(w)
    <2>1. UNCHANGED <<queue, item, outputs>> /\ wpc[w] = "fetched"
      BY <1>8 DEF RunBundler
    <2>2. CASE Report(w) /\ wpc' = [wpc EXCEPT ![w] = "bundling"]
      BY <1>2, <1>3, <1>5, <2>1, <2>2, ReportKeepsPhantom
    <2>3. CASE wpc' = [wpc EXCEPT ![w] = "failing"] /\ UNCHANGED <<status, details>>
      BY <2>1, <2>3, WorkKeepsPhantom
    <2>. QED
      BY <1>8, <2>2, <2>3 DEF RunBundler
  <1>9. CASE ProcessReceivedMessage(w)
    <2>1. UNCHANGED <<queue, item, outputs>> /\ Report(w) /\ wpc' = [wpc EXCEPT ![w] = wpc[w]]
      BY <1>9 DEF ProcessReceivedMessage, TypeOK, BackendTypeOK
    <2>2. details[w] # Null
      BY <1>5, <1>9 DEF ProcessReceivedMessage, ChildHeard
    <2>. QED
      BY <1>2, <1>3, <1>5, <2>1, <2>2, ReportKeepsPhantom
  <1>10. CASE BundlerExits(w)
    <2>1. /\ UNCHANGED <<queue, status, item, details, outputs>>
          /\ \E pc \in {"bundled", "failing"} : wpc' = [wpc EXCEPT ![w] = pc]
      BY <1>10 DEF BundlerExits, storeVars
    <2>. QED
      BY <2>1, WorkKeepsPhantom
  <1>11. CASE RunRenderer(w)
    <2>1. UNCHANGED <<queue, item, outputs>> /\ wpc[w] = "bundled"
      BY <1>11 DEF RunRenderer
    <2>2. CASE wpc' = [wpc EXCEPT ![w] = "failing"] /\ UNCHANGED <<status, details>>
      BY <2>1, <2>2, WorkKeepsPhantom
    <2>3. CASE Report(w) /\ wpc' = [wpc EXCEPT ![w] = "failing"]
      BY <1>2, <1>3, <1>5, <2>1, <2>3, ReportKeepsPhantom
    <2>4. CASE /\ details[w].writer \in Writers
               /\ Publish(w, progress) /\ wpc' = [wpc EXCEPT ![w] = "rendering"]
      <3>1. item[w] # PhantomId
        BY <1>5, <2>1, <2>4, JobDetailsAssumption DEF PhantomInv
      <3>. QED
        BY <1>2, <1>4, <1>5, <2>1, <2>4, <3>1, ReportKeepsPhantom
    <2>. QED
      BY <1>11, <2>2, <2>3, <2>4 DEF RunRenderer, progress
  <1>12. CASE RendererExits(w)
    <2>1. /\ UNCHANGED <<queue, status, item, details>> /\ item[w] # PhantomId
          /\ outputs' \in {outputs, outputs \union {<<HostOf[w], item[w]>>}}
          /\ \E pc \in {"rendered", "failing"} : wpc' = [wpc EXCEPT ![w] = pc]
      BY <1>5, <1>12 DEF RendererExits, storeVars, Output
    <2>. QED
      BY <2>1 DEF PhantomInv, PhantomNeverRenders, TypeOK, BackendTypeOK
  <1>13. CASE Finish(w)
    <2>1. UNCHANGED <<queue, item, outputs>> /\ wpc[w] = "rendered" /\ item[w] # PhantomId
      BY <1>5, <1>13 DEF Finish
    <2>2. CASE wpc' = [wpc EXCEPT ![w] = "failing"] /\ UNCHANGED <<status, details>>
      BY <2>1, <2>2, WorkKeepsPhantom
    <2>3. CASE Publish(w, finished) /\ wpc' = [wpc EXCEPT ![w] = "cleanup"]
      BY <1>2, <1>4, <1>5, <2>1, <2>3, ReportKeepsPhantom
    <2>. QED
      BY <1>13, <2>2, <2>3 DEF Finish, finished
  <1>14. CASE ReportError(w)
    <2>1. /\ UNCHANGED <<queue, item, outputs>> /\ wpc[w] = "failing"
          /\ Publish(w, failed) /\ wpc' = [wpc EXCEPT ![w] = "cleanup"]
      BY <1>14 DEF ReportError, failed
    <2>. QED
      BY <1>2, <1>4, <1>5, <2>1, ReportKeepsPhantom
  <1>15. CASE Cleanup(w)
    BY <1>15, LeaveKeepsPhantom DEF Cleanup, Forget, storeVars
  <1>. QED
    BY <1>6, <1>7, <1>8, <1>9, <1>10, <1>11, <1>12, <1>13, <1>14, <1>15
       DEF BackendStep, BackendAdvance

\* The script cuts off the head of the queue and adds nothing to it.
LEMMA CutQueue ==
  ASSUME StoreTypeOK, ClearTypeOK, GetMetabookIds
  PROVE  \E n \in Nat :
           /\ First(n) = clear'.removed
           /\ clear'.removed \subseteq clear'.listed
           /\ \A i \in 1..Len(queue') : i + n \in 1..Len(queue) /\ queue'[i] = queue[i + n]
           /\ \A i \in 1..Len(queue) : i > n => i - n \in 1..Len(queue')
  <1>. DEFINE size == Smaller(BatchSize, clear.remaining)
  <1>1. size \in Nat /\ Len(queue) \in Nat
    BY ClearQueueAssumption DEF ClearTypeOK, StoreTypeOK, Smaller
  <1>2. /\ clear'.removed = First(size) /\ clear'.listed = First(size + 1)
        /\ queue' = SubSeq(queue, size + 1, Len(queue))
    BY DEF GetMetabookIds, ClearTypeOK
  <1>. HIDE DEF size
  <1>3. First(size) \subseteq First(size + 1)
    BY <1>1 DEF First
  <1>4. \A i \in (size + 1)..Len(queue) : queue[i] \in Keys
    BY <1>1 DEF StoreTypeOK
  <1>5. /\ Len(queue') = IF size + 1 <= Len(queue) THEN Len(queue) - (size + 1) + 1 ELSE 0
        /\ \A i \in 1..(Len(queue) - (size + 1) + 1) : queue'[i] = queue[(size + 1) + i - 1]
    BY <1>1, <1>2, <1>4, SubSeqProperties
  <1>. QED
    BY <1>1, <1>2, <1>3, <1>5

\* No step makes a phantom job renderable.
LEMMA StepPhantom ==
  ASSUME MaintainedTypeOK, PhantomInv, [MaintainedNext]_allVars
  PROVE  PhantomInv'
  <1>. USE DEF MaintainedTypeOK
  <1>1. ASSUME UNCHANGED backendVars, \A i \in 1..Len(queue') : queue'[i] # PhantomId,
               status'[PhantomId] # Null => status'[PhantomId].state # "finished"
        PROVE  PhantomInv'
    BY <1>1 DEF backendVars, PhantomInv, PhantomNeverRenders
  <1>2. ASSUME NEW r \in Requests, FrontendActs(r) PROVE PhantomInv'
    <2>1. UNCHANGED backendVars
      BY <1>2 DEF FrontendActs
    <2>2. CASE UNCHANGED <<queue, status>>
      BY <1>1, <2>1, <2>2 DEF PhantomInv, PhantomNeverRenders
    <2>3. CASE Inserts(r)
      <3>1. PICK jd \in Details : jd.id \in CollectionIds /\ EnqueueJob(jd)
        BY <2>3 DEF Inserts
      <3>2. jd.id # PhantomId /\ jd.id \in Keys /\ PhantomId \in Keys
        BY <3>1, JobDetailsAssumption DEF Keys
      <3>3. status'[PhantomId] = status[PhantomId]
        BY <3>1, <3>2 DEF EnqueueJob, TypeOK, StoreTypeOK
      <3>4. \A i \in 1..Len(queue') :
              (i \in 1..Len(queue) /\ queue'[i] = queue[i]) \/ queue'[i] = jd.id
        BY <3>1, <3>2 DEF EnqueueJob, TypeOK, StoreTypeOK
      <3>. QED
        BY <1>1, <2>1, <3>2, <3>3, <3>4 DEF PhantomInv, PhantomNeverRenders
    <2>. QED
      BY <1>2, <2>2, <2>3, FrontendEffect
  <1>3. ASSUME NEW w \in Workers, BackendActs(w) PROVE PhantomInv'
    BY <1>3, BackendKeepsPhantom DEF BackendActs
  <1>4. ASSUME NEW w \in Workers, WorkerDies(w) PROVE PhantomInv'
    BY <1>4, LeaveKeepsPhantom DEF WorkerDies, Crash, storeVars
  <1>5. ASSUME NEW w \in Workers, WorkerUnheard(w) PROVE PhantomInv'
    <2>1. /\ details[w] \in Details /\ details[w] # Null /\ details[w].id = item[w]
          /\ now \in Nat /\ HostOf[w] \in Hosts
      BY <1>5, BackendAssumption DEF WorkerUnheard, ReportLost, TypeOK, BackendTypeOK, StoreTypeOK
    <2>2. \/ /\ details' = [details EXCEPT ![w] = UpdateFinished(details[w], HostOf[w], now)]
             /\ wpc[w] = "rendered"
          \/ details' = [details EXCEPT ![w] = UpdateError(details[w], now)]
      BY <1>5 DEF WorkerUnheard, ReportLost
    <2>3. /\ wpc' = [wpc EXCEPT ![w] = "cleanup"]
          /\ UNCHANGED <<queue, status, item, outputs>>
      BY <1>5 DEF WorkerUnheard, ReportLost, Wpc, storeVars
    <2>4. wpc[w] = "rendered" => item[w] # PhantomId
      BY DEF PhantomInv, PhantomNeverRenders
    <2>5. PICK jd \in Details : /\ details' = [details EXCEPT ![w] = jd]
                                /\ jd.id = item[w] /\ jd.writer = details[w].writer
                                /\ item[w] = PhantomId => jd.state # "finished"
      <3>1. /\ UpdateError(details[w], now).writer = details[w].writer
            /\ UpdateError(details[w], now).state = "failed"
            /\ UpdateFinished(details[w], HostOf[w], now).writer = details[w].writer
        BY <2>1, UpdateKeepsWriter
      <3>. QED
        BY <2>1, <2>2, <2>4, <3>1, UpdateType, UpdateFinishedType
    <2>. QED
      BY <2>1, <2>3, <2>5, ReportKeepsPhantom
  <1>6. CASE TimePasses
    BY <1>1, <1>6 DEF TimePasses, Tick, PhantomInv, PhantomNeverRenders
  <1>7. ASSUME NEW c \in Collectors, CollectorActs(c) PROVE PhantomInv'
    <2>1. UNCHANGED <<queue, backendVars>>
      BY <1>7 DEF CollectorActs, GCStep, StartGCRun, ScanKey, DeleteKey, EndGCRun, storeVars,
                  UnchangedService
    <2>2. UNCHANGED status \/ \E k \in Keys : status' = [status EXCEPT ![k] = Null]
      BY <1>7 DEF CollectorActs, GCStep, StartGCRun, ScanKey, DeleteKey, EndGCRun, storeVars
    <2>3. PhantomId \in Keys
      BY DEF Keys
    <2>. QED
      BY <1>1, <2>1, <2>2, <2>3 DEF PhantomInv, PhantomNeverRenders, TypeOK, StoreTypeOK
  <1>8. CASE ScriptActs
    <2>1. UNCHANGED backendVars
      BY <1>8 DEF ScriptActs, UnchangedService
    <2>2. CASE GetMetabookIds
      BY <1>1, <2>1, <2>2, CutQueue DEF GetMetabookIds, PhantomInv, PhantomNeverRenders, TypeOK
    <2>3. CASE GetJobStatuses
      BY <1>1, <2>1, <2>3 DEF GetJobStatuses, storeVars, PhantomInv, PhantomNeverRenders
    <2>4. CASE UpdateJobStatuses
      <3>1. PhantomId \in Keys /\ now \in Nat
        BY DEF Keys, TypeOK, StoreTypeOK
      <3>2. \/ status'[PhantomId] = status[PhantomId]
            \/ \E jd \in Details : status'[PhantomId] = UpdateError(jd, now)
        BY <2>4, <3>1, KilledType DEF UpdateJobStatuses
      <3>3. \A jd \in Details : UpdateError(jd, now).state = "failed"
        BY DEF UpdateError, Details
      <3>. QED
        BY <1>1, <2>1, <2>4, <3>2, <3>3 DEF UpdateJobStatuses, PhantomInv, PhantomNeverRenders
    <2>. QED
      BY <1>8, <2>2, <2>3, <2>4 DEF ScriptActs, ClearAdvance
  <1>9. CASE ScriptStarts \/ ScriptDies \/ UNCHANGED allVars
    BY <1>1, <1>9 DEF ScriptStarts, StartClear, ScriptDies, ClearDies, allVars, vars,
                      storeVars, UnchangedService, PhantomInv, PhantomNeverRenders
  <1>. QED
    BY <1>2, <1>3, <1>4, <1>5, <1>6, <1>7, <1>8, <1>9 DEF MaintainedNext, ServiceActs, Next

\* However a status vanishes, the job that a worker makes up in its place is
\* never rendered and never finishes.
THEOREM NoPhantomRenders == MaintainedSpec => []PhantomNeverRenders
  <1>1. MaintainedInit => PhantomInv
    BY JobDetailsAssumption DEF MaintainedInit, Init, StoreInit, BackendInit, PhantomInv,
                                PhantomNeverRenders, Keys
  <1>2. MaintainedTypeOK /\ PhantomInv /\ [MaintainedNext]_allVars => PhantomInv'
    BY StepPhantom
  <1>3. PhantomInv => PhantomNeverRenders
    BY DEF PhantomInv
  <1>. QED
    BY <1>1, <1>2, <1>3, MaintainedTypeCorrect, PTL DEF MaintainedSpec

-----------------------------------------------------------------------------
(* The maintained service implements the maintained job board *)

UpkeepProofs == INSTANCE JobBoardProofs WITH
  Jobs <- Keys, Nobody <- Null, Phantom <- PhantomId,
  backlog <- queue, board <- ShownState, desk <- Desk, givenUp <- orphaned,
  cleared <- Cleared, cut <- clear.removed

\* The script answers for the ids it has cut off the queue until it writes
\* their status objects back, and has all of them when it does.
ScriptInv ==
  /\ clear.pc \in {"off", "trim"} => clear.removed = {}
  /\ clear.pc = "get" => clear.removed \subseteq clear.listed
  /\ clear.pc = "update" => \A k \in clear.removed : Killed(k) # {}

\* The script finds a status object for every id that it goes on to answer for.
LEMMA StepScript ==
  ASSUME MaintainedTypeOK, ScriptInv, [MaintainedNext]_allVars
  PROVE  ScriptInv'
  <1>. USE DEF MaintainedTypeOK
  <1>1. CASE UNCHANGED clear
    BY <1>1 DEF ScriptInv, Killed
  <1>2. CASE StartClear \/ ClearDies \/ UpdateJobStatuses
    <2>. SUFFICES clear'.removed = {} /\ clear'.pc \in {"off", "trim"}
      BY DEF ScriptInv
    <2>1. CASE StartClear
      BY <2>1 DEF StartClear, NotClearing
    <2>2. CASE ClearDies
      BY <2>2 DEF ClearDies, NotClearing
    <2>3. CASE UpdateJobStatuses
      BY <2>3 DEF UpdateJobStatuses, NotClearing
    <2>. QED
      BY <1>2, <2>1, <2>2, <2>3
  <1>3. CASE GetMetabookIds
    <2>1. clear'.removed \subseteq clear'.listed
      BY <1>3, CutQueue DEF TypeOK
    <2>. QED
      BY <1>3, <2>1 DEF GetMetabookIds, ClearTypeOK, ScriptInv
  <1>4. CASE GetJobStatuses
    <2>1. /\ clear'.pc = "update"
          /\ \A k \in clear'.removed :
               /\ k \in clear.listed /\ status[k] # Null
               /\ FromJson(status[k], now) \in clear'.jobs
      BY <1>4 DEF GetJobStatuses, ClearTypeOK, ScriptInv
    <2>2. ASSUME NEW k \in clear'.removed PROVE Killed(k)' # {}
      <3>1. k \in Keys
        BY <2>1 DEF ClearTypeOK
      <3>2. FromJson(status[k], now) \in clear'.jobs /\ FromJson(status[k], now).id = k
        BY <2>1, <3>1, FromJsonType DEF TypeOK
      <3>. QED
        BY <3>2 DEF Killed
    <2>. QED
      BY <2>1, <2>2 DEF ScriptInv
  <1>. QED
    BY <1>1, <1>2, <1>3, <1>4 DEF MaintainedNext, ServiceActs, CollectorActs, ScriptStarts,
       ScriptActs, ScriptDies, ClearAdvance, allVars, maintenanceVars, clearVars

\* The service alone moves as a board nobody tidies up, and so does a board that
\* is tidied up at other times.
LEMMA BoardIsUpkept ==
  ASSUME [Board!Next]_Board!boardVars, UNCHANGED clear
  PROVE  [Upkeep!MaintainedNext]_Upkeep!maintainedVars
  BY DEF Board!Next, Board!boardVars, Board!Accept, Board!Take, Board!Report, Board!Settle,
         Board!GiveUp, Board!Echo, Board!Quiet, Upkeep!MaintainedNext,
         Upkeep!maintainedVars, Upkeep!Next, Upkeep!boardVars, Upkeep!Accept, Upkeep!Take,
         Upkeep!Report, Upkeep!Settle, Upkeep!GiveUp, Upkeep!Echo, Upkeep!Quiet

\* A worker that picks up its job forgets the one before, and is on the phantom from
\* then on if it does not find the status.
LEMMA PickupMistakes ==
  ASSUME TypeOK, NEW w \in Workers, BackendActs(w), NewItemFromQueue(w), UNCHANGED clear
  PROVE  [Upkeep!MaintainedNext]_Upkeep!maintainedVars
  <1>. USE DEF TypeOK
  <1>1. UNCHANGED <<queue, status, orphaned, reopened>>
    BY RecordEffect DEF NewItemFromQueue, Over, storeVars
  <1>2. CASE status[item[w]] # Null
    <2>1. Upkeep!Quiet(w)
      BY <1>1, <1>2, PickupKeepsDesk DEF Upkeep!Quiet, ShownState
    <2>. QED
      BY <2>1 DEF Upkeep!MaintainedNext, Upkeep!Next
  <1>3. CASE status[item[w]] = Null
    <2>1. wpc[w] = "popped" /\ item[w] \in Keys /\ item[w] # Null
      BY DEF NewItemFromQueue, BackendTypeOK
    <2>2. FromJson(status[item[w]], now) \in Details
          /\ FromJson(status[item[w]], now).id = PhantomId
      BY <1>3, <2>1, FromJsonType
    <2>3. [FromJson(status[item[w]], now) EXCEPT !.host = HostOf[w]].id = PhantomId
      BY <2>2 DEF Details
    <2>4. item' = [item EXCEPT ![w] = PhantomId] /\ wpc' = [wpc EXCEPT ![w] = "fetched"]
      BY <2>3 DEF NewItemFromQueue, Wpc
    <2>5. Desk' = [Desk EXCEPT ![w] = PhantomId] /\ Desk[w] = item[w]
      BY <2>1, <2>4 DEF Desk, Busy, BackendTypeOK
    <2>6. Cleared' = [Cleared EXCEPT ![w] = Null]
      <3>1. \E jd : details' = [details EXCEPT ![w] = jd]
        BY DEF NewItemFromQueue
      <3>. QED
        BY <2>4, <3>1 DEF Cleared, Over, BackendTypeOK
    <2>7. ShownState[Desk[w]] = "none"
      BY <1>3, <2>1, <2>5 DEF ShownState
    <2>8. Upkeep!Mistake(w)
      BY <1>1, <2>1, <2>5, <2>6, <2>7 DEF Upkeep!Mistake, ShownState
    <2>. QED
      BY <2>8 DEF Upkeep!MaintainedNext
  <1>. QED
    BY <1>2, <1>3

\* What goes on outside the service leaves the desks alone.
LEMMA SameWorkers ==
  ASSUME UnchangedService
  PROVE  Desk' = Desk /\ Cleared' = Cleared /\ UNCHANGED reopened
  BY DEF UnchangedService, backendVars, Desk, Busy, Cleared, Over

\* A collector takes jobs off the board or does nothing to it.
LEMMA CollectorDiscards ==
  ASSUME TypeOK, NEW c \in Collectors, CollectorActs(c)
  PROVE  [Upkeep!MaintainedNext]_Upkeep!maintainedVars
  <1>1. UNCHANGED <<queue, orphaned, reopened, clear>> /\ Desk' = Desk /\ Cleared' = Cleared
    BY SameWorkers DEF CollectorActs, GCStep, StartGCRun, ScanKey, DeleteKey, EndGCRun,
                       storeVars, UnchangedService, clearVars
  <1>2. CASE UNCHANGED status
    BY <1>1, <1>2 DEF Upkeep!maintainedVars, Upkeep!boardVars, ShownState
  <1>3. ASSUME NEW k \in Keys, DeleteKey(c, k)
        PROVE  [Upkeep!MaintainedNext]_Upkeep!maintainedVars
    <2>1. ShownState' = [ShownState EXCEPT ![k] = "none"]
      BY <1>3 DEF DeleteKey, ShownState, TypeOK, StoreTypeOK
    <2>2. Upkeep!Discard(k)
      BY <1>1, <2>1 DEF Upkeep!Discard
    <2>. QED
      BY <2>2 DEF Upkeep!MaintainedNext
  <1>. QED
    BY <1>2, <1>3 DEF CollectorActs, GCStep, StartGCRun, ScanKey, EndGCRun, storeVars

\* The script cuts off what the queue still has of the batch.
LEMMA ScriptCutsOff ==
  ASSUME StoreTypeOK, ClearTypeOK, GetMetabookIds
  PROVE  \E n \in 0..Len(queue) :
           /\ clear'.removed = {queue[i] : i \in 1..n}
           /\ queue' = SubSeq(queue, n + 1, Len(queue))
  <1>. DEFINE size == Smaller(BatchSize, clear.remaining)
  <1>1. size \in Nat /\ Len(queue) \in Nat
    BY ClearQueueAssumption DEF ClearTypeOK, StoreTypeOK, Smaller
  <1>2. clear'.removed = First(size) /\ queue' = SubSeq(queue, size + 1, Len(queue))
    BY DEF GetMetabookIds, ClearTypeOK
  <1>. HIDE DEF size
  <1>3. CASE size <= Len(queue)
    <2>1. First(size) = {queue[i] : i \in 1..size}
      BY <1>1, <1>3 DEF First
    <2>. QED
      BY <1>1, <1>2, <1>3, <2>1
  <1>4. CASE size > Len(queue)
    <2>1. First(size) = {queue[i] : i \in 1..Len(queue)}
      BY <1>1, <1>4 DEF First
    <2>2. /\ SubSeq(queue, size + 1, Len(queue)) = <<>>
          /\ SubSeq(queue, Len(queue) + 1, Len(queue)) = <<>>
      BY <1>1, <1>4, SubSeqEmpty
    <2>3. queue' = SubSeq(queue, Len(queue) + 1, Len(queue))
      BY <1>2, <2>2
    <2>4. clear'.removed = {queue[i] : i \in 1..Len(queue)} /\ Len(queue) \in 0..Len(queue)
      BY <1>1, <1>2, <2>1
    <2>. QED
      BY <2>3, <2>4
  <1>. QED
    BY <1>1, <1>3, <1>4

\* What the script does shows on the board as cutting off, sparing and writing off.
LEMMA ScriptTidies ==
  ASSUME MaintainedTypeOK, ScriptInv, ScriptActs
  PROVE  [Upkeep!MaintainedNext]_Upkeep!maintainedVars
  <1>. USE DEF MaintainedTypeOK
  <1>1. UNCHANGED <<orphaned, reopened>> /\ Desk' = Desk /\ Cleared' = Cleared
    BY SameWorkers DEF ScriptActs
  <1>2. CASE GetMetabookIds
    <2>1. PICK n \in 0..Len(queue) : /\ clear'.removed = {queue[i] : i \in 1..n}
                                     /\ queue' = SubSeq(queue, n + 1, Len(queue))
      BY <1>2, ScriptCutsOff DEF TypeOK
    <2>2. clear.removed = {} /\ UNCHANGED status
      BY <1>2 DEF GetMetabookIds, ScriptInv
    <2>3. Upkeep!CutOff(n)
      BY <1>1, <2>1, <2>2 DEF Upkeep!CutOff, ShownState
    <2>. QED
      BY <2>3 DEF Upkeep!MaintainedNext
  <1>3. CASE GetJobStatuses
    <2>1. clear'.removed = {k \in clear.removed : k \in clear.listed /\ status[k] # Null
                                                  /\ FromJson(status[k], now).state = "pending"}
      BY <1>3 DEF GetJobStatuses, ClearTypeOK
    <2>2. clear.removed \subseteq clear.listed /\ clear.removed \subseteq Keys
      BY <1>3 DEF GetJobStatuses, ScriptInv, ClearTypeOK
    <2>3. \A k \in clear.removed :
            ShownState[k] = "pending" <=>
              status[k] # Null /\ FromJson(status[k], now).state = "pending"
      BY <2>2, FromJsonType DEF ShownState, TypeOK
    <2>4. clear'.removed = {k \in clear.removed : ShownState[k] = "pending"}
      BY <2>1, <2>2, <2>3
    <2>5. UNCHANGED <<queue, status>>
      BY <1>3 DEF GetJobStatuses, storeVars
    <2>6. Upkeep!Spare
      BY <1>1, <2>4, <2>5 DEF Upkeep!Spare, Upkeep!boardVars, ShownState
    <2>. QED
      BY <2>6 DEF Upkeep!MaintainedNext
  <1>4. CASE UpdateJobStatuses
    <2>. DEFINE killed == {k \in Keys : Killed(k) # {}}
    <2>1. clear.removed \subseteq killed /\ clear'.removed = {} /\ UNCHANGED queue
      BY <1>4 DEF UpdateJobStatuses, NotClearing, ScriptInv, ClearTypeOK
    <2>2. ASSUME NEW k \in Keys
          PROVE  ShownState'[k] = IF k \in killed THEN "failed" ELSE ShownState[k]
      <3>1. \A jd \in Details : UpdateError(jd, now) # Null
                                /\ UpdateError(jd, now).state = "failed"
        <4>1. now \in Nat
          BY DEF TypeOK, StoreTypeOK
        <4>2. \A jd \in Details : UpdateError(jd, now) \in Details
          BY <4>1, UpdateType
        <4>. QED
          BY <4>2, NullAssumption DEF UpdateError, Details
      <3>. QED
        BY <1>4, <3>1, KilledType DEF UpdateJobStatuses, ShownState
    <2>3. ShownState' = [k \in Keys |-> IF k \in killed THEN "failed" ELSE ShownState[k]]
      BY <2>2 DEF ShownState
    <2>4. Upkeep!WriteOff(killed)
      BY <1>1, <2>1, <2>3 DEF Upkeep!WriteOff
    <2>. QED
      BY <2>4 DEF Upkeep!MaintainedNext
  <1>. QED
    BY <1>2, <1>3, <1>4 DEF ScriptActs, ClearAdvance

\* Every step is a step of the maintained board or none.
LEMMA StepUpkeep ==
  ASSUME MaintainedTypeOK, ScriptInv, [MaintainedNext]_allVars
  PROVE  [Upkeep!MaintainedNext]_Upkeep!maintainedVars
  <1>. USE DEF MaintainedTypeOK, maintenanceVars, clearVars
  <1>1. CASE ServiceActs
    <2>1. UNCHANGED clear
      BY <1>1 DEF ServiceActs
    <2>. QED
      BY <1>1, <2>1, StepBoardOrPickup, BoardIsUpkept, PickupMistakes DEF ServiceActs
  <1>2. ASSUME NEW c \in Collectors, CollectorActs(c)
        PROVE  [Upkeep!MaintainedNext]_Upkeep!maintainedVars
    BY <1>2, CollectorDiscards
  <1>3. CASE ScriptStarts
    <2>1. UNCHANGED <<queue, status, orphaned, reopened>> /\ Desk' = Desk /\ Cleared' = Cleared
      BY <1>3, SameWorkers DEF ScriptStarts, StartClear, storeVars
    <2>2. clear'.removed = clear.removed
      BY <1>3 DEF ScriptStarts, StartClear, NotClearing, ScriptInv
    <2>. QED
      BY <2>1, <2>2 DEF Upkeep!maintainedVars, Upkeep!boardVars, ShownState
  <1>4. CASE ScriptActs
    BY <1>4, ScriptTidies
  <1>5. CASE ScriptDies
    <2>1. UNCHANGED <<queue, status, reopened>> /\ Desk' = Desk /\ Cleared' = Cleared
      BY <1>5, SameWorkers DEF ScriptDies, ClearDies, storeVars
    <2>2. clear'.removed = {} /\ orphaned' = orphaned \union clear.removed
      BY <1>5 DEF ScriptDies, ClearDies, NotClearing
    <2>3. Upkeep!Abandon
      BY <2>1, <2>2 DEF Upkeep!Abandon, ShownState
    <2>. QED
      BY <2>3 DEF Upkeep!MaintainedNext
  <1>6. CASE UNCHANGED allVars
    BY <1>6 DEF allVars, vars, historyVars, backendVars, storeVars, Upkeep!maintainedVars,
                Upkeep!boardVars, ShownState, Desk, Busy, Cleared, Over
  <1>. QED
    BY <1>1, <1>2, <1>3, <1>4, <1>5, <1>6 DEF MaintainedNext

\* The maintained service is a maintained board: in whatever order requests,
\* workers, collectors and the script take their steps, and whoever dies on the
\* way, the statuses clients see change as on the board.
THEOREM MaintainedRefinement == MaintainedSpec => ImplementsMaintainedBoard
  <1>1. MaintainedInit => ScriptInv
    BY DEF MaintainedInit, ClearInit, NotClearing, ScriptInv
  <1>2. MaintainedInit => Upkeep!MaintainedInit
    BY DEF MaintainedInit, Init, StoreInit, BackendInit, ClearInit, NotClearing,
           Upkeep!MaintainedInit, Upkeep!Init, ShownState, Desk, Busy, Cleared, Over
  <1>3. MaintainedTypeOK /\ ScriptInv /\ [MaintainedNext]_allVars => ScriptInv'
    BY StepScript
  <1>4. MaintainedTypeOK /\ ScriptInv /\ [MaintainedNext]_allVars
          => [Upkeep!MaintainedNext]_Upkeep!maintainedVars
    BY StepUpkeep
  <1>. QED
    BY <1>1, <1>2, <1>3, <1>4, MaintainedTypeCorrect, PTL
       DEF MaintainedSpec, ImplementsMaintainedBoard, Upkeep!MaintainedSpec

-----------------------------------------------------------------------------
(* No silent stall *)

\* A job that is shown as pending or under way has somebody to settle it, in spite
\* of collectors that take statuses away and of a script that empties the queue:
\* the maintained board promises it.
THEOREM NoMaintainedStall == MaintainedSpec => []NoStallWhileMaintained
  <1>1. Null \notin Keys /\ PhantomId \in Keys
    BY JobDetailsAssumption DEF Keys
  <1>2. UpkeepProofs!MaintainedSpec => []UpkeepProofs!MaintainedAccounted
    BY <1>1, UpkeepProofs!MaintainedJobsAccounted
  <1>3. Upkeep!MaintainedInit => UpkeepProofs!MaintainedInit
    BY DEF Upkeep!MaintainedInit, Upkeep!Init, UpkeepProofs!MaintainedInit, UpkeepProofs!Init
  <1>4. [Upkeep!MaintainedNext]_Upkeep!maintainedVars
          => [UpkeepProofs!MaintainedNext]_UpkeepProofs!maintainedVars
    BY DEF Upkeep!MaintainedNext, Upkeep!maintainedVars, Upkeep!Next, Upkeep!boardVars,
           Upkeep!Accept, Upkeep!Take, Upkeep!Report, Upkeep!Settle, Upkeep!GiveUp,
           Upkeep!Echo, Upkeep!Quiet, Upkeep!Discard, Upkeep!Mistake, Upkeep!CutOff, Upkeep!Spare, Upkeep!WriteOff,
           Upkeep!Abandon,
           UpkeepProofs!MaintainedNext, UpkeepProofs!maintainedVars, UpkeepProofs!Next,
           UpkeepProofs!boardVars, UpkeepProofs!Accept, UpkeepProofs!Take,
           UpkeepProofs!Report, UpkeepProofs!Settle, UpkeepProofs!GiveUp,
           UpkeepProofs!Echo, UpkeepProofs!Quiet,
           UpkeepProofs!Discard, UpkeepProofs!Mistake, UpkeepProofs!CutOff,
           UpkeepProofs!Spare, UpkeepProofs!WriteOff, UpkeepProofs!Abandon
  <1>5. UpkeepProofs!MaintainedAccounted => NoStallWhileMaintained
    <2>. SUFFICES ASSUME UpkeepProofs!MaintainedAccounted, NEW k \in Keys, status[k] # Null
                  PROVE  /\ status[k].state = "pending" =>
                              \/ Queued(k) \/ OnDesk(k)
                              \/ k \in orphaned \/ k \in clear.removed
                         /\ status[k].state = "progress" =>
                              OnDesk(k) \/ k \in orphaned \union reopened
      BY DEF NoStallWhileMaintained
    <2>1. ShownState[k] = status[k].state
      BY DEF ShownState
    <2>2. (\E w \in Workers : Desk[w] = k) => OnDesk(k)
      BY <1>1 DEF Desk, OnDesk
    <2>. QED
      BY <2>1, <2>2 DEF UpkeepProofs!MaintainedAccounted, Queued
  <1>. QED
    BY <1>2, <1>3, <1>4, <1>5, MaintainedRefinement, PTL
       DEF ImplementsMaintainedBoard, Upkeep!MaintainedSpec, UpkeepProofs!MaintainedSpec

=============================================================================
