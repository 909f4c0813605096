------------------------ MODULE RenderServiceProofs -------------------------
(***************************************************************************)
(* Proofs about the render service, for every number of books, requests,   *)
(* workers and hosts, every configuration and every order of events.       *)
(***************************************************************************)
EXTENDS RenderService, FiniteSetTheorems, TLAPS

BoardProofs == INSTANCE JobBoardProofs WITH
  Jobs <- Keys, Nobody <- Null, Phantom <- PhantomId,
  backlog <- queue, board <- ShownState, desk <- Desk, givenUp <- orphaned,
  cleared <- Cleared, cut <- {}

-----------------------------------------------------------------------------
(* Status objects *)

\* What a worker or the frontend may write is a status object.
LEMMA NewJobDetailsType ==
  ASSUME NEW id \in Keys, NEW book \in Books, NEW writer \in Writers \union {NoWriter},
         NEW time \in Nat
  PROVE  /\ NewJobDetails(id, book, writer, time) \in Details
         /\ NewJobDetails(id, book, writer, time).id = id
         /\ NewJobDetails(id, book, writer, time).loc = Null
  BY DEF NewJobDetails, Details, States

\* An update keeps the id and yields a status object.
LEMMA UpdateType ==
  ASSUME NEW jd \in Details, NEW time \in Nat
  PROVE  /\ UpdateProgress(jd, time) \in Details
         /\ UpdateProgress(jd, time).id = jd.id
         /\ UpdateProgress(jd, time).loc = jd.loc
         /\ UpdateError(jd, time) \in Details
         /\ UpdateError(jd, time).id = jd.id
         /\ UpdateError(jd, time).loc = jd.loc
  BY DEF UpdateProgress, UpdateError, Details, States

\* A finished job names the host of its file.
LEMMA UpdateFinishedType ==
  ASSUME NEW jd \in Details, NEW time \in Nat, NEW host \in Hosts
  PROVE  /\ UpdateFinished(jd, host, time) \in Details
         /\ UpdateFinished(jd, host, time).id = jd.id
         /\ UpdateFinished(jd, host, time).loc = host
  BY DEF UpdateFinished, Details, States

-----------------------------------------------------------------------------
(* Type correctness *)

\* The helpers that end or continue a request keep the request well formed.
LEMMA AnswerType ==
  ASSUME RequestTypeOK, NEW r \in Requests, NEW code \in Codes, NEW isCached \in BOOLEAN,
         Answer(r, code, isCached)
  PROVE  RequestTypeOK'
  BY DEF RequestTypeOK, Answer, IdleRequest, RequestPCs, Settled, Books

\* A request that goes on keeps its type.
LEMMA GotoType ==
  ASSUME RequestTypeOK, NEW r \in Requests, NEW pc \in {"llen", "push"}, NEW book \in Books,
         req[r].pc \notin Settled, Goto(r, pc, book)
  PROVE  RequestTypeOK'
  BY DEF RequestTypeOK, Goto, RequestPCs, Settled

\* The insertion of a job keeps the store well formed.
LEMMA EnqueueType ==
  ASSUME StoreTypeOK, NEW jd \in Details, EnqueueJob(jd), UNCHANGED now
  PROVE  StoreTypeOK'
  <1>1. jd.id \in Keys
    BY DEF Details
  <1>2. jd # Null
    BY NullAssumption
  <1>. QED
    BY <1>1, <1>2 DEF StoreTypeOK, EnqueueJob

\* HSET keeps the type of the store.
LEMMA HSetType ==
  ASSUME StoreTypeOK, NEW jd \in Details, HSet(jd), UNCHANGED <<queue, now>>
  PROVE  StoreTypeOK'
  <1>1. jd.id \in Keys
    BY DEF Details
  <1>. QED
    BY <1>1 DEF StoreTypeOK, HSet

\* A request that may push its job has the parameters of a known writer.
LEMMA InsertType ==
  ASSUME StoreTypeOK, RequestTypeOK, NEW r \in Requests, req[r].pc = "push",
         Insert(r), UNCHANGED now
  PROVE  StoreTypeOK'
  <1>. DEFINE writer == ResolveWriter(req[r].par.writer)
              jd == NewJobDetails(req[r].par.id, req[r].book, writer, now)
  <1>1. req[r].par.id \in Keys /\ req[r].book \in Books /\ now \in Nat
    BY FrontendAssumption DEF RequestTypeOK, Settled, Keys, StoreTypeOK
  <1>2. writer \in Writers \union {NoWriter}
    BY DEF RequestTypeOK, Settled
  <1>3. jd \in Details
    BY <1>1, <1>2, NewJobDetailsType
  <1>. QED
    BY <1>3, EnqueueType DEF Insert

\* Every step of a request keeps the store and the requests well formed.
LEMMA FrontendType ==
  ASSUME StoreTypeOK, RequestTypeOK, NEW r \in Requests, FrontendStep(r)
  PROVE  StoreTypeOK' /\ RequestTypeOK'
  <1>1. CASE HandleRender(r)
    <2>1. StoreTypeOK'
      BY <1>1 DEF HandleRender, storeVars, StoreTypeOK
    <2>2. PICK p \in Params : RejectRender(r, p) \/ AcceptRender(r, p)
      BY <1>1 DEF HandleRender
    <2>3. CASE RejectRender(r, p)
      <3>1. PICK code \in {"400", "500"} : Answer(r, code, FALSE)
        BY <2>3 DEF RejectRender, Throw, FrontendError
      <3>. QED
        BY <2>1, <3>1, AnswerType DEF Codes, HttpStatus
    <2>4. CASE AcceptRender(r, p)
      <3>1. p # Null /\ ResolveWriter(p.writer) \in Writers
        BY <2>4, FrontendAssumption DEF AcceptRender
      <3>2. RequestTypeOK'
        BY <2>4, <3>1 DEF AcceptRender, RequestTypeOK, IdleRequest, RequestPCs, Settled,
                          Codes, Books
      <3>. QED
        BY <2>1, <3>2
    <2>. QED
      BY <2>2, <2>3, <2>4
  <1>2. CASE DetermineCachedStatus(r)
    <2>1. StoreTypeOK'
      BY <1>2 DEF DetermineCachedStatus, storeVars, StoreTypeOK
    <2>2. req[r].pc \notin Settled
      BY <1>2 DEF DetermineCachedStatus, Settled
    <2>3. CASE Answer(r, "200", TRUE)
      BY <2>1, <2>3, AnswerType DEF Codes, HttpStatus
    <2>4. CASE \E book \in Books : Goto(r, AfterCacheMiss, book)
      BY <2>1, <2>2, <2>4, GotoType DEF AfterCacheMiss
    <2>5. req[r].book \in Books
      BY DEF RequestTypeOK
    <2>6. req[r].par.id \in Keys
      BY <2>2, FrontendAssumption DEF RequestTypeOK, Keys
    <2>7. status[req[r].par.id] # Null => status[req[r].par.id].book \in Books
      BY <2>6 DEF StoreTypeOK, Details
    <2>. QED
      BY <1>2, <2>3, <2>4, <2>5, <2>7 DEF DetermineCachedStatus
  <1>3. CASE CanIRender(r)
    <2>1. StoreTypeOK'
      BY <1>3 DEF CanIRender, storeVars, StoreTypeOK
    <2>2. req[r].book \in Books /\ req[r].pc \notin Settled
      BY <1>3 DEF RequestTypeOK, CanIRender, Settled
    <2>3. CASE Goto(r, "push", req[r].book)
      BY <2>1, <2>2, <2>3, GotoType
    <2>4. CASE Throw(r, FrontendError("503", "Job queue is full."))
      BY <2>1, <2>4, AnswerType DEF Throw, FrontendError, Codes
    <2>. QED
      BY <1>3, <2>3, <2>4 DEF CanIRender
  <1>4. CASE AddRenderJob(r)
    <2>1. StoreTypeOK'
      BY <1>4, InsertType DEF AddRenderJob
    <2>2. RequestTypeOK'
      BY <1>4, AnswerType DEF AddRenderJob, Codes, HttpStatus
    <2>. QED
      BY <2>1, <2>2
  <1>5. CASE RedisFails(r)
    <2>1. req[r].book \in Books
      BY DEF RequestTypeOK
    <2>2. CASE req[r].pc = "hget"
      <3>1. StoreTypeOK' /\ Goto(r, AfterCacheMiss, req[r].book)
        BY <1>5, <2>2 DEF RedisFails, StoreTypeOK
      <3>. QED
        BY <2>1, <2>2, <3>1, GotoType DEF AfterCacheMiss, Settled
    <2>3. CASE req[r].pc = "llen"
      <3>1. StoreTypeOK' /\ Answer(r, "500", FALSE)
        BY <1>5, <2>3 DEF RedisFails, StoreTypeOK
      <3>. QED
        BY <3>1, AnswerType DEF Codes, HttpStatus
    <2>4. CASE req[r].pc = "push"
      <3>1. Answer(r, "500", FALSE) /\ UNCHANGED now
        BY <1>5, <2>4 DEF RedisFails, Throw, FrontendError
      <3>2. RequestTypeOK'
        BY <3>1, AnswerType DEF Codes, HttpStatus
      <3>3. CASE Insert(r)
        BY <2>4, <3>1, <3>2, <3>3, InsertType
      <3>4. CASE UNCHANGED <<queue, status>>
        BY <3>1, <3>2, <3>4 DEF StoreTypeOK
      <3>. QED
        BY <1>5, <2>4, <3>3, <3>4 DEF RedisFails
    <2>. QED
      BY <1>5, <2>2, <2>3, <2>4 DEF RedisFails
  <1>. QED
    BY <1>1, <1>2, <1>3, <1>4, <1>5 DEF FrontendStep, FrontendAdvance

\* A worker that leaves its job keeps the details of the job or none.
LEMMA LeaveType ==
  ASSUME BackendTypeOK, NEW w \in Workers, Leave(w), files' \subseteq Files,
         UNCHANGED outputs,
         \E kept \in {details[w], Null} : details' = [details EXCEPT ![w] = kept]
  PROVE  BackendTypeOK'
  BY DEF BackendTypeOK, Leave, Wpc, WorkerPCs

\* The scratch file names of a worker that has an id are scratch files.
LEMMA FileType ==
  ASSUME BackendTypeOK, NEW w \in Workers, item[w] # Null, NEW kind \in Kinds
  PROVE  File(w, kind) \in Files
  BY BackendAssumption DEF BackendTypeOK, File, Files

\* A report of progress keeps the store well formed, refused or not.
LEMMA ReportType ==
  ASSUME StoreTypeOK, NEW w \in Workers, details[w] \in Details, now \in Nat,
         Report(w), UNCHANGED <<queue, now>>
  PROVE  StoreTypeOK'
  <1>. DEFINE jd == UpdateProgress(details[w], now)
  <1>1. jd \in Details
    BY UpdateType
  <1>2. HSet(jd) \/ UNCHANGED status
    BY DEF Report
  <1>. HIDE DEF jd
  <1>3. CASE HSet(jd)
    BY <1>1, <1>3, HSetType
  <1>4. CASE UNCHANGED status
    BY <1>4 DEF StoreTypeOK
  <1>. QED
    BY <1>2, <1>3, <1>4

\* So does an outcome that redis refuses.
LEMMA LossType ==
  ASSUME StoreTypeOK, BackendTypeOK, NEW w \in Workers, ReportLost(w)
  PROVE  StoreTypeOK' /\ BackendTypeOK'
  <1>1. /\ item[w] # Null /\ now \in Nat
        /\ details[w] \in Details /\ details[w].id = item[w]
    BY DEF ReportLost, BackendTypeOK, StoreTypeOK
  <1>2. PICK jd \in Details : jd.id = item[w] /\ details' = [details EXCEPT ![w] = jd]
    BY <1>1, UpdateType, UpdateFinishedType, BackendAssumption DEF ReportLost
  <1>3. jd # Null
    BY NullAssumption
  <1>. QED
    BY <1>1, <1>2, <1>3
       DEF ReportLost, Wpc, storeVars, StoreTypeOK, BackendTypeOK, WorkerPCs

\* Every step of a worker keeps the store and the workers well formed.
LEMMA BackendType ==
  ASSUME StoreTypeOK, BackendTypeOK, NEW w \in Workers, BackendStep(w)
  PROVE  StoreTypeOK' /\ BackendTypeOK'
  <1>. USE DEF Wpc
  <1>1. CASE GetNewItemFromQueue(w)
    <2>1. Head(queue) \in Keys /\ Tail(queue) \in Seq(Keys)
      BY <1>1 DEF GetNewItemFromQueue, StoreTypeOK
    <2>2. StoreTypeOK'
      BY <1>1, <2>1 DEF GetNewItemFromQueue, StoreTypeOK
    <2>3. Head(queue) # Null
      BY <2>1, JobDetailsAssumption DEF Keys
    <2>. QED
      BY <1>1, <2>1, <2>2, <2>3 DEF GetNewItemFromQueue, BackendTypeOK, WorkerPCs
  <1>2. CASE NewItemFromQueue(w)
    <2>. DEFINE jd == [FromJson(status[item[w]], now) EXCEPT !.host = HostOf[w]]
    <2>1. item[w] \in Keys /\ now \in Nat
      BY <1>2 DEF NewItemFromQueue, BackendTypeOK, StoreTypeOK
    <2>2. FromJson(status[item[w]], now) \in Details
      <3>1. PhantomId \in Keys /\ "empty" \in Books
        BY DEF Keys, Books
      <3>. QED
        BY <2>1, <3>1, NewJobDetailsType DEF FromJson, StoreTypeOK
    <2>3. jd \in Details
      BY <2>2, BackendAssumption DEF Details
    <2>4. jd.id \in Keys /\ jd # Null
      BY <2>3, NullAssumption DEF Details
    <2>5. StoreTypeOK'
      BY <1>2 DEF NewItemFromQueue, storeVars, StoreTypeOK
    <2>6. jd.id # Null
      BY <2>4, JobDetailsAssumption DEF Keys
    <2>7. /\ details' = [details EXCEPT ![w] = jd]
          /\ item' = [item EXCEPT ![w] = jd.id]
          /\ scratch' = [scratch EXCEPT ![w] = {"metabook"}]
          /\ wpc' = [wpc EXCEPT ![w] = "fetched"]
          /\ UNCHANGED <<files, outputs>>
      BY <1>2 DEF NewItemFromQueue
    <2>. HIDE DEF jd
    <2>8. BackendTypeOK'
      BY <2>3, <2>4, <2>6, <2>7 DEF BackendTypeOK, WorkerPCs, Kinds
    <2>. QED
      BY <2>5, <2>8
  <1>3. CASE RunBundler(w)
    <2>1. /\ item[w] \in Keys /\ item[w] # Null /\ now \in Nat
          /\ details[w] \in Details /\ details[w].id = item[w]
      BY <1>3 DEF RunBundler, BackendTypeOK, StoreTypeOK
    <2>2. File(w, "metabook") \in Files
      BY <2>1, FileType DEF Kinds
    <2>. DEFINE jd == UpdateProgress(details[w], now)
    <2>3. jd \in Details /\ jd.id = item[w] /\ jd # Null
      BY <2>1, UpdateType, NullAssumption
    <2>4. CASE Report(w) /\ UNCHANGED <<queue, now>>
      <3>1. StoreTypeOK'
        BY <2>1, <2>4, ReportType
      <3>2. details' = [details EXCEPT ![w] = jd]
        BY <2>4 DEF Report
      <3>. HIDE DEF jd
      <3>. QED
        BY <1>3, <2>1, <2>2, <2>3, <3>1, <3>2
           DEF RunBundler, BackendTypeOK, WorkerPCs, Kinds
    <2>5. CASE UNCHANGED <<status, details>>
      BY <1>3, <2>2, <2>5 DEF RunBundler, BackendTypeOK, WorkerPCs, Kinds, StoreTypeOK
    <2>. QED
      BY <1>3, <2>4, <2>5 DEF RunBundler
  <1>4. CASE ProcessReceivedMessage(w)
    <2>1. now \in Nat /\ details[w] \in Details
      BY <1>4 DEF ProcessReceivedMessage, ChildHeard, BackendTypeOK, StoreTypeOK
    <2>. DEFINE jd == UpdateProgress(details[w], now)
    <2>2. jd \in Details /\ jd.id = details[w].id /\ jd # Null
      BY <2>1, UpdateType, NullAssumption
    <2>3. /\ details' = [details EXCEPT ![w] = jd]
          /\ UNCHANGED <<wpc, item, scratch, files, outputs>>
      BY <1>4 DEF ProcessReceivedMessage, Report
    <2>4. StoreTypeOK'
      BY <1>4, <2>1, ReportType DEF ProcessReceivedMessage
    <2>. HIDE DEF jd
    <2>. QED
      BY <2>2, <2>3, <2>4 DEF BackendTypeOK
  <1>5. CASE BundlerExits(w)
    <2>1. item[w] # Null /\ StoreTypeOK'
      BY <1>5 DEF BundlerExits, BackendTypeOK, storeVars, StoreTypeOK
    <2>2. File(w, "bundle") \in Files
      BY <2>1, FileType DEF Kinds
    <2>. QED
      BY <1>5, <2>1, <2>2 DEF BundlerExits, BackendTypeOK, WorkerPCs, Kinds
  <1>6. CASE RunRenderer(w)
    <2>1. /\ item[w] # Null /\ now \in Nat
          /\ details[w] \in Details /\ details[w].id = item[w]
      BY <1>6 DEF RunRenderer, BackendTypeOK, StoreTypeOK
    <2>2. File(w, "tempdir") \in Files
      BY <2>1, FileType DEF Kinds
    <2>. DEFINE jd == UpdateProgress(details[w], now)
    <2>3. jd \in Details /\ jd.id = item[w] /\ jd # Null
      BY <2>1, UpdateType, NullAssumption
    <2>. HIDE DEF jd
    <2>4. CASE Publish(w, jd) /\ UNCHANGED <<queue, now>>
      <3>1. StoreTypeOK'
        BY <2>3, <2>4, HSetType DEF Publish
      <3>. QED
        BY <1>6, <2>1, <2>2, <2>3, <2>4, <3>1
           DEF RunRenderer, Publish, BackendTypeOK, WorkerPCs
    <2>5. CASE UNCHANGED <<status, details>>
      BY <1>6, <2>1, <2>2, <2>5 DEF RunRenderer, BackendTypeOK, WorkerPCs, StoreTypeOK
    <2>6. CASE Report(w) /\ UNCHANGED <<queue, now>>
      <3>1. StoreTypeOK'
        BY <2>1, <2>6, ReportType
      <3>2. details' = [details EXCEPT ![w] = jd]
        BY <2>6 DEF Report, jd
      <3>. QED
        BY <1>6, <2>1, <2>2, <2>3, <3>1, <3>2 DEF RunRenderer, BackendTypeOK, WorkerPCs
    <2>. QED
      BY <1>6, <2>4, <2>5, <2>6 DEF RunRenderer, jd
  <1>7. CASE RendererExits(w)
    <2>1. item[w] \in Keys /\ StoreTypeOK'
      BY <1>7 DEF RendererExits, BackendTypeOK, storeVars, StoreTypeOK
    <2>2. Output(w) \in Hosts \X Keys
      BY <2>1, BackendAssumption DEF Output
    <2>. QED
      BY <1>7, <2>1, <2>2 DEF RendererExits, BackendTypeOK, WorkerPCs
  <1>8. CASE Finish(w)
    <2>1. /\ item[w] # Null /\ now \in Nat
          /\ details[w] \in Details /\ details[w].id = item[w]
      BY <1>8 DEF Finish, BackendTypeOK, StoreTypeOK
    <2>. DEFINE jd == UpdateFinished(details[w], HostOf[w], now)
    <2>2. jd \in Details /\ jd.id = item[w] /\ jd # Null
      BY <2>1, UpdateFinishedType, NullAssumption, BackendAssumption
    <2>. HIDE DEF jd
    <2>3. CASE Publish(w, jd) /\ UNCHANGED <<queue, now>>
      <3>1. StoreTypeOK'
        BY <2>2, <2>3, HSetType DEF Publish
      <3>. QED
        BY <1>8, <2>1, <2>2, <2>3, <3>1 DEF Finish, Publish, BackendTypeOK, WorkerPCs
    <2>4. CASE UNCHANGED <<status, details>>
      BY <1>8, <2>1, <2>4 DEF Finish, BackendTypeOK, WorkerPCs, StoreTypeOK
    <2>. QED
      BY <1>8, <2>3, <2>4 DEF Finish, jd
  <1>9. CASE ReportError(w)
    <2>1. /\ item[w] # Null /\ now \in Nat
          /\ details[w] \in Details /\ details[w].id = item[w]
      BY <1>9 DEF ReportError, BackendTypeOK, StoreTypeOK
    <2>. DEFINE jd == UpdateError(details[w], now)
    <2>2. jd \in Details /\ jd.id = item[w] /\ jd # Null
      BY <2>1, UpdateType, NullAssumption
    <2>3. /\ Publish(w, jd) /\ wpc' = [wpc EXCEPT ![w] = "cleanup"]
          /\ UNCHANGED <<queue, now, item, scratch, files, outputs>>
      BY <1>9 DEF ReportError
    <2>. HIDE DEF jd
    <2>4. StoreTypeOK'
      BY <2>2, <2>3, HSetType DEF Publish
    <2>. QED
      BY <2>1, <2>2, <2>3, <2>4 DEF Publish, BackendTypeOK, WorkerPCs
  <1>10. CASE Cleanup(w)
    <2>1. StoreTypeOK' /\ files' \subseteq Files
      BY <1>10 DEF Cleanup, BackendTypeOK, storeVars, StoreTypeOK
    <2>. QED
      BY <1>10, <2>1, LeaveType DEF Cleanup, Forget
  <1>. QED
    BY <1>1, <1>2, <1>3, <1>4, <1>5, <1>6, <1>7, <1>8, <1>9, <1>10
       DEF BackendStep, BackendAdvance

\* The initial states are well formed.
LEMMA InitType == Init => TypeOK
  BY DEF Init, TypeOK, StoreInit, StoreTypeOK, FrontendInit, RequestTypeOK, BackendInit,
         BackendTypeOK, IdleRequest, RequestPCs, Settled, Books, Codes, WorkerPCs, Files

\* Every step keeps the whole state well formed.
LEMMA StepType == TypeOK /\ [Next]_vars => TypeOK'
  <1>. SUFFICES ASSUME TypeOK, [Next]_vars PROVE TypeOK'
    OBVIOUS
  <1>. USE DEF TypeOK
  <1>1. ASSUME NEW r \in Requests, FrontendActs(r) PROVE TypeOK'
    <2>1. StoreTypeOK' /\ RequestTypeOK'
      BY <1>1, FrontendType DEF FrontendActs
    <2>. QED
      BY <1>1, <2>1 DEF FrontendActs, FrontendRecord, backendVars, BackendTypeOK
  <1>2. ASSUME NEW w \in Workers, BackendActs(w) PROVE TypeOK'
    <2>1. StoreTypeOK' /\ BackendTypeOK'
      BY <1>2, BackendType DEF BackendActs
    <2>2. Over(w) /\ status' # status => details[w].id \in Keys
      <3>1. ASSUME ChildHeard(w) PROVE details[w].id \in Keys
        BY <3>1 DEF ChildHeard, BackendTypeOK, Details
      <3>. QED
        BY <1>2, <3>1 DEF BackendActs, BackendStep, BackendAdvance, Over, GetNewItemFromQueue,
           NewItemFromQueue, storeVars, RunBundler, ProcessReceivedMessage, BundlerExits,
           RunRenderer, RendererExits, Finish, ReportError, Cleanup
    <2>3. reopened' \subseteq Keys
      BY <1>2, <2>2 DEF BackendActs, BackendRecord
    <2>. QED
      BY <1>2, <2>1, <2>3 DEF BackendActs, BackendRecord, RequestTypeOK
  <1>3. ASSUME NEW w \in Workers, WorkerDies(w) PROVE TypeOK'
    <2>1. item[w] \in Keys
      BY <1>3 DEF WorkerDies, Crash, BackendTypeOK
    <2>2. BackendTypeOK'
      BY <1>3, LeaveType DEF WorkerDies, Crash, BackendTypeOK
    <2>3. StoreTypeOK' /\ RequestTypeOK'
      BY <1>3 DEF WorkerDies, Crash, storeVars, StoreTypeOK, RequestTypeOK
    <2>. QED
      BY <1>3, <2>1, <2>2, <2>3, BackendAssumption DEF WorkerDies
  <1>4. CASE TimePasses
    BY <1>4 DEF TimePasses, Tick, historyVars, backendVars, StoreTypeOK, RequestTypeOK,
                BackendTypeOK
  <1>5. CASE UNCHANGED vars
    BY <1>5 DEF vars, storeVars, historyVars, backendVars, StoreTypeOK, RequestTypeOK,
                BackendTypeOK
  <1>6. ASSUME NEW w \in Workers, WorkerUnheard(w) PROVE TypeOK'
    <2>1. item[w] \in Keys
      BY <1>6 DEF WorkerUnheard, ReportLost, BackendTypeOK
    <2>2. StoreTypeOK' /\ BackendTypeOK'
      BY <1>6, LossType DEF WorkerUnheard
    <2>. QED
      BY <1>6, <2>1, <2>2 DEF WorkerUnheard, RequestTypeOK
  <1>. QED
    BY <1>1, <1>2, <1>3, <1>4, <1>5, <1>6 DEF Next

\* The state is well formed at all times: in particular a request under way has
\* parameters, a worker with a job has an id and, once it has fetched them, the
\* details of that id, and a status object carries the id it is stored under.
THEOREM TypeCorrect == Spec => []TypeOK
  BY InitType, StepType, PTL DEF Spec

-----------------------------------------------------------------------------
(* What a step does to the queue and the status hash *)

\* The insertion of request r, as the rest of the system sees it.
Inserts(r) ==
  \E jd \in Details :
    /\ jd.id \in CollectionIds
    /\ jd.state = "pending"
    /\ jd.loc = Null
    /\ EnqueueJob(jd)
    /\ orphaned' = orphaned \ {jd.id}
    /\ reopened' = reopened \ {jd.id}

\* A step of a request inserts a pending job or leaves queue and hash alone.
LEMMA FrontendEffect ==
  ASSUME TypeOK, NEW r \in Requests, FrontendActs(r)
  PROVE  Inserts(r) \/ UNCHANGED <<queue, status, orphaned, reopened>>
  <1>1. CASE UNCHANGED <<queue, status>>
    BY <1>1 DEF FrontendActs, FrontendRecord
  <1>2. CASE req[r].pc = "push" /\ Insert(r)
    <2>. DEFINE writer == ResolveWriter(req[r].par.writer)
                jd == NewJobDetails(req[r].par.id, req[r].book, writer, now)
    <2>1. req[r].par.id \in CollectionIds /\ req[r].book \in Books /\ now \in Nat
      BY <1>2, FrontendAssumption DEF TypeOK, RequestTypeOK, Settled, StoreTypeOK
    <2>2. writer \in Writers \union {NoWriter}
      BY <1>2 DEF TypeOK, RequestTypeOK, Settled
    <2>3. jd \in Details /\ jd.id = req[r].par.id /\ jd.loc = Null
      BY <2>1, <2>2, NewJobDetailsType DEF Keys
    <2>4. jd.state = "pending"
      BY DEF NewJobDetails
    <2>5. EnqueueJob(jd)
      BY <1>2 DEF Insert
    <2>. HIDE DEF jd
    <2>6. queue' # queue
      BY <2>3, <2>5 DEF EnqueueJob, TypeOK, StoreTypeOK, Details
    <2>7. orphaned' = orphaned \ {jd.id} /\ reopened' = reopened \ {jd.id}
      BY <2>3, <2>6 DEF FrontendActs, FrontendRecord
    <2>. QED
      BY <2>1, <2>3, <2>4, <2>5, <2>7 DEF Inserts
  <1>. QED
    BY <1>1, <1>2 DEF FrontendActs, FrontendStep, HandleRender, FrontendAdvance, storeVars,
       DetermineCachedStatus, CanIRender, AddRenderJob, RedisFails

\* A report of worker w: jd goes into its memory and into redis.
Reports(w, jd) ==
  /\ jd \in Details
  /\ jd.id = item[w]
  /\ details[w] # Null
  /\ status' = [status EXCEPT ![item[w]] = jd]
  /\ details' = [details EXCEPT ![w] = jd]
  /\ ~Over(w)
  /\ UNCHANGED <<queue, item>>

ReportsProgress(w) ==
  /\ \E jd \in Details : Reports(w, jd) /\ jd.state = "progress" /\ jd.loc = details[w].loc
  /\ wpc' \in [Workers -> WorkerPCs]
  /\ wpc' = [wpc EXCEPT ![w] = wpc'[w]]
  /\ wpc'[w] \notin {"waiting", "popped", "cleanup"}
  /\ UNCHANGED outputs

ReportsOutcome(w) ==
  /\ \E jd \in Details :
       /\ Reports(w, jd)
       /\ jd.state \in Terminal
       /\ \/ jd.loc = details[w].loc
          \/ jd.loc = HostOf[w] /\ <<HostOf[w], item[w]>> \in outputs
  /\ wpc' = [wpc EXCEPT ![w] = "cleanup"]
  /\ UNCHANGED outputs

\* Worker w goes on with its job and tells nobody.
WorksOn(w) ==
  /\ UNCHANGED <<queue, status, item>>
  /\ \/ UNCHANGED details
     \/ \E jd \in Details : /\ details[w] # Null
                            /\ jd.id = details[w].id /\ jd.loc = details[w].loc
                            /\ details' = [details EXCEPT ![w] = jd]
  /\ ~Over(w)
  /\ wpc' = [wpc EXCEPT ![w] = wpc'[w]]
  /\ wpc'[w] \notin {"waiting", "popped", "cleanup"}
  /\ outputs \subseteq outputs'

\* A child of a job that worker w is through with is heard.
Echoes(w) ==
  /\ Over(w)
  /\ details[w] \in Details
  /\ \E jd \in Details :
       /\ jd.id = details[w].id
       /\ jd.state = "progress"
       /\ jd.loc = details[w].loc
       /\ details' = [details EXCEPT ![w] = jd]
       /\ status' = [status EXCEPT ![details[w].id] = jd] \/ UNCHANGED status
  /\ UNCHANGED <<queue, wpc, item, scratch, files, outputs>>

\* Redis refuses the outcome of worker w's job.
LosesOutcome(w) ==
  /\ \E jd \in Details :
       /\ jd.id = item[w]
       /\ details' = [details EXCEPT ![w] = jd]
       /\ \/ jd.loc = details[w].loc
          \/ jd.loc = HostOf[w] /\ <<HostOf[w], item[w]>> \in outputs
  /\ details[w] # Null
  /\ details[w].id = item[w]
  /\ wpc[w] \in {"rendered", "failing"}
  /\ wpc' = [wpc EXCEPT ![w] = "cleanup"]
  /\ UNCHANGED <<queue, status, item, scratch, files, outputs>>

\* That is what a lost report does.
LEMMA LossEffect ==
  ASSUME TypeOK, NEW w \in Workers, ReportLost(w)
  PROVE  LosesOutcome(w)
  <1>. USE DEF TypeOK
  <1>1. /\ details[w] \in Details /\ details[w] # Null /\ now \in Nat
        /\ details[w].id = item[w]
        /\ wpc[w] \in {"rendered", "failing"}
    BY DEF ReportLost, BackendTypeOK, StoreTypeOK
  <1>. DEFINE failed == UpdateError(details[w], now)
              finished == UpdateFinished(details[w], HostOf[w], now)
  <1>2. /\ failed \in Details /\ failed.loc = details[w].loc /\ failed.id = details[w].id
        /\ finished \in Details /\ finished.loc = HostOf[w] /\ finished.id = details[w].id
    <2>1. HostOf[w] \in Hosts
      BY BackendAssumption
    <2>2. failed \in Details /\ failed.loc = details[w].loc /\ failed.id = details[w].id
      BY <1>1, UpdateType
    <2>3. finished \in Details /\ finished.loc = HostOf[w] /\ finished.id = details[w].id
      BY <1>1, <2>1, UpdateFinishedType
    <2>. QED
      BY <2>2, <2>3
  <1>3. \/ details' = [details EXCEPT ![w] = finished] /\ <<HostOf[w], item[w]>> \in outputs
        \/ details' = [details EXCEPT ![w] = failed]
    BY DEF ReportLost, Output
  <1>. HIDE DEF failed, finished
  <1>4. PICK jd \in Details :
          /\ jd.id = item[w]
          /\ details' = [details EXCEPT ![w] = jd]
          /\ \/ jd.loc = details[w].loc
             \/ jd.loc = HostOf[w] /\ <<HostOf[w], item[w]>> \in outputs
    BY <1>1, <1>2, <1>3
  <1>5. /\ wpc' = [wpc EXCEPT ![w] = "cleanup"]
        /\ UNCHANGED <<queue, status, item, scratch, files, outputs>>
    BY DEF ReportLost, Wpc, storeVars
  <1>. QED
    BY <1>1, <1>4, <1>5 DEF LosesOutcome

\* Every step of a worker is a pick-up, a fetch, a report, the end of its job, a
\* late report or something that nobody else sees.
LEMMA BackendEffect ==
  ASSUME TypeOK, NEW w \in Workers, BackendStep(w)
  PROVE  \/ GetNewItemFromQueue(w) \/ NewItemFromQueue(w) \/ Cleanup(w)
         \/ ReportsProgress(w) \/ ReportsOutcome(w) \/ WorksOn(w) \/ Echoes(w)
  <1>. USE DEF TypeOK, Wpc, Over
  <1>. DEFINE progress == UpdateProgress(details[w], now)
  <1>1. ASSUME wpc[w] \notin {"waiting", "popped"}
        PROVE  /\ details[w] \in Details /\ details[w].id = item[w] /\ now \in Nat
               /\ details[w] # Null
               /\ progress \in Details /\ progress.id = item[w] /\ progress.state = "progress"
               /\ progress.loc = details[w].loc
    <2>1. /\ details[w] \in Details /\ details[w].id = item[w] /\ now \in Nat
          /\ details[w] # Null
      BY <1>1 DEF BackendTypeOK, StoreTypeOK
    <2>2. progress.state = "progress"
      BY <2>1 DEF UpdateProgress, Details
    <2>. QED
      BY <2>1, <2>2, UpdateType
  <1>2. ASSUME Publish(w, progress), UNCHANGED <<queue, item, outputs>>,
               wpc[w] \notin {"waiting", "popped", "cleanup"},
               wpc' \in [Workers -> WorkerPCs],
               wpc' = [wpc EXCEPT ![w] = wpc'[w]],
               wpc'[w] \notin {"waiting", "popped", "cleanup"}
        PROVE  ReportsProgress(w)
    BY <1>1, <1>2 DEF ReportsProgress, Reports, Publish, HSet
  <1>. HIDE DEF progress
  <1>3. BackendTypeOK'
    BY BackendType
  <1>4. CASE RunBundler(w)
    <2>1. CASE details' = [details EXCEPT ![w] = progress] /\ HSet(progress)
      BY <1>2, <1>3, <1>4, <2>1 DEF RunBundler, BackendTypeOK, WorksOn, Publish
    <2>2. CASE details' = [details EXCEPT ![w] = progress] /\ UNCHANGED status
      BY <1>1, <1>4, <2>2 DEF RunBundler, BackendTypeOK, WorksOn
    <2>3. CASE UNCHANGED <<status, details>>
      BY <1>4, <2>3 DEF RunBundler, BackendTypeOK, WorksOn
    <2>. QED
      BY <1>4, <2>1, <2>2, <2>3 DEF RunBundler, Report, progress
  <1>5. CASE ProcessReceivedMessage(w)
    <2>1. CASE ~Over(w)
      <3>1. CASE details' = [details EXCEPT ![w] = progress] /\ HSet(progress)
        BY <1>2, <1>3, <1>5, <2>1, <3>1 DEF ProcessReceivedMessage, BackendTypeOK, Publish
      <3>2. CASE details' = [details EXCEPT ![w] = progress] /\ UNCHANGED status
        BY <1>1, <1>5, <2>1, <3>2 DEF ProcessReceivedMessage, BackendTypeOK, WorksOn
      <3>. QED
        BY <1>5, <3>1, <3>2 DEF ProcessReceivedMessage, Report, progress
    <2>2. CASE Over(w)
      <3>1. details[w] \in Details /\ now \in Nat
        BY <1>5 DEF ProcessReceivedMessage, ChildHeard, BackendTypeOK, StoreTypeOK
      <3>2. /\ progress \in Details /\ progress.id = details[w].id
            /\ progress.loc = details[w].loc
        BY <3>1, UpdateType DEF progress
      <3>3. progress.state = "progress"
        BY <3>1 DEF progress, UpdateProgress, Details
      <3>. QED
        BY <1>5, <2>2, <3>1, <3>2, <3>3
           DEF ProcessReceivedMessage, Report, HSet, Echoes, progress
    <2>. QED
      BY <2>1, <2>2
  <1>6. CASE BundlerExits(w)
    BY <1>6 DEF BundlerExits, BackendTypeOK, WorksOn, storeVars
  <1>7. CASE RunRenderer(w)
    <2>1. CASE details' = [details EXCEPT ![w] = progress] /\ HSet(progress)
      BY <1>2, <1>3, <1>7, <2>1 DEF RunRenderer, BackendTypeOK, WorksOn, Publish
    <2>2. CASE details' = [details EXCEPT ![w] = progress] /\ UNCHANGED status
      BY <1>1, <1>7, <2>2 DEF RunRenderer, BackendTypeOK, WorksOn
    <2>3. CASE UNCHANGED <<status, details>>
      BY <1>7, <2>3 DEF RunRenderer, BackendTypeOK, WorksOn
    <2>. QED
      BY <1>7, <2>1, <2>2, <2>3 DEF RunRenderer, Report, Publish, progress
  <1>8. CASE RendererExits(w)
    BY <1>8 DEF RendererExits, BackendTypeOK, WorksOn, storeVars
  <1>9. CASE Finish(w)
    <2>1. CASE wpc' = [wpc EXCEPT ![w] = "failing"] /\ UNCHANGED <<status, details>>
      BY <1>9, <2>1 DEF Finish, BackendTypeOK, WorksOn
    <2>. DEFINE jd == UpdateFinished(details[w], HostOf[w], now)
    <2>2. /\ jd \in Details /\ jd.id = item[w] /\ jd.loc = HostOf[w]
          /\ details[w] # Null
      BY <1>1, <1>9, UpdateFinishedType, BackendAssumption DEF Finish
    <2>3. jd.state \in Terminal
      BY <1>1, <1>9 DEF Finish, UpdateFinished, Details, Terminal
    <2>. HIDE DEF jd
    <2>4. CASE /\ Output(w) \in outputs
               /\ Publish(w, jd) /\ wpc' = [wpc EXCEPT ![w] = "cleanup"]
      BY <1>9, <2>2, <2>3, <2>4 DEF Finish, ReportsOutcome, Reports, Publish, HSet, Output
    <2>. QED
      BY <1>9, <2>1, <2>4 DEF Finish, jd
  <1>10. CASE ReportError(w)
    <2>. DEFINE jd == UpdateError(details[w], now)
    <2>1. /\ jd \in Details /\ jd.id = item[w] /\ jd.loc = details[w].loc
          /\ details[w] # Null
      BY <1>1, <1>10, UpdateType DEF ReportError
    <2>2. jd.state \in Terminal
      BY <1>1, <1>10 DEF ReportError, UpdateError, Details, Terminal
    <2>3. Publish(w, jd)
      BY <1>10 DEF ReportError
    <2>. HIDE DEF jd
    <2>. QED
      BY <1>10, <2>1, <2>2, <2>3 DEF ReportError, ReportsOutcome, Reports, Publish, HSet
  <1>. QED
    BY <1>4, <1>5, <1>6, <1>7, <1>8, <1>9, <1>10 DEF BackendStep, BackendAdvance

\* What the record keeps of such a step.
LEMMA RecordEffect ==
  ASSUME TypeOK, NEW w \in Workers, BackendActs(w)
  PROVE  /\ UNCHANGED <<crashes, orphaned, littered>>
         /\ ReportsOutcome(w) => reopened' = reopened \ {item[w]}
         /\ ReportsProgress(w) \/ WorksOn(w) => UNCHANGED reopened
         /\ Over(w) /\ UNCHANGED status => UNCHANGED reopened
         /\ Over(w) /\ status' # status => reopened' = reopened \union {details[w].id}
  <1>1. wpc \in [Workers -> WorkerPCs]
    BY DEF TypeOK, BackendTypeOK
  <1>2. ReportsOutcome(w) => ~Over(w) /\ wpc'[w] = "cleanup"
    BY <1>1 DEF ReportsOutcome, Reports
  <1>3. ReportsProgress(w) \/ WorksOn(w) => ~Over(w) /\ wpc'[w] # "cleanup"
    BY DEF ReportsProgress, Reports, WorksOn
  <1>. QED
    BY <1>2, <1>3 DEF BackendActs, BackendRecord

-----------------------------------------------------------------------------
(* No phantom jobs *)

\* In the initial states nothing is queued and nobody works.
LEMMA InitPickup == Init => PickupHasStatus
  BY JobDetailsAssumption DEF Init, StoreInit, BackendInit, PickupHasStatus

\* Every step keeps a status under each id that is queued or popped.
LEMMA StepPickup ==
  ASSUME TypeOK, PickupHasStatus, [Next]_vars
  PROVE  PickupHasStatus'
  <1>. USE DEF TypeOK
  <1>1. ASSUME NEW r \in Requests, FrontendActs(r) PROVE PickupHasStatus'
    <2>1. UNCHANGED <<wpc, item>>
      BY <1>1 DEF FrontendActs, backendVars
    <2>2. CASE UNCHANGED <<queue, status>>
      BY <2>1, <2>2 DEF PickupHasStatus
    <2>3. CASE Inserts(r)
      <3>1. PICK jd \in Details : jd.id \in CollectionIds /\ EnqueueJob(jd)
        BY <2>3 DEF Inserts
      <3>2. jd # Null /\ jd.id # PhantomId /\ jd.id \in Keys
        BY <3>1, NullAssumption, JobDetailsAssumption DEF Keys
      <3>3. \A k \in Keys : status[k] # Null => status'[k] # Null
        BY <3>1, <3>2 DEF EnqueueJob, StoreTypeOK
      <3>4. \A i \in 1..Len(queue') : queue'[i] # PhantomId /\ status'[queue'[i]] # Null
        <4>1. \A i \in 1..Len(queue) : queue[i] \in Keys
          BY DEF StoreTypeOK
        <4>2. \A i \in 1..Len(queue') :
                 (i \in 1..Len(queue) /\ queue'[i] = queue[i]) \/ queue'[i] = jd.id
          BY <3>1, <3>2 DEF EnqueueJob, StoreTypeOK
        <4>3. status'[jd.id] # Null
          BY <3>1, <3>2 DEF EnqueueJob, StoreTypeOK
        <4>. QED
          BY <3>2, <3>3, <4>1, <4>2, <4>3 DEF PickupHasStatus
      <3>5. ASSUME NEW w \in Workers, wpc[w] = "popped" PROVE item[w] \in Keys
        BY <3>5 DEF BackendTypeOK
      <3>. QED
        BY <2>1, <3>3, <3>4, <3>5 DEF PickupHasStatus
    <2>. QED
      BY <1>1, <2>2, <2>3, FrontendEffect
  <1>2. ASSUME NEW w \in Workers, BackendActs(w) PROVE PickupHasStatus'
    <2>1. CASE GetNewItemFromQueue(w)
      <3>1. Head(queue) = queue[1] /\ 1 \in 1..Len(queue)
        BY <2>1 DEF GetNewItemFromQueue, StoreTypeOK
      <3>2. \A i \in 1..Len(queue') : i + 1 \in 1..Len(queue) /\ queue'[i] = queue[i + 1]
        BY <2>1 DEF GetNewItemFromQueue, StoreTypeOK
      <3>. QED
        BY <2>1, <3>1, <3>2 DEF GetNewItemFromQueue, PickupHasStatus, Wpc, BackendTypeOK
    <2>2. CASE NewItemFromQueue(w)
      <3>1. item[w] \in Keys /\ status[item[w]] # Null
        BY <2>2 DEF NewItemFromQueue, PickupHasStatus, BackendTypeOK
      <3>2. status[item[w]] \in Details /\ status[item[w]].id = item[w]
        BY <3>1 DEF StoreTypeOK
      <3>3. [status[item[w]] EXCEPT !.host = HostOf[w]].id = item[w]
        BY <3>2 DEF Details
      <3>4. item' = item /\ wpc' = [wpc EXCEPT ![w] = "fetched"] /\ UNCHANGED <<queue, status>>
        BY <2>2, <3>1, <3>3 DEF NewItemFromQueue, FromJson, Wpc, storeVars, BackendTypeOK
      <3>. QED
        BY <3>4 DEF PickupHasStatus, BackendTypeOK
    <2>3. CASE Cleanup(w)
      BY <2>3, JobDetailsAssumption
         DEF Cleanup, Forget, Leave, Wpc, storeVars, PickupHasStatus, BackendTypeOK
    <2>4. ASSUME NEW jd \in Details, status' = [status EXCEPT ![jd.id] = jd],
                 UNCHANGED <<queue, item>>,
                 \A v \in Workers : wpc'[v] = "popped" => wpc[v] = "popped"
          PROVE  PickupHasStatus'
      <3>1. jd # Null
        BY <2>4, NullAssumption
      <3>2. \A k \in Keys : status[k] # Null => status'[k] # Null
        BY <2>4, <3>1 DEF StoreTypeOK
      <3>3. \A i \in 1..Len(queue) : queue[i] \in Keys
        BY DEF StoreTypeOK
      <3>4. \A v \in Workers : wpc'[v] = "popped" => item[v] \in Keys /\ wpc[v] = "popped"
        BY <2>4 DEF BackendTypeOK
      <3>. QED
        BY <2>4, <3>2, <3>3, <3>4 DEF PickupHasStatus
    <2>5. CASE ReportsProgress(w)
      <3>1. PICK jd \in Details : Reports(w, jd)
        BY <2>5 DEF ReportsProgress
      <3>2. \A v \in Workers : wpc'[v] = "popped" => wpc[v] = "popped"
        BY <2>5 DEF ReportsProgress, BackendTypeOK
      <3>. QED
        BY <2>4, <3>1, <3>2 DEF Reports
    <2>6. CASE ReportsOutcome(w)
      <3>1. PICK jd \in Details : Reports(w, jd)
        BY <2>6 DEF ReportsOutcome
      <3>2. \A v \in Workers : wpc'[v] = "popped" => wpc[v] = "popped"
        BY <2>6 DEF ReportsOutcome, BackendTypeOK
      <3>. QED
        BY <2>4, <3>1, <3>2 DEF Reports
    <2>8. CASE Echoes(w)
      <3>1. CASE UNCHANGED status
        BY <2>8, <3>1 DEF Echoes, PickupHasStatus
      <3>2. CASE \E jd \in Details :
                   jd.id = details[w].id /\ status' = [status EXCEPT ![details[w].id] = jd]
        BY <2>4, <2>8, <3>2 DEF Echoes
      <3>. QED
        BY <2>8, <3>1, <3>2 DEF Echoes
    <2>7. CASE WorksOn(w)
      BY <2>7 DEF WorksOn, PickupHasStatus, BackendTypeOK
    <2>. QED
      BY <1>2, <2>1, <2>2, <2>3, <2>5, <2>6, <2>7, <2>8, BackendEffect DEF BackendActs
  <1>3. ASSUME NEW w \in Workers, WorkerDies(w) PROVE PickupHasStatus'
    BY <1>3, JobDetailsAssumption
       DEF WorkerDies, Crash, Leave, Wpc, storeVars, PickupHasStatus, BackendTypeOK
  <1>4. CASE TimePasses
    BY <1>4 DEF TimePasses, Tick, backendVars, PickupHasStatus
  <1>5. CASE UNCHANGED vars
    BY <1>5 DEF vars, storeVars, backendVars, PickupHasStatus
  <1>6. ASSUME NEW w \in Workers, WorkerUnheard(w) PROVE PickupHasStatus'
    BY <1>6, LossEffect DEF WorkerUnheard, LosesOutcome, PickupHasStatus, BackendTypeOK
  <1>. QED
    BY <1>1, <1>2, <1>3, <1>4, <1>5, <1>6 DEF Next

\* What a worker picks up has a status object of its own: no phantom job runs.
THEOREM NoPhantom == Spec => []PickupHasStatus
  <1>1. TypeOK /\ PickupHasStatus /\ [Next]_vars => (TypeOK /\ PickupHasStatus)'
    BY StepType, StepPickup
  <1>. QED
    BY <1>1, InitType, InitPickup, PTL DEF Spec

-----------------------------------------------------------------------------
(* The service implements the job board *)

\* A written status shows on the board.
LEMMA ShownAfterWrite ==
  ASSUME StoreTypeOK, NEW k \in Keys, NEW jd \in Details,
         status' = [status EXCEPT ![k] = jd]
  PROVE  ShownState' = [ShownState EXCEPT ![k] = jd.state]
  <1>1. jd # Null
    BY NullAssumption
  <1>. QED
    BY <1>1 DEF ShownState, StoreTypeOK

\* The initial state is the initial state of a board.
LEMMA InitBoard == Init => Board!Init
  BY DEF Init, StoreInit, BackendInit, Board!Init, ShownState, Desk, Busy,
         Cleared

\* A worker with a job has it on its desk, and has not cleared it off.
LEMMA DeskOfBusy ==
  ASSUME TypeOK, NEW w \in Workers, ~Over(w), item[w] # Null
  PROVE  Desk[w] = item[w] /\ Cleared[w] = Null
  BY DEF Over, Desk, Busy, Cleared, TypeOK, BackendTypeOK

\* A step of a worker within its job moves nothing on or off a desk.
LEMMA SameDesks ==
  ASSUME TypeOK, NEW w \in Workers, ~Over(w), UNCHANGED item,
         wpc' = [wpc EXCEPT ![w] = wpc'[w]], wpc'[w] \notin {"waiting", "popped", "cleanup"},
         \E jd : details' = [details EXCEPT ![w] = jd]
  PROVE  Desk' = Desk /\ Cleared' = Cleared
  <1>. USE DEF TypeOK, BackendTypeOK
  <1>1. \A v \in Workers : v # w => wpc'[v] = wpc[v] /\ details'[v] = details[v]
    OBVIOUS
  <1>2. Desk' = Desk
    BY <1>1 DEF Over, Desk, Busy
  <1>3. \A v \in Workers : v # w => (Over(v)' <=> Over(v))
    BY <1>1 DEF Over
  <1>4. ~Over(w)'
    BY DEF Over
  <1>5. Cleared' = Cleared
    BY <1>1, <1>3, <1>4 DEF Cleared
  <1>. QED
    BY <1>2, <1>5

\* A worker whose outcome is out, heard or not, has cleared its job off its desk.
LEMMA DeskCleared ==
  ASSUME TypeOK, NEW w \in Workers, ~Over(w), UNCHANGED item,
         wpc' = [wpc EXCEPT ![w] = "cleanup"],
         NEW jd \in Details, jd.id = item[w], details' = [details EXCEPT ![w] = jd]
  PROVE  /\ Desk' = [Desk EXCEPT ![w] = Null]
         /\ Cleared' = [Cleared EXCEPT ![w] = item[w]]
  <1>. USE DEF TypeOK, BackendTypeOK
  <1>1. \A v \in Workers : v # w => wpc'[v] = wpc[v] /\ details'[v] = details[v]
    OBVIOUS
  <1>2. Desk' = [Desk EXCEPT ![w] = Null]
    BY <1>1 DEF Desk, Busy
  <1>3. \A v \in Workers : v # w => (Over(v)' <=> Over(v))
    BY <1>1 DEF Over
  <1>4. Over(w)' /\ details'[w] = jd /\ jd # Null
    BY NullAssumption DEF Over
  <1>5. Cleared' = [Cleared EXCEPT ![w] = item[w]]
    BY <1>1, <1>3, <1>4 DEF Cleared
  <1>. QED
    BY <1>2, <1>5

\* A worker that drops the details of the job it is through with falls silent.
LEMMA FallsSilent ==
  ASSUME TypeOK, NEW w \in Workers,
         UNCHANGED <<queue, status, orphaned, reopened>>, Desk' = Desk,
         Cleared' = Cleared \/ Cleared' = [Cleared EXCEPT ![w] = Null]
  PROVE  [Board!Next]_Board!boardVars
  BY DEF Board!Next, Board!Quiet, Board!boardVars, ShownState

\* Every step but the one in which a worker reads the status of its job is a step
\* of the board or none.
LEMMA StepBoardOrPickup ==
  ASSUME TypeOK, [Next]_vars
  PROVE  \/ [Board!Next]_Board!boardVars
         \/ \E w \in Workers : BackendActs(w) /\ NewItemFromQueue(w)
  <1>. USE DEF TypeOK
  <1>1. ASSUME NEW r \in Requests, FrontendActs(r) PROVE [Board!Next]_Board!boardVars
    <2>1. Desk' = Desk /\ Cleared' = Cleared
      BY <1>1 DEF FrontendActs, backendVars, Desk, Busy, Cleared, Over
    <2>2. CASE UNCHANGED <<queue, status, orphaned, reopened>>
      BY <2>1, <2>2 DEF Board!boardVars, ShownState
    <2>3. CASE Inserts(r)
      <3>1. PICK jd \in Details : /\ jd.id \in CollectionIds
                                  /\ jd.state = "pending"
                                  /\ EnqueueJob(jd)
                                  /\ orphaned' = orphaned \ {jd.id}
                                  /\ reopened' = reopened \ {jd.id}
        BY <2>3 DEF Inserts
      <3>2. jd.id \in Keys
        BY <3>1 DEF Keys
      <3>3. ShownState' = [ShownState EXCEPT ![jd.id] = "pending"]
        BY <3>1, <3>2, ShownAfterWrite DEF EnqueueJob
      <3>4. Board!Accept(jd.id)
        BY <2>1, <3>1, <3>3 DEF Board!Accept, EnqueueJob
      <3>. QED
        BY <3>2, <3>4 DEF Board!Next
    <2>. QED
      BY <1>1, <2>2, <2>3, FrontendEffect
  <1>2. ASSUME NEW w \in Workers, BackendActs(w), ~NewItemFromQueue(w)
        PROVE  [Board!Next]_Board!boardVars
    <2>1. UNCHANGED orphaned
      BY <1>2, RecordEffect
    <2>2. CASE GetNewItemFromQueue(w)
      <3>1. ~Busy(w) /\ Desk[w] = Null /\ Over(w)
        BY <2>2 DEF GetNewItemFromQueue, Busy, Desk, Over
      <3>2. Desk' = [Desk EXCEPT ![w] = Head(queue)]
        BY <2>2 DEF GetNewItemFromQueue, Wpc, Busy, Desk, BackendTypeOK
      <3>3. Cleared' = Cleared
        BY <2>2 DEF GetNewItemFromQueue, Wpc, Cleared, Over, BackendTypeOK
      <3>4. UNCHANGED reopened
        BY <1>2, <2>2, <3>1, RecordEffect DEF GetNewItemFromQueue
      <3>5. Board!Take(w)
        BY <2>1, <2>2, <3>1, <3>2, <3>3, <3>4 DEF GetNewItemFromQueue, Board!Take, ShownState
      <3>. QED
        BY <3>5 DEF Board!Next
    <2>3. CASE Echoes(w)
      <3>1. PICK jd \in Details :
              /\ jd.id = details[w].id /\ jd.state = "progress"
              /\ details' = [details EXCEPT ![w] = jd]
              /\ status' = [status EXCEPT ![details[w].id] = jd] \/ UNCHANGED status
        BY <2>3 DEF Echoes
      <3>2. details[w].id \in Keys /\ details[w] # Null /\ Over(w) /\ jd # Null
        BY <2>3, NullAssumption DEF Echoes, Details
      <3>3. Desk' = Desk
        BY <2>3 DEF Echoes, Desk, Busy
      <3>4. Cleared' = Cleared
        BY <2>3, <3>1, <3>2 DEF Echoes, Cleared, Over, BackendTypeOK
      <3>5. CASE UNCHANGED status
        BY <1>2, <2>1, <2>3, <3>2, <3>3, <3>4, <3>5, RecordEffect
           DEF Echoes, Board!boardVars, ShownState
      <3>6. CASE status' = [status EXCEPT ![details[w].id] = jd] /\ status' # status
        <4>1. ShownState' = [ShownState EXCEPT ![details[w].id] = "progress"]
          BY <3>1, <3>2, <3>6, ShownAfterWrite
        <4>2. Cleared[w] = details[w].id /\ Cleared[w] # Null
          BY <3>2, JobDetailsAssumption DEF Cleared, Keys
        <4>3. reopened' = reopened \union {details[w].id}
          BY <1>2, <3>2, <3>6, RecordEffect
        <4>4. Board!Echo(w)
          BY <2>1, <2>3, <3>3, <3>4, <4>1, <4>2, <4>3 DEF Echoes, Board!Echo
        <4>. QED
          BY <4>4 DEF Board!Next
      <3>. QED
        BY <3>1, <3>5, <3>6
    <2>4. CASE Cleanup(w)
      <3>1. Desk' = Desk
        BY <2>4 DEF Cleanup, Forget, Leave, Wpc, Desk, Busy, BackendTypeOK
      <3>2. Cleared' = Cleared \/ Cleared' = [Cleared EXCEPT ![w] = Null]
        <4>1. Over(w) /\ \A v \in Workers : Over(v)' <=> Over(v)
          BY <2>4 DEF Cleanup, Forget, Leave, Wpc, Over, BackendTypeOK
        <4>2. UNCHANGED details \/ details' = [details EXCEPT ![w] = Null]
          BY <2>4 DEF Cleanup, Forget, BackendTypeOK
        <4>. QED
          BY <4>1, <4>2 DEF Cleared, BackendTypeOK
      <3>3. UNCHANGED <<queue, status>> /\ Over(w)
        BY <2>4 DEF Cleanup, storeVars, Over
      <3>4. UNCHANGED reopened
        BY <1>2, <3>3, RecordEffect
      <3>. QED
        BY <2>1, <3>1, <3>2, <3>3, <3>4, FallsSilent
    <2>5. CASE ReportsProgress(w)
      <3>1. PICK jd \in Details : Reports(w, jd) /\ jd.state = "progress"
        BY <2>5 DEF ReportsProgress
      <3>2. item[w] \in Keys /\ item[w] # Null /\ ~Over(w)
        BY <3>1 DEF Reports, Details, Over, BackendTypeOK
      <3>3. Desk' = Desk /\ Cleared' = Cleared
        BY <2>5, <3>1, <3>2, SameDesks DEF ReportsProgress, Reports
      <3>4. ShownState' = [ShownState EXCEPT ![item[w]] = "progress"]
        BY <3>1, <3>2, ShownAfterWrite DEF Reports
      <3>5. Desk[w] = item[w]
        BY <3>2, DeskOfBusy
      <3>6. Board!Report(w)
        BY <1>2, <2>1, <2>5, <3>1, <3>2, <3>3, <3>4, <3>5, RecordEffect DEF Board!Report, Reports
      <3>. QED
        BY <3>6 DEF Board!Next
    <2>6. CASE ReportsOutcome(w)
      <3>1. PICK jd \in Details : Reports(w, jd) /\ jd.state \in Terminal
        BY <2>6 DEF ReportsOutcome
      <3>2. item[w] \in Keys /\ item[w] # Null /\ ~Over(w)
        BY <3>1 DEF Reports, Details, Over, BackendTypeOK
      <3>3. /\ Desk' = [Desk EXCEPT ![w] = Null]
            /\ Cleared' = [Cleared EXCEPT ![w] = item[w]]
        BY <2>6, <3>1, <3>2, DeskCleared DEF ReportsOutcome, Reports
      <3>4. ShownState' = [ShownState EXCEPT ![item[w]] = jd.state]
        BY <3>1, <3>2, ShownAfterWrite DEF Reports
      <3>5. Desk[w] = item[w]
        BY <3>2, DeskOfBusy
      <3>6. reopened' = reopened \ {item[w]}
        BY <1>2, <2>6, RecordEffect
      <3>7. Board!Settle(w)
        BY <2>1, <3>1, <3>2, <3>3, <3>4, <3>5, <3>6 DEF Board!Settle, Reports, Terminal
      <3>. QED
        BY <3>7 DEF Board!Next
    <2>7. CASE WorksOn(w)
      <3>1. \E jd : details' = [details EXCEPT ![w] = jd]
        <4>1. UNCHANGED details => details' = [details EXCEPT ![w] = details[w]]
          BY DEF BackendTypeOK
        <4>. QED
          BY <2>7, <4>1 DEF WorksOn
      <3>2. Desk' = Desk /\ Cleared' = Cleared
        BY <2>7, <3>1, SameDesks DEF WorksOn
      <3>3. UNCHANGED reopened
        BY <1>2, <2>7, RecordEffect
      <3>. QED
        BY <2>1, <2>7, <3>2, <3>3 DEF WorksOn, Board!boardVars, ShownState
    <2>. QED
      BY <1>2, <2>2, <2>3, <2>4, <2>5, <2>6, <2>7, BackendEffect DEF BackendActs
  <1>3. ASSUME NEW w \in Workers, WorkerDies(w) PROVE [Board!Next]_Board!boardVars
    <2>1. Desk' = [Desk EXCEPT ![w] = Null] /\ UNCHANGED <<queue, status, reopened>>
      BY <1>3 DEF WorkerDies, Crash, Leave, Wpc, storeVars, Desk, Busy, BackendTypeOK
    <2>4. Cleared' = [Cleared EXCEPT ![w] = Null]
      BY <1>3 DEF WorkerDies, Crash, Leave, Wpc, Cleared, Over, BackendTypeOK
    <2>2. CASE wpc[w] = "cleanup"
      <3>1. Desk[w] = Null /\ UNCHANGED orphaned
        BY <1>3, <2>2 DEF WorkerDies, Desk, Busy
      <3>2. Desk' = Desk
        BY <2>1, <3>1 DEF Desk
      <3>. QED
        BY <2>1, <2>4, <3>1, <3>2, FallsSilent
    <2>3. CASE wpc[w] # "cleanup"
      <3>1. Desk[w] = item[w] /\ Desk[w] # Null
        BY <1>3, <2>3 DEF WorkerDies, Crash, Desk, Busy, BackendTypeOK
      <3>2. orphaned' = orphaned \union {Desk[w]}
        BY <1>3, <2>3, <3>1 DEF WorkerDies
      <3>3. Board!GiveUp(w)
        BY <2>1, <2>4, <3>1, <3>2 DEF Board!GiveUp, ShownState
      <3>. QED
        BY <3>3 DEF Board!Next
    <2>. QED
      BY <2>2, <2>3
  <1>4. CASE TimePasses
    BY <1>4 DEF TimePasses, Tick, backendVars, historyVars, Board!boardVars, ShownState,
                Desk, Busy, Cleared, Over
  <1>5. CASE UNCHANGED vars
    BY <1>5 DEF vars, storeVars, backendVars, historyVars, Board!boardVars, ShownState,
                Desk, Busy, Cleared, Over
  <1>6. ASSUME NEW w \in Workers, WorkerUnheard(w) PROVE [Board!Next]_Board!boardVars
    <2>1. LosesOutcome(w)
      BY <1>6, LossEffect DEF WorkerUnheard
    <2>2. ~Over(w) /\ item[w] # Null
      BY <2>1 DEF LosesOutcome, Over, BackendTypeOK
    <2>3. /\ Desk' = [Desk EXCEPT ![w] = Null]
          /\ Cleared' = [Cleared EXCEPT ![w] = item[w]]
      BY <2>1, <2>2, DeskCleared DEF LosesOutcome
    <2>4. Desk[w] = item[w] /\ orphaned' = orphaned \union {Desk[w]} /\ UNCHANGED reopened
      BY <1>6, <2>2, DeskOfBusy DEF WorkerUnheard
    <2>5. Board!GiveUp(w)
      BY <2>1, <2>2, <2>3, <2>4 DEF Board!GiveUp, LosesOutcome, ShownState
    <2>. QED
      BY <2>5 DEF Board!Next
  <1>. QED
    BY <1>1, <1>2, <1>3, <1>4, <1>5, <1>6 DEF Next

\* A worker that finds the status of its job keeps the job, and does not hear of
\* the one before any more.
LEMMA PickupKeepsDesk ==
  ASSUME TypeOK, NEW w \in Workers, NewItemFromQueue(w), status[item[w]] # Null
  PROVE  /\ Desk' = Desk /\ Cleared' = [Cleared EXCEPT ![w] = Null]
         /\ UNCHANGED <<queue, status>>
  <1>. USE DEF TypeOK
  <1>1. item[w] \in Keys
    BY DEF NewItemFromQueue, BackendTypeOK
  <1>2. status[item[w]] \in Details /\ status[item[w]].id = item[w]
    BY <1>1 DEF StoreTypeOK
  <1>3. [status[item[w]] EXCEPT !.host = HostOf[w]].id = item[w]
    BY <1>2 DEF Details
  <1>4. /\ item' = item
        /\ wpc[w] = "popped"
        /\ wpc' = [wpc EXCEPT ![w] = "fetched"]
        /\ UNCHANGED <<queue, status>>
    BY <1>1, <1>3 DEF NewItemFromQueue, FromJson, Wpc, storeVars, BackendTypeOK
  <1>5. Cleared' = [Cleared EXCEPT ![w] = Null]
    BY <1>4 DEF NewItemFromQueue, Cleared, Over, BackendTypeOK
  <1>. QED
    BY <1>4, <1>5 DEF Desk, Busy, BackendTypeOK

\* Every step is a step of the board or none.
LEMMA StepBoard ==
  ASSUME TypeOK, PickupHasStatus, [Next]_vars
  PROVE  [Board!Next]_Board!boardVars
  <1>1. ASSUME NEW w \in Workers, BackendActs(w), NewItemFromQueue(w)
        PROVE  [Board!Next]_Board!boardVars
    <2>1. status[item[w]] # Null
      BY <1>1 DEF NewItemFromQueue, PickupHasStatus
    <2>2. /\ Desk' = Desk /\ Cleared' = [Cleared EXCEPT ![w] = Null]
          /\ UNCHANGED <<queue, status>>
      BY <1>1, <2>1, PickupKeepsDesk
    <2>3. UNCHANGED <<orphaned, reopened>>
      BY <1>1, <2>2, RecordEffect DEF NewItemFromQueue, Over
    <2>. QED
      BY <2>2, <2>3, FallsSilent
  <1>. QED
    BY <1>1, StepBoardOrPickup

\* The service is a job board: whatever the requests, the workers and their
\* crashes do, in every order, the statuses clients see change as on the board.
THEOREM Refinement == Spec => ImplementsBoard
  <1>1. TypeOK /\ PickupHasStatus /\ [Next]_vars => [Board!Next]_Board!boardVars
    BY StepBoard
  <1>. QED
    BY <1>1, InitBoard, TypeCorrect, NoPhantom, PTL DEF Spec, ImplementsBoard, Board!Spec

\* No status is stuck: a job shown as pending or in progress is queued, with a
\* worker, lost with its worker, or reopened by a late report.  The board promises
\* it, and the service is a board.
THEOREM NoStall == Spec => []NoSilentStall
  <1>1. Null \notin Keys
    BY JobDetailsAssumption DEF Keys
  <1>2. BoardProofs!Spec => []BoardProofs!Accounted
    BY <1>1, BoardProofs!JobsAccounted
  <1>3. Board!Init => BoardProofs!Init
    BY DEF Board!Init, BoardProofs!Init
  <1>4. [Board!Next]_Board!boardVars => [BoardProofs!Next]_BoardProofs!boardVars
    BY DEF Board!Next, Board!boardVars, Board!Accept, Board!Take, Board!Report, Board!Settle,
           Board!GiveUp, Board!Echo, Board!Quiet, BoardProofs!Next, BoardProofs!boardVars,
           BoardProofs!Accept, BoardProofs!Take, BoardProofs!Report, BoardProofs!Settle,
           BoardProofs!GiveUp, BoardProofs!Echo, BoardProofs!Quiet
  <1>5. TypeOK /\ BoardProofs!Accounted => NoSilentStall
    <2>. SUFFICES ASSUME TypeOK, BoardProofs!Accounted, NEW k \in Keys, status[k] # Null
                  PROVE  /\ status[k].state = "pending" =>
                              Queued(k) \/ OnDesk(k) \/ k \in orphaned
                         /\ status[k].state = "progress" =>
                              OnDesk(k) \/ k \in orphaned \union reopened
      BY DEF NoSilentStall
    <2>1. ShownState[k] = status[k].state
      BY DEF ShownState
    <2>2. (\E w \in Workers : Desk[w] = k) => OnDesk(k)
      BY <1>1 DEF Desk, OnDesk
    <2>. QED
      BY <2>1, <2>2 DEF BoardProofs!Accounted, Queued
  <1>. QED
    BY <1>2, <1>3, <1>4, <1>5, TypeCorrect, Refinement, PTL
       DEF ImplementsBoard, Board!Spec, BoardProofs!Spec

-----------------------------------------------------------------------------
(* Admission *)

\* The number of admitted requests changes by one insertion or one admission.
LEMMA AdmittedFinite == Admitted \subseteq Requests /\ IsFiniteSet(Admitted)
  BY ServiceAssumption, FS_Subset DEF Admitted

\* A request that was told there is room found the queue no longer than allowed.
LEMMA StepAdmission ==
  ASSUME TypeOK, AdmissionBound, [Next]_vars
  PROVE  AdmissionBound'
  <1>. SUFFICES ASSUME MaxQueue > 0
                PROVE  Len(queue') + Cardinality(Admitted') <= MaxQueue + Cardinality(Requests)
    BY DEF AdmissionBound
  <1>. USE DEF TypeOK
  <1>. DEFINE bound == MaxQueue + Cardinality(Requests)
  <1>1. /\ Len(queue) \in Nat /\ Len(queue') \in Nat
        /\ MaxQueue \in Nat /\ Cardinality(Requests) \in Nat
        /\ Cardinality(Admitted) \in Nat
        /\ Len(queue) + Cardinality(Admitted) <= bound
    <2>1. StoreTypeOK'
      BY StepType
    <2>. QED
      BY <2>1, AdmittedFinite, FS_CardinalityType, ServiceAssumption, FrontendAssumption
         DEF AdmissionBound, StoreTypeOK
  <1>2. ASSUME Admitted' = Admitted, Len(queue') <= Len(queue)
        PROVE  Len(queue') + Cardinality(Admitted') <= bound
    BY <1>1, <1>2
  <1>3. ASSUME NEW r \in Requests, FrontendActs(r)
        PROVE  Len(queue') + Cardinality(Admitted') <= bound
    <2>1. CASE HandleRender(r)
      <3>1. req[r].pc # "push" /\ req' = [req EXCEPT ![r] = req'[r]] /\ req'[r].pc # "push"
        BY <2>1 DEF HandleRender, RejectRender, AcceptRender, Throw, Answer, IdleRequest,
                    Settled, RequestTypeOK
      <3>2. Admitted' = Admitted
        BY <3>1 DEF Admitted, RequestTypeOK
      <3>. QED
        BY <1>2, <2>1, <3>2, <1>1 DEF HandleRender, storeVars
    <2>2. ASSUME HasRoom, UNCHANGED queue
          PROVE  Len(queue') + Cardinality(Admitted') <= bound
      <3>1. Admitted' \subseteq Requests
        BY DEF Admitted
      <3>2. Cardinality(Admitted') <= Cardinality(Requests)
        BY <3>1, ServiceAssumption, FS_Subset
      <3>3. Cardinality(Admitted') \in Nat
        BY <3>1, ServiceAssumption, FS_Subset, FS_CardinalityType
      <3>. QED
        BY <1>1, <2>2, <3>2, <3>3 DEF HasRoom
    <2>3. ASSUME req[r].pc # "push", UNCHANGED queue,
                 \/ \E code \in Codes, isCached \in BOOLEAN : Answer(r, code, isCached)
                 \/ \E book \in Books : Goto(r, "llen", book)
          PROVE  Len(queue') + Cardinality(Admitted') <= bound
      <3>1. req' = [req EXCEPT ![r] = req'[r]] /\ req'[r].pc # "push"
        BY <2>3 DEF Answer, Goto, IdleRequest, RequestTypeOK
      <3>2. Admitted' = Admitted
        BY <2>3, <3>1 DEF Admitted, RequestTypeOK
      <3>. QED
        BY <1>1, <1>2, <2>3, <3>2
    <2>4. AfterCacheMiss = "llen" /\ req[r].book \in Books
      BY FrontendAssumption DEF AfterCacheMiss, RequestTypeOK
    <2>5. CASE DetermineCachedStatus(r)
      <3>1. req[r].par.id \in Keys
        BY <2>5, FrontendAssumption DEF DetermineCachedStatus, RequestTypeOK, Keys, Settled
      <3>2. status[req[r].par.id] # Null => status[req[r].par.id].book \in Books
        BY <3>1 DEF StoreTypeOK, Details
      <3>. QED
        BY <2>3, <2>4, <2>5, <3>2 DEF DetermineCachedStatus, storeVars, Codes, HttpStatus
    <2>6. CASE CanIRender(r)
      BY <2>2, <2>3, <2>6 DEF CanIRender, storeVars, Throw, FrontendError, Codes
    <2>7. ASSUME req[r].pc = "push", \E code \in Codes : Answer(r, code, FALSE),
                 Insert(r) \/ UNCHANGED queue
          PROVE  Len(queue') + Cardinality(Admitted') <= bound
      <3>1. Admitted' = Admitted \ {r} /\ r \in Admitted
        BY <2>7 DEF Admitted, Answer, IdleRequest, RequestTypeOK
      <3>2. Cardinality(Admitted') = Cardinality(Admitted) - 1
        BY <3>1, AdmittedFinite, FS_RemoveElement
      <3>3. Len(queue') <= Len(queue) + 1
        <4>1. CASE Insert(r)
          BY <1>1, <4>1 DEF Insert, EnqueueJob, StoreTypeOK
        <4>2. CASE UNCHANGED queue
          BY <1>1, <4>2
        <4>. QED
          BY <2>7, <4>1, <4>2
      <3>. QED
        BY <1>1, <3>2, <3>3
    <2>8. CASE AddRenderJob(r)
      BY <2>7, <2>8 DEF AddRenderJob, Codes, HttpStatus
    <2>9. CASE RedisFails(r)
      BY <2>3, <2>4, <2>7, <2>9
         DEF RedisFails, Throw, FrontendError, Codes, HttpStatus
    <2>. QED
      BY <1>3, <2>1, <2>5, <2>6, <2>8, <2>9 DEF FrontendActs, FrontendStep, FrontendAdvance
  <1>4. ASSUME NEW w \in Workers, BackendActs(w) PROVE Len(queue') + Cardinality(Admitted') <= bound
    <2>1. Admitted' = Admitted
      BY <1>4 DEF BackendActs, Admitted
    <2>2. CASE GetNewItemFromQueue(w)
      BY <1>1, <1>2, <2>1, <2>2 DEF GetNewItemFromQueue, StoreTypeOK
    <2>3. CASE UNCHANGED queue
      BY <1>1, <1>2, <2>1, <2>3
    <2>. QED
      BY <1>4, <2>2, <2>3 DEF BackendActs, BackendStep, BackendAdvance, NewItemFromQueue,
         RunBundler, ProcessReceivedMessage, BundlerExits, RunRenderer, RendererExits, Finish,
         ReportError, Cleanup, storeVars
  <1>5. CASE \/ \E w \in Workers : WorkerDies(w) \/ WorkerUnheard(w)
             \/ TimePasses
             \/ UNCHANGED vars
    <2>1. UNCHANGED <<queue, req>>
      BY <1>5 DEF WorkerDies, Crash, WorkerUnheard, ReportLost, TimePasses, Tick, vars,
                  storeVars
    <2>2. Admitted' = Admitted
      BY <2>1 DEF Admitted
    <2>. QED
      BY <1>1, <1>2, <2>1, <2>2
  <1>. QED
    BY <1>3, <1>4, <1>5 DEF Next

\* However the requests interleave, the queue exceeds its limit by no more than
\* the number of requests that are served at the same time.
THEOREM Admission == Spec => []AdmissionBound
  <1>1. Init => AdmissionBound
    <2>. SUFFICES ASSUME Init PROVE AdmissionBound
      OBVIOUS
    <2>1. Admitted = {}
      BY DEF Init, FrontendInit, IdleRequest, Admitted
    <2>2. Len(queue) = 0
      BY DEF Init, StoreInit
    <2>. QED
      BY <2>1, <2>2, FS_EmptySet, FS_CardinalityType, ServiceAssumption, FrontendAssumption
         DEF AdmissionBound
  <1>2. TypeOK /\ AdmissionBound /\ [Next]_vars => (TypeOK /\ AdmissionBound)'
    BY StepType, StepAdmission
  <1>. QED
    BY <1>1, <1>2, InitType, PTL DEF Spec

-----------------------------------------------------------------------------
(* Downloads *)

\* A file that a worker remembers from the status it picked up exists as well:
\* it writes that status back with every report.
DownloadInv ==
  /\ DownloadServable
  /\ \A w \in Workers : details[w] # Null /\ details[w].loc # Null
       => <<details[w].loc, details[w].id>> \in outputs

\* No step lets a status or a worker name a file that does not exist.
LEMMA StepDownload ==
  ASSUME TypeOK, DownloadInv, [Next]_vars
  PROVE  DownloadInv'
  <1>. USE DEF TypeOK
  <1>1. ASSUME NEW r \in Requests, FrontendActs(r) PROVE DownloadInv'
    <2>1. UNCHANGED backendVars
      BY <1>1 DEF FrontendActs
    <2>2. CASE UNCHANGED status
      BY <2>1, <2>2 DEF backendVars, DownloadInv, DownloadServable
    <2>3. CASE Inserts(r)
      <3>1. PICK jd \in Details : jd.loc = Null /\ status' = [status EXCEPT ![jd.id] = jd]
        BY <2>3 DEF Inserts, EnqueueJob
      <3>. QED
        BY <2>1, <3>1 DEF backendVars, DownloadInv, DownloadServable, StoreTypeOK
    <2>. QED
      BY <1>1, <2>2, <2>3, FrontendEffect
  <1>2. ASSUME NEW w \in Workers, BackendActs(w) PROVE DownloadInv'
    <2>1. CASE GetNewItemFromQueue(w)
      BY <2>1 DEF GetNewItemFromQueue, DownloadInv, DownloadServable, BackendTypeOK
    <2>2. CASE NewItemFromQueue(w)
      <3>. DEFINE jd == [FromJson(status[item[w]], now) EXCEPT !.host = HostOf[w]]
      <3>1. item[w] \in Keys
        BY <2>2 DEF NewItemFromQueue, BackendTypeOK
      <3>2. jd.loc # Null => <<jd.loc, jd.id>> \in outputs
        <4>1. CASE status[item[w]] = Null
          BY <4>1 DEF FromJson, NewJobDetails
        <4>2. CASE status[item[w]] # Null
          <5>1. status[item[w]] \in Details /\ status[item[w]].id = item[w]
            BY <3>1, <4>2 DEF StoreTypeOK
          <5>2. jd.loc = status[item[w]].loc /\ jd.id = item[w]
            BY <4>2, <5>1 DEF FromJson, Details
          <5>. QED
            BY <3>1, <4>2, <5>2 DEF DownloadInv, DownloadServable
        <4>. QED
          BY <4>1, <4>2
      <3>3. /\ details' = [details EXCEPT ![w] = jd]
            /\ item' = [item EXCEPT ![w] = jd.id]
            /\ UNCHANGED <<status, outputs>>
        BY <2>2 DEF NewItemFromQueue, storeVars
      <3>. HIDE DEF jd
      <3>. QED
        BY <3>2, <3>3 DEF DownloadInv, DownloadServable, BackendTypeOK
    <2>3. CASE Cleanup(w)
      BY <2>3 DEF Cleanup, Forget, storeVars, DownloadInv, DownloadServable, BackendTypeOK
    <2>4. ASSUME NEW jd \in Details, Reports(w, jd), UNCHANGED outputs,
                 \/ jd.loc = details[w].loc
                 \/ jd.loc = HostOf[w] /\ <<HostOf[w], item[w]>> \in outputs
          PROVE  DownloadInv'
      <3>1. details[w].id = item[w] /\ jd.id = item[w]
        BY <2>4 DEF Reports, Over, BackendTypeOK
      <3>2. jd.loc # Null => <<jd.loc, item[w]>> \in outputs
        BY <2>4, <3>1 DEF Reports, DownloadInv
      <3>. QED
        BY <2>4, <3>1, <3>2
           DEF Reports, DownloadInv, DownloadServable, StoreTypeOK, BackendTypeOK
    <2>5. CASE ReportsProgress(w)
      BY <2>4, <2>5 DEF ReportsProgress
    <2>6. CASE ReportsOutcome(w)
      BY <2>4, <2>6 DEF ReportsOutcome
    <2>7. CASE WorksOn(w)
      <3>1. UNCHANGED <<status, item>> /\ outputs \subseteq outputs'
        BY <2>7 DEF WorksOn
      <3>2. CASE UNCHANGED details
        BY <3>1, <3>2 DEF DownloadInv, DownloadServable
      <3>3. ASSUME NEW jd \in Details, jd.loc = details[w].loc, details[w] # Null,
                   jd.id = details[w].id,
                   details' = [details EXCEPT ![w] = jd]
            PROVE  DownloadInv'
        BY <3>1, <3>3 DEF DownloadInv, DownloadServable, BackendTypeOK
      <3>. QED
        BY <2>7, <3>2, <3>3 DEF WorksOn
    <2>8. CASE Echoes(w)
      <3>1. PICK jd \in Details :
              /\ jd.id = details[w].id /\ jd.loc = details[w].loc
              /\ details' = [details EXCEPT ![w] = jd]
              /\ status' = [status EXCEPT ![details[w].id] = jd] \/ UNCHANGED status
        BY <2>8 DEF Echoes
      <3>2. jd.loc # Null => <<jd.loc, jd.id>> \in outputs
        BY <2>8, <3>1, NullAssumption DEF Echoes, DownloadInv
      <3>3. UNCHANGED outputs
        BY <2>8 DEF Echoes
      <3>. QED
        BY <3>1, <3>2, <3>3 DEF DownloadInv, DownloadServable, StoreTypeOK, BackendTypeOK
    <2>. QED
      BY <1>2, <2>1, <2>2, <2>3, <2>5, <2>6, <2>7, <2>8, BackendEffect DEF BackendActs
  <1>3. ASSUME NEW w \in Workers, WorkerDies(w) PROVE DownloadInv'
    BY <1>3 DEF WorkerDies, Crash, storeVars, DownloadInv, DownloadServable, BackendTypeOK
  <1>4. CASE TimePasses \/ UNCHANGED vars
    BY <1>4 DEF TimePasses, Tick, vars, storeVars, backendVars, DownloadInv, DownloadServable
  <1>5. ASSUME NEW w \in Workers, WorkerUnheard(w) PROVE DownloadInv'
    <2>1. LosesOutcome(w)
      BY <1>5, LossEffect DEF WorkerUnheard
    <2>2. PICK jd \in Details : /\ jd.id = item[w]
                                /\ details' = [details EXCEPT ![w] = jd]
                                /\ \/ jd.loc = details[w].loc
                                   \/ /\ jd.loc = HostOf[w]
                                      /\ <<HostOf[w], item[w]>> \in outputs
      BY <2>1 DEF LosesOutcome
    <2>3. jd.loc # Null => <<jd.loc, item[w]>> \in outputs
      BY <2>1, <2>2 DEF LosesOutcome, DownloadInv
    <2>. QED
      BY <2>1, <2>2, <2>3 DEF LosesOutcome, DownloadInv, DownloadServable, BackendTypeOK
  <1>. QED
    BY <1>1, <1>2, <1>3, <1>4, <1>5 DEF Next

\* A status that names a rendered file names one that exists, whichever workers
\* have picked the job up, repeated it or failed at it since.
THEOREM Downloads == Spec => []DownloadServable
  <1>1. Init => DownloadInv
    BY DEF Init, StoreInit, BackendInit, DownloadInv, DownloadServable
  <1>2. TypeOK /\ DownloadInv /\ [Next]_vars => (TypeOK /\ DownloadInv)'
    BY StepType, StepDownload
  <1>3. DownloadInv => DownloadServable
    BY DEF DownloadInv
  <1>. QED
    BY <1>1, <1>2, <1>3, InitType, PTL DEF Spec

-----------------------------------------------------------------------------
(* Scratch files *)

\* A job names each scratch file before the step that may create it, and a
\* worker between jobs has named none.
ScratchInv ==
  /\ NoScratchLeak
  /\ \A w \in Workers :
       /\ wpc[w] \in {"waiting", "popped"} => scratch[w] = {}
       /\ wpc[w] = "fetched" => "metabook" \in scratch[w]
       /\ wpc[w] = "bundling" => "bundle" \in scratch[w]
       /\ wpc[w] = "bundled" => "tempdir" \in scratch[w]

\* What others have named stays named, and a new file has been named.
LEMMA KeepsScratch ==
  ASSUME NoScratchLeak, littered \subseteq littered',
         \A v \in Workers : Named(v) \subseteq Named(v)',
         \A f \in files' \ files : \E v \in Workers : f \in Named(v)'
  PROVE  NoScratchLeak'
  BY DEF NoScratchLeak

\* One worker may forget its names if it removes the files or dies.
LEMMA DropsScratch ==
  ASSUME NoScratchLeak, littered \subseteq littered', files' \subseteq files,
         NEW w \in Workers,
         \A v \in Workers : v # w => Named(v)' = Named(v),
         \A f \in files' : f \in Named(w) => <<f[1], f[2]>> \in littered'
  PROVE  NoScratchLeak'
  <1>. SUFFICES ASSUME NEW f \in files'
                PROVE  (\E v \in Workers : f \in Named(v)') \/ <<f[1], f[2]>> \in littered'
    BY DEF NoScratchLeak
  <1>1. (\E v \in Workers : f \in Named(v)) \/ <<f[1], f[2]>> \in littered
    BY DEF NoScratchLeak
  <1>. QED
    BY <1>1

\* No step leaves a scratch file that nobody has named.
LEMMA StepScratch ==
  ASSUME TypeOK, ScratchInv, [Next]_vars
  PROVE  ScratchInv'
  <1>. USE DEF TypeOK
  <1>1. ASSUME UNCHANGED <<wpc, item, scratch, files, littered>> PROVE ScratchInv'
    BY <1>1 DEF ScratchInv, NoScratchLeak, Named, File
  <1>2. ASSUME NEW w \in Workers, BackendActs(w) PROVE ScratchInv'
    <2>. USE DEF Wpc
    <2>1. UNCHANGED littered
      BY <1>2, RecordEffect
    <2>2. CASE GetNewItemFromQueue(w) \/ NewItemFromQueue(w)
      <3>1. /\ wpc[w] \in {"waiting", "popped"} /\ scratch[w] = {}
            /\ \A v \in Workers : v # w => item'[v] = item[v] /\ scratch'[v] = scratch[v]
            /\ UNCHANGED files
        BY <2>2 DEF GetNewItemFromQueue, NewItemFromQueue, ScratchInv, BackendTypeOK
      <3>2. \A v \in Workers : Named(v) \subseteq Named(v)'
        BY <3>1 DEF Named, File
      <3>3. NoScratchLeak'
        BY <2>1, <3>1, <3>2, KeepsScratch DEF ScratchInv
      <3>. QED
        BY <2>2, <3>1, <3>3 DEF GetNewItemFromQueue, NewItemFromQueue, ScratchInv, BackendTypeOK
    <2>3. ASSUME NEW kind \in Kinds, kind \in scratch[w], UNCHANGED item,
                 files' \in {files, files \union {File(w, kind)}},
                 \A v \in Workers : scratch[v] \subseteq scratch'[v]
          PROVE  NoScratchLeak'
      <3>1. \A v \in Workers : Named(v) \subseteq Named(v)'
        BY <2>3 DEF Named, File
      <3>2. File(w, kind) \in Named(w)
        BY <2>3 DEF Named
      <3>. QED
        BY <2>1, <2>3, <3>1, <3>2, KeepsScratch DEF ScratchInv
    <2>4. CASE RunBundler(w)
      <3>1. NoScratchLeak'
        <4>1. "metabook" \in scratch[w] /\ "metabook" \in Kinds
          BY <2>4 DEF RunBundler, ScratchInv, Kinds
        <4>2. \A v \in Workers : scratch[v] \subseteq scratch'[v]
          BY <2>4 DEF RunBundler, BackendTypeOK
        <4>. QED
          BY <2>3, <2>4, <4>1, <4>2 DEF RunBundler
      <3>. QED
        BY <2>4, <3>1 DEF RunBundler, ScratchInv, BackendTypeOK
    <2>5. CASE ProcessReceivedMessage(w)
      BY <1>1, <2>1, <2>5 DEF ProcessReceivedMessage
    <2>6. CASE BundlerExits(w)
      <3>1. NoScratchLeak'
        <4>1. "bundle" \in scratch[w] /\ "bundle" \in Kinds
          BY <2>6 DEF BundlerExits, ScratchInv, Kinds
        <4>2. \A v \in Workers : scratch[v] \subseteq scratch'[v]
          BY <2>6 DEF BundlerExits, BackendTypeOK
        <4>. QED
          BY <2>3, <2>6, <4>1, <4>2 DEF BundlerExits
      <3>. QED
        BY <2>6, <3>1 DEF BundlerExits, ScratchInv, BackendTypeOK
    <2>7. CASE RunRenderer(w)
      <3>1. NoScratchLeak'
        <4>1. "tempdir" \in scratch[w] /\ "tempdir" \in Kinds
          BY <2>7 DEF RunRenderer, ScratchInv, Kinds
        <4>2. \A v \in Workers : scratch[v] \subseteq scratch'[v]
          BY <2>7 DEF RunRenderer
        <4>. QED
          BY <2>3, <2>7, <4>1, <4>2 DEF RunRenderer
      <3>. QED
        BY <2>7, <3>1 DEF RunRenderer, ScratchInv, BackendTypeOK
    <2>8. CASE RendererExits(w) \/ Finish(w) \/ ReportError(w)
      <3>1. /\ UNCHANGED <<item, scratch, files>>
            /\ wpc' = [wpc EXCEPT ![w] = wpc'[w]]
            /\ wpc'[w] \in {"rendered", "failing", "cleanup"}
        BY <2>8 DEF RendererExits, Finish, ReportError, BackendTypeOK
      <3>2. \A v \in Workers : Named(v) \subseteq Named(v)'
        BY <3>1 DEF Named, File
      <3>3. NoScratchLeak'
        BY <2>1, <3>1, <3>2, KeepsScratch DEF ScratchInv
      <3>. QED
        BY <3>1, <3>3 DEF ScratchInv, BackendTypeOK
    <2>9. CASE Cleanup(w)
      <3>1. \A v \in Workers : v # w => Named(v)' = Named(v)
        BY <2>9 DEF Cleanup, Forget, Leave, Named, File, BackendTypeOK
      <3>2. files' = files \ Named(w)
        BY <2>9 DEF Cleanup
      <3>3. NoScratchLeak'
        BY <2>1, <3>1, <3>2, DropsScratch DEF ScratchInv
      <3>. QED
        BY <2>9, <3>3 DEF Cleanup, Forget, Leave, ScratchInv, BackendTypeOK
    <2>. QED
      BY <1>2, <2>2, <2>4, <2>5, <2>6, <2>7, <2>8, <2>9
         DEF BackendActs, BackendStep, BackendAdvance
  <1>3. ASSUME NEW w \in Workers, WorkerDies(w) PROVE ScratchInv'
    <2>. USE DEF Wpc
    <2>1. \A v \in Workers : v # w => Named(v)' = Named(v)
      BY <1>3 DEF WorkerDies, Crash, Leave, Named, File, BackendTypeOK
    <2>2. \A f \in Named(w) : <<f[1], f[2]>> \in littered'
      BY <1>3 DEF WorkerDies, Named, File
    <2>3. littered \subseteq littered' /\ UNCHANGED files
      BY <1>3 DEF WorkerDies, Crash
    <2>4. NoScratchLeak'
      BY <2>1, <2>2, <2>3, DropsScratch DEF ScratchInv
    <2>. QED
      BY <1>3, <2>4 DEF WorkerDies, Crash, Leave, ScratchInv, BackendTypeOK
  <1>4. ASSUME NEW w \in Workers, WorkerUnheard(w) PROVE ScratchInv'
    <2>1. LosesOutcome(w) /\ UNCHANGED littered
      BY <1>4, LossEffect DEF WorkerUnheard
    <2>2. \A v \in Workers : Named(v) \subseteq Named(v)'
      BY <2>1 DEF LosesOutcome, Named, File
    <2>3. NoScratchLeak'
      BY <2>1, <2>2, KeepsScratch DEF LosesOutcome, ScratchInv
    <2>. QED
      BY <2>1, <2>3 DEF LosesOutcome, ScratchInv, BackendTypeOK
  <1>. QED
    BY <1>1, <1>2, <1>3, <1>4
       DEF Next, FrontendActs, FrontendRecord, TimePasses, vars, backendVars, historyVars

\* Scratch files never outlive their job, except where a worker died.
THEOREM Scratch == Spec => []NoScratchLeak
  <1>1. Init => ScratchInv
    BY DEF Init, BackendInit, ScratchInv, NoScratchLeak
  <1>2. TypeOK /\ ScratchInv /\ [Next]_vars => (TypeOK /\ ScratchInv)'
    BY StepType, StepScratch
  <1>3. ScratchInv => NoScratchLeak
    BY DEF ScratchInv
  <1>. QED
    BY <1>1, <1>2, <1>3, InitType, PTL DEF Spec

=============================================================================
