------------------------------ MODULE Frontend ------------------------------
(***************************************************************************)
(* The render command of the HTTP frontend (lib/threads/frontend.js).      *)
(*                                                                         *)
(* A request slot stands for one HTTP connection: it carries one request   *)
(* at a time and takes the next one when the last was answered.  The       *)
(* handler waits for redis three times -- HGET of the status, LLEN of the  *)
(* queue, MULTI/EXEC of the insertion -- and whatever the other requests   *)
(* and the backends do in between is done between two steps of the slot:   *)
(*                                                                         *)
(*   "idle"/"answered" --HandleRender--> "hget" --> "llen" --> "push"      *)
(*                                                                         *)
(* The program counter names the redis command that is outstanding.        *)
(***************************************************************************)
EXTENDS JobStore

CONSTANTS Requests,        \* the HTTP connections open at the same time
          Params,          \* the parameter sets that clients send
          WriterNames,     \* what clients put in the writer parameter
          WriterAliases,   \* config.backend.writer_aliases
          Lockout,         \* config.frontend.failed_job_lockout_time
          MaxQueue,        \* config.redis.max_job_queue_length; 0: no limit
          QueueCap         \* bound of the model: clients wait at this backlog

VARIABLE req   \* req[r]: the request in slot r

(***************************************************************************)
(* What a request carries besides the writer: a metabook, the id of an     *)
(* earlier collection, both, neither, or a metabook that is not JSON.  The *)
(* id of a metabook request is the hash of the metabook and the writer, so *)
(* it determines the writer.                                               *)
(***************************************************************************)
Vias == {"metabook", "id", "both", "neither", "unparsable"}

ResolveWriter(name) ==
  IF name \in DOMAIN WriterAliases THEN WriterAliases[name] ELSE name

ASSUME FrontendAssumption ==
  /\ Params \subseteq [id : CollectionIds, via : Vias, force : BOOLEAN, writer : WriterNames]
  /\ \A p, q \in Params :
       p.via = "metabook" /\ q.via = "metabook" /\ p.id = q.id
         => ResolveWriter(p.writer) = ResolveWriter(q.writer)
  /\ DOMAIN WriterAliases \subseteq WriterNames
  /\ Null \notin Params
  /\ Lockout \in Nat
  /\ MaxQueue \in Nat
  /\ QueueCap \in Nat

Settled == {"idle", "answered"}
RequestPCs == Settled \union {"hget", "llen", "push"}

\* The status codes the frontend's comments and handlers name.
HttpStatus == {"200", "400", "404", "405", "413", "500", "503"}
Codes == HttpStatus \union {"none", "Job queue is full."}

RequestTypeOK ==
  /\ req \in [Requests -> [pc : RequestPCs, par : Params \union {Null}, book : Books,
                           code : Codes, cached : BOOLEAN]]
  /\ \A r \in Requests : req[r].pc \notin Settled =>
       req[r].par # Null /\ ResolveWriter(req[r].par.writer) \in Writers

IdleRequest ==
  [pc |-> "idle", par |-> Null, book |-> "empty", code |-> "none", cached |-> FALSE]

FrontendInit == req = [r \in Requests |-> IdleRequest]

-----------------------------------------------------------------------------

FrontendError(message, httpCode) == [message |-> message, code |-> httpCode]

\* The request ends: response.end() with this status line.
Answer(r, code, isCached) ==
  req' = [req EXCEPT ![r] = [IdleRequest EXCEPT !.pc = "answered", !.code = code,
                                                !.cached = isCached]]

\* decodeRequest's catch: a FrontendError is written out under its own code.
Throw(r, err) == Answer(r, err.code, FALSE)

Goto(r, pc, book) ==
  req' = [req EXCEPT ![r] = [@ EXCEPT !.pc = pc, !.book = book]]

\* max_job_queue_length = 0 is answered without asking redis.
AfterCacheMiss == IF MaxQueue = 0 THEN "push" ELSE "llen"

-----------------------------------------------------------------------------

\* A request the parameter checks of handleRender turn down.
RejectRender(r, p) ==
  \/ /\ \/ ResolveWriter(p.writer) \notin Writers
        \/ p.via = "neither"
     /\ Throw(r, FrontendError("bad request", "400"))
  \/ /\ ResolveWriter(p.writer) \in Writers
     /\ p.via = "unparsable"    \* JSON.parse throws: not a FrontendError
     /\ Answer(r, "500", FALSE)

\* The metabook is parsed only when the request carries no collection id.
AcceptRender(r, p) ==
  /\ ResolveWriter(p.writer) \in Writers
  /\ p.via \in {"metabook", "id", "both"}
  /\ req' = [req EXCEPT ![r] = [IdleRequest EXCEPT
               !.pc = "hget", !.par = p,
               !.book = IF p.via = "metabook" THEN "full" ELSE "empty"]]

HandleRender(r) ==
  /\ req[r].pc \in Settled
  /\ Len(queue) < QueueCap
  /\ \E p \in Params : RejectRender(r, p) \/ AcceptRender(r, p)
  /\ UNCHANGED storeVars

\* A finished job is served unless a new rendering is forced; any other job
\* is left alone for the lockout time.
IsCached(job, force) ==
  IF job.state = "finished" THEN ~force ELSE now - job.timestamp < Lockout

\* Faulty: nothing happens when the id is unknown.
DetermineKnownStatus(r) ==
  /\ req[r].pc = "hget"
  /\ status[req[r].par.id] # Null
  /\ \/ /\ IsCached(status[req[r].par.id], req[r].par.force)
        /\ Answer(r, "200", TRUE)
     \/ /\ ~IsCached(status[req[r].par.id], req[r].par.force)
        /\ Goto(r, AfterCacheMiss, req[r].book)
  /\ UNCHANGED storeVars

\* The reply of HGET.
DetermineCachedStatus(r) ==
  /\ req[r].pc = "hget"
  /\ LET p   == req[r].par
         job == status[p.id]
     IN  \/ /\ job # Null
            /\ IsCached(job, p.force)
            /\ Answer(r, "200", TRUE)
         \/ /\ job # Null
            /\ ~IsCached(job, p.force)
            /\ Goto(r, AfterCacheMiss, IF p.via = "id" THEN job.book ELSE req[r].book)
         \/ /\ job = Null
            /\ Goto(r, AfterCacheMiss, req[r].book)
  /\ UNCHANGED storeVars

\* Faulty: one place too many.
HasRoomAndOne == Len(queue) <= MaxQueue + 1

HasRoom == Len(queue) <= MaxQueue

\* The reply of LLEN.  The refusal passes its two arguments in the order
\* (status code, text); FrontendError takes (text, status code).
CanIRender(r) ==
  /\ req[r].pc = "llen"
  /\ \/ /\ HasRoom
        /\ Goto(r, "push", req[r].book)
     \/ /\ ~HasRoom
        /\ Throw(r, FrontendError("503", "Job queue is full."))
  /\ UNCHANGED storeVars

Insert(r) ==
  EnqueueJob(NewJobDetails(req[r].par.id, req[r].book, ResolveWriter(req[r].par.writer), now))

\* MULTI/EXEC and the answer "is_cached: false".
AddRenderJob(r) ==
  /\ req[r].pc = "push"
  /\ Insert(r)
  /\ Answer(r, "200", FALSE)
  /\ UNCHANGED now

(***************************************************************************)
(* A redis command fails.  The status lookup counts as a cache miss and    *)
(* leaves the metabook unread; a failed LLEN is an unexpected error, which *)
(* ends the thread; a failed insertion is reported, whether or not redis   *)
(* had executed the block before the connection broke.                     *)
(***************************************************************************)
RedisFails(r) ==
  /\ \/ /\ req[r].pc = "hget" /\ "HGET" \in RedisFaults
        /\ Goto(r, AfterCacheMiss, req[r].book)
        /\ UNCHANGED <<queue, status>>
     \/ /\ req[r].pc = "llen" /\ "LLEN" \in RedisFaults
        /\ Answer(r, "500", FALSE)
        /\ UNCHANGED <<queue, status>>
     \/ /\ req[r].pc = "push" /\ "EXEC" \in RedisFaults
        /\ Throw(r, FrontendError("Job insertion failed (redis failure?)", "500"))
        /\ Insert(r) \/ UNCHANGED <<queue, status>>
  /\ UNCHANGED now

\* What the replies of redis bring about in the handler.
FrontendAdvance(r) ==
  \/ DetermineCachedStatus(r)
  \/ CanIRender(r)
  \/ AddRenderJob(r)

FrontendStep(r) == HandleRender(r) \/ FrontendAdvance(r) \/ RedisFails(r)

=============================================================================
