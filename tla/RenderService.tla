--------------------------- MODULE RenderService ----------------------------
(***************************************************************************)
(* Frontend requests and backend workers around one job store.             *)
(***************************************************************************)
EXTENDS Frontend, Backend, FiniteSets

CONSTANT MaxCrashes     \* bound of the model: how many worker threads die

VARIABLES crashes,      \* how many have died
          orphaned,     \* ids whose worker died, or redis refused the outcome
          reopened,     \* ids with a late report after their last outcome
          littered      \* where a worker died: <<host, id>>

ASSUME ServiceAssumption ==
  /\ MaxCrashes \in Nat
  /\ IsFiniteSet(Requests)

historyVars == <<crashes, orphaned, reopened, littered>>
vars == <<storeVars, req, backendVars, historyVars>>

TypeOK ==
  /\ StoreTypeOK
  /\ RequestTypeOK
  /\ BackendTypeOK
  /\ crashes \in Nat
  /\ orphaned \subseteq Keys
  /\ reopened \subseteq Keys
  /\ littered \subseteq Hosts \X Keys

Init ==
  /\ StoreInit
  /\ FrontendInit
  /\ BackendInit
  /\ crashes = 0
  /\ orphaned = {}
  /\ reopened = {}
  /\ littered = {}

\* A job that is accepted again is neither an orphan nor reopened any more.
FrontendRecord(r) ==
  LET accepted == IF queue' = queue THEN {} ELSE {req[r].par.id}
  IN  /\ orphaned' = orphaned \ accepted
      /\ reopened' = reopened \ accepted
      /\ UNCHANGED <<crashes, littered>>

FrontendActs(r) == FrontendStep(r) /\ FrontendRecord(r) /\ UNCHANGED backendVars

\* A report on a job that is over reopens it, the next outcome closes it.
BackendRecord(w) ==
  /\ reopened' = CASE Over(w) /\ status' # status -> reopened \union {details[w].id}
                   [] ~Over(w) /\ wpc'[w] = "cleanup" -> reopened \ {item[w]}
                   [] OTHER -> reopened
  /\ UNCHANGED <<crashes, orphaned, littered>>

BackendActs(w) == BackendStep(w) /\ BackendRecord(w) /\ UNCHANGED req

WorkerUnheard(w) ==
  /\ ReportLost(w)
  /\ orphaned' = orphaned \union {item[w]}
  /\ UNCHANGED <<req, crashes, reopened, littered>>

WorkerDies(w) ==
  /\ crashes < MaxCrashes
  /\ Crash(w)
  /\ crashes' = crashes + 1
  /\ orphaned' = IF wpc[w] = "cleanup" THEN orphaned ELSE orphaned \union {item[w]}
  /\ littered' = littered \union {<<HostOf[w], item[w]>>}
  /\ UNCHANGED <<req, reopened>>

TimePasses == Tick /\ UNCHANGED <<req, backendVars, historyVars>>

Next ==
  \/ \E r \in Requests : FrontendActs(r)
  \/ \E w \in Workers : BackendActs(w) \/ WorkerUnheard(w) \/ WorkerDies(w)
  \/ TimePasses

Spec == Init /\ [][Next]_vars

FrontendAdvances(r) == UNCHANGED backendVars /\ FrontendAdvance(r) /\ FrontendRecord(r)

BackendAdvances(w) == UNCHANGED req /\ BackendAdvance(w) /\ BackendRecord(w)

(***************************************************************************)
(* Redis replies to a request in the handler, or fails it; a worker never  *)
(* stops on its own: BLPOP blocks for ever, a child process that is given  *)
(* a time limit ends (module ForkedChild), and every promise chain ends in *)
(* the clean-up.  Nothing obliges clients to ask, children to report,      *)
(* threads to die or the clock to move within the bounds of the model.     *)
(***************************************************************************)
Fairness ==
  /\ \A r \in Requests : WF_vars(FrontendAdvances(r))
  /\ \A w \in Workers : WF_vars(BackendAdvances(w))

FairSpec == Spec /\ Fairness

-----------------------------------------------------------------------------
(* Admission *)

\* Requests that were told there is room and have not inserted their job yet.
Admitted == {r \in Requests : req[r].pc = "push"}

\* LLEN and MULTI are two commands: every request may see the same last free
\* place.  The overshoot is bounded by the requests in flight, and the bound
\* counts those that are still to push.
AdmissionBound ==
  MaxQueue > 0 => Len(queue) + Cardinality(Admitted) <= MaxQueue + Cardinality(Requests)

-----------------------------------------------------------------------------
(* Jobs *)

\* What a worker picks up has a status object under its own id, whatever the
\* order in which insertions, pick-ups and reports of the same id happen: no
\* worker runs the phantom job that a missing status turns into.
PickupHasStatus ==
  /\ \A i \in 1..Len(queue) : queue[i] # PhantomId /\ status[queue[i]] # Null
  /\ \A w \in Workers :
       /\ wpc[w] = "popped" => status[item[w]] # Null
       /\ item[w] # PhantomId

\* The worker has a job whose outcome it has not published.
Busy(w) == wpc[w] \notin {"waiting", "cleanup"}

OnDesk(k) == \E w \in Workers : Busy(w) /\ item[w] = k

\* No job is shown as pending or in progress, which is what clients poll for,
\* unless somebody will bring it to an outcome: it waits in the queue, a worker
\* has it, or it was orphaned -- or else a child of a job that was over reported
\* late, hiding the outcome, and nobody has taken the job again since.  Insertions,
\* duplicates of the id in the queue and workers that overwrite each other's
\* reports must all keep this.
NoSilentStall ==
  \A k \in Keys : status[k] # Null =>
    /\ status[k].state = "pending" => Queued(k) \/ OnDesk(k) \/ k \in orphaned
    /\ status[k].state = "progress" => OnDesk(k) \/ k \in orphaned \union reopened

\* Every status object that names a rendered file names one that exists, also
\* after the job was picked up again and failed, or by another host.
DownloadServable ==
  \A k \in Keys : status[k] # Null /\ status[k].loc # Null => <<status[k].loc, k>> \in outputs

\* A scratch file on disk belongs to a job under way, or a worker died on that
\* host with that id: every way a job can fail removes what it wrote.
NoScratchLeak ==
  \A f \in files : (\E w \in Workers : f \in Named(w)) \/ <<f[1], f[2]>> \in littered

-----------------------------------------------------------------------------
(* The service implements the job board. *)

ShownState == [k \in Keys |-> IF status[k] = Null THEN "none" ELSE status[k].state]
Desk == [w \in Workers |-> IF Busy(w) THEN item[w] ELSE Null]
Cleared == [w \in Workers |-> IF Over(w) /\ details[w] # Null THEN details[w].id ELSE Null]

Board == INSTANCE JobBoard WITH
  Jobs <- Keys, Nobody <- Null,
  backlog <- queue, board <- ShownState, desk <- Desk, givenUp <- orphaned,
  cleared <- Cleared

\* Statuses change only by an acceptance, which queues the job in the same
\* step, by a worker that has taken the job and not yet settled it, or by a late
\* report on the job that a worker settled last.
ImplementsBoard == Board!Spec

-----------------------------------------------------------------------------
(* Progress, under FairSpec *)

Pending(k) == status[k] # Null /\ status[k].state = "pending"
HasOutcome(k) == status[k] # Null /\ status[k].state \in Terminal

\* A pending job gets an outcome, in spite of duplicates of its id that other
\* workers run at the same time, unless its worker dies or redis refuses the
\* outcome.
JobsSettle == \A k \in CollectionIds : Pending(k) ~> HasOutcome(k) \/ k \in orphaned

\* Every request is answered.
RequestsAnswered == \A r \in Requests : req[r].pc \notin Settled ~> req[r].pc \in Settled

=============================================================================
