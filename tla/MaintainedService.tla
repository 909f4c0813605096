------------------------- MODULE MaintainedService --------------------------
(***************************************************************************)
(* The render service while others tidy up behind it: collectors that take *)
(* status objects away, and the script that empties the queue.  What       *)
(* changes when a status can vanish, or be declared failed, while its job  *)
(* is queued or under way.                                                 *)
(***************************************************************************)
EXTENDS RenderService, StatusGC, ClearQueue

maintenanceVars == <<gcVars, clearVars>>
allVars == <<vars, maintenanceVars>>

MaintainedTypeOK == TypeOK /\ GCTypeOK /\ ClearTypeOK

MaintainedInit == Init /\ GCInit /\ ClearInit

ServiceActs == Next /\ UNCHANGED maintenanceVars

UnchangedService == UNCHANGED <<req, backendVars, crashes, reopened, littered>>

CollectorActs(c) == GCStep(c) /\ UnchangedService /\ UNCHANGED <<orphaned, clearVars>>

ScriptStarts == StartClear /\ UnchangedService /\ UNCHANGED <<orphaned, gcVars>>

ScriptActs == ClearAdvance /\ UnchangedService /\ UNCHANGED <<orphaned, gcVars>>

\* What the script has cut off and not written back is lost with it.
ScriptDies ==
  /\ ClearDies
  /\ orphaned' = orphaned \union clear.removed
  /\ UnchangedService
  /\ UNCHANGED gcVars

MaintainedNext ==
  \/ ServiceActs
  \/ \E c \in Collectors : CollectorActs(c)
  \/ ScriptStarts
  \/ ScriptActs
  \/ ScriptDies

MaintainedSpec == MaintainedInit /\ [][MaintainedNext]_allVars

\* The threads as in RenderService; redis replies to the script.
MaintainedFairness ==
  /\ \A r \in Requests : WF_allVars(UNCHANGED maintenanceVars /\ FrontendAdvances(r))
  /\ \A w \in Workers : WF_allVars(UNCHANGED maintenanceVars /\ BackendAdvances(w))
  /\ WF_allVars(ScriptActs)

MaintainedFairSpec == MaintainedSpec /\ MaintainedFairness

-----------------------------------------------------------------------------

\* The job that a worker makes up when the status of its id is gone never gets
\* as far as a renderer, and the object it leaves in redis under "0" never
\* offers a file.
PhantomNeverRenders ==
  /\ \A w \in Workers : item[w] = PhantomId => wpc[w] \notin {"rendering", "rendered"}
  /\ status[PhantomId] # Null => status[PhantomId].state # "finished"
  /\ \A h \in Hosts : <<h, PhantomId>> \notin outputs

\* NoSilentStall in spite of maintenance: what the script has cut off the queue
\* it will write back as failed, although it lists and cuts off different ids,
\* and a worker whose status was taken away, or declared failed, still settles
\* whatever it shows, late reports excepted.
NoStallWhileMaintained ==
  \A k \in Keys : status[k] # Null =>
    /\ status[k].state = "pending" =>
         Queued(k) \/ OnDesk(k) \/ k \in orphaned \/ k \in clear.removed
    /\ status[k].state = "progress" => OnDesk(k) \/ k \in orphaned \union reopened

\* The board as it is when others tidy up.
Upkeep == INSTANCE MaintainedBoard WITH
  Jobs <- Keys, Nobody <- Null, Phantom <- PhantomId,
  backlog <- queue, board <- ShownState, desk <- Desk, givenUp <- orphaned,
  cleared <- Cleared, cut <- clear.removed

\* Whatever collectors and the script do between two steps of a request or of a
\* worker, statuses change as on that board: the script answers for what it cuts
\* off until it declares all of it failed; a job that vanished comes back only by
\* a new request, from the worker that has it or had it last, or as failed; and a
\* worker whose job has vanished works on the phantom and leaves the job alone.
ImplementsMaintainedBoard == Upkeep!MaintainedSpec

\* The worker of a vanished job still comes back for the next one: a queue that
\* holds ids whose status is gone drains like any other.
WorkersReturn == \A w \in Workers : wpc[w] # "waiting" ~> wpc[w] = "waiting"

\* Whoever gets hold of a pending job -- a worker, a collector, the script --
\* brings it to an outcome or takes it away, unless it dies, or a late report on
\* an earlier run of the job makes it look under way: the script then cuts it off
\* the queue and spares it.
JobsSettleOrGo ==
  \A k \in CollectionIds :
    Pending(k) ~> HasOutcome(k) \/ status[k] = Null \/ k \in orphaned \union reopened

=============================================================================
