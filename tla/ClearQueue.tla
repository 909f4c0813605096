----------------------------- MODULE ClearQueue -----------------------------
(***************************************************************************)
(* The operator's script that empties the job queue                        *)
(* (scripts/clear-queue.js).  It asks for the length of the queue once and *)
(* then works in batches: it lists and cuts off the head of the queue in   *)
(* one MULTI block, reads the status objects of the listed ids in another, *)
(* and writes those that were pending back as failed in a third.  The      *)
(* program counter names the block that comes next:                        *)
(*                                                                         *)
(*   "off" --LLEN--> "trim" --> "get" --> "update" --> "trim" or "off"     *)
(***************************************************************************)
EXTENDS JobStore

CONSTANTS BatchSize,   \* BATCH_SIZE
          MaxClears    \* bound of the model: how often the script is run

ASSUME ClearQueueAssumption == BatchSize \in Nat \ {0} /\ MaxClears \in Nat

VARIABLES clear,    \* the script's run
          clears    \* how often it was run

clearVars == <<clear, clears>>

ClearPCs == {"off", "trim", "get", "update"}

(***************************************************************************)
(* `listed' are the ids of the batch, `jobs' the pending status objects    *)
(* that were found for them.  `removed' are the ids that were cut off the  *)
(* queue and not found to be settled or under way: the script alone can    *)
(* bring them to an outcome.                                               *)
(***************************************************************************)
ClearTypeOK ==
  /\ clear \in [pc : ClearPCs, remaining : Nat, listed : SUBSET Keys,
                removed : SUBSET Keys, jobs : SUBSET Details]
  /\ clears \in Nat

NotClearing == [pc |-> "off", remaining |-> 0, listed |-> {}, removed |-> {}, jobs |-> {}]

ClearInit ==
  /\ clear = NotClearing
  /\ clears = 0

-----------------------------------------------------------------------------

\* The ids among the first n of the queue.
First(n) == {queue[i] : i \in {j \in 1..Len(queue) : j <= n}}

Smaller(m, n) == IF m <= n THEN m ELSE n

\* `opened': the reply of LLEN.
StartClear ==
  /\ clear.pc = "off"
  /\ clears < MaxClears
  /\ clears' = clears + 1
  /\ clear' = [NotClearing EXCEPT !.pc = "trim", !.remaining = Len(queue)]
  /\ UNCHANGED storeVars

\* Faulty: LTRIM cuts off as many as LRANGE lists, and one more.
TrimMoreThanListed ==
  /\ clear.pc = "trim"
  /\ LET size == Smaller(BatchSize, clear.remaining)
     IN  /\ clear' = [clear EXCEPT !.pc = "get", !.remaining = @ - size,
                                   !.listed = First(size), !.removed = First(size)]
         /\ queue' = SubSeq(queue, size + 2, Len(queue))
  /\ UNCHANGED <<status, now, clears>>

\* LRANGE 0 size lists one id more than LTRIM size -1 cuts off.
GetMetabookIds ==
  /\ clear.pc = "trim"
  /\ LET size == Smaller(BatchSize, clear.remaining)
     IN  /\ clear' = [clear EXCEPT !.pc = "get", !.remaining = @ - size,
                                   !.listed = First(size + 1), !.removed = First(size)]
         /\ queue' = SubSeq(queue, size + 1, Len(queue))
  /\ UNCHANGED <<status, now, clears>>

\* A missing status turns into a phantom job, which is pending as well.
GetJobStatuses ==
  /\ clear.pc = "get"
  /\ LET pending == {k \in clear.listed : FromJson(status[k], now).state = "pending"}
     IN  clear' = [clear EXCEPT !.pc = "update",
                     !.removed = {k \in @ \intersect pending : status[k] # Null},
                     !.jobs = {FromJson(status[k], now) : k \in pending}]
  /\ UNCHANGED <<storeVars, clears>>

Killed(k) == {jd \in clear.jobs : jd.id = k}

\* Faulty: they are written back as they were read.
WriteBackJobStatuses ==
  /\ clear.pc = "update"
  /\ status' = [k \in Keys |-> IF Killed(k) = {} THEN status[k]
                               ELSE CHOOSE jd \in Killed(k) : TRUE]
  /\ clear' = [NotClearing EXCEPT !.pc = IF clear.remaining > 0 THEN "trim" ELSE "off",
                                  !.remaining = clear.remaining]
  /\ UNCHANGED <<queue, now, clears>>

UpdateJobStatuses ==
  /\ clear.pc = "update"
  /\ status' = [k \in Keys |-> IF Killed(k) = {} THEN status[k]
                               ELSE UpdateError(CHOOSE jd \in Killed(k) : TRUE, now)]
  /\ clear' = [NotClearing EXCEPT !.pc = IF clear.remaining > 0 THEN "trim" ELSE "off",
                                  !.remaining = clear.remaining]
  /\ UNCHANGED <<queue, now, clears>>

\* The script is interrupted, or a block fails, which nobody catches.
ClearDies ==
  /\ clear.pc # "off"
  /\ clear' = NotClearing
  /\ UNCHANGED <<storeVars, clears>>

ClearAdvance == GetMetabookIds \/ GetJobStatuses \/ UpdateJobStatuses

=============================================================================
