------------------------------ MODULE JobStore ------------------------------
(***************************************************************************)
(* The redis server all threads share: the list `job_queue_name' of        *)
(* collection ids that wait for a backend, and the hash `status_set_name'  *)
(* from collection ids to status objects.  Redis executes one command (or  *)
(* one MULTI block) at a time, so each is one step.  `now' is the clock    *)
(* that Date.now() reads.                                                  *)
(***************************************************************************)
EXTENDS JobDetails, Sequences

CONSTANTS MaxTime,     \* bound of the model: the clock stops here
          RedisFaults  \* bound of the model: the commands that may fail

VARIABLES queue,    \* the job queue, head first
          status,   \* the status hash: Details, or Null for a missing field
          now       \* the wall clock

storeVars == <<queue, status, now>>

ASSUME StoreAssumption ==
  /\ MaxTime \in Nat
  /\ RedisFaults \subseteq {"HGET", "LLEN", "EXEC", "HSET"}

StoreTypeOK ==
  /\ queue \in Seq(Keys)
  /\ status \in [Keys -> Details \union {Null}]
  /\ \A k \in Keys : status[k] # Null => status[k].id = k
  /\ now \in Nat

StoreInit ==
  /\ queue = <<>>
  /\ status = [k \in Keys |-> Null]
  /\ now = 0

Queued(k) == \E i \in 1..Len(queue) : queue[i] = k

\* Faulty: the HSET is missing from the block.
EnqueueJobWithoutStatus(jd) ==
  /\ queue' = Append(queue, jd.id)
  /\ UNCHANGED status

\* MULTI; RPUSH queue id; HSET status id json; EXEC.
EnqueueJob(jd) ==
  /\ queue' = Append(queue, jd.id)
  /\ status' = [status EXCEPT ![jd.id] = jd]

HSet(jd) == status' = [status EXCEPT ![jd.id] = jd]

Tick ==
  /\ now < MaxTime
  /\ now' = now + 1
  /\ UNCHANGED <<queue, status>>

=============================================================================
