------------------------------ MODULE StatusGC ------------------------------
(***************************************************************************)
(* The removal of status objects from redis: cleanJobStatusObjects of      *)
(* lib/threads/gc.js.  A run walks over the hash and sends HDEL for every  *)
(* object that the caller's predicate condemned when its value was read.   *)
(* Its callers run independently of each other: the coordinator's gc       *)
(* thread, whose timer does not wait for a run to end before it starts     *)
(* another, and the scripts run-garbage-collect, clear-host-cache and      *)
(* clear-time-range.                                                       *)
(*                                                                         *)
(* HSCAN returns every field that is there during the whole scan; one that *)
(* is inserted or removed meanwhile may be missed.  A redis without HSCAN  *)
(* is asked for all keys once and then for their values, which are null    *)
(* for fields that have gone.  Both come in chunks, here one at a time.    *)
(* That HSCAN may return a field twice is left out.                        *)
(***************************************************************************)
EXTENDS JobStore

CONSTANTS Collectors,
          Tasks,               \* what the collectors are run for
          HasHscan,            \* redis has HSCAN: 2.8 or later
          FailedJobLifetime,   \* config.garbage_collection.failed_job_lifetime
          JobLifetime,         \* config.garbage_collection.job_lifetime
          MaxRuns              \* bound of the model: runs that are started

Purposes == {"expired", "host", "time"}

ASSUME StatusGCAssumption ==
  /\ Tasks \subseteq [purpose : Purposes, host : Hosts \union {Null}, force : BOOLEAN]
  /\ Null \notin Tasks
  /\ HasHscan \in BOOLEAN
  /\ FailedJobLifetime \in Nat
  /\ JobLifetime \in Nat
  /\ MaxRuns \in Nat

VARIABLES scan,   \* scan[c]: c's run
          runs    \* how many runs were started

gcVars == <<scan, runs>>

GCTypeOK ==
  /\ scan \in [Collectors -> [task : Tasks \union {Null}, started : Nat,
                              unread : SUBSET Keys, doomed : SUBSET Keys]]
  /\ runs \in Nat

NotRunning == [task |-> Null, started |-> 0, unread |-> {}, doomed |-> {}]

Running(c) == scan[c].task # Null

GCInit ==
  /\ scan = [c \in Collectors |-> NotRunning]
  /\ runs = 0

-----------------------------------------------------------------------------

\* The fields that exist are the keys HKEYS returns.
Fields == {k \in Keys : status[k] # Null}

StartGCRun(c) ==
  /\ ~Running(c)
  /\ runs < MaxRuns
  /\ runs' = runs + 1
  /\ \E task \in Tasks :
       scan' = [scan EXCEPT ![c] = [task |-> task, started |-> now, doomed |-> {},
                                    unread |-> IF HasHscan THEN Keys ELSE Fields]]
  /\ UNCHANGED storeVars

\* The predicate of cleanExpiredJobStatusObjects.
IsExpired(job, started) ==
  \/ job.state = "failed" /\ job.timestamp + FailedJobLifetime < started
  \/ job.timestamp + JobLifetime < started

\* The predicates of the callers.  The time range of clear-time-range looks at
\* fields that are not modelled: what it condemns it may also pass over.
ShouldDeleteJob(job, run) ==
  \/ run.task.purpose = "expired" /\ IsExpired(job, run.started)
  \/ /\ \/ run.task.purpose = "host" /\ job.host # Null /\ job.host = run.task.host
        \/ run.task.purpose = "time"
     /\ job.state \in Terminal \/ run.task.force

\* The value of a field arrives: the decision is made on it.  A field that has
\* gone is not there for HSCAN, and a phantom job for the emulation.
ScanKey(c, k) ==
  /\ k \in scan[c].unread
  /\ LET job  == FromJson(status[k], now)
         seen == status[k] # Null \/ ~HasHscan
         dead == seen /\ ShouldDeleteJob(job, scan[c])
     IN  \/ /\ dead
            /\ scan' = [scan EXCEPT ![c].unread = @ \ {k}, ![c].doomed = @ \union {job.id}]
         \/ /\ dead => scan[c].task.purpose = "time"
            /\ scan' = [scan EXCEPT ![c].unread = @ \ {k}]
  /\ UNCHANGED <<storeVars, runs>>

\* HDEL of an object the scan condemned.
DeleteKey(c, k) ==
  /\ k \in scan[c].doomed
  /\ status' = [status EXCEPT ![k] = Null]
  /\ scan' = [scan EXCEPT ![c].doomed = @ \ {k}]
  /\ UNCHANGED <<queue, now, runs>>

\* The run is over, or redis was lost and the thread with it.
EndGCRun(c) ==
  /\ Running(c)
  /\ scan' = [scan EXCEPT ![c] = NotRunning]
  /\ UNCHANGED <<storeVars, runs>>

GCStep(c) ==
  \/ StartGCRun(c)
  \/ \E k \in Keys : ScanKey(c, k) \/ DeleteKey(c, k)
  \/ EndGCRun(c)

=============================================================================
