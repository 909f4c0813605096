-------------------------- MODULE RedisConnection ---------------------------
(***************************************************************************)
(* The redis connection of a thread and what the thread makes of its       *)
(* events (lib/RedisWrapper.js, and the `opened' and `closed' handlers of  *)
(* backend.js, gc.js and frontend.js).                                     *)
(*                                                                         *)
(* The client library connects, checks that the server is ready, and       *)
(* connects again whenever the connection is lost; it fails every command  *)
(* that is outstanding then, or sent before the server is ready.  The      *)
(* wrapper keeps a flag of its own, from which it derives `closed': once   *)
(* per connection that was open.  An error event may also come while the   *)
(* client is connected, when a reply cannot be parsed.                     *)
(*                                                                         *)
(* `opened' starts the work of the thread: a loop of a backend worker,     *)
(* which waits at BLPOP (or for the HGET after it) or is busy with a job,  *)
(* or the interval timer of the collector.  `closed' ends the thread, and  *)
(* the coordinator starts another in its place.  A frontend stops          *)
(* listening and dies when its last client has gone.                       *)
(***************************************************************************)
EXTENDS Naturals

CONSTANTS Threads,
          Kind,        \* the type of each thread
          MaxErrors    \* bound of the model: error events per thread while connected

Kinds == {"backend", "gc", "frontend"}

ASSUME ConnectionAssumption ==
  /\ Kind \in [Threads -> Kinds]
  /\ MaxErrors \in Nat

VARIABLES link,        \* the client: not connected, connected, ready, or given up
          connected,   \* the threads whose wrapper has its flag set
          phase,       \* of the thread
          waiting,     \* loops at BLPOP, or interval timers
          busy,        \* loops with a job
          serving,     \* the frontends that have clients
          errors       \* error events that came while the client was connected

vars == <<link, connected, phase, waiting, busy, serving, errors>>

TypeOK ==
  /\ link \in [Threads -> {"down", "up", "ready", "closed"}]
  /\ connected \subseteq Threads
  /\ phase \in [Threads -> {"running", "draining", "dead"}]
  /\ waiting \in [Threads -> Nat]
  /\ busy \in [Threads -> Nat]
  /\ serving \subseteq Threads
  /\ errors \in [Threads -> 0..MaxErrors]
  /\ \A t \in Threads :
       /\ t \in connected => link[t] = "ready"
       /\ phase[t] = "dead" => waiting[t] = 0 /\ busy[t] = 0 /\ t \notin serving

Init ==
  /\ link = [t \in Threads |-> "down"]
  /\ connected = {}
  /\ phase = [t \in Threads |-> "running"]
  /\ waiting = [t \in Threads |-> 0]
  /\ busy = [t \in Threads |-> 0]
  /\ serving = {}
  /\ errors = [t \in Threads |-> 0]

-----------------------------------------------------------------------------

Alive(t) == phase[t] # "dead"

\* The process ends, and its connection with it.
Exit(t) ==
  /\ phase' = [phase EXCEPT ![t] = "dead"]
  /\ link' = [link EXCEPT ![t] = "closed"]
  /\ connected' = connected \ {t}
  /\ waiting' = [waiting EXCEPT ![t] = 0]
  /\ busy' = [busy EXCEPT ![t] = 0]
  /\ serving' = serving \ {t}
  /\ UNCHANGED errors

UnchangedWork == UNCHANGED <<phase, waiting, busy, serving>>

-----------------------------------------------------------------------------

\* The client (re)connects.
Connect(t) ==
  /\ Alive(t)
  /\ link[t] = "down"
  /\ link' = [link EXCEPT ![t] = "up"]
  /\ UNCHANGED <<connected, errors>> /\ UnchangedWork

\* redisConnectionOpened, and what listens to `opened'.
RedisConnectionOpened(t) ==
  /\ Alive(t)
  /\ link[t] = "up"
  /\ link' = [link EXCEPT ![t] = "ready"]
  /\ connected' = connected \cup {t}
  /\ waiting' = IF Kind[t] = "frontend" THEN waiting ELSE [waiting EXCEPT ![t] = @ + 1]
  /\ UNCHANGED <<phase, busy, serving, errors>>

\* redisConnectionClosed with an error, while the client is connected: the flag
\* goes, and `closed' is not emitted.
ErrorEvent(t) ==
  /\ Alive(t)
  /\ link[t] \in {"up", "ready"}
  /\ errors[t] < MaxErrors
  /\ errors' = [errors EXCEPT ![t] = @ + 1]
  /\ connected' = connected \ {t}
  /\ UNCHANGED link /\ UnchangedWork

\* Faulty: the flag stays.
ClosedWithFlag(t) ==
  IF Kind[t] = "frontend"
  THEN /\ phase' = [phase EXCEPT ![t] = "draining"]
       /\ link' = [link EXCEPT ![t] = "down"]
       /\ UNCHANGED <<connected, waiting, busy, serving, errors>>
  ELSE Exit(t)

\* Faulty: nobody listens to `closed'.
ClosedUnheard(t) ==
  /\ link' = [link EXCEPT ![t] = "down"]
  /\ connected' = connected \ {t}
  /\ UNCHANGED errors /\ UnchangedWork

\* The `closed' handlers: stopBackend, stopThread and stopServer.
Closed(t) ==
  IF Kind[t] = "frontend"
  THEN /\ phase' = [phase EXCEPT ![t] = "draining"]
       /\ link' = [link EXCEPT ![t] = "down"]
       /\ connected' = connected \ {t}
       /\ UNCHANGED <<waiting, busy, serving, errors>>
  ELSE Exit(t)

\* The connection is lost.  A BLPOP that is outstanding fails, and the worker
\* with it; `closed' is emitted only if the flag was set.
Lose(t) ==
  /\ Alive(t)
  /\ link[t] \in {"up", "ready"}
  /\ \/ /\ t \in connected
        /\ Closed(t)
     \/ /\ t \notin connected /\ Kind[t] = "backend" /\ waiting[t] > 0
        /\ Exit(t)
     \/ /\ t \notin connected /\ ~(Kind[t] = "backend" /\ waiting[t] > 0)
        /\ link' = [link EXCEPT ![t] = "down"]
        /\ UNCHANGED <<connected, errors>> /\ UnchangedWork

\* BLPOP returns.
JobArrives(t) ==
  /\ Kind[t] = "backend"
  /\ link[t] = "ready"
  /\ waiting[t] > 0
  /\ waiting' = [waiting EXCEPT ![t] = @ - 1]
  /\ busy' = [busy EXCEPT ![t] = @ + 1]
  /\ UNCHANGED <<link, connected, phase, serving, errors>>

\* Faulty: the loop goes on as if BLPOP were queued until redis is back.
JobDoneAnyway(t) ==
  /\ busy[t] > 0
  /\ busy' = [busy EXCEPT ![t] = @ - 1]
  /\ waiting' = [waiting EXCEPT ![t] = @ + 1]
  /\ UNCHANGED <<link, connected, phase, serving, errors>>

\* Faulty: a job that fails ends the loop.
JobDoneOrLoopEnds(t) ==
  /\ busy[t] > 0
  /\ busy' = [busy EXCEPT ![t] = @ - 1]
  /\ waiting' \in {waiting, [waiting EXCEPT ![t] = @ + 1]}
  /\ link[t] = "ready"
  /\ UNCHANGED <<link, connected, phase, serving, errors>>

\* The job is done, whatever redis says to its reports, and the loop starts
\* again.  Without a connection BLPOP fails at once, and the worker with it.
JobDone(t) ==
  /\ busy[t] > 0
  /\ \/ /\ link[t] = "ready"
        /\ busy' = [busy EXCEPT ![t] = @ - 1]
        /\ waiting' = [waiting EXCEPT ![t] = @ + 1]
        /\ UNCHANGED <<link, connected, phase, serving, errors>>
     \/ /\ link[t] # "ready"
        /\ Exit(t)

\* Clients come to a frontend that listens, and go.
ClientsCome(t) ==
  /\ Kind[t] = "frontend"
  /\ phase[t] = "running"
  /\ serving' = serving \cup {t}
  /\ UNCHANGED <<link, connected, phase, waiting, busy, errors>>

ClientsGo(t) ==
  /\ t \in serving
  /\ serving' = serving \ {t}
  /\ UNCHANGED <<link, connected, phase, waiting, busy, errors>>

\* Faulty: only a frontend that was told to stop ends.
DrainedOfRedis(t) ==
  /\ phase[t] = "draining"
  /\ t \notin serving
  /\ link[t] = "closed"
  /\ Exit(t)

\* The HTTP server has closed.
Drained(t) ==
  /\ phase[t] = "draining"
  /\ t \notin serving
  /\ Exit(t)

\* SIGINT: a frontend quits redis and drains, the others exit.
Stop(t) ==
  /\ phase[t] = "running"
  /\ IF Kind[t] = "frontend"
     THEN /\ phase' = [phase EXCEPT ![t] = "draining"]
          /\ link' = [link EXCEPT ![t] = IF @ = "down" THEN "down" ELSE "closed"]
          /\ connected' = connected \ {t}
          /\ UNCHANGED <<waiting, busy, serving, errors>>
     ELSE Exit(t)

\* The coordinator replaces a thread that has died (module Coordinator).
Respawn(t) ==
  /\ phase[t] = "dead"
  /\ phase' = [phase EXCEPT ![t] = "running"]
  /\ link' = [link EXCEPT ![t] = "down"]
  /\ errors' = [errors EXCEPT ![t] = 0]
  /\ UNCHANGED <<connected, waiting, busy, serving>>

Next ==
  \E t \in Threads :
    \/ Connect(t)
    \/ RedisConnectionOpened(t)
    \/ ErrorEvent(t)
    \/ Lose(t)
    \/ JobArrives(t)
    \/ JobDone(t)
    \/ ClientsCome(t)
    \/ ClientsGo(t)
    \/ Drained(t)
    \/ Stop(t)
    \/ Respawn(t)

Spec == Init /\ [][Next]_vars

(***************************************************************************)
(* Jobs end (module ForkedChild), clients of a server that has closed hang *)
(* up or are served, and the event loop gets on.  Redis need not come back.*)
(***************************************************************************)
Fairness ==
  \A t \in Threads :
    /\ WF_vars(JobDone(t))
    /\ WF_vars(Drained(t))
    /\ WF_vars(phase[t] = "draining" /\ ClientsGo(t))

FairSpec == Spec /\ Fairness

-----------------------------------------------------------------------------

\* A thread never does its work twice at the same time -- two jobs of one
\* worker, two timers of one collector -- unless error events came while it was
\* connected, and then no more often than they did: a connection that opens
\* again after `closed' finds the thread dead, with its loop.
WorksOnce == \A t \in Threads : waiting[t] + busy[t] <= 1 + errors[t]

\* A worker or collector whose connection is ready is at work: it cannot sit
\* there connected and deaf, whatever the order of error, end and ready events.
NeverDeaf ==
  \A t \in Threads :
    phase[t] = "running" /\ link[t] = "ready" /\ Kind[t] # "frontend"
      => waiting[t] + busy[t] > 0

\* A worker never waits at a BLPOP that redis does not know of.
NoLostWait ==
  \A t \in Threads : Kind[t] = "backend" /\ waiting[t] > 0 => link[t] = "ready"

\* A worker that does not notice that its connection is lost finds out when its
\* job is done: it dies, unless the connection is back by then.
StrandedWorkerReturns ==
  \A t \in Threads :
    busy[t] > 0 /\ link[t] # "ready" ~> busy[t] = 0 \/ link[t] = "ready"

\* A frontend that was told to stop, or has lost redis, ends.
DrainingEnds == \A t \in Threads : phase[t] = "draining" ~> phase[t] = "dead"

=============================================================================
