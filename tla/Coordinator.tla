---------------------------- MODULE Coordinator -----------------------------
(***************************************************************************)
(* The controlling process (mw-ocg-service.js): it starts the configured   *)
(* number of threads of each type, replaces a thread that dies, and shuts  *)
(* the service down.                                                       *)
(*                                                                         *)
(* Threads of one type are alike, so they are counted.  Time is relative:  *)
(* `since' is the age of the last (re)start of a type and a timer holds    *)
(* what is left of its delay, so the clock needs no bound.                 *)
(***************************************************************************)
EXTENDS Naturals, Sequences

CONSTANTS Types,     \* "gc", "frontend", "backend"
          Count,     \* how many threads of each type are configured
          Pause      \* the 1000 ms between restarts, in ticks

ASSUME CoordinatorAssumption ==
  /\ Count \in [Types -> Nat]
  /\ Pause \in Nat

VARIABLES up,        \* threads at work, of each type
          told,      \* threads that received SIGINT and have not exited yet
          timers,    \* the delayed respawns of each type: what is left to wait
          since,     \* the age of lastRestart, up to Pause
          began,     \* the ages of the last Count[t] starts, oldest first, up to Pause
          respawnWorkers,
          polling,   \* infoAndExit is scheduled
          exited     \* the controlling process is gone

vars == <<up, told, timers, since, began, respawnWorkers, polling, exited>>

FlagsOK ==
  /\ respawnWorkers \in BOOLEAN
  /\ polling \in BOOLEAN
  /\ exited \in BOOLEAN

StartsOK ==
  /\ DOMAIN began = Types
  /\ \A t \in Types : began[t] \in [1..Count[t] -> 0..Pause]

TypeOK ==
  /\ FlagsOK
  /\ up \in [Types -> Nat]
  /\ told \in [Types -> Nat]
  /\ timers \in [Types -> Seq(0..Pause)]
  /\ since \in [Types -> 0..Pause]
  /\ StartsOK
  /\ polling => ~respawnWorkers

Init ==
  /\ up = Count
  /\ told = [t \in Types |-> 0]
  /\ timers = [t \in Types |-> <<>>]
  /\ since = [t \in Types |-> 0]
  /\ began = [t \in Types |-> [i \in 1..Count[t] |-> 0]]
  /\ respawnWorkers = TRUE
  /\ polling = FALSE
  /\ exited = FALSE

-----------------------------------------------------------------------------

\* A start is the youngest from now on; the oldest is forgotten.
Began(t) == began' = [began EXCEPT ![t] =
  [i \in 1..Count[t] |-> IF i < Count[t] THEN @[i + 1] ELSE 0]]

\* The restart part of spawnWorker; the new thread is counted by its caller.
Restarted(t) ==
  /\ since' = [since EXCEPT ![t] = 0]
  /\ Began(t)

\* Faulty: within the pause the thread is not replaced at all.
RespawnOrDrop(t, ups) ==
  IF respawnWorkers /\ since[t] >= Pause
  THEN /\ up' = [ups EXCEPT ![t] = @ + 1]
       /\ Restarted(t)
       /\ UNCHANGED timers
  ELSE /\ up' = ups
       /\ UNCHANGED <<since, began, timers>>

\* cluster.on('disconnect'): replace the thread now, or after the pause, or not
\* at all.  `ups' is what is left of `up'.
Respawn(t, ups) ==
  \/ /\ respawnWorkers
     /\ since[t] >= Pause
     /\ up' = [ups EXCEPT ![t] = @ + 1]
     /\ Restarted(t)
     /\ UNCHANGED timers
  \/ /\ respawnWorkers
     /\ since[t] < Pause
     /\ up' = ups
     /\ timers' = [timers EXCEPT ![t] = Append(@, Pause)]
     /\ UNCHANGED <<since, began>>
  \/ /\ ~respawnWorkers
     /\ up' = ups
     /\ UNCHANGED <<since, began, timers>>

\* A thread dies of its own accord.
ThreadDies(t) ==
  /\ up[t] > 0
  /\ Respawn(t, [up EXCEPT ![t] = @ - 1])
  /\ UNCHANGED <<told, respawnWorkers, polling, exited>>

\* A thread that received SIGINT has stopped.
ToldThreadExits(t) ==
  /\ told[t] > 0
  /\ told' = [told EXCEPT ![t] = @ - 1]
  /\ Respawn(t, up)
  /\ UNCHANGED <<respawnWorkers, polling, exited>>

\* The operator sends SIGINT to one child.
SignalChild(t) ==
  /\ up[t] > 0
  /\ up' = [up EXCEPT ![t] = @ - 1]
  /\ told' = [told EXCEPT ![t] = @ + 1]
  /\ UNCHANGED <<timers, since, began, respawnWorkers, polling, exited>>

\* Faulty: lastRestart is not set by a delayed start.
TimerFiresUnnoticed(t) ==
  /\ timers[t] # <<>>
  /\ Head(timers[t]) = 0
  /\ timers' = [timers EXCEPT ![t] = Tail(@)]
  /\ up' = [up EXCEPT ![t] = @ + 1]
  /\ Began(t)
  /\ UNCHANGED <<told, since, respawnWorkers, polling, exited>>

\* setTimeout(spawnWorker, 1000, type): whatever has happened since, the thread
\* is started.
TimerFires(t) ==
  /\ timers[t] # <<>>
  /\ Head(timers[t]) = 0
  /\ timers' = [timers EXCEPT ![t] = Tail(@)]
  /\ up' = [up EXCEPT ![t] = @ + 1]
  /\ Restarted(t)
  /\ UNCHANGED <<told, respawnWorkers, polling, exited>>

\* Threads in cluster.workers.
NoneAlive(ups, tolds) == \A t \in Types : ups[t] = 0 /\ tolds[t] = 0

\* Faulty: threads are still replaced during the shutdown.
ShutdownButRespawn ==
  /\ up' = [t \in Types |-> 0]
  /\ told' = [t \in Types |-> told[t] + up[t]]
  /\ polling' = TRUE
  /\ exited' = NoneAlive(up, told)
  /\ UNCHANGED <<timers, since, began, respawnWorkers>>

\* SIGINT or SIGTERM.  infoAndExit is called at once.
GracefulShutdown ==
  /\ respawnWorkers' = FALSE
  /\ up' = [t \in Types |-> 0]
  /\ told' = [t \in Types |-> told[t] + up[t]]
  /\ polling' = TRUE
  /\ exited' = NoneAlive(up, told)
  /\ UNCHANGED <<timers, since, began>>

\* The poll of infoAndExit that finds no thread; any other poll only repeats.
InfoAndExit ==
  /\ polling
  /\ NoneAlive(up, told)
  /\ exited' = TRUE
  /\ UNCHANGED <<up, told, timers, since, began, respawnWorkers, polling>>

\* SIGHUP: every thread is destroyed.
ImmediateShutdown ==
  /\ respawnWorkers' = FALSE
  /\ up' = [t \in Types |-> 0]
  /\ told' = [t \in Types |-> 0]
  /\ exited' = TRUE
  /\ UNCHANGED <<timers, since, began, polling>>

Older(age) == IF age < Pause THEN age + 1 ELSE Pause

Tick ==
  /\ since' = [t \in Types |-> Older(since[t])]
  /\ began' = [t \in Types |-> [i \in 1..Count[t] |-> Older(began[t][i])]]
  /\ timers' = [t \in Types |->
                  [i \in 1..Len(timers[t]) |->
                     IF timers[t][i] > 0 THEN timers[t][i] - 1 ELSE 0]]
  /\ UNCHANGED <<up, told, respawnWorkers, polling, exited>>

Next ==
  /\ ~exited
  /\ \/ \E t \in Types : \/ ThreadDies(t)
                         \/ ToldThreadExits(t)
                         \/ SignalChild(t)
                         \/ TimerFires(t)
     \/ GracefulShutdown
     \/ InfoAndExit
     \/ ImmediateShutdown
     \/ Tick

Spec == Init /\ [][Next]_vars

(***************************************************************************)
(* Timers fire and time passes.  A thread that was told to stop exits: its *)
(* stop function closes the redis connection and calls process.exit, in a  *)
(* frontend once the open HTTP connections are done.  Threads need not     *)
(* die, nor the operator send anything.                                    *)
(***************************************************************************)
Fairness ==
  /\ WF_vars(~exited /\ Tick)
  /\ WF_vars(~exited /\ InfoAndExit)
  /\ \A t \in Types : WF_vars(~exited /\ TimerFires(t)) /\ WF_vars(~exited /\ ToldThreadExits(t))

FairSpec == Spec /\ Fairness

-----------------------------------------------------------------------------

\* However many threads die, in bursts or one after the other, during a pause
\* or after it: none is lost and none is started twice.  A shutdown adds none.
ThreadsKept ==
  \A t \in Types : LET threads == up[t] + told[t] + Len(timers[t]) IN
    /\ threads <= Count[t]
    /\ respawnWorkers => threads = Count[t]

\* A thread of type t is started: by a timer, or at once, which takes a full pause.
Starts(t) == since'[t] < since[t] \/ Len(timers'[t]) < Len(timers[t])

\* A configuration that kills its threads cannot make the service fork without
\* limit: one pause sees no more starts of a type than it has threads, although
\* delayed starts do not look at lastRestart and a burst of deaths is replaced
\* in one burst.
RestartsPaced == [][\A t \in Types : Starts(t) => began[t][1] >= Pause]_vars

\* The service never stays without a thread of some type that is configured,
\* unless it is shut down.
ServiceReturns ==
  \A t \in Types : Count[t] > 0 /\ up[t] = 0 ~> up[t] > 0 \/ ~respawnWorkers

\* A shutdown that met no delayed respawn comes to an end.
ShutdownEnds ==
  (polling /\ \A t \in Types : up[t] = 0 /\ timers[t] = <<>>) ~> exited

\* "Sending a SIGINT to a child (or the controller) will start a graceful
\* shutdown", which waits for all threads: it comes to an end.
ShutdownCompletes == polling ~> exited

=============================================================================
