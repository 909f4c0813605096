---------------------------- MODULE ForkedChild -----------------------------
(***************************************************************************)
(* fork (backend.js): the promise for the completion of a child process,   *)
(* with a limit on its execution time.  The parent learns what happens to  *)
(* the child from events that arrive late: between a child's end and the   *)
(* exit event its timers may still fire.                                   *)
(*                                                                         *)
(* The children are other programs (the bundler and the renderers): they   *)
(* may end in any way, ignore SIGTERM or end with any code after it, and   *)
(* close their end of the message channel.  The messages themselves are    *)
(* part of module Backend.                                                 *)
(***************************************************************************)
EXTENDS Naturals

CONSTANT Limit       \* options.timeout in ticks; 0: no limit

ASSUME ForkAssumption == Limit \in Nat

VARIABLES proc,      \* the child process: "running", or how it ended
          channel,   \* is the child's end of the channel open
          connected, \* child.connected: what the parent knows of it
          sent,      \* the signals the parent has sent
          killTimer, \* which function the timer will call, and what is left
          killed,
          notified,  \* options.timeoutNotify was called
          promise    \* "pending", "resolved", "failed" or "timedOut"

childVars == <<proc, channel, connected, sent, killTimer, killed, notified, promise>>

Signals == {"SIGTERM", "SIGKILL"}
Ends == {"success", "failure"} \cup Signals

NoTimer == [calls |-> "nothing", left |-> 0]
Timer(f, delay) == [calls |-> f, left |-> delay]

ChildFlagsOK ==
  /\ channel \in BOOLEAN
  /\ connected \in BOOLEAN
  /\ killed \in BOOLEAN
  /\ notified \in BOOLEAN

ChildTypeOK ==
  /\ ChildFlagsOK
  /\ proc \in {"running", "unborn"} \cup Ends
  /\ sent \subseteq Signals
  /\ killTimer \in [calls : {"nothing", "limit", "kill"}, left : Nat]
  /\ promise \in {"pending", "resolved", "failed", "timedOut"}
  /\ killTimer.calls = "kill" => killed /\ killTimer.left <= 2 * Limit

ChildInit ==
  /\ proc \in {"running", "unborn"}
  /\ channel = TRUE
  /\ connected = TRUE
  /\ sent = {}
  /\ killTimer = IF Limit > 0 THEN Timer("limit", Limit) ELSE NoTimer
  /\ killed = FALSE
  /\ notified = FALSE
  /\ promise = "pending"

-----------------------------------------------------------------------------

\* The child.

ChildEnds(end) ==
  /\ proc = "running"
  /\ end \in Signals => end \in sent
  /\ proc' = end
  /\ channel' = FALSE
  /\ UNCHANGED <<connected, sent, killTimer, killed, notified, promise>>

\* Somebody else kills the child.
KilledFromOutside(signal) ==
  /\ proc = "running"
  /\ proc' = signal
  /\ channel' = FALSE
  /\ UNCHANGED <<connected, sent, killTimer, killed, notified, promise>>

ChildDisconnects ==
  /\ proc = "running"
  /\ channel
  /\ channel' = FALSE
  /\ UNCHANGED <<proc, connected, sent, killTimer, killed, notified, promise>>

-----------------------------------------------------------------------------

\* The parent.

\* The channel is closed at the parent's end too.
DisconnectEvent ==
  /\ ~channel
  /\ connected
  /\ connected' = FALSE
  /\ UNCHANGED <<proc, channel, sent, killTimer, killed, notified, promise>>

ClearKillTimer == killTimer' = NoTimer

\* The child could not be started.
ErrorEvent ==
  /\ proc = "unborn"
  /\ promise = "pending"
  /\ ClearKillTimer
  /\ promise' = "failed"
  /\ UNCHANGED <<proc, channel, connected, sent, killed, notified>>

\* Faulty: any signal counts as a timeout.
OutcomeOfSignal(end) ==
  CASE end = "success"  -> "resolved"
    [] end \in Signals -> "timedOut"
    [] OTHER           -> "failed"

\* What the promise becomes: e.timeout tells the kill from other failures.
Outcome(end) ==
  CASE end = "success"              -> "resolved"
    [] end \in Signals /\ killed   -> "timedOut"
    [] OTHER                       -> "failed"

\* Faulty: the timer stays armed.
ExitEventOnly ==
  /\ proc \in Ends
  /\ promise = "pending"
  /\ promise' = Outcome(proc)
  /\ UNCHANGED <<proc, channel, connected, sent, killTimer, killed, notified>>

ExitEvent ==
  /\ proc \in Ends
  /\ promise = "pending"
  /\ ClearKillTimer
  /\ promise' = Outcome(proc)
  /\ UNCHANGED <<proc, channel, connected, sent, killed, notified>>

\* Faulty: nobody comes back for a child that survives SIGTERM.
LimitTimerTermOnly ==
  /\ killTimer = Timer("limit", 0)
  /\ killTimer' = NoTimer
  /\ killed' = connected
  /\ sent' = IF connected THEN sent \cup {"SIGTERM"} ELSE sent
  /\ notified' = connected
  /\ UNCHANGED <<proc, channel, connected, promise>>

\* Faulty: the kill is not marked as the parent's own.
LimitTimerUnmarked ==
  /\ killTimer = Timer("limit", 0)
  /\ sent' = IF connected THEN sent \cup {"SIGTERM"} ELSE sent
  /\ killTimer' = IF connected THEN Timer("kill", 2 * Limit) ELSE NoTimer
  /\ notified' = connected
  /\ UNCHANGED <<proc, channel, connected, killed, promise>>

\* The limit has passed.  A child that is not connected is left alone.
LimitTimer ==
  /\ killTimer = Timer("limit", 0)
  /\ \/ /\ connected
        /\ killed' = TRUE
        /\ sent' = sent \cup {"SIGTERM"}
        /\ killTimer' = Timer("kill", 2 * Limit)
        /\ notified' = TRUE
     \/ /\ ~connected
        /\ killTimer' = NoTimer
        /\ UNCHANGED <<killed, sent, notified>>
  /\ UNCHANGED <<proc, channel, connected, promise>>

KillTimer ==
  /\ killTimer = Timer("kill", 0)
  /\ sent' = sent \cup {"SIGKILL"}
  /\ killTimer' = NoTimer
  /\ UNCHANGED <<proc, channel, connected, killed, notified, promise>>

\* A failure to start is reported before any timer can fire.
ChildTick ==
  /\ proc # "unborn"
  /\ killTimer.left > 0
  /\ killTimer' = [killTimer EXCEPT !.left = @ - 1]
  /\ UNCHANGED <<proc, channel, connected, sent, killed, notified, promise>>

ChildNext ==
  \/ \E end \in Ends : ChildEnds(end)
  \/ \E signal \in Signals : KilledFromOutside(signal)
  \/ ChildDisconnects
  \/ DisconnectEvent
  \/ ErrorEvent
  \/ ExitEvent
  \/ LimitTimer
  \/ KillTimer
  \/ ChildTick

ChildSpec == ChildInit /\ [][ChildNext]_childVars

\* The parent's events arrive, its timers fire, and SIGKILL ends a process.
\* Nothing else makes a child end.
ChildFairness ==
  /\ WF_childVars(DisconnectEvent)
  /\ WF_childVars(ErrorEvent)
  /\ WF_childVars(ExitEvent)
  /\ WF_childVars(LimitTimer)
  /\ WF_childVars(KillTimer)
  /\ WF_childVars(ChildTick)
  /\ WF_childVars(ChildEnds("SIGKILL"))

ChildFairSpec == ChildSpec /\ ChildFairness

-----------------------------------------------------------------------------

\* No signal is sent once the promise is settled, when the number of the
\* process may be another one's: what settles it also stops the timer.
NoStraySignal == [][sent' # sent => promise = "pending"]_childVars

\* A child somebody else killed is not reported as having used up its time: a
\* rejection for a timeout follows a SIGTERM of the parent's own, announced to
\* timeoutNotify.
TimeoutIsOurs == promise = "timedOut" => notified /\ "SIGTERM" \in sent

\* A child that is still connected while it runs cannot keep the worker for
\* ever, whatever it does with SIGTERM.
ConnectedChildSettles ==
  [](proc = "running" => channel) /\ Limit > 0 => <>(promise # "pending")

=============================================================================
