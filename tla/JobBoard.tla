------------------------------ MODULE JobBoard ------------------------------
(***************************************************************************)
(* What the render service promises, without redis, files or handlers: a   *)
(* board that shows a state for each job, a backlog of accepted jobs and a *)
(* desk per worker.  A job gets on the board only by being accepted, which *)
(* also puts it in the backlog; after that only a worker that has the job  *)
(* on its desk writes to the board, and when it clears its desk the board  *)
(* shows an outcome -- unless the worker dies, when the job is given up    *)
(* and the board keeps what it showed.  One thing spoils this: a worker    *)
(* may still repeat a report on the job it cleared off its desk last,      *)
(* which reopens a job that nobody works on.                               *)
(***************************************************************************)
EXTENDS Naturals, Sequences

CONSTANTS Jobs, Workers, Nobody

VARIABLES backlog, board, desk, givenUp,
          cleared,    \* the job each worker cleared off its desk last
          reopened    \* jobs reported on by a worker that had cleared its desk

boardVars == <<backlog, board, desk, givenUp, cleared, reopened>>

Shown == {"none", "pending", "progress", "finished", "failed"}

Init ==
  /\ backlog = <<>>
  /\ board = [j \in Jobs |-> "none"]
  /\ desk = [w \in Workers |-> Nobody]
  /\ givenUp = {}
  /\ cleared = [w \in Workers |-> Nobody]
  /\ reopened = {}

Accept(j) ==
  /\ backlog' = Append(backlog, j)
  /\ board' = [board EXCEPT ![j] = "pending"]
  /\ givenUp' = givenUp \ {j}
  /\ reopened' = reopened \ {j}
  /\ UNCHANGED <<desk, cleared>>

Take(w) ==
  /\ desk[w] = Nobody
  /\ backlog # <<>>
  /\ desk' = [desk EXCEPT ![w] = Head(backlog)]
  /\ backlog' = Tail(backlog)
  /\ UNCHANGED <<board, givenUp, cleared, reopened>>

Report(w) ==
  /\ desk[w] # Nobody
  /\ board' = [board EXCEPT ![desk[w]] = "progress"]
  /\ UNCHANGED <<backlog, desk, givenUp, cleared, reopened>>

Settle(w) ==
  /\ desk[w] # Nobody
  /\ \E outcome \in {"finished", "failed"} :
       board' = [board EXCEPT ![desk[w]] = outcome]
  /\ desk' = [desk EXCEPT ![w] = Nobody]
  /\ cleared' = [cleared EXCEPT ![w] = desk[w]]
  /\ reopened' = reopened \ {desk[w]}
  /\ UNCHANGED <<backlog, givenUp>>

GiveUp(w) ==
  /\ desk[w] # Nobody
  /\ givenUp' = givenUp \union {desk[w]}
  /\ desk' = [desk EXCEPT ![w] = Nobody]
  /\ \E last \in {desk[w], Nobody} : cleared' = [cleared EXCEPT ![w] = last]
  /\ UNCHANGED <<backlog, board, reopened>>

\* A report on the job that is already cleared off the desk.
Echo(w) ==
  /\ cleared[w] # Nobody
  /\ board' = [board EXCEPT ![cleared[w]] = "progress"]
  /\ reopened' = reopened \union {cleared[w]}
  /\ UNCHANGED <<backlog, desk, givenUp, cleared>>

\* The worker falls silent about that job.
Quiet(w) ==
  /\ cleared' = [cleared EXCEPT ![w] = Nobody]
  /\ UNCHANGED <<backlog, board, desk, givenUp, reopened>>

Next ==
  \/ \E j \in Jobs : Accept(j)
  \/ \E w \in Workers :
       Take(w) \/ Report(w) \/ Settle(w) \/ GiveUp(w) \/ Echo(w) \/ Quiet(w)

Spec == Init /\ [][Next]_boardVars

-----------------------------------------------------------------------------

\* A job that is shown as accepted or under way is in the backlog, on a desk or
\* given up: the board never promises an outcome that nobody works towards,
\* except by reports that come after the desk was cleared.
Accounted ==
  \A j \in Jobs :
    /\ board[j] = "pending" =>
         \/ \E i \in 1..Len(backlog) : backlog[i] = j
         \/ \E w \in Workers : desk[w] = j
         \/ j \in givenUp
    /\ board[j] = "progress" =>
         (\E w \in Workers : desk[w] = j) \/ j \in givenUp \union reopened

=============================================================================
