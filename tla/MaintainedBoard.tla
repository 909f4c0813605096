-------------------------- MODULE MaintainedBoard ---------------------------
(***************************************************************************)
(* What is left of the promises of the job board when others tidy up: a    *)
(* job may be taken off the board at any time, and a clearer cuts jobs off *)
(* the head of the backlog, keeps those that are still pending and writes  *)
(* them off as failed, with others perhaps, or abandons them.  A worker    *)
(* that does not find its job on the board works on a phantom instead.     *)
(***************************************************************************)
EXTENDS JobBoard

CONSTANT Phantom

VARIABLE cut   \* the jobs the clearer has cut off and not found to be settled

maintainedVars == <<boardVars, cut>>

MaintainedInit == Init /\ cut = {}

Discard(j) ==
  /\ board' = [board EXCEPT ![j] = "none"]
  /\ UNCHANGED <<backlog, desk, givenUp, cleared, reopened, cut>>

Mistake(w) ==
  /\ desk[w] # Nobody
  /\ board[desk[w]] = "none"
  /\ desk' = [desk EXCEPT ![w] = Phantom]
  /\ cleared' = [cleared EXCEPT ![w] = Nobody]
  /\ UNCHANGED <<backlog, board, givenUp, reopened, cut>>

CutOff(n) ==
  /\ cut = {}
  /\ cut' = {backlog[i] : i \in 1..n}
  /\ backlog' = SubSeq(backlog, n + 1, Len(backlog))
  /\ UNCHANGED <<board, desk, givenUp, cleared, reopened>>

Spare ==
  /\ cut' = {j \in cut : board[j] = "pending"}
  /\ UNCHANGED boardVars

WriteOff(jobs) ==
  /\ cut \subseteq jobs
  /\ cut' = {}
  /\ board' = [j \in Jobs |-> IF j \in jobs THEN "failed" ELSE board[j]]
  /\ UNCHANGED <<backlog, desk, givenUp, cleared, reopened>>

Abandon ==
  /\ givenUp' = givenUp \union cut
  /\ cut' = {}
  /\ UNCHANGED <<backlog, board, desk, cleared, reopened>>

MaintainedNext ==
  \/ Next /\ UNCHANGED cut
  \/ \E j \in Jobs : Discard(j)
  \/ \E w \in Workers : Mistake(w)
  \/ \E n \in 0..Len(backlog) : CutOff(n)
  \/ Spare
  \/ \E jobs \in SUBSET Jobs : WriteOff(jobs)
  \/ Abandon

MaintainedSpec == MaintainedInit /\ [][MaintainedNext]_maintainedVars

-----------------------------------------------------------------------------

\* A job that is shown as accepted or under way is still minded, though the
\* clearer may be the one who minds it.
MaintainedAccounted ==
  \A j \in Jobs :
    /\ board[j] = "pending" =>
         \/ \E i \in 1..Len(backlog) : backlog[i] = j
         \/ \E w \in Workers : desk[w] = j
         \/ j \in givenUp \union cut
    /\ board[j] = "progress" =>
         (\E w \in Workers : desk[w] = j) \/ j \in givenUp \union reopened

=============================================================================
