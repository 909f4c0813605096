----------------------- MODULE RedisConnectionProofs ------------------------
(***************************************************************************)
(* What holds of the connections of any number of threads of any types,    *)
(* and for any number of error events.                                     *)
(***************************************************************************)
EXTENDS RedisConnection, TLAPS

\* A loop outlives its connection only if an error event has cleared the flag:
\* without the flag there are no more loops than there were error events, with
\* it one more.  A frontend has none, and a dead thread no connection.
LoopsAccounted ==
  \A t \in Threads :
    /\ t \notin connected => waiting[t] + busy[t] <= errors[t]
    /\ t \in connected => waiting[t] + busy[t] <= 1 + errors[t]
    /\ Kind[t] = "frontend" => waiting[t] = 0 /\ busy[t] = 0
    /\ phase[t] = "draining" => Kind[t] = "frontend"
    /\ phase[t] = "dead" => link[t] = "closed"

Inv == TypeOK /\ LoopsAccounted /\ NeverDeaf /\ NoLostWait

\* Threads start without a connection and without work.
LEMMA InitInv == Init => Inv
  BY ConnectionAssumption DEF Init, Inv, TypeOK, LoopsAccounted, NeverDeaf, NoLostWait

\* A thread that ends leaves the others alone, and nothing of its own.
LEMMA ExitInv ==
  ASSUME Inv, NEW t \in Threads, Exit(t)
  PROVE  Inv'
  BY ConnectionAssumption DEF Exit, Inv, TypeOK, LoopsAccounted, NeverDeaf, NoLostWait

\* Every event of a connection and of a thread keeps the account of its loops.
LEMMA StepInv == Inv /\ [Next]_vars => Inv'
<1>. SUFFICES ASSUME Inv, [Next]_vars PROVE Inv'
  OBVIOUS
<1>. USE ConnectionAssumption
<1>1. CASE UNCHANGED vars
  BY <1>1 DEF vars, Inv, TypeOK, LoopsAccounted, NeverDeaf, NoLostWait
<1>2. ASSUME NEW t \in Threads, Connect(t) PROVE Inv'
  BY <1>2 DEF Connect, UnchangedWork, Inv, TypeOK, LoopsAccounted, NeverDeaf, NoLostWait
<1>3. ASSUME NEW t \in Threads, RedisConnectionOpened(t) PROVE Inv'
  BY <1>3 DEF RedisConnectionOpened, Inv, TypeOK, LoopsAccounted, NeverDeaf, NoLostWait, Alive, Kinds
<1>4. ASSUME NEW t \in Threads, ErrorEvent(t) PROVE Inv'
  BY <1>4 DEF ErrorEvent, UnchangedWork, Inv, TypeOK, LoopsAccounted, NeverDeaf, NoLostWait
<1>5. ASSUME NEW t \in Threads, Lose(t) PROVE Inv'
  <2>1. CASE Exit(t)
    BY <2>1, ExitInv
  <2>2. CASE t \in connected /\ Closed(t) /\ Kind[t] = "frontend"
    BY <1>5, <2>2 DEF Closed, Lose, Alive, Inv, TypeOK, LoopsAccounted, NeverDeaf, NoLostWait
  <2>3. CASE /\ t \notin connected /\ ~(Kind[t] = "backend" /\ waiting[t] > 0)
             /\ link' = [link EXCEPT ![t] = "down"]
             /\ UNCHANGED <<connected, errors>> /\ UnchangedWork
    BY <1>5, <2>3 DEF Lose, Alive, UnchangedWork, Inv, TypeOK, LoopsAccounted, NeverDeaf, NoLostWait
  <2>. QED BY <1>5, <2>1, <2>2, <2>3 DEF Lose, Closed
<1>6. ASSUME NEW t \in Threads, JobArrives(t) PROVE Inv'
  BY <1>6 DEF JobArrives, Inv, TypeOK, LoopsAccounted, NeverDeaf, NoLostWait
<1>7. ASSUME NEW t \in Threads, JobDone(t) PROVE Inv'
  <2>1. CASE Exit(t)
    BY <2>1, ExitInv
  <2>2. CASE /\ link[t] = "ready"
             /\ busy' = [busy EXCEPT ![t] = @ - 1]
             /\ waiting' = [waiting EXCEPT ![t] = @ + 1]
             /\ UNCHANGED <<link, connected, phase, serving, errors>>
    BY <1>7, <2>2 DEF JobDone, Inv, TypeOK, LoopsAccounted, NeverDeaf, NoLostWait
  <2>. QED BY <1>7, <2>1, <2>2 DEF JobDone
<1>8. ASSUME NEW t \in Threads, ClientsCome(t) \/ ClientsGo(t) PROVE Inv'
  BY <1>8 DEF ClientsCome, ClientsGo, Inv, TypeOK, LoopsAccounted, NeverDeaf, NoLostWait
<1>9. ASSUME NEW t \in Threads, Drained(t) PROVE Inv'
  BY <1>9, ExitInv DEF Drained
<1>10. ASSUME NEW t \in Threads, Stop(t) PROVE Inv'
  <2>1. CASE Exit(t)
    BY <2>1, ExitInv
  <2>2. CASE Kind[t] = "frontend" /\ ~Exit(t)
    BY <1>10, <2>2 DEF Stop, Inv, TypeOK, LoopsAccounted, NeverDeaf, NoLostWait
  <2>. QED BY <1>10, <2>1, <2>2 DEF Stop
<1>11. ASSUME NEW t \in Threads, Respawn(t) PROVE Inv'
  BY <1>11 DEF Respawn, Inv, TypeOK, LoopsAccounted, NeverDeaf, NoLostWait
<1>. QED
  BY <1>1, <1>2, <1>3, <1>4, <1>5, <1>6, <1>7, <1>8, <1>9, <1>10, <1>11 DEF Next

\* The account holds at all times.
LEMMA Invariance == Spec => []Inv
  BY InitInv, StepInv, PTL DEF Spec

\* A flag is set only on a connection that is ready, and a dead thread has
\* neither work nor clients.
THEOREM TypeCorrect == Spec => []TypeOK
<1>1. Inv => TypeOK
  BY DEF Inv
<1>. QED BY Invariance, <1>1, PTL

\* A thread does its work twice only after error events on a live connection,
\* and no more often than they came.
THEOREM NoSecondLoop == Spec => []WorksOnce
<1>1. Inv => WorksOnce
  <2>. SUFFICES ASSUME Inv, NEW t \in Threads PROVE waiting[t] + busy[t] <= 1 + errors[t]
    BY DEF WorksOnce
  <2>1. waiting[t] \in Nat /\ busy[t] \in Nat /\ errors[t] \in Nat
    BY ConnectionAssumption DEF Inv, TypeOK
  <2>. QED BY <2>1 DEF Inv, LoopsAccounted
<1>. QED BY Invariance, <1>1, PTL

\* A worker or collector with a connection is at work.
THEOREM ConnectedAtWork == Spec => []NeverDeaf
<1>1. Inv => NeverDeaf
  BY DEF Inv
<1>. QED BY Invariance, <1>1, PTL

\* A worker waits only for a redis that is there.
THEOREM WaitsAreHeard == Spec => []NoLostWait
<1>1. Inv => NoLostWait
  BY DEF Inv
<1>. QED BY Invariance, <1>1, PTL

=============================================================================
