---------------------------- MODULE ProcessProofs ----------------------------
(***************************************************************************)
(* The processes of the service: the threads the controlling process       *)
(* keeps, and the children a worker forks.                                 *)
(*                                                                         *)
(* No thread is lost or doubled and no type is restarted faster than it    *)
(* should be, for any configuration of threads and any pause between       *)
(* restarts.  Signals and timeouts of a child are as they should be for    *)
(* every time limit, none included.                                        *)
(***************************************************************************)
EXTENDS Coordinator, ForkedChild, SequenceTheorems, TLAPS

-----------------------------------------------------------------------------
(* Threads *)

Inv == TypeOK /\ ThreadsKept

\* The flags are Booleans.
LEMMA Flags == (Init => FlagsOK) /\ (FlagsOK /\ [Next]_vars => FlagsOK')
<1>1. Init => FlagsOK
  BY Zenon DEF Init, FlagsOK
<1>2. ASSUME FlagsOK, [Next]_vars PROVE FlagsOK'
  <2>1. CASE \E t \in Types : ThreadDies(t) \/ ToldThreadExits(t) \/ SignalChild(t) \/ TimerFires(t)
    BY <1>2, <2>1, Zenon DEF ThreadDies, ToldThreadExits, SignalChild, TimerFires, FlagsOK
  <2>2. CASE GracefulShutdown
    <3>1. NoneAlive(up, told) \in BOOLEAN
      BY Zenon DEF NoneAlive
    <3>. QED BY <1>2, <2>2, <3>1, Zenon DEF GracefulShutdown, FlagsOK
  <2>3. CASE InfoAndExit \/ ImmediateShutdown \/ Tick \/ UNCHANGED vars
    BY <1>2, <2>3, Zenon DEF InfoAndExit, ImmediateShutdown, Tick, vars, FlagsOK
  <2>. QED BY <1>2, <2>1, <2>2, <2>3, Zenon DEF Next
<1>. QED BY <1>1, <1>2

\* The ages of the starts are well formed.
LEMMA Ages == (Init => StartsOK) /\ (StartsOK /\ [Next]_vars => StartsOK')
<1>. USE CoordinatorAssumption
<1>1. Init => StartsOK
  BY SMT DEF Init, StartsOK
<1>2. ASSUME StartsOK, NEW t \in Types, Began(t) PROVE StartsOK'
  <2>1. DOMAIN began' = Types /\ \A u \in Types \ {t} : began'[u] = began[u]
    BY <1>2 DEF Began, StartsOK
  <2>2. began'[t] = [i \in 1..Count[t] |-> IF i < Count[t] THEN began[t][i + 1] ELSE 0]
    BY <1>2 DEF Began, StartsOK
  <2>3. Count[t] \in Nat /\ began[t] \in [1..Count[t] -> 0..Pause]
    BY <1>2 DEF StartsOK
  <2>4. \A i \in 1..Count[t] : i < Count[t] => i + 1 \in 1..Count[t]
    BY <2>3, SMT
  <2>5. \A i \in 1..Count[t] : (IF i < Count[t] THEN began[t][i + 1] ELSE 0) \in 0..Pause
    BY <2>3, <2>4, SMT
  <2>6. began'[t] \in [1..Count[t] -> 0..Pause]
    BY <2>2, <2>5
  <2>. QED BY <1>2, <2>1, <2>6 DEF StartsOK
<1>3. ASSUME StartsOK, NEW t \in Types, NEW ups, Respawn(t, ups) PROVE StartsOK'
  <2>1. Began(t) \/ began' = began
    BY <1>3 DEF Respawn, Restarted
  <2>. QED BY <1>2, <1>3, <2>1 DEF StartsOK
<1>4. ASSUME StartsOK, Tick PROVE StartsOK'
  <2>1. \A a \in 0..Pause : Older(a) \in 0..Pause
    BY SMT DEF Older
  <2>2. ASSUME NEW t \in Types PROVE began'[t] \in [1..Count[t] -> 0..Pause]
    <3>1. began'[t] = [i \in 1..Count[t] |-> Older(began[t][i])]
      BY <1>4 DEF Tick
    <3>2. \A i \in 1..Count[t] : began[t][i] \in 0..Pause
      BY <1>4 DEF StartsOK
    <3>. QED BY <2>1, <3>1, <3>2
  <2>. QED BY <1>4, <2>2 DEF Tick, StartsOK
<1>5. ASSUME StartsOK, [Next]_vars PROVE StartsOK'
  <2>1. ASSUME NEW t \in Types, ThreadDies(t) \/ ToldThreadExits(t) PROVE StartsOK'
    BY <1>3, <1>5, <2>1 DEF ThreadDies, ToldThreadExits
  <2>2. ASSUME NEW t \in Types, TimerFires(t) PROVE StartsOK'
    BY <1>2, <1>5, <2>2 DEF TimerFires, Restarted
  <2>3. ASSUME began' = began PROVE StartsOK'
    BY <1>5, <2>3 DEF StartsOK
  <2>4. \/ \E t \in Types : ThreadDies(t) \/ ToldThreadExits(t) \/ TimerFires(t)
        \/ Tick
        \/ began' = began
    BY <1>5 DEF Next, vars, SignalChild, GracefulShutdown, InfoAndExit, ImmediateShutdown
  <2>. QED BY <1>4, <1>5, <2>1, <2>2, <2>3, <2>4
<1>. QED BY <1>1, <1>5

\* The configured threads are all started.
LEMMA InitInv == Init => Inv
  BY CoordinatorAssumption, Flags, Ages, EmptySeq, SMT DEF Init, Inv, TypeOK, ThreadsKept

\* The counts of a well-formed state are numbers.
LEMMA Counts ==
  ASSUME TypeOK, NEW t \in Types
  PROVE  /\ up[t] \in Nat /\ told[t] \in Nat /\ Count[t] \in Nat
         /\ Len(timers[t]) \in Nat /\ timers[t] \in Seq(0..Pause)
  BY CoordinatorAssumption, LenProperties DEF TypeOK

\* So are those of the next state.
LEMMA CountsNext ==
  ASSUME TypeOK', NEW t \in Types
  PROVE  /\ up'[t] \in Nat /\ told'[t] \in Nat
         /\ Len(timers'[t]) \in Nat /\ timers'[t] \in Seq(0..Pause)
  BY LenProperties DEF TypeOK

\* What a fired timer, a dead and a stopped thread do to the sum.
LEMMA Fired ==
  ASSUME NEW t, up[t] \in Nat, told[t] \in Nat, Len(timers[t]) \in Nat,
         Len(timers'[t]) = Len(timers[t]) - 1, told'[t] = told[t], up'[t] = up[t] + 1
  PROVE  up'[t] + told'[t] + Len(timers'[t]) = up[t] + told[t] + Len(timers[t])
  BY SMT

\* `u', `d' and `l' are threads at work, threads told to stop and timers; `back'
\* is one when the dead thread is replaced.
LEMMA Dead ==
  ASSUME NEW u \in Nat, NEW d \in Nat, NEW l \in Nat, NEW un \in Nat, NEW ln \in Nat,
         NEW back \in {0, 1}, un + ln = u - 1 + l + back
  PROVE  /\ un + d + ln <= u + d + l
         /\ back = 1 => un + d + ln = u + d + l
  BY SMT

\* The same for a thread that was told to stop.
LEMMA Stopped ==
  ASSUME NEW u \in Nat, NEW d \in Nat, NEW l \in Nat, NEW un \in Nat, NEW ln \in Nat,
         NEW back \in {0, 1}, un + ln = u + l + back
  PROVE  /\ un + (d - 1) + ln <= u + d + l
         /\ back = 1 => un + (d - 1) + ln = u + d + l
  BY SMT

\* A step that concerns one type keeps the threads when it keeps that type's.
LEMMA OneTypeKept ==
  ASSUME TypeOK, TypeOK', ThreadsKept, NEW t \in Types,
         \A u \in Types \ {t} : up'[u] = up[u] /\ told'[u] = told[u] /\ timers'[u] = timers[u],
         respawnWorkers' <=> respawnWorkers,
         up'[t] + told'[t] + Len(timers'[t]) <= up[t] + told[t] + Len(timers[t]),
         respawnWorkers =>
           up'[t] + told'[t] + Len(timers'[t]) = up[t] + told[t] + Len(timers[t])
  PROVE  ThreadsKept'
<1>. SUFFICES ASSUME NEW u \in Types
     PROVE  /\ up'[u] + told'[u] + Len(timers'[u]) <= Count[u]
            /\ respawnWorkers' => up'[u] + told'[u] + Len(timers'[u]) = Count[u]
  BY DEF ThreadsKept
<1>1. /\ up[u] + told[u] + Len(timers[u]) <= Count[u]
      /\ respawnWorkers => up[u] + told[u] + Len(timers[u]) = Count[u]
  BY DEF ThreadsKept
<1>2. CASE u # t
  <2>1. up'[u] = up[u] /\ told'[u] = told[u] /\ timers'[u] = timers[u]
    BY <1>2
  <2>. QED BY <1>1, <2>1
<1>3. CASE u = t
  BY <1>1, <1>3, Counts, CountsNext, SMT
<1>. QED BY <1>2, <1>3

\* A dead thread comes back at once or gets a timer; ups is what up is without it.
LEMMA RespawnKeeps ==
  ASSUME TypeOK, NEW t \in Types, NEW ups \in [Types -> Nat], Respawn(t, ups)
  PROVE  /\ up' \in [Types -> Nat]
         /\ timers' \in [Types -> Seq(0..Pause)]
         /\ since' \in [Types -> 0..Pause]
         /\ \A u \in Types \ {t} : up'[u] = ups[u] /\ timers'[u] = timers[u]
         /\ up'[t] + Len(timers'[t]) =
              ups[t] + Len(timers[t]) + (IF respawnWorkers THEN 1 ELSE 0)
<1>. USE CoordinatorAssumption DEF TypeOK
<1>0. timers[t] \in Seq(0..Pause)
  OBVIOUS
<1>a. Len(timers[t]) \in Nat /\ ups[t] \in Nat
  BY <1>0, LenProperties
<1>1. CASE respawnWorkers /\ since[t] >= Pause
  <2>1. /\ up' = [ups EXCEPT ![t] = ups[t] + 1]
        /\ since' = [since EXCEPT ![t] = 0]
        /\ timers' = timers
    BY <1>1, SMT DEF Respawn, Restarted
  <2>2. up' \in [Types -> Nat] /\ since' \in [Types -> 0..Pause]
    BY <1>a, <2>1, SMT
  <2>3. up'[t] = ups[t] + 1 /\ \A u \in Types \ {t} : up'[u] = ups[u]
    BY <2>1
  <2>4. up'[t] + Len(timers'[t]) = ups[t] + Len(timers[t]) + 1
    BY <1>a, <2>1, <2>3, SMT
  <2>. QED BY <1>1, <2>1, <2>2, <2>3, <2>4
<1>2. CASE respawnWorkers /\ since[t] < Pause
  <2>1. /\ up' = ups
        /\ timers' = [timers EXCEPT ![t] = Append(timers[t], Pause)]
        /\ since' = since
    BY <1>2, SMT DEF Respawn
  <2>2. /\ Append(timers[t], Pause) \in Seq(0..Pause)
        /\ Len(Append(timers[t], Pause)) = Len(timers[t]) + 1
    <3>1. Pause \in 0..Pause
      BY SMT
    <3>. QED BY <1>0, <3>1, AppendProperties
  <2>3. timers' \in [Types -> Seq(0..Pause)]
    BY <2>1, <2>2
  <2>4. timers'[t] = Append(timers[t], Pause) /\ \A u \in Types \ {t} : timers'[u] = timers[u]
    BY <2>1
  <2>5. up'[t] + Len(timers'[t]) = ups[t] + Len(timers[t]) + 1
    BY <1>a, <2>1, <2>2, <2>4, SMT
  <2>. QED BY <1>2, <2>1, <2>3, <2>4, <2>5
<1>3. CASE ~respawnWorkers
  BY <1>0, <1>3, SMT DEF Respawn
<1>. QED BY <1>1, <1>2, <1>3

\* Time runs the timers down; none goes and none is overdue.
LEMMA TickKeepsTimers ==
  ASSUME TypeOK, Tick, NEW t \in Types
  PROVE  /\ timers'[t] \in Seq(0..Pause)
         /\ Len(timers'[t]) = Len(timers[t])
         /\ \A k \in 1..Len(timers[t]) :
              timers'[t][k] = IF timers[t][k] > 0 THEN timers[t][k] - 1 ELSE 0
<1>. DEFINE n == Len(timers[t])
            run == [k \in 1..n |-> IF timers[t][k] > 0 THEN timers[t][k] - 1 ELSE 0]
<1>1. timers'[t] = run
  BY DEF Tick
<1>2. n \in Nat /\ \A k \in 1..n : timers[t][k] \in 0..Pause
  BY Counts, ElementOfSeq
<1>3. \A k \in 1..n : (IF timers[t][k] > 0 THEN timers[t][k] - 1 ELSE 0) \in 0..Pause
  BY <1>2, CoordinatorAssumption, SMT
<1>4. run \in Seq(0..Pause)
  BY <1>2, <1>3, SeqDef
<1>5. DOMAIN run = 1..n
  OBVIOUS
<1>6. Len(run) = n
  BY <1>2, <1>4, <1>5, LenProperties, SMT
<1>. QED BY <1>1, <1>4, <1>6

\* Every step keeps the types and the threads.
LEMMA StepInv == Inv /\ [Next]_vars => Inv'
<1>. SUFFICES ASSUME Inv, [Next]_vars PROVE Inv'
  OBVIOUS
<1>0. FlagsOK' /\ StartsOK'
  BY Flags, Ages DEF Inv, TypeOK
<1>. USE <1>0, CoordinatorAssumption DEF Inv
<1>a. \A t \in Types : /\ up[t] \in Nat /\ told[t] \in Nat /\ Count[t] \in Nat
                       /\ Len(timers[t]) \in Nat /\ timers[t] \in Seq(0..Pause)
  BY Counts
<1>n. \A t \in Types : /\ up[t] \in Nat /\ told[t] \in Nat
                       /\ Len(timers[t]) \in Nat
  BY <1>a
<1>1. ASSUME NEW t \in Types, ThreadDies(t) PROVE Inv'
  <2>. DEFINE ups == [up EXCEPT ![t] = @ - 1]
  <2>1. ups \in [Types -> Nat] /\ Respawn(t, ups)
    BY <1>1, <1>a, SMT DEF ThreadDies, TypeOK
  <2>2. ups[t] = up[t] - 1 /\ \A u \in Types \ {t} : ups[u] = up[u]
    BY DEF TypeOK
  <2>. HIDE DEF ups
  <2>a. /\ told' = told
        /\ UNCHANGED <<respawnWorkers, polling, exited>>
    BY <1>1 DEF ThreadDies
  <2>b. /\ up' \in [Types -> Nat]
        /\ timers' \in [Types -> Seq(0..Pause)]
        /\ since' \in [Types -> 0..Pause]
        /\ \A u \in Types \ {t} : up'[u] = ups[u] /\ timers'[u] = timers[u]
        /\ up'[t] + Len(timers'[t]) =
             ups[t] + Len(timers[t]) + (IF respawnWorkers THEN 1 ELSE 0)
    BY <2>1, RespawnKeeps
  <2>3. TypeOK'
    BY <2>a, <2>b, SMT DEF TypeOK
  <2>4. ThreadsKept'
    <3>1. \A u \in Types \ {t} : up'[u] = up[u] /\ told'[u] = told[u] /\ timers'[u] = timers[u]
      BY <2>a, <2>b, <2>2
    <3>. DEFINE back == IF respawnWorkers THEN 1 ELSE 0
    <3>2. /\ up'[t] + told'[t] + Len(timers'[t]) <= up[t] + told[t] + Len(timers[t])
          /\ back = 1 => up'[t] + told'[t] + Len(timers'[t]) = up[t] + told[t] + Len(timers[t])
      <4>a. up[t] \in Nat /\ told[t] \in Nat /\ Len(timers[t]) \in Nat
        BY <1>n
      <4>b. up'[t] \in Nat /\ Len(timers'[t]) \in Nat
        BY <2>3, CountsNext
      <4>1. told'[t] = told[t]
        BY <2>a
      <4>2. up'[t] + Len(timers'[t]) = up[t] - 1 + Len(timers[t]) + back
        BY <2>b, <2>2
      <4>3. back \in {0, 1}
        OBVIOUS
      <4>. HIDE DEF back
      <4>4. PICK u \in Nat, d \in Nat, l \in Nat, un \in Nat, ln \in Nat :
              u = up[t] /\ d = told[t] /\ l = Len(timers[t]) /\ un = up'[t] /\ ln = Len(timers'[t])
        BY <4>a, <4>b
      <4>5. un + ln = u - 1 + l + back
        BY <4>2, <4>4
      <4>6. un + d + ln <= u + d + l /\ (back = 1 => un + d + ln = u + d + l)
        BY <4>3, <4>5, Dead
      <4>. QED BY <4>1, <4>4, <4>6, Zenon
    <3>3. TypeOK /\ ThreadsKept /\ (respawnWorkers' <=> respawnWorkers)
      BY <2>a
    <3>4. respawnWorkers => back = 1
      OBVIOUS
    <3>. HIDE DEF back
    <3>. QED BY <2>3, <3>1, <3>2, <3>3, <3>4, OneTypeKept, Zenon
  <2>. QED BY <2>3, <2>4
<1>2. ASSUME NEW t \in Types, ToldThreadExits(t) PROVE Inv'
  <2>1. up \in [Types -> Nat] /\ Respawn(t, up)
    BY <1>2 DEF ToldThreadExits, TypeOK
  <2>a. /\ told' = [told EXCEPT ![t] = told[t] - 1] /\ told[t] > 0
        /\ UNCHANGED <<respawnWorkers, polling, exited>>
    BY <1>2 DEF ToldThreadExits
  <2>b. /\ up' \in [Types -> Nat]
        /\ timers' \in [Types -> Seq(0..Pause)]
        /\ since' \in [Types -> 0..Pause]
        /\ \A u \in Types \ {t} : up'[u] = up[u] /\ timers'[u] = timers[u]
        /\ up'[t] + Len(timers'[t]) =
             up[t] + Len(timers[t]) + (IF respawnWorkers THEN 1 ELSE 0)
    BY <2>1, RespawnKeeps
  <2>c. /\ told' \in [Types -> Nat]
        /\ told'[t] = told[t] - 1 /\ \A u \in Types \ {t} : told'[u] = told[u]
    BY <1>a, <2>a, SMT DEF TypeOK
  <2>3. TypeOK'
    BY <2>a, <2>b, <2>c, SMT DEF TypeOK
  <2>4. ThreadsKept'
    <3>. DEFINE back == IF respawnWorkers THEN 1 ELSE 0
    <3>1. /\ up'[t] + told'[t] + Len(timers'[t]) <= up[t] + told[t] + Len(timers[t])
          /\ back = 1 => up'[t] + told'[t] + Len(timers'[t]) = up[t] + told[t] + Len(timers[t])
      <4>a. up[t] \in Nat /\ told[t] \in Nat /\ Len(timers[t]) \in Nat
        BY <1>n
      <4>b. up'[t] \in Nat /\ Len(timers'[t]) \in Nat
        BY <2>3, CountsNext
      <4>1. told'[t] = told[t] - 1
        BY <2>c
      <4>2. up'[t] + Len(timers'[t]) = up[t] + Len(timers[t]) + back
        BY <2>b
      <4>3. back \in {0, 1}
        OBVIOUS
      <4>. HIDE DEF back
      <4>4. PICK u \in Nat, d \in Nat, l \in Nat, un \in Nat, ln \in Nat :
              u = up[t] /\ d = told[t] /\ l = Len(timers[t]) /\ un = up'[t] /\ ln = Len(timers'[t])
        BY <4>a, <4>b
      <4>5. un + ln = u + l + back
        BY <4>2, <4>4
      <4>6. un + (d - 1) + ln <= u + d + l /\ (back = 1 => un + (d - 1) + ln = u + d + l)
        BY <4>3, <4>5, Stopped
      <4>. QED BY <4>1, <4>4, <4>6, Zenon
    <3>2. TypeOK /\ ThreadsKept /\ (respawnWorkers' <=> respawnWorkers)
      BY <2>a
    <3>3. \A u \in Types \ {t} : up'[u] = up[u] /\ told'[u] = told[u] /\ timers'[u] = timers[u]
      BY <2>b, <2>c
    <3>4. respawnWorkers => back = 1
      OBVIOUS
    <3>. HIDE DEF back
    <3>. QED BY <2>3, <3>1, <3>2, <3>3, <3>4, OneTypeKept, Zenon
  <2>. QED BY <2>3, <2>4
<1>3. ASSUME NEW t \in Types, SignalChild(t) PROVE Inv'
  BY <1>3, <1>a, SMT DEF SignalChild, TypeOK, ThreadsKept
<1>4. ASSUME NEW t \in Types, TimerFires(t) PROVE Inv'
  <2>1. Tail(timers[t]) \in Seq(0..Pause) /\ Len(Tail(timers[t])) = Len(timers[t]) - 1
    BY <1>4, <1>a, HeadTailProperties DEF TimerFires
  <2>2. /\ timers' = [timers EXCEPT ![t] = Tail(timers[t])]
        /\ up' = [up EXCEPT ![t] = up[t] + 1]
        /\ since' = [since EXCEPT ![t] = 0]
        /\ UNCHANGED <<told, respawnWorkers, polling, exited>>
    BY <1>4 DEF TimerFires, Restarted
  <2>3. timers' \in [Types -> Seq(0..Pause)] /\ timers'[t] = Tail(timers[t])
    BY <2>1, <2>2 DEF TypeOK
  <2>4. up' \in [Types -> Nat] /\ up'[t] = up[t] + 1 /\ since' \in [Types -> 0..Pause]
    BY <1>a, <2>2, SMT DEF TypeOK
  <2>5. TypeOK'
    BY <2>2, <2>3, <2>4 DEF TypeOK
  <2>6. \A u \in Types \ {t} : up'[u] = up[u] /\ told'[u] = told[u] /\ timers'[u] = timers[u]
    BY <2>2 DEF TypeOK
  <2>7. up'[t] + told'[t] + Len(timers'[t]) = up[t] + told[t] + Len(timers[t])
    <3>2. up[t] \in Nat /\ told[t] \in Nat /\ Len(timers[t]) \in Nat
      BY <1>n
    <3>1. Len(timers'[t]) = Len(timers[t]) - 1 /\ told'[t] = told[t] /\ up'[t] = up[t] + 1
      BY <2>1, <2>2, <2>3, <2>4
    <3>. QED BY <3>1, <3>2, Fired
  <2>8. TypeOK /\ ThreadsKept /\ (respawnWorkers' <=> respawnWorkers)
    BY <2>2
  <2>9. up'[t] + told'[t] + Len(timers'[t]) <= up[t] + told[t] + Len(timers[t])
    <3>1. up[t] \in Nat /\ told[t] \in Nat /\ Len(timers[t]) \in Nat
      BY <1>n
    <3>. QED BY <2>7, <3>1, SMT
  <2>10. ThreadsKept'
    BY <2>5, <2>6, <2>7, <2>8, <2>9, OneTypeKept, Zenon
  <2>. QED BY <2>5, <2>10
<1>5. CASE GracefulShutdown
  BY <1>5, <1>a, SMT DEF GracefulShutdown, TypeOK, ThreadsKept
<1>6. CASE InfoAndExit
  BY <1>6, SMT DEF InfoAndExit, TypeOK, ThreadsKept
<1>7. CASE ImmediateShutdown
  BY <1>7, <1>a, SMT DEF ImmediateShutdown, TypeOK, ThreadsKept
<1>8. CASE Tick
  <2>1. \A t \in Types : timers'[t] \in Seq(0..Pause) /\ Len(timers'[t]) = Len(timers[t])
    BY <1>8, TickKeepsTimers
  <2>2. TypeOK'
    BY <1>8, <2>1, SMT DEF Tick, Older, TypeOK
  <2>3. ThreadsKept'
    BY <1>8, <1>a, <2>1, SMT DEF Tick, ThreadsKept
  <2>. QED BY <2>2, <2>3
<1>9. CASE UNCHANGED vars
  BY <1>9, SMT DEF vars, TypeOK, ThreadsKept
<1>. QED
  BY <1>1, <1>2, <1>3, <1>4, <1>5, <1>6, <1>7, <1>8, <1>9 DEF Next

\* Hence both hold for ever.
LEMMA InvAlways == Spec => []Inv
  BY InitInv, StepInv, PTL DEF Spec

\* The counts stay numbers, timers are never overdue, and a shutdown is final.
THEOREM TypeCorrect == Spec => []TypeOK
<1>1. Inv => TypeOK
  BY DEF Inv
<1>. QED BY <1>1, InvAlways, PTL

\* As long as the service is to run, every configured thread is at work, on its
\* way out or due to be replaced; there are never more threads than configured.
THEOREM NoThreadLost == Spec => []ThreadsKept
<1>1. Inv => ThreadsKept
  BY DEF Inv
<1>. QED BY <1>1, InvAlways, PTL

-----------------------------------------------------------------------------

\* A delayed start and the start it is paired with, the first timer with the
\* oldest start, are a pause apart when the timer is due.  No start is younger
\* than lastRestart.
PairedUp(t) ==
  /\ \A k \in 1..Len(timers[t]) : began[t][k] + timers[t][k] >= Pause
  /\ \A i \in 1..Count[t] : began[t][i] >= since[t]

PacedInv == \A t \in Types : PairedUp(t)

\* There are at most as many timers as starts that are remembered, and fewer when
\* a thread is alive.
LEMMA Room ==
  ASSUME Inv, NEW t \in Types
  PROVE  /\ Count[t] \in Nat /\ Len(timers[t]) \in Nat
         /\ Len(timers[t]) <= Count[t]
         /\ up[t] > 0 \/ told[t] > 0 => Len(timers[t]) < Count[t]
<1>1. /\ up[t] \in Nat /\ told[t] \in Nat /\ Count[t] \in Nat
      /\ Len(timers[t]) \in Nat
  BY Counts DEF Inv
<1>2. up[t] + told[t] + Len(timers[t]) <= Count[t]
  BY DEF Inv, ThreadsKept
<1>. QED BY <1>1, <1>2, SMT

\* What is remembered of starts and timers are ages.
LEMMA AgesAreNumbers ==
  ASSUME TypeOK, NEW t \in Types
  PROVE  /\ Pause \in Nat /\ Count[t] \in Nat /\ since[t] \in 0..Pause
         /\ \A i \in 1..Count[t] : began[t][i] \in 0..Pause
         /\ \A k \in 1..Len(timers[t]) : timers[t][k] \in 0..Pause
<1>1. timers[t] \in Seq(0..Pause)
  BY DEF TypeOK
<1>2. \A k \in 1..Len(timers[t]) : timers[t][k] \in 0..Pause
  BY <1>1, ElementOfSeq
<1>. QED BY <1>2, CoordinatorAssumption DEF TypeOK, StartsOK

\* A start moves the ages one place up.
LEMMA BeganShifts ==
  ASSUME TypeOK, NEW t \in Types, Began(t)
  PROVE  /\ \A u \in Types \ {t} : began'[u] = began[u]
         /\ \A i \in 1..Count[t] : began'[t][i] = IF i < Count[t] THEN began[t][i + 1] ELSE 0
  BY DEF Began, TypeOK, StartsOK

\* A death is followed by a start when no start is younger than the pause, or by
\* a timer of a full pause.
LEMMA RespawnPairs ==
  ASSUME Inv, PacedInv, NEW t \in Types, up[t] > 0 \/ told[t] > 0,
         NEW ups, Respawn(t, ups)
  PROVE  PacedInv'
<1>. DEFINE c == Count[t]  s == timers[t]
<1>1. c \in Nat /\ Len(s) \in Nat /\ Len(s) < c
  BY Room
<1>2. s \in Seq(0..Pause) /\ since \in [Types -> 0..Pause] /\ timers \in [Types -> Seq(0..Pause)]
  BY DEF Inv, TypeOK
<1>3. /\ Pause \in Nat /\ since[t] \in 0..Pause
      /\ \A i \in 1..c : began[t][i] \in 0..Pause
      /\ \A k \in 1..Len(s) : s[k] \in 0..Pause
  BY AgesAreNumbers DEF Inv
<1>4. /\ \A k \in 1..Len(s) : began[t][k] + s[k] >= Pause
      /\ \A i \in 1..c : began[t][i] >= since[t]
  BY DEF PacedInv, PairedUp
<1>5. CASE since[t] >= Pause /\ timers' = timers /\ Restarted(t)
  <2>1. since'[t] = 0 /\ \A u \in Types \ {t} : since'[u] = since[u]
    BY <1>2, <1>5 DEF Restarted
  <2>2. /\ \A u \in Types \ {t} : began'[u] = began[u]
        /\ \A i \in 1..c : began'[t][i] = IF i < c THEN began[t][i + 1] ELSE 0
    BY <1>5, BeganShifts DEF Restarted, Inv
  <2>. HIDE DEF c, s
  <2>3. ASSUME NEW k \in 1..Len(s) PROVE began'[t][k] + s[k] >= Pause
    <3>1. k \in 1..c /\ k < c /\ k + 1 \in 1..c
      BY <1>1, SMT
    <3>2. began'[t][k] = began[t][k + 1] /\ began[t][k + 1] >= since[t]
      BY <1>4, <2>2, <3>1
    <3>. QED BY <1>3, <1>5, <3>1, <3>2, SMT
  <2>4. \A i \in 1..c : began'[t][i] >= 0
    <3>. SUFFICES ASSUME NEW i \in 1..c PROVE began'[t][i] >= 0
      OBVIOUS
    <3>1. i < c => i + 1 \in 1..c
      BY <1>1, SMT
    <3>. QED BY <1>3, <2>2, <3>1, SMT
  <2>5. PairedUp(t)'
    BY <1>5, <2>1, <2>3, <2>4 DEF PairedUp, c, s
  <2>6. \A u \in Types \ {t} : PairedUp(u)'
    BY <1>5, <2>1, <2>2 DEF PacedInv, PairedUp
  <2>. QED BY <2>5, <2>6 DEF PacedInv
<1>6. CASE /\ timers' = [timers EXCEPT ![t] = Append(s, Pause)]
           /\ UNCHANGED <<since, began>>
  <2>1. /\ timers'[t] = Append(s, Pause)
        /\ \A u \in Types \ {t} : timers'[u] = timers[u]
    BY <1>2, <1>6
  <2>. HIDE DEF c, s
  <2>2. /\ Len(Append(s, Pause)) = Len(s) + 1
        /\ \A k \in 1..Len(s) : Append(s, Pause)[k] = s[k]
        /\ Append(s, Pause)[Len(s) + 1] = Pause
    <3>1. Pause \in 0..Pause
      BY <1>3, SMT
    <3>. QED BY <1>2, <3>1, AppendProperties
  <2>3. ASSUME NEW k \in 1..Len(timers'[t]) PROVE began'[t][k] + timers'[t][k] >= Pause
    <3>1. k \in 1..Len(s) \/ k = Len(s) + 1
      BY <1>1, <2>1, <2>2, SMT
    <3>2. CASE k \in 1..Len(s)
      BY <1>4, <1>6, <2>1, <2>2, <3>2
    <3>3. CASE k = Len(s) + 1
      <4>1. k \in 1..c /\ timers'[t][k] = Pause
        BY <1>1, <2>1, <2>2, <3>3, SMT
      <4>. QED BY <1>3, <1>6, <4>1, SMT
    <3>. QED BY <3>1, <3>2, <3>3
  <2>4. PairedUp(t)'
    BY <1>4, <1>6, <2>3 DEF PairedUp, c
  <2>5. \A u \in Types \ {t} : PairedUp(u)'
    BY <1>6, <2>1 DEF PacedInv, PairedUp
  <2>. QED BY <2>4, <2>5 DEF PacedInv
<1>7. CASE UNCHANGED <<since, began, timers>>
  BY <1>7 DEF PacedInv, PairedUp
<1>. QED BY <1>5, <1>6, <1>7 DEF Respawn

\* A timer that fires takes its start with it, and every other timer keeps its own.
LEMMA FiringPairs ==
  ASSUME Inv, PacedInv, NEW t \in Types, TimerFires(t)
  PROVE  /\ began[t][1] >= Pause
         /\ PacedInv'
<1>. DEFINE c == Count[t]  s == timers[t]
<1>1. s \in Seq(0..Pause) /\ s # <<>> /\ Head(s) = 0
  BY DEF TimerFires, Inv, TypeOK
<1>2. c \in Nat /\ Len(s) \in Nat /\ Len(s) <= c
  BY Room
<1>3. /\ Pause \in Nat
      /\ \A i \in 1..c : began[t][i] \in 0..Pause
      /\ \A k \in 1..Len(s) : s[k] \in 0..Pause
  BY AgesAreNumbers DEF Inv
<1>4. /\ \A k \in 1..Len(s) : began[t][k] + s[k] >= Pause
      /\ \A i \in 1..c : began[t][i] >= since[t]
  BY DEF PacedInv, PairedUp
<1>5. /\ Tail(s) \in Seq(0..Pause) /\ Len(Tail(s)) = Len(s) - 1
      /\ \A k \in 1..Len(Tail(s)) : Tail(s)[k] = s[k + 1]
      /\ 1 \in 1..Len(s) /\ s[1] = 0
  <2>1. Len(s) # 0
    BY <1>1, EmptySeq, LenProperties
  <2>2. 1 \in 1..Len(s)
    BY <1>2, <2>1, SMT
  <2>3. s[1] = 0
    BY <1>1
  <2>. HIDE DEF s
  <2>. QED BY <1>1, <2>2, <2>3, HeadTailProperties
<1>6. /\ timers'[t] = Tail(s) /\ \A u \in Types \ {t} : timers'[u] = timers[u]
      /\ since'[t] = 0 /\ \A u \in Types \ {t} : since'[u] = since[u]
  BY DEF TimerFires, Restarted, Inv, TypeOK
<1>7. /\ \A u \in Types \ {t} : began'[u] = began[u]
      /\ \A i \in 1..c : began'[t][i] = IF i < c THEN began[t][i + 1] ELSE 0
  BY BeganShifts DEF TimerFires, Restarted, Inv
<1>. HIDE DEF c, s
<1>8. began[t][1] >= Pause
  <2>1. 1 \in 1..c
    BY <1>2, <1>5, SMT
  <2>. QED BY <1>3, <1>4, <1>5, <2>1, SMT
<1>9. ASSUME NEW k \in 1..Len(Tail(s)) PROVE began'[t][k] + Tail(s)[k] >= Pause
  <2>1. k \in 1..c /\ k < c /\ k + 1 \in 1..Len(s)
    BY <1>2, <1>5, SMT
  <2>2. began'[t][k] = began[t][k + 1] /\ Tail(s)[k] = s[k + 1]
    BY <1>5, <1>7, <2>1
  <2>. QED BY <1>4, <2>1, <2>2
<1>10. \A i \in 1..c : began'[t][i] >= 0
  <2>. SUFFICES ASSUME NEW i \in 1..c PROVE began'[t][i] >= 0
    OBVIOUS
  <2>1. i < c => i + 1 \in 1..c
    BY <1>2, SMT
  <2>. QED BY <1>3, <1>7, <2>1, SMT
<1>11. PairedUp(t)'
  BY <1>6, <1>9, <1>10 DEF PairedUp, c
<1>12. \A u \in Types \ {t} : PairedUp(u)'
  BY <1>6, <1>7 DEF PacedInv, PairedUp
<1>. QED BY <1>8, <1>11, <1>12 DEF PacedInv

\* Starts age as fast as timers run down.
LEMMA TimePairs ==
  ASSUME Inv, PacedInv, Tick
  PROVE  PacedInv'
<1>. SUFFICES ASSUME NEW t \in Types PROVE PairedUp(t)'
  BY DEF PacedInv
<1>1. /\ Pause \in Nat /\ Count[t] \in Nat /\ since[t] \in 0..Pause
      /\ \A i \in 1..Count[t] : began[t][i] \in 0..Pause
      /\ \A k \in 1..Len(timers[t]) : timers[t][k] \in 0..Pause
  BY AgesAreNumbers DEF Inv
<1>2. Len(timers[t]) \in Nat /\ Len(timers[t]) <= Count[t]
  BY Room
<1>3. /\ since'[t] = Older(since[t])
      /\ \A i \in 1..Count[t] : began'[t][i] = Older(began[t][i])
  BY DEF Tick
<1>4. /\ \A k \in 1..Len(timers[t]) : began[t][k] + timers[t][k] >= Pause
      /\ \A i \in 1..Count[t] : began[t][i] >= since[t]
  BY DEF PacedInv, PairedUp
<1>5. /\ Len(timers'[t]) = Len(timers[t])
      /\ \A k \in 1..Len(timers[t]) :
           timers'[t][k] = IF timers[t][k] > 0 THEN timers[t][k] - 1 ELSE 0
  BY TickKeepsTimers DEF Inv
<1>6. ASSUME NEW k \in 1..Len(timers'[t]) PROVE began'[t][k] + timers'[t][k] >= Pause
  <2>1. k \in 1..Len(timers[t]) /\ k \in 1..Count[t]
    BY <1>1, <1>2, <1>5, SMT
  <2>2. \A a, l \in 0..Pause :
          a + l >= Pause => Older(a) + (IF l > 0 THEN l - 1 ELSE 0) >= Pause
    BY <1>1, SMT DEF Older
  <2>. QED BY <1>1, <1>3, <1>4, <1>5, <2>1, <2>2
<1>7. ASSUME NEW i \in 1..Count[t] PROVE began'[t][i] >= since'[t]
  <2>1. \A a, b \in 0..Pause : a >= b => Older(a) >= Older(b)
    BY <1>1, SMT DEF Older
  <2>. QED BY <1>1, <1>3, <1>4, <2>1
<1>. QED BY <1>6, <1>7 DEF PairedUp

\* At first every start is as old as lastRestart, and no timer runs.
LEMMA InitPaced == Init => PacedInv
<1>. SUFFICES ASSUME Init, NEW t \in Types PROVE PairedUp(t)
  BY DEF PacedInv
<1>1. timers[t] = <<>> /\ since[t] = 0 /\ \A i \in 1..Count[t] : began[t][i] = 0
  BY DEF Init
<1>2. Len(timers[t]) = 0
  BY <1>1, EmptySeq
<1>. QED BY <1>1, <1>2, SMT DEF PairedUp

\* Every step keeps timers and starts paired.
LEMMA StepPaced == Inv /\ PacedInv /\ [Next]_vars => PacedInv'
<1>. SUFFICES ASSUME Inv, PacedInv, [Next]_vars PROVE PacedInv'
  OBVIOUS
<1>1. ASSUME NEW t \in Types, ThreadDies(t) \/ ToldThreadExits(t) PROVE PacedInv'
  <2>1. up[t] > 0 \/ told[t] > 0
    BY <1>1 DEF ThreadDies, ToldThreadExits
  <2>2. PICK ups : Respawn(t, ups)
    BY <1>1 DEF ThreadDies, ToldThreadExits
  <2>. QED BY <2>1, <2>2, RespawnPairs
<1>2. ASSUME NEW t \in Types, TimerFires(t) PROVE PacedInv'
  BY <1>2, FiringPairs
<1>3. CASE Tick
  BY <1>3, TimePairs
<1>4. CASE UNCHANGED <<timers, since, began>>
  BY <1>4 DEF PacedInv, PairedUp
<1>5. \/ \E t \in Types : ThreadDies(t) \/ ToldThreadExits(t) \/ TimerFires(t)
      \/ Tick
      \/ UNCHANGED <<timers, since, began>>
  BY DEF Next, vars, SignalChild, GracefulShutdown, InfoAndExit, ImmediateShutdown
<1>. QED BY <1>1, <1>2, <1>3, <1>4, <1>5

\* A thread that is started takes the place of a start a pause ago.
LEMMA StartIsDue ==
  ASSUME Inv, PacedInv, [Next]_vars, NEW t \in Types, Starts(t)
  PROVE  began[t][1] >= Pause
<1>1. Pause \in Nat /\ Count[t] \in Nat /\ since[t] \in 0..Pause
  BY AgesAreNumbers DEF Inv
<1>2. Len(timers[t]) \in Nat
  BY Room
<1>3. ASSUME NEW u \in Types, NEW ups, up[u] > 0 \/ told[u] > 0, Respawn(u, ups)
      PROVE  began[t][1] >= Pause
  <2>1. timers \in [Types -> Seq(0..Pause)] /\ since \in [Types -> 0..Pause]
    BY DEF Inv, TypeOK
  <2>2. CASE since[u] >= Pause /\ timers' = timers /\ Restarted(u)
    <3>1. \A v \in Types \ {u} : since'[v] = since[v]
      BY <2>1, <2>2 DEF Restarted
    <3>2. u = t
      BY <1>1, <1>2, <2>2, <3>1, SMT DEF Starts
    <3>3. Count[t] \in Nat /\ Len(timers[t]) \in Nat /\ Len(timers[t]) < Count[t]
      BY <1>3, <3>2, Room
    <3>4. 1 \in 1..Count[t] /\ began[t][1] \in 0..Pause
      BY <3>3, AgesAreNumbers, SMT DEF Inv
    <3>5. began[t][1] >= since[t]
      BY <3>4 DEF PacedInv, PairedUp
    <3>. QED BY <1>1, <2>2, <3>2, <3>4, <3>5, SMT
  <2>3. CASE timers' = [timers EXCEPT ![u] = Append(@, Pause)] /\ since' = since
    <3>1. timers[u] \in Seq(0..Pause) /\ Pause \in 0..Pause
      BY <1>1, <2>1, SMT
    <3>2. Len(Append(timers[u], Pause)) = Len(timers[u]) + 1 /\ Len(timers[u]) \in Nat
      BY <3>1, AppendProperties, LenProperties
    <3>3. timers'[t] = IF t = u THEN Append(timers[u], Pause) ELSE timers[t]
      BY <2>1, <2>3
    <3>. QED BY <1>1, <1>2, <2>3, <3>2, <3>3, SMT DEF Starts
  <2>4. CASE UNCHANGED <<since, timers>>
    BY <1>1, <1>2, <2>4, SMT DEF Starts
  <2>. QED BY <1>3, <2>2, <2>3, <2>4 DEF Respawn
<1>4. ASSUME NEW u \in Types, ThreadDies(u) \/ ToldThreadExits(u)
      PROVE  began[t][1] >= Pause
  <2>1. up[u] > 0 \/ told[u] > 0
    BY <1>4 DEF ThreadDies, ToldThreadExits
  <2>2. PICK ups : Respawn(u, ups)
    BY <1>4 DEF ThreadDies, ToldThreadExits
  <2>. QED BY <1>3, <2>1, <2>2
<1>5. ASSUME NEW u \in Types, TimerFires(u) PROVE began[t][1] >= Pause
  <2>1. \A v \in Types \ {u} : since'[v] = since[v] /\ timers'[v] = timers[v]
    BY <1>5 DEF TimerFires, Restarted, Inv, TypeOK
  <2>2. u = t
    BY <1>1, <1>2, <2>1, SMT DEF Starts
  <2>. QED BY <1>5, <2>2, FiringPairs
<1>6. CASE Tick
  <2>1. since'[t] >= since[t]
    BY <1>1, <1>6, SMT DEF Tick, Older
  <2>2. Len(timers'[t]) = Len(timers[t])
    BY <1>6, TickKeepsTimers DEF Inv
  <2>3. since'[t] \in Nat
    BY <1>1, <1>6, SMT DEF Tick, Older
  <2>. QED BY <1>1, <1>2, <2>1, <2>2, <2>3, SMT DEF Starts
<1>7. CASE UNCHANGED <<timers, since>>
  BY <1>1, <1>2, <1>7, SMT DEF Starts
<1>8. \/ \E u \in Types : ThreadDies(u) \/ ToldThreadExits(u) \/ TimerFires(u)
      \/ Tick
      \/ UNCHANGED <<timers, since>>
  BY DEF Next, vars, SignalChild, GracefulShutdown, InfoAndExit, ImmediateShutdown
<1>. QED BY <1>4, <1>5, <1>6, <1>7, <1>8

\* Whatever kills the threads, however often and in whatever order, one pause
\* sees at most as many starts of a type as it has threads.
THEOREM NoForkBomb == Spec => RestartsPaced
<1>1. Inv /\ PacedInv /\ [Next]_vars => \A t \in Types : Starts(t) => began[t][1] >= Pause
  BY StartIsDue
<1>2. Spec => []PacedInv
  BY InitPaced, StepPaced, InvAlways, PTL DEF Spec
<1>. QED BY <1>1, <1>2, InvAlways, PTL DEF Spec, RestartsPaced

-----------------------------------------------------------------------------
(* Children *)

\* A settled promise has no timer left, and every kill was announced.
Settled ==
  /\ promise # "pending" => killTimer.calls = "nothing"
  /\ killed => notified /\ "SIGTERM" \in sent
  /\ promise = "timedOut" => killed

ChildInv == ChildTypeOK /\ Settled

\* The flags are Booleans.
LEMMA ChildFlags == (ChildInit => ChildFlagsOK) /\ (ChildFlagsOK /\ [ChildNext]_childVars => ChildFlagsOK')
<1>1. ChildInit => ChildFlagsOK
  BY Zenon DEF ChildInit, ChildFlagsOK
<1>2. ASSUME ChildFlagsOK, [ChildNext]_childVars PROVE ChildFlagsOK'
  <2>1. CASE LimitTimer
    BY <1>2, <2>1, Zenon DEF LimitTimer, ChildFlagsOK
  <2>2. CASE UNCHANGED childVars
    BY <1>2, <2>2, Zenon DEF childVars, ChildFlagsOK
  <2>3. CASE \E end \in Ends : ChildEnds(end)
    BY <1>2, <2>3, Zenon DEF ChildEnds, ChildFlagsOK
  <2>4. CASE \E signal \in Signals : KilledFromOutside(signal)
    BY <1>2, <2>4, Zenon DEF KilledFromOutside, ChildFlagsOK
  <2>5. CASE ChildDisconnects \/ DisconnectEvent
    BY <1>2, <2>5, Zenon DEF ChildDisconnects, DisconnectEvent, ChildFlagsOK
  <2>6. CASE ErrorEvent \/ ExitEvent \/ KillTimer \/ ChildTick
    BY <1>2, <2>6, Zenon DEF ErrorEvent, ExitEvent, KillTimer, ChildTick, ChildFlagsOK
  <2>. QED BY <1>2, <2>1, <2>2, <2>3, <2>4, <2>5, <2>6 DEF ChildNext
<1>. QED BY <1>1, <1>2

\* A child starts with its promise open and at most the limit timer.
LEMMA ChildInitInv == ChildInit => ChildInv
  BY ForkAssumption, ChildFlags, SMT DEF ChildInit, ChildInv, ChildTypeOK, Settled, NoTimer, Timer, Ends, Signals

\* Every event of the child and of the parent keeps that.
LEMMA ChildStepInv == ChildInv /\ [ChildNext]_childVars => ChildInv'
<1>. SUFFICES ASSUME ChildInv, [ChildNext]_childVars PROVE ChildInv'
  OBVIOUS
<1>0. ChildFlagsOK'
  BY ChildFlags DEF ChildInv, ChildTypeOK
<1>. USE <1>0, ForkAssumption DEF ChildInv, ChildTypeOK, Settled
<1>1. CASE \E end \in Ends : ChildEnds(end)
  BY <1>1, SMT DEF ChildEnds, Ends
<1>2. CASE \E signal \in Signals : KilledFromOutside(signal)
  BY <1>2, SMT DEF KilledFromOutside, Ends, Signals
<1>3. CASE ChildDisconnects
  BY <1>3, SMT DEF ChildDisconnects
<1>4. CASE DisconnectEvent
  BY <1>4, SMT DEF DisconnectEvent
<1>5. CASE ErrorEvent
  BY <1>5, SMT DEF ErrorEvent, ClearKillTimer, NoTimer
<1>6. CASE ExitEvent
  <2>1. Outcome(proc) \in {"resolved", "failed", "timedOut"}
    BY DEF Outcome
  <2>2. Outcome(proc) = "timedOut" => killed
    BY DEF Outcome
  <2>. QED BY <1>6, <2>1, <2>2, SMT DEF ExitEvent, ClearKillTimer, NoTimer
<1>7. CASE LimitTimer
  <2>1. CASE connected
    <3>1. /\ killTimer' = [calls |-> "kill", left |-> 2 * Limit]
          /\ sent' = sent \cup {"SIGTERM"}
          /\ killed' /\ notified'
          /\ proc' = proc /\ promise' = promise
      BY <1>7, <2>1, Zenon DEF LimitTimer, Timer
    <3>2. 2 * Limit \in Nat
      BY SMT
    <3>3. killTimer.calls = "limit"
      BY <1>7, SMT DEF LimitTimer, Timer
    <3>4. killTimer' \in [calls : {"nothing", "limit", "kill"}, left : Nat]
      BY <3>1, <3>2
    <3>5. killTimer'.left <= 2 * Limit
      BY <3>1, <3>2, SMT
    <3>6. sent' \subseteq Signals /\ "SIGTERM" \in sent'
      BY <3>1 DEF Signals
    <3>7. promise = "pending"
      BY <3>3
    <3>. QED BY <3>1, <3>4, <3>5, <3>6, <3>7
  <2>2. CASE ~connected
    <3>1. /\ killTimer' = NoTimer
          /\ UNCHANGED <<sent, killed, notified, proc, promise>>
      BY <1>7, <2>2, Zenon DEF LimitTimer
    <3>. QED BY <3>1, SMT DEF NoTimer
  <2>. QED BY <2>1, <2>2
<1>8. CASE KillTimer
  BY <1>8, SMT DEF KillTimer, Timer, NoTimer, Signals
<1>9. CASE ChildTick
  BY <1>9, SMT DEF ChildTick
<1>10. CASE UNCHANGED childVars
  BY <1>10, SMT DEF childVars
<1>. QED
  BY <1>1, <1>2, <1>3, <1>4, <1>5, <1>6, <1>7, <1>8, <1>9, <1>10 DEF ChildNext

\* Hence it holds for ever.
LEMMA ChildInvAlways == ChildSpec => []ChildInv
  BY ChildInitInv, ChildStepInv, PTL DEF ChildSpec

\* The state stays well formed; the kill timer is armed only after a kill.
THEOREM ChildTypeCorrect == ChildSpec => []ChildTypeOK
<1>1. ChildInv => ChildTypeOK
  BY DEF ChildInv
<1>. QED BY <1>1, ChildInvAlways, PTL

\* A timeout is reported only of a child the parent itself has signalled and
\* announced.
THEOREM TimeoutsAreOurs == ChildSpec => []TimeoutIsOurs
<1>1. ChildInv => TimeoutIsOurs
  BY DEF ChildInv, Settled, TimeoutIsOurs
<1>. QED BY <1>1, ChildInvAlways, PTL

\* No signal leaves after the promise is settled.
THEOREM NoSignalAfterwards == ChildSpec => NoStraySignal
<1>1. ChildInv /\ [ChildNext]_childVars => [sent' # sent => promise = "pending"]_childVars
  <2>. SUFFICES ASSUME ChildInv, ChildNext, sent' # sent PROVE promise = "pending"
    BY SMT DEF childVars
  <2>1. LimitTimer \/ KillTimer
    BY SMT DEF ChildNext, ChildEnds, KilledFromOutside, ChildDisconnects, DisconnectEvent,
              ErrorEvent, ExitEvent, ChildTick
  <2>2. killTimer.calls # "nothing"
    BY <2>1, SMT DEF LimitTimer, KillTimer, Timer
  <2>. QED BY <2>2 DEF ChildInv, Settled
<1>. QED BY <1>1, ChildInvAlways, PTL DEF ChildSpec, NoStraySignal

=============================================================================
