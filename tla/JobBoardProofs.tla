--------------------------- MODULE JobBoardProofs ---------------------------
(***************************************************************************)
(* What the job board promises, maintained or not, for every set of jobs   *)
(* and workers.                                                            *)
(***************************************************************************)
EXTENDS MaintainedBoard, SequenceTheorems, TLAPS

TypeOK ==
  /\ backlog \in Seq(Jobs)
  /\ board \in [Jobs -> Shown]
  /\ desk \in [Workers -> Jobs \union {Nobody}]
  /\ givenUp \subseteq Jobs
  /\ cleared \in [Workers -> Jobs \union {Nobody}]
  /\ reopened \subseteq Jobs

\* Every step keeps the board, the backlog and the desks well formed.
LEMMA StepType == TypeOK /\ [Next]_boardVars => TypeOK'
  BY DEF TypeOK, Next, boardVars, Shown, Accept, Take, Report, Settle, GiveUp,
         Echo, Quiet

\* A step keeps every job accounted for.
LEMMA StepAccounted ==
  ASSUME Nobody \notin Jobs, TypeOK, Accounted, [Next]_boardVars
  PROVE  Accounted'
  <1>. USE DEF TypeOK
  <1>1. ASSUME NEW j \in Jobs, Accept(j) PROVE Accounted'
    <2>1. \A i \in 1..Len(backlog) : i \in 1..Len(backlog') /\ backlog'[i] = backlog[i]
      BY <1>1 DEF Accept
    <2>2. Len(backlog') \in 1..Len(backlog') /\ backlog'[Len(backlog')] = j
      BY <1>1 DEF Accept
    <2>. QED
      BY <1>1, <2>1, <2>2 DEF Accept, Accounted
  <1>2. ASSUME NEW w \in Workers, Take(w) PROVE Accounted'
    <2>1. \A i \in 1..Len(backlog) :
            \/ backlog[i] = Head(backlog)
            \/ i - 1 \in 1..Len(backlog') /\ backlog'[i - 1] = backlog[i]
      BY <1>2 DEF Take
    <2>2. desk'[w] = Head(backlog) /\ \A v \in Workers : desk[v] # Nobody => desk'[v] = desk[v]
      BY <1>2 DEF Take
    <2>3. ASSUME NEW j \in Jobs, \E v \in Workers : desk[v] = j
          PROVE  \E v \in Workers : desk'[v] = j
      BY <2>2, <2>3
    <2>4. ASSUME NEW j \in Jobs, \E i \in 1..Len(backlog) : backlog[i] = j
          PROVE  \/ \E i \in 1..Len(backlog') : backlog'[i] = j
                 \/ \E v \in Workers : desk'[v] = j
      BY <2>1, <2>2, <2>4
    <2>5. UNCHANGED <<board, givenUp, reopened>>
      BY <1>2 DEF Take
    <2>. HIDE DEF TypeOK
    <2>. QED
      BY <2>3, <2>4, <2>5 DEF Accounted
  <1>3. ASSUME NEW w \in Workers, Report(w) PROVE Accounted'
    BY <1>3 DEF Report, Accounted
  <1>4. ASSUME NEW w \in Workers, Settle(w) PROVE Accounted'
    BY <1>4 DEF Settle, Accounted
  <1>5. ASSUME NEW w \in Workers, GiveUp(w) PROVE Accounted'
    BY <1>5 DEF GiveUp, Accounted
  <1>6. ASSUME NEW w \in Workers, Echo(w) PROVE Accounted'
    BY <1>6 DEF Echo, Accounted
  <1>7. ASSUME NEW w \in Workers, Quiet(w) PROVE Accounted'
    BY <1>7 DEF Quiet, Accounted
  <1>8. CASE UNCHANGED boardVars
    BY <1>8 DEF boardVars, Accounted
  <1>. QED
    BY <1>1, <1>2, <1>3, <1>4, <1>5, <1>6, <1>7, <1>8 DEF Next

\* On the board every job shown as pending or in progress is accounted for.
THEOREM JobsAccounted ==
  ASSUME Nobody \notin Jobs
  PROVE  Spec => []Accounted
  <1>1. Init => TypeOK /\ Accounted
    BY DEF Init, TypeOK, Accounted, Shown
  <1>2. TypeOK /\ Accounted /\ [Next]_boardVars => (TypeOK /\ Accounted)'
    BY StepType, StepAccounted
  <1>. QED
    BY <1>1, <1>2, PTL DEF Spec

-----------------------------------------------------------------------------
(* The maintained board *)

MaintainedTypeOK == TypeOK /\ cut \subseteq Jobs

\* Maintenance keeps the board well formed too.
LEMMA MaintainedStepType ==
  ASSUME Phantom \in Jobs, MaintainedTypeOK, [MaintainedNext]_maintainedVars
  PROVE  MaintainedTypeOK'
  <1>. USE DEF MaintainedTypeOK, TypeOK
  <1>1. CASE Next /\ UNCHANGED cut
    BY <1>1, StepType
  <1>2. ASSUME NEW n \in 0..Len(backlog), CutOff(n) PROVE MaintainedTypeOK'
    <2>1. SubSeq(backlog, n + 1, Len(backlog)) \in Seq(Jobs)
      BY SubSeqProperties
    <2>. QED
      BY <1>2, <2>1 DEF CutOff
  <1>3. ASSUME NEW jobs \in SUBSET Jobs, WriteOff(jobs) PROVE MaintainedTypeOK'
    BY <1>3 DEF WriteOff, Shown
  <1>. QED
    BY <1>1, <1>2, <1>3
       DEF MaintainedNext, maintainedVars, boardVars, Discard, Shown, Mistake, Spare, Abandon

\* The cut takes the head of the backlog and leaves the rest in its order.
LEMMA CutBacklog ==
  ASSUME TypeOK, NEW n \in 0..Len(backlog), CutOff(n), NEW i \in 1..Len(backlog)
  PROVE  \/ backlog[i] \in cut'
         \/ \E m \in 1..Len(backlog') : backlog'[m] = backlog[i]
  <1>1. CASE i <= n
    BY <1>1 DEF CutOff
  <1>2. CASE i > n
    <2>1. /\ i - n \in 1..Len(backlog')
          /\ backlog'[i - n] = backlog[i]
      BY <1>2, SubSeqProperties DEF CutOff, TypeOK
    <2>. QED
      BY <2>1
  <1>. QED
    BY <1>1, <1>2

\* A step on the maintained board keeps every job minded.
LEMMA StepMaintained ==
  ASSUME Nobody \notin Jobs, MaintainedTypeOK, MaintainedAccounted,
         [MaintainedNext]_maintainedVars
  PROVE  MaintainedAccounted'
  <1>. USE DEF MaintainedTypeOK
  <1>1. ASSUME NEW j \in Jobs, Accept(j), UNCHANGED cut PROVE MaintainedAccounted'
    <2>1. \A i \in 1..Len(backlog) : i \in 1..Len(backlog') /\ backlog'[i] = backlog[i]
      BY <1>1 DEF Accept, TypeOK
    <2>2. Len(backlog') \in 1..Len(backlog') /\ backlog'[Len(backlog')] = j
      BY <1>1 DEF Accept, TypeOK
    <2>. QED
      BY <1>1, <2>1, <2>2 DEF Accept, MaintainedAccounted, TypeOK
  <1>2. ASSUME NEW w \in Workers, Take(w), UNCHANGED cut PROVE MaintainedAccounted'
    <2>1. \A i \in 1..Len(backlog) :
            \/ backlog[i] = Head(backlog)
            \/ i - 1 \in 1..Len(backlog') /\ backlog'[i - 1] = backlog[i]
      BY <1>2 DEF Take, TypeOK
    <2>2. desk'[w] = Head(backlog) /\ \A v \in Workers : desk[v] # Nobody => desk'[v] = desk[v]
      BY <1>2 DEF Take, TypeOK
    <2>3. ASSUME NEW j \in Jobs, \E v \in Workers : desk[v] = j
          PROVE  \E v \in Workers : desk'[v] = j
      BY <2>2, <2>3
    <2>4. ASSUME NEW j \in Jobs, \E i \in 1..Len(backlog) : backlog[i] = j
          PROVE  \/ \E i \in 1..Len(backlog') : backlog'[i] = j
                 \/ \E v \in Workers : desk'[v] = j
      BY <2>1, <2>2, <2>4
    <2>5. UNCHANGED <<board, givenUp, reopened>>
      BY <1>2 DEF Take
    <2>. QED
      BY <1>2, <2>3, <2>4, <2>5 DEF MaintainedAccounted
  <1>3. ASSUME NEW w \in Workers, UNCHANGED cut,
               Report(w) \/ Settle(w) \/ GiveUp(w) \/ Echo(w) \/ Quiet(w)
        PROVE  MaintainedAccounted'
    BY <1>3 DEF Report, Settle, GiveUp, Echo, Quiet, MaintainedAccounted, TypeOK
  <1>4. ASSUME NEW j \in Jobs, Discard(j) PROVE MaintainedAccounted'
    BY <1>4 DEF Discard, MaintainedAccounted, TypeOK
  <1>5. ASSUME NEW w \in Workers, Mistake(w) PROVE MaintainedAccounted'
    BY <1>5 DEF Mistake, MaintainedAccounted, TypeOK
  <1>6. ASSUME NEW n \in 0..Len(backlog), CutOff(n) PROVE MaintainedAccounted'
    <2>1. \A j \in Jobs : (\E i \in 1..Len(backlog) : backlog[i] = j) =>
            j \in cut' \/ \E m \in 1..Len(backlog') : backlog'[m] = j
      BY <1>6, CutBacklog
    <2>2. cut = {} /\ UNCHANGED <<board, desk, givenUp, reopened>>
      BY <1>6 DEF CutOff
    <2>. QED
      BY <2>1, <2>2 DEF MaintainedAccounted
  <1>7. CASE Spare
    BY <1>7 DEF Spare, boardVars, MaintainedAccounted
  <1>8. ASSUME NEW jobs \in SUBSET Jobs, WriteOff(jobs) PROVE MaintainedAccounted'
    BY <1>8 DEF WriteOff, MaintainedAccounted
  <1>9. CASE Abandon
    BY <1>9 DEF Abandon, MaintainedAccounted
  <1>10. CASE UNCHANGED maintainedVars
    BY <1>10 DEF maintainedVars, boardVars, MaintainedAccounted
  <1>. QED
    BY <1>1, <1>2, <1>3, <1>4, <1>5, <1>6, <1>7, <1>8, <1>9, <1>10 DEF MaintainedNext, Next

\* Also when jobs vanish, are cut off the backlog or written off, a job that is
\* shown as pending or in progress has somebody who minds it.
THEOREM MaintainedJobsAccounted ==
  ASSUME Nobody \notin Jobs, Phantom \in Jobs
  PROVE  MaintainedSpec => []MaintainedAccounted
  <1>1. MaintainedInit => MaintainedTypeOK /\ MaintainedAccounted
    BY DEF MaintainedInit, Init, MaintainedTypeOK, TypeOK, MaintainedAccounted, Shown
  <1>2. MaintainedTypeOK /\ MaintainedAccounted /\ [MaintainedNext]_maintainedVars
          => (MaintainedTypeOK /\ MaintainedAccounted)'
    BY MaintainedStepType, StepMaintained
  <1>. QED
    BY <1>1, <1>2, PTL DEF MaintainedSpec

=============================================================================
