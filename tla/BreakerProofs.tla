----------------------------- MODULE BreakerProofs -----------------------------
(* Theorems about Breaker, for every number of calls, threshold, cooldown,     *)
(* probe window and worker deadline.                                           *)
EXTENDS Breaker, TLAPS

\* A step of a call, split into the actions the proofs go through.
LEMMA StepCases ==
    ASSUME [Next]_vars
    PROVE  \/ Tick
           \/ \E c \in Calls :
                \/ AdmitClosed(c) \/ AdmitProbe(c) \/ CallFails(c) \/ CallAnswers(c)
                \/ Finish(c) \/ CallCancelled(c) \/ LeaveAnswered(c) \/ RecordAnswered(c)
           \/ UNCHANGED vars
  BY DEF Next, CallStep, AdmitRefused

\* Every reachable state is well typed: the countdowns stay within their windows.
THEOREM TypeCorrect == Spec => []TypeOK
<1>1. Init => TypeOK
  <2>1. Init => opened \in BOOLEAN
    BY Zenon DEF Init
  <2>2. QED
    BY <2>1, BreakerAssumption DEF Init, TypeOK, Places
<1>2. TypeOK /\ [Next]_vars => TypeOK'
  <2> SUFFICES ASSUME TypeOK, [Next]_vars PROVE TypeOK'
    OBVIOUS
  <2> USE BreakerAssumption DEF TypeOK, Places, Refusing
  <2>1. CASE Tick
    <3>1. age' \in [Calls -> 0..WorkerTimeout]
      BY <2>1 DEF Tick, AtDeadline
    <3>2. QED
      BY <2>1, <3>1 DEF Tick
  <2>2. ASSUME NEW c \in Calls, AdmitClosed(c) PROVE TypeOK'
    BY <2>2 DEF AdmitClosed, Depart, state
  <2>3. ASSUME NEW c \in Calls, AdmitProbe(c) PROVE TypeOK'
    <3>1. opened' \in BOOLEAN
      BY <2>3, Zenon DEF AdmitProbe, Depart
    <3>2. QED
      BY <2>3, <3>1 DEF AdmitProbe, Depart
  <2>4. ASSUME NEW c \in Calls, CallFails(c) PROVE TypeOK'
    <3>1. opened' \in BOOLEAN
      BY <2>4, Zenon DEF CallFails, RecordTransientFailure
    <3>2. QED
      BY <2>4, <3>1 DEF CallFails, RecordTransientFailure
  <2>5. ASSUME NEW c \in Calls, CallAnswers(c) PROVE TypeOK'
    <3>1. opened' \in BOOLEAN
      BY <2>5, Zenon DEF CallAnswers, RecordSuccess
    <3>2. QED
      BY <2>5, <3>1 DEF CallAnswers, RecordSuccess
  <2>6. ASSUME NEW c \in Calls, Finish(c) PROVE TypeOK'
    BY <2>6 DEF Finish, ReleaseProbe
  <2>7. ASSUME NEW c \in Calls, CallCancelled(c) PROVE TypeOK'
    BY <2>7 DEF CallCancelled, ReleaseProbe
  <2>8. ASSUME NEW c \in Calls, LeaveAnswered(c) PROVE TypeOK'
    BY <2>8 DEF LeaveAnswered, ReleaseProbe
  <2>9. ASSUME NEW c \in Calls, RecordAnswered(c) PROVE TypeOK'
    <3>1. opened' \in BOOLEAN
      BY <2>9, Zenon DEF RecordAnswered, RecordSuccess
    <3>2. QED
      BY <2>9, <3>1 DEF RecordAnswered, RecordSuccess
  <2>10. CASE UNCHANGED vars
    BY <2>10 DEF vars
  <2>11. QED
    BY StepCases, <2>1, <2>2, <2>3, <2>4, <2>5, <2>6, <2>7, <2>8, <2>9, <2>10
<1>3. QED
  BY <1>1, <1>2, PTL DEF Spec

\* Every reachable state satisfies the inductive invariant.
THEOREM BreakerInvariant == Spec => []BreakerInv
<1>1. Init => BreakerInv
  BY BreakerAssumption
  DEF Init, BreakerInv, ProbeHasOwner, OpensOnlyAfterStreak, Blocked
<1>2. TypeOK /\ BreakerInv /\ [Next]_vars => BreakerInv'
  <2> SUFFICES ASSUME TypeOK, BreakerInv, [Next]_vars PROVE BreakerInv'
    OBVIOUS
  <2> USE BreakerAssumption
      DEF TypeOK, Places, BreakerInv, ProbeHasOwner, OpensOnlyAfterStreak, Blocked, Refusing
  <2>1. CASE Tick
    BY <2>1 DEF Tick
  <2>2. ASSUME NEW c \in Calls, AdmitClosed(c) PROVE BreakerInv'
    BY <2>2 DEF AdmitClosed, Depart, state
  <2>3. ASSUME NEW c \in Calls, AdmitProbe(c) PROVE BreakerInv'
    BY <2>3 DEF AdmitProbe, Depart
  <2>4. ASSUME NEW c \in Calls, CallFails(c) PROVE BreakerInv'
    BY <2>4 DEF CallFails, RecordTransientFailure
  <2>5. ASSUME NEW c \in Calls, CallAnswers(c) PROVE BreakerInv'
    BY <2>5 DEF CallAnswers, RecordSuccess
  <2>6. ASSUME NEW c \in Calls, Finish(c) PROVE BreakerInv'
    BY <2>6 DEF Finish, ReleaseProbe
  <2>7. ASSUME NEW c \in Calls, CallCancelled(c) PROVE BreakerInv'
    BY <2>7 DEF CallCancelled, ReleaseProbe
  <2>8. ASSUME NEW c \in Calls, LeaveAnswered(c) PROVE BreakerInv'
    BY <2>8 DEF LeaveAnswered, ReleaseProbe
  <2>9. ASSUME NEW c \in Calls, RecordAnswered(c) PROVE BreakerInv'
    BY <2>9 DEF RecordAnswered, RecordSuccess
  <2>10. CASE UNCHANGED vars
    BY <2>10 DEF vars
  <2>11. QED
    BY StepCases, <2>1, <2>2, <2>3, <2>4, <2>5, <2>6, <2>7, <2>8, <2>9, <2>10
<1>3. QED
  BY <1>1, <1>2, TypeCorrect, PTL DEF Spec

\* The probe mark always belongs to a call that is in flight and will release it.
THEOREM ProbeOwned == Spec => []ProbeHasOwner
<1>1. BreakerInv => ProbeHasOwner
  BY DEF BreakerInv
<1>2. QED
  BY <1>1, BreakerInvariant, PTL

\* No interleaving opens the circuit on fewer than Threshold consecutive failures.
THEOREM NoSpuriousOpening == Spec => []OpensOnlyAfterStreak
<1>1. BreakerInv => OpensOnlyAfterStreak
  BY DEF BreakerInv
<1>2. QED
  BY <1>1, BreakerInvariant, PTL

\* Callers are never kept out for a probe window and a cooldown together.
THEOREM RefusalsBounded == Spec => []RefusalBounded
<1>1. TypeOK /\ BreakerInv => RefusalBounded
  BY BreakerAssumption DEF TypeOK, BreakerInv, RefusalBounded, Blocked
<1>2. QED
  BY <1>1, TypeCorrect, BreakerInvariant, PTL

\* A running probe window is ended by its own call, a recorded outcome or the
\* clock, never by the departure of a call from before the opening.
THEOREM StrangersCannotEndProbe == Spec => StrangersKeepProbe
<1> DEFINE Kept == probeLeft > 0 /\ probeLeft' = 0
                   => \/ pc'[probeToken] # "flying"
                      \/ OutcomeRecorded
                      \/ probeLeft = 1
<1>1. TypeOK /\ BreakerInv /\ [Next]_vars => Kept
  <2> SUFFICES ASSUME TypeOK, BreakerInv, [Next]_vars, probeLeft > 0, probeLeft' = 0
               PROVE  \/ pc'[probeToken] # "flying"
                      \/ OutcomeRecorded
                      \/ probeLeft = 1
    OBVIOUS
  <2> USE DEF TypeOK, BreakerInv, ProbeHasOwner, OutcomeRecorded
  <2>1. CASE Tick
    BY <2>1 DEF Tick
  <2>2. ASSUME NEW c \in Calls, CallFails(c) PROVE OutcomeRecorded
    <3>1. pc[c] = "flying" /\ pc'[c] = "recorded"
      BY <2>2 DEF CallFails
    <3>2. QED
      BY <3>1
  <2>3. ASSUME NEW c \in Calls, CallAnswers(c) PROVE OutcomeRecorded
    <3>1. pc[c] = "flying" /\ pc'[c] = "recorded"
      BY <2>3 DEF CallAnswers
    <3>2. QED
      BY <3>1
  <2>4. ASSUME NEW c \in Calls, Finish(c) PROVE pc'[probeToken] # "flying"
    BY <2>4 DEF Finish, ReleaseProbe
  <2>5. ASSUME NEW c \in Calls, CallCancelled(c) PROVE pc'[probeToken] # "flying"
    BY <2>5 DEF CallCancelled, ReleaseProbe
  <2>6. ASSUME NEW c \in Calls, LeaveAnswered(c) PROVE pc'[probeToken] # "flying"
    BY <2>6 DEF LeaveAnswered, ReleaseProbe
  <2>7. ASSUME NEW c \in Calls, RecordAnswered(c) PROVE OutcomeRecorded
    BY <2>7 DEF RecordAnswered, RecordSuccess
  <2>8. ASSUME NEW c \in Calls, AdmitClosed(c) \/ AdmitProbe(c) PROVE FALSE
    BY <2>8 DEF AdmitClosed, AdmitProbe, Blocked
  <2>9. CASE UNCHANGED vars
    BY <2>9 DEF vars
  <2>10. QED
    BY StepCases, <2>1, <2>2, <2>3, <2>4, <2>5, <2>6, <2>7, <2>8, <2>9
<1> HIDE DEF Kept
<1>2. Spec => [][Kept]_vars
  BY <1>1, TypeCorrect, BreakerInvariant, PTL DEF Spec
<1>3. QED
  BY <1>2 DEF Kept, StrangersKeepProbe

\* However long a worker may take and whatever the other calls do, two worker probes that
\* are in flight together began at least a cooldown apart.
THEOREM WorkerProbesApart == Spec => []ProbesApart
<1> DEFINE Inv == ProbesApart /\ ProbesAgeWithOpening
<1>1. Init => Inv
  BY DEF Init, ProbesApart, ProbesAgeWithOpening, ProbingWorkers
<1>2. TypeOK /\ BreakerInv /\ Inv /\ [Next]_vars => Inv'
  <2> SUFFICES ASSUME TypeOK, BreakerInv, Inv, [Next]_vars PROVE Inv'
    OBVIOUS
  <2> USE BreakerAssumption
      DEF TypeOK, Places, BreakerInv, ProbesApart, ProbesAgeWithOpening, ProbingWorkers
  <2>1. CASE Tick
    BY <2>1 DEF Tick
  <2>2. ASSUME NEW c \in Calls, AdmitClosed(c) PROVE Inv'
    BY <2>2 DEF AdmitClosed, Depart, state
  <2>3. ASSUME NEW c \in Calls, AdmitProbe(c) PROVE Inv'
    <3>1. \A d \in holds \cap Workers : pc[d] = "flying" => Cooldown <= age[d] /\ d # c
      BY <2>3 DEF AdmitProbe, Blocked
    <3>2. QED
      BY <2>3, <3>1 DEF AdmitProbe, Depart
  <2>4. ASSUME NEW c \in Calls, CallFails(c) PROVE Inv'
    BY <2>4 DEF CallFails, RecordTransientFailure
  <2>5. ASSUME NEW c \in Calls, CallAnswers(c) PROVE Inv'
    BY <2>5 DEF CallAnswers, RecordSuccess
  <2>6. ASSUME NEW c \in Calls, Finish(c) PROVE Inv'
    BY <2>6 DEF Finish, ReleaseProbe
  <2>7. ASSUME NEW c \in Calls, CallCancelled(c) PROVE Inv'
    BY <2>7 DEF CallCancelled, ReleaseProbe
  <2>8. ASSUME NEW c \in Calls, LeaveAnswered(c) PROVE Inv'
    BY <2>8 DEF LeaveAnswered, ReleaseProbe
  <2>9. ASSUME NEW c \in Calls, RecordAnswered(c) PROVE Inv'
    BY <2>9 DEF RecordAnswered, RecordSuccess
  <2>10. CASE UNCHANGED vars
    BY <2>10 DEF vars
  <2>11. QED
    BY StepCases, <2>1, <2>2, <2>3, <2>4, <2>5, <2>6, <2>7, <2>8, <2>9, <2>10
<1>3. QED
  BY <1>1, <1>2, TypeCorrect, BreakerInvariant, PTL DEF Spec

===============================================================================
