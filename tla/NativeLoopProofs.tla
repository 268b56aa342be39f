--------------------------- MODULE NativeLoopProofs ---------------------------
(* The safety properties of NativeLoop for every quota, every consultation     *)
(* and compaction limit and every set of batches, and the proof that the loop  *)
(* implements the ledger of actions.                                           *)
EXTENDS NativeLoop, TLAPS

\* The sizes of a batch are numbers.
LEMMA Sizes ==
    ASSUME NEW s \in Shape
    PROVE  /\ NativeCalls(s) \in Nat
           /\ ExternalCalls(s) \in Nat
           /\ Size(s) \in Nat
           /\ Size(s) = NativeCalls(s) + ExternalCalls(s)
           /\ s.swarm \in Nat /\ s.consult \in Nat
BY DEF Shape, NativeCalls, ExternalCalls, Size

LEMMA EmptyBatch ==
    NoBatch \in Shape /\ NativeCalls(NoBatch) = 0 /\ ExternalCalls(NoBatch) = 0
        /\ Size(NoBatch) = 0 /\ NoBatch.swarm = 0
BY DEF NoBatch, Shape, NativeCalls, ExternalCalls, Size

\* Dropping the consultations leaves a batch that fits the allowance.
LEMMA Allowance ==
    ASSUME NEW s \in Shape, consultations \in Nat, consultations <= ConsultLimit,
           ConsultLimit \in Nat
    PROVE  /\ WithinConsultLimit(s) \in Shape
           /\ consultations + WithinConsultLimit(s).consult <= ConsultLimit
           /\ WithinConsultLimit(s).swarm = s.swarm
<1>1. CASE s.consult > 0 /\ consultations + s.consult > ConsultLimit
  <2>1. WithinConsultLimit(s) = [s EXCEPT !.consult = 0]
    BY <1>1 DEF WithinConsultLimit
  <2> QED
    BY <2>1 DEF Shape
<1>2. CASE ~(s.consult > 0 /\ consultations + s.consult > ConsultLimit)
  BY <1>2 DEF WithinConsultLimit, Shape
<1> QED
  BY <1>1, <1>2

\* What is published of a batch: something, by one executor, and no more than was asked.
LEMMA Publishing ==
    ASSUME NEW c \in Shape
    PROVE  /\ PublishedPart(c) \in Shape
           /\ Size(PublishedPart(c)) <= Size(c)
           /\ Size(c) > 0 => Size(PublishedPart(c)) > 0
           /\ \/ NativeCalls(PublishedPart(c)) = 0
              \/ ExternalCalls(PublishedPart(c)) = 0
           /\ PublishedPart(c).swarm = c.swarm
           /\ PublishedPart(c).consult <= c.consult
<1>1. CASE NativeCalls(c) > 0
  <2> DEFINE b == [c EXCEPT !.external = 0, !.consult = 0]
  <2>1. PublishedPart(c) = b
    BY <1>1 DEF PublishedPart
  <2>2. /\ b \in Shape
        /\ b.native = c.native /\ b.todos = c.todos /\ b.swarm = c.swarm
        /\ b.external = 0 /\ b.consult = 0
    BY DEF Shape
  <2>3. c.native \in Nat /\ c.todos \in Nat /\ c.swarm \in Nat /\ c.external \in Nat
        /\ c.consult \in Nat
    BY DEF Shape
  <2> HIDE DEF b
  <2> QED
    BY <1>1, <2>1, <2>2, <2>3 DEF NativeCalls, ExternalCalls, Size
<1>2. CASE ~(NativeCalls(c) > 0)
  <2>1. PublishedPart(c) = c
    BY <1>2 DEF PublishedPart
  <2>2. NativeCalls(c) \in Nat /\ Size(c) \in Nat /\ c.consult \in Nat
    BY Sizes
  <2> QED
    BY <1>2, <2>1, <2>2
<1> QED
  BY <1>1, <1>2

\* A model step that publishes, in terms of what it publishes.
LEMMA ActsOnABatch ==
    ASSUME LoopInv, NEW s \in Shapes, ModelActs(s)
    PROVE  \E b \in Shape :
              /\ place = "model" /\ place' = "after"
              /\ Size(b) > 0
              /\ NativeCalls(b) = 0 \/ ExternalCalls(b) = 0
              /\ issued + native + Size(b) <= MaxActions
              /\ consultations + b.consult <= ConsultLimit
              /\ b.swarm = 0 \/ (b.swarm = 1 /\ swarmCalls = 0)
              /\ status' = IF NativeCalls(b) > 0 THEN "waiting_native" ELSE "waiting_tools"
              /\ step' = step + 1
              /\ issued' = issued + ExternalCalls(b)
              /\ native' = native + NativeCalls(b)
              /\ consultations' = consultations + b.consult
              /\ pending' = b
              /\ round' = IF NativeCalls(b) > 0 THEN round ELSE 0
              /\ swarmCalls' = swarmCalls + b.swarm
              /\ UNCHANGED <<admission, turn, used, done, admitted, swarmsRun, paid>>
<1> DEFINE c == WithinConsultLimit(s)
           b == PublishedPart(c)
<1>1. s \in Shape /\ ConsultLimit \in Nat /\ MaxActions \in Nat
  BY NativeLoopAssumption
<1>2. consultations \in Nat /\ consultations <= ConsultLimit
  BY DEF LoopInv, TypeOK, ConsultationsBounded
<1>3. c \in Shape /\ consultations + c.consult <= ConsultLimit /\ c.swarm = s.swarm
  BY <1>1, <1>2, Allowance
<1>4. /\ b \in Shape /\ Size(b) <= Size(c) /\ (Size(c) > 0 => Size(b) > 0)
      /\ NativeCalls(b) = 0 \/ ExternalCalls(b) = 0
      /\ b.swarm = c.swarm /\ b.consult <= c.consult
  BY <1>3, Publishing
<1>5. /\ Size(c) \in Nat /\ Size(b) \in Nat /\ b.consult \in Nat /\ c.consult \in Nat
      /\ c.swarm \in Nat /\ issued \in Nat /\ native \in Nat /\ swarmCalls \in Nat
  BY <1>3, <1>4, Sizes DEF LoopInv, TypeOK
<1>6. Size(c) > 0 /\ ~OverLimit(c) /\ (s.swarm = 0 \/ swarmCalls = 0)
  BY DEF ModelActs, SwarmOn
<1>7. issued + native + Size(c) <= MaxActions /\ c.swarm <= 1
  BY <1>1, <1>5, <1>6 DEF OverLimit
<1>8. /\ issued + native + Size(b) <= MaxActions
      /\ consultations + b.consult <= ConsultLimit
      /\ b.swarm = 0 \/ (b.swarm = 1 /\ swarmCalls = 0)
  BY <1>1, <1>2, <1>3, <1>4, <1>5, <1>6, <1>7
<1>9. /\ place = "model" /\ place' = "after"
      /\ status' = IF NativeCalls(b) > 0 THEN "waiting_native" ELSE "waiting_tools"
      /\ step' = step + 1
      /\ issued' = issued + Size(b) - NativeCalls(b)
      /\ native' = native + NativeCalls(b)
      /\ consultations' = consultations + b.consult
      /\ pending' = b
      /\ round' = IF NativeCalls(b) > 0 THEN round ELSE 0
      /\ swarmCalls' = swarmCalls + b.swarm
      /\ UNCHANGED <<admission, turn, used, done, admitted, swarmsRun, paid>>
  BY DEF ModelActs, IssuedAfter, KeptRound, history
<1> HIDE DEF b
<1>10. issued + Size(b) - NativeCalls(b) = issued + ExternalCalls(b)
  BY <1>4, <1>5, Sizes
<1> QED
  BY <1>4, <1>6, <1>8, <1>9, <1>10

\* A step that publishes nothing and raises nothing but the step number.
LEMMA StepWithoutBatch ==
    ASSUME LoopInv, NEW s \in Final \cup {"waiting_compaction"},
           place = "model", place' = "after", NothingPending(s),
           UNCHANGED <<swarmCalls, admission, turn, used, done, admitted, swarmsRun>>,
           round' \in Nat, paid' \in Nat,
           round' <= MaxCompactions, paid' <= MaxCompactions,
           s = "waiting_compaction" => paid' <= round'
    PROVE  LoopInv'
<1>1. /\ status' = s /\ step' = step + 1 /\ pending' = NoBatch
      /\ UNCHANGED <<issued, native, consultations>>
  BY DEF NothingPending
<1>2. TypeOK'
  BY <1>1, EmptyBatch DEF LoopInv, TypeOK, Waiting
<1>3. OneExecutor' /\ ConsultationsBounded' /\ OnePaidPass' /\ SwarmIsAdmitted' /\ QuotaHolds'
  BY <1>1, EmptyBatch DEF LoopInv, OneExecutor, ConsultationsBounded, OnePaidPass,
       SwarmIsAdmitted, QuotaHolds
<1>4. ChargedBeforeRun'
  BY <1>1, EmptyBatch DEF LoopInv, ChargedBeforeRun, OpenActions, AtInterrupt, TypeOK
<1>5. WaitsForABatch'
  BY <1>1 DEF WaitsForABatch, AtInterrupt, Waiting, Final
<1>6. RoundCounts'
  BY <1>1 DEF RoundCounts, InsideRequest, Final
<1>7. SwarmCounted' /\ AdmissionsAreOld'
  BY <1>1, EmptyBatch DEF LoopInv, SwarmCounted, AdmissionsAreOld, TypeOK
<1>8. UsedTicketsAreOld'
  <2>1. step \in Nat /\ (\A t \in used : t.batch \in 0..step)
    BY DEF LoopInv, TypeOK, UsedTicketsAreOld
  <2> QED
    BY <1>1, <2>1 DEF UsedTicketsAreOld
<1> QED
  BY <1>2, <1>3, <1>4, <1>5, <1>6, <1>7, <1>8 DEF LoopInv

\* An answered interrupt used a ticket of this very step; the batch stays where it is.
LEMMA ResumeStep ==
    ASSUME LoopInv, NEW t \in published, AtInterrupt, Accepts(t),
           status' = "running", place' \in {"tools", "model"},
           used' = used \cup {t},
           admission' \in [batch : Nat, verdict : Verdicts], admission'.batch <= step,
           admitted' \in Nat, admitted <= admitted', admitted' <= admitted + pending.swarm,
           place' = "tools" /\ SwarmRuns' => admitted' = admitted + 1,
           paid' \in {0, paid},
           status = "waiting_tools" => paid' = 0,
           place' = "tools" => status # "waiting_compaction",
           UNCHANGED <<step, issued, native, consultations, pending, round, swarmCalls, turn,
                       done, swarmsRun>>
    PROVE  LoopInv'
<1>1. TypeOK'
  <2>1. /\ place' \in {"idle", "model", "after", "tools"} /\ paid' \in Nat
        /\ status' \in {"none", "running"} \cup Waiting \cup Final
    BY DEF LoopInv, TypeOK
  <2> QED
    BY <2>1 DEF LoopInv, TypeOK
<1>2. OneExecutor' /\ ConsultationsBounded' /\ OnePaidPass' /\ QuotaHolds'
  BY NativeLoopAssumption DEF LoopInv, OneExecutor, ConsultationsBounded, OnePaidPass,
     QuotaHolds, AtInterrupt
<1>3. ChargedBeforeRun'
  <2>1. Size(pending) \in Nat /\ done + Size(pending) <= issued + native
    BY Sizes DEF LoopInv, ChargedBeforeRun, OpenActions, TypeOK
  <2>2. OpenActions' \in {0, Size(pending)}
    BY DEF OpenActions, AtInterrupt
  <2>3. done \in Nat /\ issued \in Nat /\ native \in Nat
    BY DEF LoopInv, TypeOK
  <2>4. done <= issued + native
    BY DEF LoopInv, QuotaHolds
  <2>5. CASE OpenActions' = 0
    BY <2>3, <2>4, <2>5 DEF ChargedBeforeRun
  <2>6. CASE OpenActions' = Size(pending)
    BY <2>1, <2>6 DEF ChargedBeforeRun
  <2> QED
    BY <2>2, <2>5, <2>6
<1>4. WaitsForABatch'
  BY DEF WaitsForABatch, AtInterrupt, Waiting
<1>5. RoundCounts'
  BY DEF LoopInv, TypeOK, RoundCounts, InsideRequest, AtInterrupt, Waiting
<1>6. SwarmCounted' /\ AdmissionsAreOld' /\ SwarmIsAdmitted'
  <2>1. /\ swarmsRun \in Nat /\ admitted \in Nat /\ swarmCalls \in Nat /\ pending.swarm \in Nat
        /\ swarmsRun <= admitted /\ admitted + pending.swarm <= swarmCalls /\ swarmCalls <= 1
    BY Sizes DEF LoopInv, TypeOK, SwarmCounted
  <2>2. ~AtInterrupt'
    BY DEF AtInterrupt, Waiting
  <2>3. swarmsRun <= admitted' /\ admitted' <= swarmCalls /\ admitted' <= 1
    BY <2>1
  <2>4. admitted' = admitted + 1 => swarmsRun < admitted'
    BY <2>1
  <2> QED
    BY <2>1, <2>2, <2>3, <2>4 DEF SwarmCounted, AdmissionsAreOld, SwarmIsAdmitted
<1>7. UsedTicketsAreOld'
  <2>1. t.batch = step
    BY DEF Accepts, Ticket
  <2>2. ~AtInterrupt' /\ step \in Nat
    BY DEF AtInterrupt, LoopInv, TypeOK
  <2> QED
    BY <2>1, <2>2 DEF LoopInv, UsedTicketsAreOld
<1> QED
  BY <1>1, <1>2, <1>3, <1>4, <1>5, <1>6, <1>7 DEF LoopInv

\* The tool node: what is performed is part of the charged batch.
LEMMA ToolStep ==
    ASSUME LoopInv, place = "tools", place' \in {"model", "idle"},
           NEW n \in 0..Size(pending), done' = done + n,
           swarmsRun' = swarmsRun \/ (SwarmRuns /\ swarmsRun' = swarmsRun + 1),
           pending' = NoBatch,
           UNCHANGED <<status, step, issued, native, consultations, round, swarmCalls, admission,
                       turn, used, admitted, paid>>
    PROVE  LoopInv'
<1>1. /\ swarmsRun \in Nat /\ admitted \in Nat /\ swarmCalls \in Nat /\ pending \in Shape
      /\ done \in Nat /\ issued \in Nat /\ native \in Nat /\ Size(pending) \in Nat
  BY Sizes DEF LoopInv, TypeOK
<1>2. swarmsRun' \in Nat /\ swarmsRun' <= admitted /\ admitted <= swarmCalls /\ swarmCalls <= 1
  BY <1>1 DEF LoopInv, SwarmCounted
<1>3. done' \in Nat /\ done' <= issued + native
  <2>1. done + Size(pending) <= issued + native
    BY DEF LoopInv, ChargedBeforeRun, OpenActions
  <2> QED
    BY <1>1, <2>1
<1>4. TypeOK'
  BY <1>2, <1>3, EmptyBatch DEF LoopInv, TypeOK
<1>5. OneExecutor' /\ ConsultationsBounded' /\ OnePaidPass' /\ SwarmIsAdmitted' /\ QuotaHolds'
  BY <1>1, <1>2, <1>3, EmptyBatch DEF LoopInv, OneExecutor, ConsultationsBounded, OnePaidPass,
     SwarmIsAdmitted, QuotaHolds
<1>6. ChargedBeforeRun'
  BY <1>1, <1>3, EmptyBatch DEF ChargedBeforeRun, OpenActions, AtInterrupt
<1>7. WaitsForABatch' /\ RoundCounts'
  BY DEF LoopInv, WaitsForABatch, RoundCounts, InsideRequest, AtInterrupt
<1>8. SwarmCounted' /\ AdmissionsAreOld' /\ UsedTicketsAreOld'
  BY <1>2 DEF LoopInv, SwarmCounted, AdmissionsAreOld, UsedTicketsAreOld, AtInterrupt
<1> QED
  BY <1>4, <1>5, <1>6, <1>7, <1>8 DEF LoopInv

\* A model step that publishes a batch.
LEMMA ActStep ==
    ASSUME LoopInv, NEW s \in Shapes, ModelActs(s)
    PROVE  LoopInv'
<1>1. PICK b \in Shape :
              /\ place = "model" /\ place' = "after"
              /\ Size(b) > 0
              /\ NativeCalls(b) = 0 \/ ExternalCalls(b) = 0
              /\ issued + native + Size(b) <= MaxActions
              /\ consultations + b.consult <= ConsultLimit
              /\ b.swarm = 0 \/ (b.swarm = 1 /\ swarmCalls = 0)
              /\ status' = IF NativeCalls(b) > 0 THEN "waiting_native" ELSE "waiting_tools"
              /\ step' = step + 1
              /\ issued' = issued + ExternalCalls(b)
              /\ native' = native + NativeCalls(b)
              /\ consultations' = consultations + b.consult
              /\ pending' = b
              /\ round' = IF NativeCalls(b) > 0 THEN round ELSE 0
              /\ swarmCalls' = swarmCalls + b.swarm
              /\ UNCHANGED <<admission, turn, used, done, admitted, swarmsRun, paid>>
  BY ActsOnABatch
<1>2. /\ NativeCalls(b) \in Nat /\ ExternalCalls(b) \in Nat /\ Size(b) \in Nat
      /\ Size(b) = NativeCalls(b) + ExternalCalls(b) /\ b.swarm \in Nat /\ b.consult \in Nat
  BY Sizes
<1>3. /\ step \in Nat /\ issued \in Nat /\ native \in Nat /\ consultations \in Nat
      /\ round \in Nat /\ swarmCalls \in Nat /\ swarmsRun \in Nat /\ done \in Nat /\ paid \in Nat
      /\ MaxActions \in Nat /\ MaxCompactions \in Nat
  BY NativeLoopAssumption DEF LoopInv, TypeOK
<1>4. TypeOK'
  BY <1>1, <1>2, <1>3 DEF LoopInv, TypeOK, Waiting
<1>5. QuotaHolds'
  BY <1>1, <1>2, <1>3 DEF LoopInv, QuotaHolds
<1>6. OneExecutor' /\ ConsultationsBounded' /\ OnePaidPass' /\ SwarmIsAdmitted'
  BY <1>1, <1>2, <1>3 DEF LoopInv, OneExecutor, ConsultationsBounded, OnePaidPass,
     SwarmIsAdmitted
<1>7. ChargedBeforeRun'
  <2>1. done <= issued + native
    BY DEF LoopInv, QuotaHolds
  <2>2. OpenActions' = Size(b)
    BY <1>1 DEF OpenActions, AtInterrupt, Waiting
  <2> QED
    BY <1>1, <1>2, <1>3, <2>1, <2>2 DEF ChargedBeforeRun
<1>8. WaitsForABatch'
  BY <1>1 DEF WaitsForABatch
<1>9. RoundCounts'
  BY <1>1, <1>3 DEF LoopInv, RoundCounts, InsideRequest
<1>10. SwarmCounted' /\ AdmissionsAreOld'
  <2>1. /\ swarmsRun <= admitted /\ admitted <= swarmCalls /\ swarmCalls <= 1
        /\ admission.batch <= step /\ admission.batch \in Nat /\ admitted \in Nat
    BY DEF LoopInv, SwarmCounted, AdmissionsAreOld, TypeOK
  <2> QED
    BY <1>1, <1>2, <1>3, <2>1 DEF SwarmCounted, AdmissionsAreOld
<1>11. UsedTicketsAreOld'
  <2>1. \A t \in used : t.batch \in 0..step
    BY DEF LoopInv, UsedTicketsAreOld
  <2> QED
    BY <1>1, <1>3, <2>1 DEF UsedTicketsAreOld
<1> QED
  BY <1>4, <1>5, <1>6, <1>7, <1>8, <1>9, <1>10, <1>11 DEF LoopInv

\* An owner's message abandons what was open and starts the turn's counts again.
LEMMA OwnerStep ==
    ASSUME LoopInv, OwnerTurn
    PROVE  LoopInv'
<1>1. /\ place' = "model" /\ swarmCalls' = 0 /\ admitted' = 0 /\ swarmsRun' = 0 /\ paid' = 0 /\ turn' = turn + 1
      /\ UNCHANGED <<status, step, issued, native, consultations, pending, round, admission,
                     published, used, done>>
  BY DEF OwnerTurn, execution
<1>2. TypeOK' /\ ~AtInterrupt' /\ OpenActions' = 0
  BY <1>1 DEF LoopInv, TypeOK, AtInterrupt, OpenActions
<1>3. QuotaHolds' /\ ConsultationsBounded'
  BY <1>1 DEF LoopInv, QuotaHolds, ConsultationsBounded
<1>4. OneExecutor' /\ OnePaidPass' /\ SwarmIsAdmitted'
  BY <1>1, NativeLoopAssumption DEF OneExecutor, OnePaidPass, SwarmIsAdmitted
<1>5. ChargedBeforeRun'
  BY <1>1, <1>2 DEF LoopInv, TypeOK, QuotaHolds, ChargedBeforeRun
<1>6. WaitsForABatch' /\ SwarmCounted' /\ AdmissionsAreOld'
  BY <1>1, <1>2 DEF LoopInv, WaitsForABatch, SwarmCounted, AdmissionsAreOld
<1>7. RoundCounts' /\ UsedTicketsAreOld'
  BY <1>1, <1>2 DEF LoopInv, TypeOK, RoundCounts, UsedTicketsAreOld
<1> QED
  BY <1>2, <1>3, <1>4, <1>5, <1>6, <1>7 DEF LoopInv

\* The end of a run changes nothing but the place.
LEMMA EndStep ==
    ASSUME LoopInv, ModelRaises \/ EndRun
    PROVE  LoopInv'
<1>1. /\ place' = "idle"
      /\ UNCHANGED <<status, step, issued, native, consultations, pending, round, swarmCalls,
                     admission, turn, published, used, done, admitted, swarmsRun, paid>>
  BY DEF ModelRaises, EndRun, execution, history
<1>2. TypeOK' /\ ~AtInterrupt' /\ OpenActions' = 0
  BY <1>1 DEF LoopInv, TypeOK, AtInterrupt, OpenActions
<1>3. QuotaHolds' /\ ConsultationsBounded' /\ OneExecutor' /\ OnePaidPass' /\ SwarmIsAdmitted'
  BY <1>1 DEF LoopInv, QuotaHolds, ConsultationsBounded, OneExecutor, OnePaidPass,
       SwarmIsAdmitted
<1>4. ChargedBeforeRun'
  BY <1>1, <1>2 DEF LoopInv, TypeOK, QuotaHolds, ChargedBeforeRun
<1>5. /\ WaitsForABatch' /\ RoundCounts' /\ SwarmCounted' /\ AdmissionsAreOld'
      /\ UsedTicketsAreOld'
  BY <1>1, <1>2 DEF LoopInv, WaitsForABatch, RoundCounts, InsideRequest, SwarmCounted,
       AdmissionsAreOld, UsedTicketsAreOld
<1> QED
  BY <1>2, <1>3, <1>4, <1>5 DEF LoopInv

\* The model steps that publish no batch.
LEMMA AnswerStep ==
    ASSUME LoopInv, ModelAnswers \/ (\E s \in Shapes : ModelOverLimit(s))
    PROVE  LoopInv'
<1>1. PICK s \in Final : NothingPending(s)
  BY DEF ModelAnswers, ModelOverLimit, Final
<1>2. /\ place = "model" /\ place' = "after" /\ round' = 0
      /\ UNCHANGED <<swarmCalls, admission, turn, used, done, admitted, swarmsRun, paid>>
  BY DEF ModelAnswers, ModelOverLimit, history
<1>3. paid \in Nat /\ paid <= MaxCompactions /\ MaxCompactions \in Nat
  BY NativeLoopAssumption DEF LoopInv, TypeOK, OnePaidPass
<1>4. s # "waiting_compaction"
  BY DEF Final
<1> QED
  BY <1>1, <1>2, <1>3, <1>4, StepWithoutBatch

\* The paid summary, accepted or not.
LEMMA CompactionStep ==
    ASSUME LoopInv, ModelCompacts \/ ModelSummaryRejected
    PROVE  LoopInv'
<1>1. /\ place = "model" /\ place' = "after" /\ round < MaxCompactions /\ paid' = paid + 1
      /\ UNCHANGED <<swarmCalls, admission, turn, used, done, admitted, swarmsRun>>
  BY DEF ModelCompacts, ModelSummaryRejected, MayCompact
<1>2. /\ paid \in Nat /\ round \in Nat /\ MaxCompactions \in Nat /\ paid <= round
  BY <1>1, NativeLoopAssumption DEF LoopInv, TypeOK, RoundCounts, InsideRequest
<1>3. CASE ModelCompacts
  <2>1. NothingPending("waiting_compaction") /\ round' = round + 1
    BY <1>3 DEF ModelCompacts
  <2> QED
    BY <1>1, <1>2, <2>1, StepWithoutBatch
<1>4. CASE ModelSummaryRejected
  <2>1. NothingPending("blocked") /\ round' = 0 /\ "blocked" \in Final
    BY <1>4 DEF ModelSummaryRejected, Final
  <2> QED
    BY <1>1, <1>2, <2>1, StepWithoutBatch
<1> QED
  BY <1>3, <1>4

\* The three interrupts, answered.
LEMMA AnsweredInterrupt ==
    ASSUME LoopInv, Resume
    PROVE  LoopInv'
<1>1. PICK t \in published : \/ \E v \in Verdicts : ResumeNative(t, v)
                             \/ ResumeTools(t)
                             \/ ResumeCompaction(t)
  BY DEF Resume
<1>2. /\ admission \in [batch : Nat, verdict : Verdicts] /\ step \in Nat /\ admitted \in Nat
      /\ pending.swarm \in Nat /\ (AtInterrupt => admission.batch < step)
  BY Sizes DEF LoopInv, TypeOK, AdmissionsAreOld
<1>3. CASE \E v \in Verdicts : ResumeNative(t, v)
  <2>1. PICK v \in Verdicts : ResumeNative(t, v)
    BY <1>3
  <2>2. admission' \in [batch : Nat, verdict : Verdicts]
    BY <1>2, <2>1 DEF ResumeNative, NoAdmission, Verdicts
  <2>3. admission'.batch <= step
    BY <1>2, <2>1 DEF ResumeNative, NoAdmission
  <2>4. /\ admitted' \in Nat /\ admitted <= admitted' /\ admitted' <= admitted + pending.swarm
        /\ SwarmRuns' => admitted' = admitted + 1
    <3>1. CASE v = "admitted"
      BY <1>2, <2>1, <3>1 DEF ResumeNative, Described
    <3>2. CASE v # "admitted"
      <4>1. admitted' = admitted
        BY <2>1, <3>2 DEF ResumeNative
      <4>2. ~SwarmRuns'
        BY <2>1, <3>2 DEF ResumeNative, SwarmRuns, Described
      <4> QED
        BY <1>2, <4>1, <4>2
    <3> QED
      BY <3>1, <3>2
  <2> QED
    BY <2>1, <2>2, <2>3, <2>4, ResumeStep DEF ResumeNative
<1>4. CASE ResumeTools(t)
  <2>1. AtInterrupt /\ step' = step /\ UNCHANGED <<admission, admitted>>
    BY <1>4 DEF ResumeTools
  <2>2. ~SwarmRuns' /\ admission.batch <= step
    BY <1>2, <2>1 DEF SwarmRuns
  <2> QED
    BY <1>2, <1>4, <2>1, <2>2, ResumeStep DEF ResumeTools
<1>5. CASE ResumeCompaction(t)
  <2>1. place' = "model" /\ UNCHANGED <<admission, admitted>> /\ AtInterrupt
    BY <1>5 DEF ResumeCompaction
  <2>2. admission.batch <= step
    BY <1>2, <2>1
  <2> QED
    BY <1>2, <1>5, <2>1, <2>2, ResumeStep DEF ResumeCompaction
<1> QED
  BY <1>1, <1>3, <1>4, <1>5

\* The tool node finishes or raises.
LEMMA ToolsRun ==
    ASSUME LoopInv, RunTools \/ ToolsRaise
    PROVE  LoopInv'
<1>1. pending \in Shape /\ Size(pending) \in Nat /\ swarmsRun \in Nat
  BY Sizes DEF LoopInv, TypeOK
<1>2. CASE RunTools
  <2>1. Size(pending) \in 0..Size(pending)
    BY <1>1
  <2>2. swarmsRun' = swarmsRun \/ (SwarmRuns /\ swarmsRun' = swarmsRun + 1)
    BY <1>1, <1>2 DEF RunTools
  <2> QED
    BY <1>2, <2>1, <2>2, ToolStep DEF RunTools
<1>3. CASE ToolsRaise
  <2>1. PICK n \in 0..Size(pending) : done' = done + n
    BY <1>3 DEF ToolsRaise
  <2> QED
    BY <1>3, <2>1, ToolStep DEF ToolsRaise
<1> QED
  BY <1>2, <1>3

\* The inductive invariant: quota, executor, paid pass, consultations and swarm, with
\* what each needs to be kept by every step of the loop.
THEOREM LoopInvariant == Spec => []LoopInv
<1>1. Init => LoopInv
  <2> SUFFICES ASSUME Init PROVE LoopInv
    OBVIOUS
  <2>1. TypeOK /\ ~AtInterrupt /\ OpenActions = 0
    BY EmptyBatch DEF Init, TypeOK, AtInterrupt, OpenActions, NoAdmission, Verdicts
  <2>2. MaxActions \in Nat /\ ConsultLimit \in Nat /\ MaxCompactions \in Nat
    BY NativeLoopAssumption
  <2>3. QuotaHolds /\ OneExecutor /\ OnePaidPass /\ ConsultationsBounded /\ SwarmIsAdmitted
    BY <2>2 DEF Init, QuotaHolds, OneExecutor, OnePaidPass, ConsultationsBounded,
         SwarmIsAdmitted
  <2>4. /\ ChargedBeforeRun /\ WaitsForABatch /\ RoundCounts /\ SwarmCounted
        /\ AdmissionsAreOld /\ UsedTicketsAreOld
    BY <2>1, <2>2 DEF Init, ChargedBeforeRun, WaitsForABatch, RoundCounts, InsideRequest,
         SwarmCounted, AdmissionsAreOld, NoAdmission, UsedTicketsAreOld
  <2> QED
    BY <2>1, <2>3, <2>4 DEF LoopInv
<1>2. LoopInv /\ [Next]_vars => LoopInv'
  <2> SUFFICES ASSUME LoopInv, [Next]_vars PROVE LoopInv'
    OBVIOUS
  <2>1. CASE ModelAnswers \/ (\E s \in Shapes : ModelOverLimit(s))
    BY <2>1, AnswerStep
  <2>2. CASE \E s \in Shapes : ModelActs(s)
    BY <2>2, ActStep
  <2>3. CASE ModelCompacts \/ ModelSummaryRejected
    BY <2>3, CompactionStep
  <2>4. CASE ModelRaises \/ EndRun
    BY <2>4, EndStep
  <2>5. CASE Resume
    BY <2>5, AnsweredInterrupt
  <2>6. CASE RunTools \/ ToolsRaise
    BY <2>6, ToolsRun
  <2>7. CASE OwnerTurn
    BY <2>7, OwnerStep
  <2>8. CASE UNCHANGED vars
    BY <2>8 DEF vars, LoopInv, TypeOK, QuotaHolds, OneExecutor, OnePaidPass,
         ConsultationsBounded, SwarmIsAdmitted, ChargedBeforeRun, OpenActions, WaitsForABatch,
         AtInterrupt, RoundCounts, InsideRequest, SwarmCounted, SwarmRuns, Described,
         AdmissionsAreOld, UsedTicketsAreOld
  <2> QED
    BY <2>1, <2>2, <2>3, <2>4, <2>5, <2>6, <2>7, <2>8 DEF Next, ModelStep, ResumeRejected
<1> QED
  BY <1>1, <1>2, PTL DEF Spec

\* The state of the loop is well typed.
THEOREM LoopTypes == Spec => []TypeOK
<1>1. LoopInv => TypeOK
  BY DEF LoopInv
<1> QED
  BY <1>1, LoopInvariant, PTL

\* Native and external actions together never pass MAX_ACTIONS, and no more is ever
\* performed than was charged (filter_result, execution_after, aafter_model).
THEOREM QuotaKept == Spec => []QuotaHolds
<1>1. LoopInv => QuotaHolds
  BY DEF LoopInv
<1> QED
  BY <1>1, LoopInvariant, PTL

\* No published batch mixes native and external calls (filter_result).
THEOREM BatchesHaveOneExecutor == Spec => []OneExecutor
<1>1. LoopInv => OneExecutor
  BY DEF LoopInv
<1> QED
  BY <1>1, LoopInvariant, PTL

\* One bridge request pays for no more than MAX_COMPACTIONS_PER_TURN summaries.
THEOREM PaidPassesBounded == Spec => []OnePaidPass
<1>1. LoopInv => OnePaidPass
  BY DEF LoopInv
<1> QED
  BY <1>1, LoopInvariant, PTL

\* The paid consultations stay within the server's limit (_respond_step).
THEOREM ConsultationsKept == Spec => []ConsultationsBounded
<1>1. LoopInv => ConsultationsBounded
  BY DEF LoopInv
<1> QED
  BY <1>1, LoopInvariant, PTL

\* A swarm that runs was admitted in this owner's turn, and only one is (_swarm_on,
\* filter_result, aafter_model, _run_swarm).
THEOREM SwarmRunsAdmitted == Spec => []SwarmIsAdmitted
<1>1. LoopInv => SwarmIsAdmitted
  BY DEF LoopInv
<1> QED
  BY <1>1, LoopInvariant, PTL

\* A ticket that has advanced the task never advances it again (aafter_model).
THEOREM TicketsAreSpent == Spec => TicketsAdvanceOnce
<1>1. LoopInv /\ [Next]_vars => [AtInterrupt /\ ~AtInterrupt' /\ turn' = turn => used' # used]_vars
  <2> SUFFICES ASSUME LoopInv, Next, AtInterrupt, ~AtInterrupt', turn' = turn
               PROVE  used' # used
    OBVIOUS
  <2>1. turn \in Nat
    BY DEF LoopInv, TypeOK
  <2>2. ~OwnerTurn
    BY <2>1 DEF OwnerTurn
  <2>3. ~ModelStep
    BY DEF AtInterrupt, ModelStep, ModelAnswers, ModelOverLimit, ModelActs, ModelCompacts,
         ModelSummaryRejected, ModelRaises
  <2>4. ~EndRun /\ ~ResumeRejected /\ ~RunTools /\ ~ToolsRaise
    BY DEF AtInterrupt, EndRun, ResumeRejected, RunTools, ToolsRaise, vars
  <2>5. Resume
    BY <2>2, <2>3, <2>4 DEF Next
  <2>6. PICK t \in published : Accepts(t) /\ used' = used \cup {t}
    BY <2>5 DEF Resume, ResumeNative, ResumeTools, ResumeCompaction
  <2>7. t.batch = step /\ step \in Nat
    BY <2>6 DEF Accepts, Ticket, LoopInv, TypeOK
  <2>8. t \notin used
    BY <2>7 DEF LoopInv, UsedTicketsAreOld
  <2> QED
    BY <2>6, <2>8
<1> QED
  BY <1>1, LoopInvariant, PTL DEF Spec, TicketsAdvanceOnce

\* The loop implements the ledger: a batch is charged before it runs, performed at most
\* once and only after its ticket was accepted, and its charge is never returned.
THEOREM ImplementsLedger == Spec => LedgerSpec
<1>1. Init => Ledger!Init
  BY DEF Init, Ledger!Init, OpenActions, AtInterrupt
<1>2. LoopInv /\ [Next]_vars => [Ledger!Next]_Ledger!ledger
  <2> SUFFICES ASSUME LoopInv, [Next]_vars
               PROVE  Ledger!Next \/ UNCHANGED Ledger!ledger
    OBVIOUS
  <2>1. /\ pending \in Shape /\ Size(pending) \in Nat /\ issued \in Nat /\ native \in Nat
        /\ done \in Nat /\ MaxActions \in Nat
    BY Sizes, NativeLoopAssumption DEF LoopInv, TypeOK
  <2>2. CASE \/ ModelAnswers \/ ModelCompacts \/ ModelSummaryRejected
             \/ \E s \in Shapes : ModelOverLimit(s)
    <3>1. PICK s : NothingPending(s)
      BY <2>2 DEF ModelAnswers, ModelCompacts, ModelSummaryRejected, ModelOverLimit
    <3>2. place = "model" /\ place' = "after" /\ done' = done
      BY <2>2 DEF ModelAnswers, ModelCompacts, ModelSummaryRejected, ModelOverLimit, history
    <3>3. OpenActions = 0 /\ OpenActions' = 0
      BY <3>1, <3>2, EmptyBatch DEF OpenActions, AtInterrupt, NothingPending
    <3> QED
      BY <3>1, <3>2, <3>3 DEF NothingPending, Ledger!ledger
  <2>3. CASE \E s \in Shapes : ModelActs(s)
    <3>1. PICK b \in Shape :
              /\ place = "model" /\ place' = "after"
              /\ Size(b) > 0
              /\ issued + native + Size(b) <= MaxActions
              /\ status' = IF NativeCalls(b) > 0 THEN "waiting_native" ELSE "waiting_tools"
              /\ issued' = issued + ExternalCalls(b)
              /\ native' = native + NativeCalls(b)
              /\ pending' = b
              /\ done' = done
      BY <2>3, ActsOnABatch
    <3>2. /\ NativeCalls(b) \in Nat /\ ExternalCalls(b) \in Nat
          /\ Size(b) = NativeCalls(b) + ExternalCalls(b)
      BY Sizes
    <3>3. OpenActions = 0 /\ OpenActions' = Size(b)
      BY <3>1 DEF OpenActions, AtInterrupt, Waiting
    <3>4. Size(b) \in 1..MaxActions /\ issued' + native' = issued + native + Size(b)
      BY <2>1, <3>1, <3>2
    <3>5. Ledger!Charge(Size(b))
      BY <3>1, <3>3, <3>4 DEF Ledger!Charge
    <3> QED
      BY <3>4, <3>5 DEF Ledger!Next
  <2>4. CASE ModelRaises \/ EndRun
    <3>1. /\ place # "tools" /\ ~AtInterrupt /\ place' = "idle"
          /\ UNCHANGED <<issued, native, done>>
      BY <2>4 DEF ModelRaises, EndRun, AtInterrupt, execution, history
    <3> QED
      BY <3>1 DEF Ledger!ledger, OpenActions, AtInterrupt
  <2>5. CASE Resume
    <3>1. /\ AtInterrupt /\ place' \in {"tools", "model"}
          /\ place' = "tools" => status # "waiting_compaction"
          /\ UNCHANGED <<issued, native, done, pending>>
      BY <2>5 DEF Resume, ResumeNative, ResumeTools, ResumeCompaction
    <3>2. OpenActions = Size(pending) /\ place # "tools"
      BY <3>1 DEF OpenActions, AtInterrupt
    <3>3. CASE place' = "tools"
      <4>1. OpenActions' = Size(pending) /\ Size(pending) > 0
        BY <3>1, <3>3 DEF OpenActions, LoopInv, WaitsForABatch
      <4>2. Ledger!Grant
        BY <3>1, <3>2, <3>3, <4>1 DEF Ledger!Grant
      <4> QED
        BY <4>2 DEF Ledger!Next
    <3>4. CASE place' = "model"
      <4>1. OpenActions' = 0
        BY <3>4 DEF OpenActions, AtInterrupt
      <4>2. Ledger!Abandon
        BY <3>1, <3>2, <3>4, <4>1 DEF Ledger!Abandon
      <4> QED
        BY <4>2 DEF Ledger!Next
    <3> QED
      BY <3>1, <3>3, <3>4
  <2>6. CASE RunTools \/ ToolsRaise
    <3>1. PICK n \in 0..Size(pending) : done' = done + n
      BY <2>1, <2>6 DEF RunTools, ToolsRaise
    <3>2. /\ place = "tools" /\ place' \in {"model", "idle"}
          /\ UNCHANGED <<issued, native>>
      BY <2>6 DEF RunTools, ToolsRaise
    <3>3. OpenActions = Size(pending) /\ OpenActions' = 0
      BY <3>2 DEF OpenActions, AtInterrupt
    <3>4. Ledger!Perform(n)
      BY <3>1, <3>2, <3>3 DEF Ledger!Perform
    <3> QED
      BY <3>1, <3>3, <3>4 DEF Ledger!Next
  <2>7. CASE OwnerTurn
    <3>1. /\ place # "tools" /\ place' = "model"
          /\ UNCHANGED <<issued, native, done>>
      BY <2>7 DEF OwnerTurn, AtInterrupt, execution
    <3>2. OpenActions' = 0
      BY <3>1 DEF OpenActions, AtInterrupt
    <3>3. Ledger!Abandon
      BY <3>1, <3>2 DEF Ledger!Abandon
    <3> QED
      BY <3>3 DEF Ledger!Next
  <2>8. CASE UNCHANGED vars
    BY <2>8 DEF vars, Ledger!ledger, OpenActions, AtInterrupt
  <2> QED
    BY <2>2, <2>3, <2>4, <2>5, <2>6, <2>7, <2>8 DEF Next, ModelStep, ResumeRejected
<1> QED
  BY <1>1, <1>2, LoopInvariant, PTL DEF Spec, LedgerSpec, Ledger!Spec

===============================================================================
