----------------------------- MODULE ServicesProofs -----------------------------
(***************************************************************************)
(* Theorems about the parts that keep state of their own beside the loop,  *)
(* for any number of requests, threads and reviewers and any budgets.      *)
(***************************************************************************)
EXTENDS Services, CompactionProofs, SwarmProofs

-------------------------------------------------------------------------------
(* The delegated run.                                                         *)

\* What the meter knows is what was really sent and priced, and a call beyond the steps
\* begun is the forced one.
MeterInv ==
    /\ budget \in Nat /\ steps \in 0..budget
    /\ meter \in [started : Nat, calls : Nat, measured : Nat]
    /\ sent = meter.started /\ priced = meter.measured
    /\ at \in {"start", "ask", "flying", "execute"} => sent <= steps
    /\ sent <= budget + 1
    /\ at = "reported" => report.unknown = sent - priced

\* The meter is kept by every step of the run.
LEMMA MeterStep == MeterInv /\ [SubagentNext]_subagentVars => MeterInv'
<1> SUFFICES ASSUME MeterInv, [SubagentNext]_subagentVars PROVE MeterInv'
  OBVIOUS
<1> USE DEF MeterInv
<1>1. CASE Start
  BY <1>1 DEF Start, runInput
<1>2. CASE StartFails
  BY <1>2 DEF StartFails, Reports, runInput
<1>3. CASE Ask
  <2>1. /\ sent' = sent + 1 /\ priced' = priced /\ budget' = budget
        /\ meter' = [started |-> meter.started + 1, calls |-> meter.calls,
                     measured |-> meter.measured]
        /\ at = "ask" /\ steps' = (IF steps < budget THEN steps + 1 ELSE steps)
        /\ at' = (IF steps < budget THEN "flying" ELSE "forced")
    BY <1>3 DEF Ask, Asking, runInput
  <2>2. /\ meter' \in [started : Nat, calls : Nat, measured : Nat]
        /\ meter'.started = meter.started + 1 /\ meter'.measured = meter.measured
    BY <2>1
  <2> QED
    BY <2>1, <2>2
<1>4. CASE AskRefused
  <2>1. /\ steps' = (IF steps < budget THEN steps + 1 ELSE steps) /\ budget' = budget
        /\ at' = "reported" /\ report'.unknown = meter.started - meter.measured
        /\ UNCHANGED <<meter, sent, priced>>
    BY <1>4 DEF AskRefused, Asking, Reports, runInput
  <2> QED
    BY <2>1
<1>5. CASE AnswersWithCalls
  <2>1. PICK m \in BOOLEAN : Metered(m)
    BY <1>5 DEF AnswersWithCalls
  <2>2. /\ at = "flying" /\ at' = "execute"
        /\ UNCHANGED <<budget, steps, sent, report>>
    BY <1>5 DEF AnswersWithCalls, runInput
  <2>3. /\ meter' \in [started : Nat, calls : Nat, measured : Nat]
        /\ meter'.started = meter.started /\ priced' = meter'.measured
    BY <2>1 DEF Metered
  <2> QED
    BY <2>2, <2>3
<1>6. CASE AnswersLast
  <2>1. PICK m \in BOOLEAN : Metered(m)
    BY <1>6 DEF AnswersLast
  <2>2. /\ at' = "reported" /\ report'.unknown = meter'.started - meter'.measured
        /\ UNCHANGED <<budget, steps, sent>>
    BY <1>6 DEF AnswersLast, Reports, runInput
  <2>3. /\ meter' \in [started : Nat, calls : Nat, measured : Nat]
        /\ meter'.started = meter.started /\ priced' = meter'.measured
    BY <2>1 DEF Metered
  <2> QED
    BY <2>2, <2>3
<1>7. CASE ModelFails
  BY <1>7 DEF ModelFails, Reports, runInput
<1>8. CASE CallRejected \/ CallExhausted \/ CallRecommended \/ CallReads \/ CallWrites \/ CallEdits
  <2>1. /\ at = "execute" /\ at' \in {"ask", "execute"}
        /\ UNCHANGED <<budget, steps, meter, sent, priced, report>>
    BY <1>8 DEF CallRejected, CallExhausted, CallRecommended, CallReads, CallWrites, CallEdits,
                Executes, Advance, runInput
  <2> QED
    BY <2>1
<1>9. CASE Deadline
  BY <1>9 DEF Deadline, Reports, runInput
<1>10. CASE UNCHANGED subagentVars
  BY <1>10 DEF subagentVars
<1> QED
  BY <1>1, <1>2, <1>3, <1>4, <1>5, <1>6, <1>7, <1>8, <1>9, <1>10 DEF SubagentNext, RunsOn

LEMMA MeterStarts == SubagentInit => MeterInv
BY SubagentAssumption DEF SubagentInit, MeterInv, NoReport

\* However the run ends, its report counts every provider call that was sent and whose
\* price nobody knows, and no more calls are sent than the budget and the forced report.
THEOREM MeterIsHonest == SubagentSpec => []MeterHonest
<1>1. MeterInv => MeterHonest
  BY DEF MeterInv, MeterHonest
<1> QED
  BY <1>1, MeterStarts, MeterStep, PTL DEF SubagentSpec

\* The counters of the meter are in order: a call is answered at most once, and priced
\* only if it is answered.
MeterInOrder ==
    /\ meter.measured <= meter.calls /\ meter.calls <= meter.started
    /\ at \in {"flying", "forced"} => meter.calls < meter.started

Meters == [started : Nat, calls : Nat, measured : Nat]
Reporteds == [status : {"none", "done", "partial", "failed"}, unknown : Nat, calls : Nat]

LEMMA ReportTyped ==
    ASSUME NEW m \in Meters, m.measured <= m.calls, m.calls <= m.started,
           NEW status \in {"done", "partial", "failed"}, Reports(status, m)
    PROVE  at' = "reported" /\ queue' \in Seq(Calls) /\ report' \in Reporteds
<1>1. m.started - m.measured \in Nat /\ m.calls \in Nat
  BY DEF Meters
<1> QED
  BY <1>1 DEF Reports, Reporteds

LEMMA MeteredTyped ==
    ASSUME meter \in Meters, MeterInOrder, at \in {"flying", "forced"}, priced \in Nat,
           NEW m \in BOOLEAN, Metered(m)
    PROVE  /\ meter' \in Meters /\ priced' \in Nat
           /\ meter'.measured <= meter'.calls /\ meter'.calls <= meter'.started
<1> DEFINE more == IF m THEN 1 ELSE 0
<1>1. more \in {0, 1}
  OBVIOUS
<1>2. /\ meter' = [started |-> meter.started, calls |-> meter.calls + 1,
                   measured |-> meter.measured + more]
      /\ priced' = priced + more
  BY DEF Metered
<1> HIDE DEF more
<1> QED
  BY <1>1, <1>2 DEF Meters, MeterInOrder

\* Taking a call off the batch, with a failure recorded or not.
LEMMA CallTaken ==
    ASSUME SubagentTypeOK, MeterInOrder, Executes, Advance,
           UNCHANGED failures \/ Fails,
           scratch' \subseteq {"scratch", "memory"}, recommended' \subseteq Calls,
           UNCHANGED <<runInput, steps, meter, sent, priced, report>>
    PROVE  SubagentTypeOK' /\ MeterInOrder'
<1>1. queue \in Seq(Calls) /\ queue # <<>>
  BY DEF SubagentTypeOK, Executes
<1>2. Here \in Calls /\ Tail(queue) \in Seq(Calls)
  BY <1>1, HeadTailProperties DEF Here
<1>3. queue' \in Seq(Calls) /\ at = "execute" /\ at' \in {"ask", "execute"}
  BY <1>2 DEF Advance, Executes
<1>4. failures' \in [Calls -> Nat]
  BY <1>2 DEF Fails, SubagentTypeOK
<1> QED
  BY <1>3, <1>4 DEF SubagentTypeOK, MeterInOrder, runInput

LEMMA RunTyped ==
    SubagentTypeOK /\ MeterInOrder /\ [SubagentNext]_subagentVars
      => SubagentTypeOK' /\ MeterInOrder'
<1> SUFFICES ASSUME SubagentTypeOK, MeterInOrder, [SubagentNext]_subagentVars
             PROVE  SubagentTypeOK' /\ MeterInOrder'
  OBVIOUS
<1>1. /\ role \in Roles /\ budget \in 1..BudgetCap /\ steps \in 0..budget
      /\ queue \in Seq(Calls) /\ failures \in [Calls -> Nat]
      /\ scratch \subseteq {"scratch", "memory"} /\ recommended \subseteq Calls
      /\ meter \in Meters /\ sent \in Nat /\ priced \in Nat /\ report \in Reporteds
      /\ meter.measured <= meter.calls /\ meter.calls <= meter.started
      /\ BudgetCap \in Nat
  BY SubagentAssumption DEF SubagentTypeOK, MeterInOrder, Meters, Reporteds
<1>2. CASE Start
  BY <1>1, <1>2 DEF Start, SubagentTypeOK, MeterInOrder, runInput
<1>3. CASE StartFails \/ ModelFails
  <2>1. Reports("failed", meter)
    BY <1>3 DEF StartFails, ModelFails
  <2>2. UNCHANGED <<role, budget, steps, failures, scratch, recommended, meter, sent, priced>>
    BY <1>3 DEF StartFails, ModelFails, runInput
  <2>3. at' = "reported" /\ queue' \in Seq(Calls) /\ report' \in Reporteds
    BY <1>1, <2>1, ReportTyped
  <2> QED
    BY <1>1, <2>2, <2>3 DEF SubagentTypeOK, MeterInOrder, Meters, Reporteds
<1>4. CASE Ask
  <2>1. /\ at = "ask" /\ steps' = (IF steps < budget THEN steps + 1 ELSE steps)
        /\ meter' = [started |-> meter.started + 1, calls |-> meter.calls,
                     measured |-> meter.measured]
        /\ sent' = sent + 1 /\ at' \in {"flying", "forced"}
        /\ UNCHANGED <<role, budget, queue, failures, scratch, recommended, priced, report>>
    BY <1>4 DEF Ask, Asking, runInput
  <2>2. meter' \in Meters /\ meter'.measured <= meter'.calls /\ meter'.calls < meter'.started
    BY <1>1, <2>1 DEF Meters
  <2>3. steps' \in 0..budget
    BY <1>1, <2>1
  <2>4. meter'.calls <= meter'.started
    BY <2>2 DEF Meters
  <2> QED
    BY <1>1, <2>1, <2>2, <2>3, <2>4 DEF SubagentTypeOK, MeterInOrder, Meters, Reporteds
<1>5. CASE AskRefused
  <2>1. Reports("failed", meter) /\ steps' = (IF steps < budget THEN steps + 1 ELSE steps)
    BY <1>5 DEF AskRefused, Asking
  <2>2. UNCHANGED <<role, budget, failures, scratch, recommended, meter, sent, priced>>
    BY <1>5 DEF AskRefused, runInput
  <2>3. at' = "reported" /\ queue' \in Seq(Calls) /\ report' \in Reporteds
    BY <1>1, <2>1, ReportTyped
  <2>4. steps' \in 0..budget
    BY <1>1, <2>1
  <2> QED
    BY <1>1, <2>2, <2>3, <2>4 DEF SubagentTypeOK, MeterInOrder, Meters, Reporteds
<1>6. CASE AnswersWithCalls
  <2>1. PICK m \in BOOLEAN : Metered(m)
    BY <1>6 DEF AnswersWithCalls
  <2>2. /\ at = "flying" /\ at' = "execute" /\ queue' \in Seq(Calls)
        /\ UNCHANGED <<role, budget, steps, failures, scratch, recommended, sent, report>>
    BY <1>6, SubagentAssumption DEF AnswersWithCalls, runInput
  <2>3. /\ meter' \in Meters /\ priced' \in Nat
        /\ meter'.measured <= meter'.calls /\ meter'.calls <= meter'.started
    BY <1>1, <2>1, <2>2, MeteredTyped
  <2> QED
    BY <1>1, <2>2, <2>3 DEF SubagentTypeOK, MeterInOrder, Meters, Reporteds
<1>7. CASE AnswersLast
  <2>1. PICK m \in BOOLEAN : Metered(m)
    BY <1>7 DEF AnswersLast
  <2>2. /\ at \in {"flying", "forced"}
        /\ UNCHANGED <<role, budget, steps, failures, scratch, recommended, sent>>
    BY <1>7 DEF AnswersLast, runInput
  <2>3. /\ meter' \in Meters /\ priced' \in Nat
        /\ meter'.measured <= meter'.calls /\ meter'.calls <= meter'.started
    BY <1>1, <2>1, <2>2, MeteredTyped
  <2>4. PICK status \in {"done", "partial"} : Reports(status, meter')
    BY <1>7 DEF AnswersLast
  <2>5. at' = "reported" /\ queue' \in Seq(Calls) /\ report' \in Reporteds
    <3> DEFINE m2 == meter'
    <3>1. m2 \in Meters /\ m2.measured <= m2.calls /\ m2.calls <= m2.started /\ Reports(status, m2)
      BY <2>3, <2>4
    <3> HIDE DEF m2
    <3> QED
      BY <3>1, ReportTyped
  <2> QED
    BY <1>1, <2>2, <2>3, <2>5 DEF SubagentTypeOK, MeterInOrder, Meters, Reporteds
<1>8. CASE CallRejected \/ CallExhausted \/ CallReads \/ CallEdits
  BY <1>1, <1>8, CallTaken DEF CallRejected, CallExhausted, CallReads, CallEdits
<1>9. CASE CallRecommended
  <2>1. Here \in Calls
    BY <1>1, <1>9, HeadTailProperties DEF CallRecommended, Executes, Here
  <2>2. recommended' \subseteq Calls /\ scratch' = scratch /\ UNCHANGED failures
    BY <1>1, <1>9, <2>1 DEF CallRecommended
  <2> QED
    BY <1>1, <1>9, <2>2, CallTaken DEF CallRecommended
<1>10. CASE CallWrites
  <2>1. /\ scratch' \subseteq {"scratch", "memory"} /\ recommended' = recommended
        /\ UNCHANGED failures \/ Fails
    BY <1>1, <1>10 DEF CallWrites
  <2> QED
    BY <1>1, <1>10, <2>1, CallTaken DEF CallWrites
<1>11. CASE Deadline
  <2>1. Reports("failed", meter) /\ scratch' = {} /\ recommended' = {}
    BY <1>11 DEF Deadline
  <2>2. UNCHANGED <<role, budget, steps, failures, meter, sent, priced>>
    BY <1>11 DEF Deadline, runInput
  <2>3. at' = "reported" /\ queue' \in Seq(Calls) /\ report' \in Reporteds
    BY <1>1, <2>1, ReportTyped
  <2> QED
    BY <1>1, <2>1, <2>2, <2>3 DEF SubagentTypeOK, MeterInOrder, Meters, Reporteds
<1>12. CASE UNCHANGED subagentVars
  BY <1>12 DEF subagentVars, SubagentTypeOK, MeterInOrder
<1> QED
  BY <1>2, <1>3, <1>4, <1>5, <1>6, <1>7, <1>8, <1>9, <1>10, <1>11, <1>12
  DEF SubagentNext, RunsOn

LEMMA RunStarts == SubagentInit => SubagentTypeOK /\ MeterInOrder
<1> SUFFICES ASSUME SubagentInit PROVE SubagentTypeOK /\ MeterInOrder
  OBVIOUS
<1>1. budget \in Nat /\ BudgetCap \in Nat
  BY SubagentAssumption DEF SubagentInit
<1>2. queue \in Seq(Calls) /\ failures \in [Calls -> Nat]
  BY DEF SubagentInit
<1> QED
  BY <1>1, <1>2 DEF SubagentInit, SubagentTypeOK, MeterInOrder, NoReport

\* The run keeps its types; in particular its report never counts fewer than no unpriced
\* calls, for no call is answered or priced that was not started.
THEOREM RunTypeCorrect == SubagentSpec => []SubagentTypeOK
<1>1. SubagentTypeOK /\ MeterInOrder => SubagentTypeOK
  OBVIOUS
<1> QED
  BY RunStarts, RunTyped, PTL DEF SubagentSpec

LEMMA ScratchStep ==
    WritesStayInScratch /\ [SubagentNext]_subagentVars => WritesStayInScratch'
<1> SUFFICES ASSUME WritesStayInScratch, [SubagentNext]_subagentVars
             PROVE  WritesStayInScratch'
  OBVIOUS
<1> USE DEF WritesStayInScratch
<1>1. CASE CallWrites
  <2>1. role = "operator"
    BY <1>1 DEF CallWrites, Runs, Known, ServerTools, Readers, Writers
  <2>2. role' = role /\ recommended' = recommended /\ scratch' \subseteq scratch \cup {"scratch"}
    BY <1>1 DEF CallWrites, runInput
  <2> QED
    BY <2>1, <2>2
<1>2. CASE CallRecommended
  <2>1. /\ Here.at = "delegated" /\ recommended' = recommended \cup {Here}
        /\ UNCHANGED <<role, scratch>>
    BY <1>2 DEF CallRecommended, runInput
  <2> QED
    BY <2>1
<1>3. CASE Deadline
  BY <1>3 DEF Deadline, runInput
<1>4. CASE Start \/ StartFails \/ Ask \/ AskRefused \/ CallRejected \/ CallExhausted
           \/ CallReads \/ CallEdits \/ AnswersWithCalls \/ AnswersLast \/ ModelFails
           \/ UNCHANGED subagentVars
  <2>1. UNCHANGED <<role, scratch, recommended>>
    BY <1>4 DEF Start, StartFails, Ask, AskRefused, CallRejected, CallExhausted, CallReads,
                CallEdits, AnswersWithCalls, AnswersLast, ModelFails, subagentVars, runInput
  <2> QED
    BY <2>1
<1> QED
  BY <1>1, <1>2, <1>3, <1>4 DEF SubagentNext, RunsOn

LEMMA ScratchStarts == SubagentInit => WritesStayInScratch
BY DEF SubagentInit, WritesStayInScratch

\* Whatever the model asks for and whatever role it plays, the run changes nothing outside
\* its own scratch; a role that only reads changes nothing; and it hands the parent only
\* calls of tools that were delegated to it.
THEOREM ScratchIsIsolated == SubagentSpec => []WritesStayInScratch
BY ScratchStarts, ScratchStep, PTL DEF SubagentSpec

-------------------------------------------------------------------------------
(* The semantic index.                                                        *)

Whereabouts == {"idle", "asks", "waits", "tests", "locks", "loads", "builds", "ended"}
Working == {"loads", "builds"}

\* The histories say what the shared state says: an encoder that was tried was loaded
\* once, an index that is settled was computed once, with the encoder ready.
OncePerState ==
    /\ encoder \in {"untried", "ready", "failed"} /\ index \in {"none", "ready"}
    /\ indexFailed \in BOOLEAN
    /\ loads = (IF encoder = "untried" THEN 0 ELSE 1)
    /\ builds = (IF Settled THEN 1 ELSE 0)
    /\ Settled => encoder = "ready"
    /\ index = "none" \/ ~indexFailed

\* Whoever loads or computes holds the lock, and found nothing settled under it.
HolderWorks ==
    /\ doing \in [Threads -> Whereabouts]
    /\ \A t \in Threads : doing[t] \in Working => lock = t /\ ~Settled
    /\ \A t \in Threads : doing[t] = "loads" => encoder = "untried"
    /\ \A t \in Threads : doing[t] = "builds" => encoder = "ready"

OneLoadInv == OncePerState /\ HolderWorks

\* A thread that goes to a place outside the lock, with the shared state as it was,
\* leaves the others as they were.
LEMMA MovesOutside ==
    ASSUME OneLoadInv, NEW t \in Threads, NEW place \in Whereabouts \ Working, To(t, place),
           UNCHANGED <<encoder, index, indexFailed, lock, loads, builds>>
    PROVE  OneLoadInv'
<1>1. OncePerState'
  BY DEF OneLoadInv, OncePerState, Settled
<1>2. doing' \in [Threads -> Whereabouts]
  BY DEF OneLoadInv, HolderWorks, To
<1>3. \A u \in Threads : doing'[u] \in Working => doing[u] = doing'[u]
  BY DEF OneLoadInv, HolderWorks, To
<1>4. HolderWorks'
  BY <1>2, <1>3 DEF OneLoadInv, HolderWorks, Settled, Working
<1> QED
  BY <1>1, <1>4 DEF OneLoadInv

\* A thread that takes or holds the lock is the only one that works.
LEMMA LoaderWorks ==
    ASSUME OneLoadInv, NEW t \in Loaders, LoaderStep(t)
    PROVE  OneLoadInv'
<1>0. t \in Threads /\ OncePerState /\ HolderWorks /\ Nobody \notin Threads
  BY SemanticAssumption DEF Threads, OneLoadInv
<1>1. CASE Tests(t)
  <2>1. PICK place \in {"ended", "locks"} : To(t, place)
    BY <1>1 DEF Tests
  <2> QED
    BY <1>0, <1>1, <2>1, MovesOutside DEF Tests, Whereabouts, Working
<1>2. CASE Locks(t)
  <2>1. CASE Settled \/ encoder = "failed"
    BY <1>0, <1>2, <2>1, MovesOutside DEF Locks, Whereabouts, Working
  <2>2. CASE ~(Settled \/ encoder = "failed")
    <3>1. \A u \in Threads : doing[u] \notin Working
      BY <1>0, <1>2 DEF Locks, HolderWorks
    <3>2. /\ doing' = [doing EXCEPT ![t] = IF encoder = "untried" THEN "loads" ELSE "builds"]
          /\ lock' = t /\ UNCHANGED <<encoder, index, indexFailed, loads, builds>>
      BY <1>2, <2>2 DEF Locks, To
    <3>3. doing' \in [Threads -> Whereabouts] /\ \A u \in Threads : u # t => doing'[u] = doing[u]
      BY <1>0, <3>2 DEF HolderWorks, Whereabouts
    <3>4. doing'[t] = IF encoder = "untried" THEN "loads" ELSE "builds"
      BY <1>0, <3>2 DEF HolderWorks
    <3>5. OncePerState'
      BY <1>0, <3>2 DEF OncePerState, Settled
    <3>6. HolderWorks'
      BY <1>0, <2>2, <3>1, <3>2, <3>3, <3>4 DEF HolderWorks, OncePerState, Settled, Working
    <3> QED
      BY <3>5, <3>6 DEF OneLoadInv
  <2> QED
    BY <2>1, <2>2
<1>3. CASE LoadEnds(t)
  <2>1. doing[t] = "loads" /\ lock = t /\ ~Settled /\ encoder = "untried"
    BY <1>0, <1>3 DEF LoadEnds, HolderWorks, Working
  <2>2. PICK place \in {"builds", "ended"} :
             /\ doing' = [doing EXCEPT ![t] = place]
             /\ encoder' = (IF place = "builds" THEN "ready" ELSE "failed")
             /\ place = "builds" => lock' = lock
    BY <1>3 DEF LoadEnds, To
  <2>3. loads' = loads + 1 /\ UNCHANGED <<index, indexFailed, builds>>
    BY <1>3 DEF LoadEnds
  <2>4. doing' \in [Threads -> Whereabouts] /\ doing'[t] = place
    BY <1>0, <2>2 DEF HolderWorks, Whereabouts
  <2>5. \A u \in Threads : u # t => doing'[u] = doing[u] /\ doing[u] \notin Working
    BY <1>0, <2>1, <2>2 DEF HolderWorks
  <2>6. OncePerState'
    BY <1>0, <2>1, <2>2, <2>3 DEF OncePerState, Settled
  <2>7. HolderWorks'
    BY <1>0, <2>1, <2>2, <2>3, <2>4, <2>5 DEF HolderWorks, Settled, Working
  <2> QED
    BY <2>6, <2>7 DEF OneLoadInv
<1>4. CASE BuildEnds(t)
  <2>1. doing[t] = "builds" /\ lock = t /\ ~Settled /\ encoder = "ready"
    BY <1>0, <1>4 DEF BuildEnds, HolderWorks, Working
  <2>2. /\ doing' = [doing EXCEPT ![t] = "ended"] /\ builds' = builds + 1
        /\ UNCHANGED <<encoder, loads>>
        /\ \/ index' = "ready" /\ indexFailed' = indexFailed
           \/ indexFailed' = TRUE /\ index' = index
    BY <1>4 DEF BuildEnds, To
  <2>3. doing' \in [Threads -> Whereabouts] /\ doing'[t] = "ended"
    BY <1>0, <2>2 DEF HolderWorks, Whereabouts
  <2>4. \A u \in Threads : doing'[u] \notin Working
    BY <1>0, <2>1, <2>2, <2>3 DEF HolderWorks, Working
  <2>5. OncePerState'
    <3>1. index = "none" /\ indexFailed = FALSE /\ builds = 0 /\ loads = 1
      BY <1>0, <2>1, Zenon DEF OncePerState, Settled
    <3>2. builds' = 1
      BY <2>2, <3>1
    <3>3. CASE index' = "ready" /\ indexFailed' = FALSE
      BY <2>1, <2>2, <3>1, <3>2, <3>3 DEF OncePerState, Settled
    <3>4. CASE index' = "none" /\ indexFailed' = TRUE
      BY <2>1, <2>2, <3>1, <3>2, <3>4 DEF OncePerState, Settled
    <3> QED
      BY <2>2, <3>1, <3>3, <3>4
  <2>6. HolderWorks'
    BY <2>3, <2>4 DEF HolderWorks, Working
  <2> QED
    BY <2>5, <2>6 DEF OneLoadInv
<1> QED
  BY <1>1, <1>2, <1>3, <1>4 DEF LoaderStep

\* A request never takes part in the loading: it holds the lock only to start the thread.
LEMMA RequestLeavesAlone ==
    ASSUME OneLoadInv, NEW r \in Requests, RequestStep(r) \/ SelectHits(r)
    PROVE  OneLoadInv'
<1>0. r \in Threads
  BY DEF Threads
<1>1. CASE SelectMisses(r) \/ AsksDisabled(r) \/ AsksForLock(r)
  <2>1. PICK place \in {"idle", "asks", "waits"} : To(r, place)
    BY <1>1 DEF SelectMisses, AsksDisabled, AsksForLock
  <2>2. UNCHANGED <<encoder, index, indexFailed, lock, loads, builds>>
    BY <1>1 DEF SelectMisses, AsksDisabled, AsksForLock
  <2> QED
    BY <1>0, <2>1, <2>2, MovesOutside DEF Whereabouts, Working
<1>2. CASE StartBackground(r)
  <2>1. UNCHANGED <<encoder, index, indexFailed, lock, loads, builds>>
    BY <1>2 DEF StartBackground
  <2>2. doing' = [doing EXCEPT ![r] = "idle",
                               ![Background] = IF @ = "idle" THEN "tests" ELSE @]
    BY <1>2 DEF StartBackground
  <2>3. Background \in Threads /\ doing \in [Threads -> Whereabouts]
    BY DEF Threads, Loaders, OneLoadInv, HolderWorks
  <2>4. \A u \in Threads : doing'[u] \in Working => doing[u] = doing'[u]
    BY <1>0, <2>2, <2>3 DEF Working
  <2>5. doing' \in [Threads -> Whereabouts]
    BY <1>0, <2>2, <2>3 DEF Whereabouts
  <2>6. OncePerState'
    BY <2>1 DEF OneLoadInv, OncePerState, Settled
  <2>7. HolderWorks'
    BY <2>1, <2>4, <2>5 DEF OneLoadInv, HolderWorks, Settled, Working
  <2> QED
    BY <2>6, <2>7 DEF OneLoadInv
<1>3. CASE SelectHits(r)
  BY <1>3 DEF SelectHits, OneLoadInv, OncePerState, HolderWorks, Settled
<1> QED
  BY <1>1, <1>2, <1>3 DEF RequestStep

\* The lock belongs to a thread that loads or to nobody, and a request is told no more
\* than there is.
ToldTyped ==
    /\ lock \in Loaders \cup {Nobody}
    /\ told \in [Requests -> {"nothing", "hits", "warming", "disabled"}]

SemanticInv == OneLoadInv /\ ToldTyped

LEMMA SemanticStarts == SemanticInit => SemanticInv
BY DEF SemanticInit, SemanticInv, ToldTyped, OneLoadInv, OncePerState, HolderWorks, Settled,
       Whereabouts, Working

LEMMA SemanticStep == SemanticInv /\ [SemanticNext]_semanticVars => SemanticInv'
<1> SUFFICES ASSUME SemanticInv, [SemanticNext]_semanticVars PROVE SemanticInv'
  OBVIOUS
<1> USE DEF SemanticInv
<1>1. ASSUME NEW r \in Requests, RequestStep(r) \/ SelectHits(r) PROVE SemanticInv'
  <2>1. OneLoadInv'
    BY <1>1, RequestLeavesAlone
  <2>2. ToldTyped'
    BY <1>1 DEF RequestStep, SelectHits, SelectMisses, AsksDisabled, AsksForLock,
                StartBackground, ToldTyped
  <2> QED
    BY <2>1, <2>2
<1>2. ASSUME NEW t \in Loaders, LoaderStep(t) PROVE SemanticInv'
  <2>1. OneLoadInv'
    BY <1>2, LoaderWorks
  <2>2. ToldTyped'
    BY <1>2 DEF LoaderStep, Tests, Locks, LoadEnds, BuildEnds, ToldTyped
  <2> QED
    BY <2>1, <2>2
<1>3. ASSUME NEW t \in Loaders, Warmup(t) PROVE SemanticInv'
  <2>1. t \in Threads
    BY DEF Threads
  <2>2. OneLoadInv'
    BY <1>3, <2>1, MovesOutside DEF Warmup, Whereabouts, Working
  <2> QED
    BY <1>3, <2>2 DEF Warmup, ToldTyped
<1>4. CASE UNCHANGED semanticVars
  BY <1>4 DEF semanticVars, ToldTyped, OneLoadInv, OncePerState, HolderWorks, Settled
<1> QED
  BY <1>1, <1>2, <1>3, <1>4 DEF SemanticNext

\* However many requests and warm-ups meet, the model is loaded once and the index
\* computed once in the life of the process; a failure leaves no index; and whoever sees
\* the index finds the encoder ready.
THEOREM LoadedOnce == SemanticSpec => []OneLoad
<1>1. SemanticInv => OneLoad
  BY DEF SemanticInv, OneLoadInv, OncePerState, OneLoad, Settled
<1> QED
  BY <1>1, SemanticStarts, SemanticStep, PTL DEF SemanticSpec

\* The lock is never a request's when it is looked at, and every thread is in its place.
THEOREM SemanticTypeCorrect == SemanticSpec => []SemanticTypeOK
<1>1. SemanticInv => SemanticTypeOK
  BY DEF SemanticInv, ToldTyped, OneLoadInv, OncePerState, HolderWorks, SemanticTypeOK,
         Whereabouts
<1> QED
  BY <1>1, SemanticStarts, SemanticStep, PTL DEF SemanticSpec

-------------------------------------------------------------------------------
(* The sandbox cache.                                                         *)

\* A request's sandbox is one the service has created.
SandboxInv == SandboxTypeOK /\ \A u \in Users : user[u].box <= boxes

UserPlaces == {"away", "template", "noTemplate", "box", "created", "works"}

\* A request that moves on, with the sandbox it has.
LEMMA RequestMoves ==
    ASSUME SandboxInv, NEW u \in Users, NEW there \in UserPlaces, NEW box \in 0..boxes,
           user' = [user EXCEPT ![u] = [at |-> there, box |-> box]],
           template' \in BOOLEAN, boxes' = boxes, cached' \in 0..boxes
    PROVE  SandboxInv'
<1>1. MaxBoxes \in Nat /\ boxes \in 0..MaxBoxes
  BY SandboxAssumption DEF SandboxInv, SandboxTypeOK
<1>2. [at |-> there, box |-> box] \in [at : UserPlaces, box : 0..MaxBoxes]
  BY <1>1
<1>3. user' \in [Users -> [at : UserPlaces, box : 0..MaxBoxes]]
  BY <1>2 DEF SandboxInv, SandboxTypeOK, UserPlaces
<1>4. \A v \in Users : user'[v].box <= boxes
  BY <1>1 DEF SandboxInv, SandboxTypeOK
<1> QED
  BY <1>1, <1>3, <1>4 DEF SandboxInv, SandboxTypeOK, UserPlaces

LEMMA SandboxStep == SandboxInv /\ [SandboxNext]_sandboxVars => SandboxInv'
<1> SUFFICES ASSUME SandboxInv, [SandboxNext]_sandboxVars PROVE SandboxInv'
  OBVIOUS
<1>1. /\ MaxBoxes \in Nat /\ boxes \in 0..MaxBoxes /\ cached \in 0..boxes /\ template \in BOOLEAN
      /\ user \in [Users -> [at : UserPlaces, box : 0..MaxBoxes]]
      /\ \A u \in Users : user[u].box \in 0..boxes
  BY SandboxAssumption DEF SandboxInv, SandboxTypeOK, UserPlaces
<1>2. ASSUME NEW u \in Users, NEW place \in UserPlaces
      PROVE  [user EXCEPT ![u].at = place] = [user EXCEPT ![u] = [at |-> place, box |-> user[u].box]]
  <2>1. user[u] \in [at : UserPlaces, box : 0..MaxBoxes]
    BY <1>1
  <2>2. [user[u] EXCEPT !.at = place] = [at |-> place, box |-> user[u].box]
    BY <2>1
  <2>3. [user EXCEPT ![u].at = place] = [user EXCEPT ![u] = [user[u] EXCEPT !.at = place]]
    BY <1>1
  <2> QED
    BY <2>2, <2>3
<1>3. 0 \in 0..boxes /\ Away = [at |-> "away", box |-> 0]
  BY <1>1 DEF Away
<1>4. ASSUME NEW u \in Users, Enters(u) PROVE SandboxInv'
  <2>1. \/ user' = [user EXCEPT ![u] = [at |-> "works", box |-> cached]]
        \/ user' = [user EXCEPT ![u] = [at |-> "template", box |-> 0]]
    BY <1>4 DEF Enters
  <2>2. UNCHANGED <<template, boxes, cached>>
    BY <1>4 DEF Enters
  <2> QED
    BY <1>1, <1>3, <2>1, <2>2, RequestMoves DEF UserPlaces
<1>5. ASSUME NEW u \in Users, GetsTemplate(u) PROVE SandboxInv'
  <2>1. \/ user' = [user EXCEPT ![u].at = "box"]
        \/ user' = [user EXCEPT ![u].at = "noTemplate"]
    BY <1>5 DEF GetsTemplate, Moves
  <2>2. UNCHANGED <<template, boxes, cached>>
    BY <1>5 DEF GetsTemplate
  <2>3. PICK place \in UserPlaces : user' = [user EXCEPT ![u].at = place]
    BY <2>1 DEF UserPlaces
  <2>4. user' = [user EXCEPT ![u] = [at |-> place, box |-> user[u].box]]
    BY <1>2, <2>3
  <2> QED
    BY <1>1, <2>2, <2>4, RequestMoves
<1>6. ASSUME NEW u \in Users, CreatesTemplate(u) PROVE SandboxInv'
  <2>1. \/ user' = [user EXCEPT ![u] = [at |-> "box", box |-> user[u].box]]
        \/ user' = [user EXCEPT ![u] = [at |-> "away", box |-> 0]]
    <3>1. \/ user' = [user EXCEPT ![u].at = "box"] \/ user' = [user EXCEPT ![u] = Away]
      BY <1>6 DEF CreatesTemplate, Moves
    <3>2. "box" \in UserPlaces
      BY DEF UserPlaces
    <3> QED
      BY <1>2, <1>3, <3>1, <3>2
  <2>2. template' = TRUE /\ UNCHANGED <<boxes, cached>>
    BY <1>6 DEF CreatesTemplate
  <2> QED
    BY <1>1, <1>3, <2>1, <2>2, RequestMoves DEF UserPlaces
<1>7. ASSUME NEW u \in Users, BoxCreated(u) PROVE SandboxInv'
  <2>1. /\ boxes < MaxBoxes /\ boxes' = boxes + 1 /\ UNCHANGED <<template, cached>>
        /\ user' = [user EXCEPT ![u] = [at |-> "created", box |-> boxes + 1]]
    BY <1>7 DEF BoxCreated
  <2>2. boxes' \in 0..MaxBoxes /\ cached' \in 0..boxes'
    BY <1>1, <2>1
  <2>3. [at |-> "created", box |-> boxes + 1] \in [at : UserPlaces, box : 0..MaxBoxes]
    BY <1>1, <2>1 DEF UserPlaces
  <2>4. user' \in [Users -> [at : UserPlaces, box : 0..MaxBoxes]]
    BY <1>1, <2>1, <2>3
  <2>5. \A v \in Users : user'[v].box <= boxes'
    BY <1>1, <2>1
  <2> QED
    BY <1>1, <2>1, <2>2, <2>4, <2>5 DEF SandboxInv, SandboxTypeOK, UserPlaces
<1>8. ASSUME NEW u \in Users, Stores(u) PROVE SandboxInv'
  <2>1. /\ cached' = user[u].box /\ UNCHANGED <<template, boxes>>
        /\ user' = [user EXCEPT ![u] = [at |-> "works", box |-> user[u].box]]
    BY <1>2, <1>8 DEF Stores, Moves, UserPlaces
  <2> QED
    BY <1>1, <2>1, RequestMoves DEF UserPlaces
<1>9. ASSUME NEW u \in Users, CreationFails(u) \/ Leaves(u) PROVE SandboxInv'
  <2>1. /\ user' = [user EXCEPT ![u] = [at |-> "away", box |-> 0]]
        /\ UNCHANGED <<template, boxes, cached>>
    BY <1>3, <1>9 DEF CreationFails, Leaves
  <2> QED
    BY <1>1, <1>3, <2>1, RequestMoves DEF UserPlaces
<1>10. CASE UNCHANGED sandboxVars
  BY <1>10 DEF sandboxVars, SandboxInv, SandboxTypeOK
<1> QED
  BY <1>4, <1>5, <1>6, <1>7, <1>8, <1>9, <1>10 DEF SandboxNext

LEMMA SandboxStarts == SandboxInit => SandboxInv
BY SandboxAssumption DEF SandboxInit, SandboxInv, SandboxTypeOK, Away

\* The cache names a sandbox the service has created, and so does every request.
THEOREM SandboxTypeCorrect == SandboxSpec => []SandboxTypeOK
<1>1. SandboxInv => SandboxTypeOK
  BY DEF SandboxInv
<1> QED
  BY <1>1, SandboxStarts, SandboxStep, PTL DEF SandboxSpec

\* Once no creation is under way a thread keeps the sandbox it has, however many of its
\* requests overlapped before: a later request never creates another one.
THEOREM SandboxIsKept == SandboxSpec => ThreadKeepsSandbox
<1>1. ASSUME SandboxInv, SandboxNext, cached # 0, Creating = {}
      PROVE  cached' = cached /\ Creating' = {}
  <2>1. /\ user \in [Users -> [at : UserPlaces, box : 0..MaxBoxes]]
        /\ \A u \in Users : user[u].at \in {"away", "works"}
    BY <1>1 DEF SandboxInv, SandboxTypeOK, UserPlaces, Creating
  <2>2. PICK u \in Users : Enters(u) \/ Leaves(u)
    BY <1>1, <2>1 DEF SandboxNext, GetsTemplate, CreatesTemplate, BoxCreated, Stores,
                      CreationFails
  <2>3. cached' = cached
    BY <2>2 DEF Enters, Leaves
  <2>4. \/ user' = [user EXCEPT ![u] = [at |-> "works", box |-> cached]]
        \/ user' = [user EXCEPT ![u] = [at |-> "away", box |-> 0]]
    BY <1>1, <2>2 DEF Enters, Leaves, Away
  <2>5. \A v \in Users : user'[v].at \in {"away", "works"}
    BY <2>1, <2>4
  <2> QED
    BY <2>3, <2>5 DEF Creating
<1>2. SandboxInv /\ [SandboxNext]_sandboxVars
      => [cached # 0 /\ Creating = {} => cached' = cached /\ Creating' = {}]_sandboxVars
  BY <1>1
<1> QED
  BY <1>2, SandboxStarts, SandboxStep, PTL DEF SandboxSpec, ThreadKeepsSandbox

-------------------------------------------------------------------------------
(* The candidate inbox.                                                        *)

StagerType == [at : 0..(Looked + 1), todo : SUBSET Names, name : Names \cup {NoName},
               dry : BOOLEAN]
ReviewerType == [name : Names \cup {NoName}, decision : Decisions \cup {"none"}]

\* An importer that is past a place has found nothing there, as far as it has come.
FoundNothing(s) == \A k \in 1..3 : k < s.at /\ s.at <= 4 => ~Exists(Lookups[k], s.name)

\* A candidate nobody contests stays absent from the places its importer has looked at.
StaysAbsent(s) == s.dry \/ s.name \in contested \/ FoundNothing(s)

OneStages ==
    \A n \in Names \ contested, i, j \in Importers : Staging(i, n) /\ Staging(j, n) => i = j

\* A candidate lies in one place unless it was contested, one import at most is about to
\* stage it, and what that import has seen is still so; a call that resolves a candidate
\* has a name and a decision.
InboxInv ==
    /\ InboxTypeOK /\ InOnePlaceUnlessContested /\ OneStages
    /\ \A i \in Importers : /\ stager[i].at # 0 => stager[i].name \in Names
                            /\ StaysAbsent(stager[i])
    /\ \A r \in Reviewers : \/ reviewer[r] = Idle
                            \/ reviewer[r].name \in Names /\ reviewer[r].decision \in Decisions

LEMMA LookupPlaces ==
    /\ Len(Lookups) = 3 /\ Looked = 4
    /\ Lookups[1] = "pending" /\ Lookups[2] = "written" /\ Lookups[3] = "rejected"
    /\ \A p \in Places : \E k \in 1..3 : Lookups[k] = p
    /\ \A k \in 1..3 : Lookups[k] \in Places
BY DEF Lookups, Looked, Places, Decisions

LEMMA InboxStarts == InboxInit => InboxInv
<1> SUFFICES ASSUME InboxInit PROVE InboxInv
  OBVIOUS
<1>1. \A i \in Importers : stager[i] = Resting
  BY DEF InboxInit
<1>2. /\ Resting \in StagerType /\ Resting.at = 0
      /\ Idle \in ReviewerType
  BY LookupPlaces DEF Resting, StagerType, Idle, ReviewerType
<1>3. \A p \in Places, n \in Names : ~Exists(p, n)
  BY DEF InboxInit, Exists
<1>4. InboxTypeOK
  <2>1. log \in Seq(Records) /\ Len(log) <= MaxRecords
    BY InboxAssumption DEF InboxInit
  <2>2. inbox \in [Places -> [Names -> Contents]]
    BY DEF InboxInit, Contents
  <2>3. /\ kind \in Kinds /\ listed \subseteq Names /\ contested \subseteq Names
        /\ stager \in [Importers -> StagerType] /\ reviewer \in [Reviewers -> ReviewerType]
    BY <1>2 DEF InboxInit
  <2> QED
    BY <2>1, <2>2, <2>3 DEF InboxTypeOK, StagerType, ReviewerType
<1>5. ASSUME NEW i \in Importers PROVE StaysAbsent(stager[i])
  <2>1. stager[i].at = 0
    BY <1>1, <1>2
  <2>2. \A k \in 1..3 : ~(k < 0)
    OBVIOUS
  <2> QED
    BY <2>1, <2>2 DEF StaysAbsent, FoundNothing
<1>6. \A r \in Reviewers : reviewer[r] = Idle
  BY DEF InboxInit
<1>7. OneStages
  BY <1>1, <1>2, LookupPlaces DEF OneStages, Staging
<1> QED
  BY <1>1, <1>2, <1>3, <1>4, <1>5, <1>6, <1>7 DEF InboxInv, InOnePlaceUnlessContested

\* The types one by one.
LEMMA InboxTypes ==
    ASSUME InboxInv
    PROVE  /\ kind \in Kinds /\ log \in Seq(Records) /\ Len(log) <= MaxRecords
           /\ inbox \in [Places -> [Names -> Contents]]
           /\ stager \in [Importers -> StagerType] /\ listed \subseteq Names
           /\ reviewer \in [Reviewers -> ReviewerType] /\ contested \subseteq Names
BY DEF InboxInv, InboxTypeOK, StagerType, ReviewerType

\* A step of an importer that leaves the files where they are.
LEMMA StagerMoves ==
    ASSUME InboxInv, NEW i \in Importers, NEW s \in StagerType,
           stager' = [stager EXCEPT ![i] = s],
           s.at # 0 => s.name \in Names,
           inbox' \in [Places -> [Names -> Contents]],
           \A p \in Places, n \in Names : inbox'[p][n] # "absent" => inbox[p][n] # "absent",
           contested \subseteq contested', contested' \subseteq Names,
           s.at # 0 => s.dry \/ s.name \in contested' \/ FoundNothing(s),
           \A j \in Importers \ {i} :
               s.at \in 1..Looked /\ ~s.dry /\ Staging(j, s.name) => s.name \in contested',
           UNCHANGED <<kind, log, listed, reviewer>>
    PROVE  InboxInv'
<1>1. stager' \in [Importers -> StagerType]
  BY InboxTypes
<1>2. InboxTypeOK'
  BY <1>1, InboxTypes DEF InboxTypeOK, StagerType, ReviewerType
<1>3. InOnePlaceUnlessContested'
  <2> SUFFICES ASSUME NEW n \in Names \ contested', NEW p \in Places, NEW q \in Places,
                      inbox'[p][n] # "absent", inbox'[q][n] # "absent"
               PROVE  q = p
    BY DEF InOnePlaceUnlessContested, OnlyIn, Exists
  <2> QED
    BY DEF InboxInv, InOnePlaceUnlessContested, OnlyIn, Exists
<1>4. ASSUME NEW j \in Importers
      PROVE  /\ stager'[j].at # 0 => stager'[j].name \in Names
             /\ stager'[j].at # 0 => \/ stager'[j].dry \/ stager'[j].name \in contested'
                                     \/ FoundNothing(stager'[j])
  <2>1. stager'[j] = IF j = i THEN s ELSE stager[j]
    BY InboxTypes
  <2> QED
    BY <2>1 DEF InboxInv, StaysAbsent
<1>5. ASSUME NEW j \in Importers PROVE StaysAbsent(stager[j])'
  <2> SUFFICES ASSUME ~stager'[j].dry, stager'[j].name \notin contested',
                      NEW k \in 1..3, k < stager'[j].at, stager'[j].at <= 4,
                      inbox'[Lookups[k]][stager'[j].name] # "absent"
               PROVE  FALSE
    BY DEF StaysAbsent, FoundNothing, Exists
  <2>1. stager'[j].at # 0
    BY <1>1 DEF StagerType
  <2>2. Lookups[k] \in Places /\ stager'[j].name \in Names
    BY <1>4, <2>1, LookupPlaces
  <2>3. inbox[Lookups[k]][stager'[j].name] # "absent"
    BY <2>2
  <2> QED
    BY <1>4, <2>1, <2>3 DEF FoundNothing, Exists
<1>6. OneStages'
  <2> SUFFICES ASSUME NEW n \in Names \ contested', NEW j \in Importers, NEW k \in Importers,
                      Staging(j, n)', Staging(k, n)', j # k
               PROVE  FALSE
    BY DEF OneStages
  <2>1. \A l \in Importers : stager'[l] = IF l = i THEN s ELSE stager[l]
    BY InboxTypes
  <2>2. \A l \in Importers \ {i} : Staging(l, n)' => Staging(l, n)
    BY <2>1 DEF Staging
  <2>3. Staging(i, n)' => s.at \in 1..Looked /\ ~s.dry /\ s.name = n
    BY <2>1 DEF Staging
  <2>4. CASE j = i \/ k = i
    BY <2>2, <2>3, <2>4
  <2>5. CASE j # i /\ k # i
    BY <2>2, <2>5 DEF InboxInv, OneStages
  <2> QED
    BY <2>4, <2>5
<1> QED
  BY <1>2, <1>3, <1>4, <1>5, <1>6 DEF InboxInv, Idle

\* What the adapters find has names of the inbox.
LEMMA FoundAreNames ==
    ASSUME kind \in Kinds, log \in Seq(Records), Len(log) <= MaxRecords, NEW todo \in Found
    PROVE  todo \subseteq Names
<1>1. Len(log) \in Nat /\ MaxRecords \in Nat /\ DOMAIN log = 1..Len(log)
  BY LenProperties, InboxAssumption
<1>2. ASSUME NEW k \in Kept PROVE k \in 1..MaxRecords /\ log[k] \in Records
  <2>1. k \in 1..Len(log)
    BY <1>1 DEF Kept
  <2> QED
    BY <1>1, <2>1, ElementOfSeq
<1>3. ASSUME NEW k \in Kept, NEW source \in Kinds
      PROVE  <<source, log[k].id, log[k].text>> \in Names /\ <<source, k, log[k].text>> \in Names
  BY <1>2 DEF Records, Names
<1>4. \A source \in Kinds : ById(source) \subseteq Names /\ ByLine(source) \subseteq Names
  BY <1>3 DEF ById, ByLine
<1>5. {"braindesk", "kimi", "claude", "openwebui", "prepared"} \subseteq Kinds
  BY DEF Kinds
<1>6. \/ todo \in {{}, ById("braindesk")} \/ todo \in {{}, ByLine("kimi")}
      \/ todo \in {{}, ByLine("claude")} \/ todo \in SUBSET ById("openwebui")
      \/ todo \in SUBSET ById("prepared")
  BY DEF Found, Kinds, FromBrainDesk, FromKimi, FromClaude, FromOpenWebUI, FromPrepared
<1> QED
  BY <1>4, <1>5, <1>6

LEMMA DoneRests ==
    ASSUME InboxInv, NEW i \in Importers
    PROVE  Done(i) \in StagerType /\ Done(i).at = 0
<1>1. stager[i] \in StagerType /\ 0 \in 0..(Looked + 1)
  BY InboxTypes, LookupPlaces
<1>2. Resting \in StagerType /\ Resting.at = 0
  BY <1>1 DEF Resting, StagerType
<1> DEFINE s == [stager[i] EXCEPT !.at = 0, !.name = NoName]
<1>3. s \in StagerType /\ s.at = 0
  BY <1>1 DEF StagerType
<1>4. Done(i) = IF stager[i].todo = {} THEN Resting ELSE s
  BY DEF Done
<1> HIDE DEF s
<1> QED
  BY <1>2, <1>3, <1>4

\* A step of the source or of the owner's listing.
LEMMA NothingMoves ==
    ASSUME InboxInv, UNCHANGED <<kind, inbox, stager, reviewer, contested>>,
           log' \in Seq(Records), Len(log') <= MaxRecords, listed' \subseteq Names
    PROVE  InboxInv'
<1>1. InboxTypeOK'
  BY InboxTypes DEF InboxTypeOK, StagerType, ReviewerType
<1>2. InOnePlaceUnlessContested' /\ OneStages'
  BY DEF InboxInv, InOnePlaceUnlessContested, OnlyIn, Exists, OneStages, Staging
<1> QED
  BY <1>1, <1>2 DEF InboxInv, StaysAbsent, FoundNothing, Exists, Idle

\* What importer i does before it creates a file.
LEMMA ImporterLooks ==
    ASSUME InboxInv, NEW i \in Importers, StartImport(i) \/ TakeCandidate(i) \/ Look(i)
    PROVE  InboxInv'
<1>1. stager[i] \in StagerType /\ stager[i].at # 0 => stager[i].name \in Names
  BY InboxTypes DEF InboxInv
<1>2. /\ inbox \in [Places -> [Names -> Contents]]
      /\ UNCHANGED <<kind, log, inbox, listed, reviewer>> /\ contested \subseteq Names
  BY InboxTypes DEF StartImport, TakeCandidate, Look
<1>3. ASSUME NEW s \in StagerType, stager' = [stager EXCEPT ![i] = s],
             contested \subseteq contested', contested' \subseteq Names,
             s.at # 0 => /\ s.name \in Names
                         /\ s.dry \/ s.name \in contested' \/ FoundNothing(s),
             \A j \in Importers \ {i} :
                 s.at \in 1..Looked /\ ~s.dry /\ Staging(j, s.name) => s.name \in contested'
      PROVE  InboxInv'
  BY <1>2, <1>3, StagerMoves
<1>4. stager[i] \in StagerType
  BY InboxTypes
<1>5. CASE StartImport(i)
  <2>1. PICK todo \in Found, dry \in BOOLEAN :
          stager' = [stager EXCEPT ![i] = [Resting EXCEPT !.todo = todo, !.dry = dry]]
    BY <1>5 DEF StartImport
  <2>2. todo \subseteq Names
    BY InboxTypes, FoundAreNames
  <2> DEFINE s == [Resting EXCEPT !.todo = todo, !.dry = dry]
  <2>3. Resting \in StagerType /\ Resting.at = 0
    BY LookupPlaces DEF Resting, StagerType
  <2>4. s \in StagerType /\ s.at = 0
    BY <2>2, <2>3 DEF StagerType
  <2> HIDE DEF s
  <2>5. stager' = [stager EXCEPT ![i] = s]
    BY <2>1 DEF s
  <2>6. contested' = contested
    BY <1>5 DEF StartImport
  <2>7. ~(s.at \in 1..Looked)
    BY <2>4, LookupPlaces
  <2> QED
    BY <1>2, <1>3, <2>4, <2>5, <2>6, <2>7
<1>6. CASE TakeCandidate(i)
  <2>1. PICK n \in stager[i].todo :
          /\ stager' = [stager EXCEPT ![i].at = 1, ![i].name = n, ![i].todo = @ \ {n}]
          /\ contested' = IF ~stager[i].dry /\ \E j \in Importers : Staging(j, n)
                          THEN contested \cup {n} ELSE contested
    BY <1>6 DEF TakeCandidate
  <2> DEFINE s == [stager[i] EXCEPT !.at = 1, !.name = n, !.todo = stager[i].todo \ {n}]
  <2>2. n \in Names /\ 1 \in 0..(Looked + 1) /\ stager[i].todo \ {n} \in SUBSET Names
    BY <1>4, LookupPlaces DEF StagerType
  <2>3. s \in StagerType /\ s.at = 1 /\ s.name = n /\ s.dry = stager[i].dry
    BY <1>4, <2>2 DEF StagerType
  <2>4. stager' = [stager EXCEPT ![i] = s]
    BY <1>4, <2>1, InboxTypes DEF StagerType
  <2> HIDE DEF s
  <2>5. FoundNothing(s)
    BY <2>3 DEF FoundNothing
  <2>6. contested \subseteq contested' /\ contested' \subseteq Names
    BY <1>2, <2>1, <2>2
  <2>7. \A j \in Importers \ {i} : ~s.dry /\ Staging(j, s.name) => s.name \in contested'
    BY <2>1, <2>3
  <2> QED
    BY <1>3, <2>2, <2>3, <2>4, <2>5, <2>6, <2>7
<1>7. CASE Look(i)
  <2>1. /\ stager[i].at \in 1..3 /\ stager[i].name \in Names /\ contested' = contested
    BY <1>7, LookupPlaces DEF Look, InboxInv
  <2>2. CASE Exists(Lookups[stager[i].at], stager[i].name)
    <3>1. stager' = [stager EXCEPT ![i] = Done(i)]
      BY <1>7, <2>2, InboxTypes DEF Look
    <3>2. ~(Done(i).at \in 1..Looked)
      BY DoneRests, LookupPlaces
    <3> QED
      BY <1>2, <1>3, <2>1, <3>1, <3>2, DoneRests
  <2>3. CASE ~Exists(Lookups[stager[i].at], stager[i].name)
    <3> DEFINE s == [stager[i] EXCEPT !.at = stager[i].at + 1]
    <3>1. stager' = [stager EXCEPT ![i] = s]
      BY <1>7, <2>3, InboxTypes DEF Look
    <3>2. stager[i].at + 1 \in 0..(Looked + 1)
      BY <2>1, LookupPlaces
    <3>3. /\ s \in StagerType /\ s.at = stager[i].at + 1
          /\ s.name = stager[i].name /\ s.dry = stager[i].dry
      BY <1>4, <3>2 DEF StagerType
    <3> HIDE DEF s
    <3>4. StaysAbsent(stager[i])
      BY DEF InboxInv
    <3>5. FoundNothing(stager[i]) => FoundNothing(s)
      BY <2>1, <2>3, <3>3 DEF FoundNothing
    <3>6. s.dry \/ s.name \in contested' \/ FoundNothing(s)
      BY <2>1, <3>3, <3>4, <3>5 DEF StaysAbsent
    <3>7. ~s.dry => Staging(i, s.name)
      BY <2>1, <3>3, LookupPlaces DEF Staging
    <3>8. \A j \in Importers \ {i} : ~s.dry /\ Staging(j, s.name) => s.name \in contested'
      BY <2>1, <3>3, <3>7 DEF InboxInv, OneStages
    <3> QED
      BY <1>2, <1>3, <2>1, <3>1, <3>3, <3>6, <3>8
  <2> QED
    BY <2>2, <2>3
<1> QED
  BY <1>5, <1>6, <1>7

\* What importer i does with the file: nobody has put an uncontested name anywhere since
\* it looked, for no other import was about to stage it.
LEMMA ImporterWrites ==
    ASSUME InboxInv, NEW i \in Importers,
           Create(i) \/ WriteOut(i) \/ ImporterDies(i)
    PROVE  InboxInv'
<1> DEFINE s == stager[i]
           n == stager[i].name
<1>1. /\ inbox \in [Places -> [Names -> Contents]]
      /\ stager \in [Importers -> StagerType] /\ s \in StagerType
  BY InboxTypes
<1>2. Done(i) \in StagerType /\ Done(i).at = 0
  BY DoneRests
<1>3. ASSUME Create(i), s.dry \/ Exists("pending", n) PROVE InboxInv'
  <2>1. /\ stager' = [stager EXCEPT ![i] = Done(i)]
        /\ UNCHANGED <<kind, log, inbox, listed, reviewer, contested>>
    BY <1>3 DEF Create
  <2>2. ~(Done(i).at \in 1..Looked) /\ contested' \subseteq Names
    BY <1>2, <2>1, InboxTypes, LookupPlaces
  <2> QED
    BY <1>1, <1>2, <2>1, <2>2, StagerMoves
<1>4. ASSUME Create(i), ~(s.dry \/ Exists("pending", n)) PROVE InboxInv'
  <2>1. /\ s.at = Looked /\ inbox' = [inbox EXCEPT !["pending"][n] = i]
        /\ stager' = [stager EXCEPT ![i].at = Looked + 1]
        /\ UNCHANGED <<kind, log, listed, reviewer, contested>>
    BY <1>4 DEF Create
  <2>2. n \in Names /\ StaysAbsent(s) /\ s.at = 4 /\ ~s.dry /\ Staging(i, n)
    BY <1>4, <2>1, LookupPlaces DEF InboxInv, Staging
  <2>3. n \notin contested => \A p \in Places : inbox[p][n] = "absent"
    BY <2>2, LookupPlaces DEF StaysAbsent, FoundNothing, Exists
  <2>4. "pending" \in Places /\ i \in Contents
    BY DEF Places, Contents
  <2>5. \A p \in Places, m \in Names :
           inbox'[p][m] = IF p = "pending" /\ m = n THEN i ELSE inbox[p][m]
    BY <1>1, <2>1, <2>2, <2>4
  <2>6. inbox' \in [Places -> [Names -> Contents]]
    BY <1>1, <2>1, <2>2, <2>4
  <2>7. Looked + 1 \in 0..(Looked + 1)
    BY LookupPlaces
  <2>8. stager' \in [Importers -> StagerType] /\ stager'[i].at = 5 /\ stager'[i].name = n
    <3> DEFINE t == [s EXCEPT !.at = Looked + 1]
    <3>1. t \in StagerType /\ t.at = Looked + 1 /\ t.name = n
      BY <1>1, <2>7 DEF StagerType
    <3>2. stager' = [stager EXCEPT ![i] = t]
      BY <1>1, <2>1
    <3> HIDE DEF t
    <3> QED
      BY <1>1, <3>1, <3>2, LookupPlaces
  <2>9. InOnePlaceUnlessContested'
    <3> SUFFICES ASSUME NEW m \in Names \ contested, NEW p \in Places, NEW q \in Places,
                        inbox'[p][m] # "absent", inbox'[q][m] # "absent"
                 PROVE  q = p
      BY <2>1 DEF InOnePlaceUnlessContested, OnlyIn, Exists
    <3> QED
      BY <2>3, <2>5 DEF InboxInv, InOnePlaceUnlessContested, OnlyIn, Exists
  <2>10. \A j \in Importers \ {i} : stager'[j] = stager[j]
    BY <1>1, <2>1
  <2>11. InboxTypeOK'
    BY <2>1, <2>6, <2>8, InboxTypes DEF InboxTypeOK, StagerType, ReviewerType
  <2>12. OneStages'
    <3>1. \A j \in Importers, m \in Names : Staging(j, m)' => Staging(j, m)
      BY <2>8, <2>10, LookupPlaces DEF Staging
    <3> QED
      BY <2>1, <3>1 DEF InboxInv, OneStages
  <2>13. ASSUME NEW j \in Importers
         PROVE  (stager'[j].at # 0 => stager'[j].name \in Names) /\ StaysAbsent(stager[j])'
    <3>1. CASE j = i
      BY <2>2, <2>8, <3>1 DEF StaysAbsent, FoundNothing
    <3>2. CASE j # i
      <4>1. stager'[j] = stager[j] /\ (stager[j].at # 0 => stager[j].name \in Names)
        BY <2>10, <3>2 DEF InboxInv
      <4> SUFFICES StaysAbsent(stager[j])'
        BY <4>1
      <4>2. SUFFICES ASSUME ~stager'[j].dry, stager'[j].name \notin contested',
                            NEW k \in 1..3, k < stager'[j].at, stager'[j].at <= 4,
                            inbox'[Lookups[k]][stager'[j].name] # "absent"
                     PROVE  FALSE
        BY DEF StaysAbsent, FoundNothing, Exists
      <4>7. /\ ~stager[j].dry /\ stager[j].name \notin contested
            /\ k < stager[j].at /\ stager[j].at <= 4
            /\ inbox'[Lookups[k]][stager[j].name] # "absent"
        <5>1. stager'[j] = stager[j] /\ contested' = contested
          BY <2>1, <4>1
        <5> QED
          BY <4>2, <5>1, Zenon
      <4>3. /\ stager[j].at \in 1..Looked /\ Lookups[k] \in Places
            /\ inbox[Lookups[k]][stager[j].name] = "absent"
        <5>1. stager[j].at \in 0..5
          BY <1>1, LookupPlaces DEF StagerType
        <5> QED
          BY <4>7, <5>1, LookupPlaces DEF InboxInv, StaysAbsent, FoundNothing, Exists
      <4>4. stager[j].at # 0
        BY <4>3
      <4>5. stager[j].name = n
        BY <2>5, <4>1, <4>3, <4>4, <4>7
      <4>6. Staging(j, n)
        BY <4>3, <4>5, <4>7 DEF Staging
      <4> QED
        BY <2>2, <3>2, <4>5, <4>6, <4>7 DEF InboxInv, OneStages
    <3> QED
      BY <3>1, <3>2
  <2> QED
    BY <2>1, <2>9, <2>11, <2>12, <2>13 DEF InboxInv, Idle
<1>5. ASSUME NEW content \in {"whole", "torn"}, inbox' = Settle(i, content),
             NEW t \in StagerType, t.at = 0, stager' = [stager EXCEPT ![i] = t],
             UNCHANGED <<kind, log, listed, reviewer, contested>>
      PROVE  InboxInv'
  <2>1. content \in Contents /\ i # "absent"
    BY InboxAssumption DEF Contents
  <2>2. \A p \in Places, m \in Names :
           inbox'[p][m] = IF inbox[p][m] = i THEN content ELSE inbox[p][m]
    BY <1>5 DEF Settle
  <2>3. inbox' \in [Places -> [Names -> Contents]]
    BY <1>1, <1>5, <2>1 DEF Settle
  <2>4. \A p \in Places, m \in Names : inbox'[p][m] # "absent" => inbox[p][m] # "absent"
    BY <2>1, <2>2
  <2>5. ~(t.at \in 1..Looked) /\ contested' \subseteq Names
    BY <1>5, InboxTypes, LookupPlaces
  <2> QED
    BY <1>5, <2>3, <2>4, <2>5, StagerMoves
<1>6. CASE WriteOut(i)
  BY <1>2, <1>5, <1>6 DEF WriteOut
<1>7. CASE ImporterDies(i)
  <2>1. Resting \in StagerType /\ Resting.at = 0
    BY LookupPlaces DEF Resting, StagerType
  <2> QED
    BY <1>5, <1>7, <2>1 DEF ImporterDies
<1> QED
  BY <1>3, <1>4, <1>6, <1>7

\* The calls that resolve a file: the rename is the only step that moves one.
LEMMA ReviewerSteps ==
    ASSUME InboxInv, NEW r \in Reviewers, StartResolve(r) \/ MoveReviewed(r)
    PROVE  InboxInv'
<1>1. /\ inbox \in [Places -> [Names -> Contents]] /\ listed \subseteq Names
      /\ reviewer \in [Reviewers -> ReviewerType]
  BY InboxTypes
<1>2. CASE StartResolve(r)
  <2>1. PICK n \in listed, d \in Decisions :
          reviewer' = [reviewer EXCEPT ![r] = [name |-> n, decision |-> d]]
    BY <1>2 DEF StartResolve
  <2>2. UNCHANGED <<kind, log, inbox, stager, listed, contested>>
    BY <1>2 DEF StartResolve
  <2> DEFINE call == [name |-> n, decision |-> d]
  <2>3. /\ call \in ReviewerType /\ call.name \in Names /\ call.decision \in Decisions
    BY <1>1 DEF ReviewerType
  <2> HIDE DEF call
  <2>4. reviewer' = [reviewer EXCEPT ![r] = call]
    BY <2>1 DEF call
  <2>5. InboxTypeOK'
    BY <1>1, <2>2, <2>3, <2>4, InboxTypes DEF InboxTypeOK, StagerType, ReviewerType
  <2>6. \A q \in Reviewers : reviewer'[q] = IF q = r THEN call ELSE reviewer[q]
    BY <1>1, <2>4
  <2>7. InOnePlaceUnlessContested' /\ OneStages'
    BY <2>2 DEF InboxInv, InOnePlaceUnlessContested, OnlyIn, Exists, OneStages, Staging
  <2> QED
    BY <2>2, <2>3, <2>5, <2>6, <2>7 DEF InboxInv, StaysAbsent, FoundNothing, Exists, Idle
<1>3. CASE MoveReviewed(r)
  <2> DEFINE n == reviewer[r].name
             d == reviewer[r].decision
  <2>1. n \in Names /\ d \in Decisions /\ d \in Places /\ "pending" \in Places /\ d # "pending"
    BY <1>3 DEF MoveReviewed, InboxInv, Decisions, Places
  <2>2. /\ reviewer' = [reviewer EXCEPT ![r] = Idle]
        /\ UNCHANGED <<kind, log, stager, listed, contested>>
    BY <1>3 DEF MoveReviewed
  <2>3. Idle \in ReviewerType
    BY DEF Idle, ReviewerType
  <2>4. reviewer' \in [Reviewers -> ReviewerType]
        /\ \A q \in Reviewers : reviewer'[q] = IF q = r THEN Idle ELSE reviewer[q]
    BY <1>1, <2>2, <2>3
  <2>9. OneStages'
    BY <2>2 DEF InboxInv, OneStages, Staging
  <2>5. CASE inbox' = inbox
    <3>1. InboxTypeOK'
      BY <2>2, <2>4, <2>5, InboxTypes DEF InboxTypeOK, StagerType, ReviewerType
    <3>2. InOnePlaceUnlessContested'
      BY <2>2, <2>5 DEF InboxInv, InOnePlaceUnlessContested, OnlyIn, Exists
    <3> QED
      BY <2>2, <2>4, <2>5, <2>9, <3>1, <3>2 DEF InboxInv, StaysAbsent, FoundNothing, Exists, Idle
  <2>6. CASE /\ inbox[("pending")][n] # "absent"
             /\ inbox' = [inbox EXCEPT ![d][n] = inbox["pending"][n], !["pending"][n] = "absent"]
    <3>1. "absent" \in Contents /\ inbox["pending"][n] \in Contents
      BY <1>1, <2>1 DEF Contents
    <3>2. inbox' \in [Places -> [Names -> Contents]]
      BY <1>1, <2>1, <2>6, <3>1
    <3>3. \A p \in Places, m \in Names :
             inbox'[p][m] = IF m # n THEN inbox[p][m]
                            ELSE IF p = "pending" THEN "absent"
                            ELSE IF p = d THEN inbox["pending"][n] ELSE inbox[p][m]
      BY <1>1, <2>1, <2>6
    <3>4. InboxTypeOK'
      BY <2>2, <2>4, <3>2, InboxTypes DEF InboxTypeOK, StagerType, ReviewerType
    <3>5. n \notin contested => \A p \in Places : p # "pending" => inbox[p][n] = "absent"
      BY <2>1, <2>6 DEF InboxInv, InOnePlaceUnlessContested, OnlyIn, Exists
    <3>6. InOnePlaceUnlessContested'
      <4> SUFFICES ASSUME NEW m \in Names \ contested, NEW p \in Places, NEW q \in Places,
                          inbox'[p][m] # "absent", inbox'[q][m] # "absent"
                   PROVE  q = p
        BY <2>2 DEF InOnePlaceUnlessContested, OnlyIn, Exists
      <4> QED
        BY <3>3, <3>5 DEF InboxInv, InOnePlaceUnlessContested, OnlyIn, Exists
    <3>7. ASSUME NEW j \in Importers PROVE StaysAbsent(stager[j])'
      <4> SUFFICES ASSUME ~stager[j].dry, stager[j].name \notin contested,
                          NEW k \in 1..3, k < stager[j].at, stager[j].at <= 4,
                          inbox'[Lookups[k]][stager[j].name] # "absent"
                   PROVE  FALSE
        BY <2>2 DEF StaysAbsent, FoundNothing, Exists
      <4>1. /\ stager[j].at # 0 /\ stager[j].name \in Names /\ Lookups[k] \in Places
            /\ inbox[Lookups[k]][stager[j].name] = "absent"
            /\ inbox["pending"][stager[j].name] = "absent"
        <5>1. stager[j].at \in 0..5
          BY InboxTypes, LookupPlaces DEF StagerType
        <5>2. 1 < stager[j].at /\ stager[j].at # 0
          BY <5>1
        <5> QED
          BY <5>2, LookupPlaces DEF InboxInv, StaysAbsent, FoundNothing, Exists
      <4>2. stager[j].name # n
        BY <2>6, <4>1
      <4> QED
        BY <3>3, <4>1, <4>2
    <3> QED
      BY <2>2, <2>4, <2>9, <3>4, <3>6, <3>7 DEF InboxInv, Idle
  <2> QED
    BY <1>3, <2>5, <2>6 DEF MoveReviewed, Exists
<1> QED
  BY <1>2, <1>3

LEMMA InboxStep == InboxInv /\ [InboxNext]_inboxVars => InboxInv'
<1> SUFFICES ASSUME InboxInv, [InboxNext]_inboxVars PROVE InboxInv'
  OBVIOUS
<1>1. CASE SourceGrows
  <2>1. PICK r \in Records : log' = Append(log, r)
    BY <1>1 DEF SourceGrows
  <2>2. Len(log) < MaxRecords /\ UNCHANGED <<kind, inbox, stager, listed, reviewer, contested>>
    BY <1>1 DEF SourceGrows
  <2>3. log' \in Seq(Records) /\ Len(log') = Len(log) + 1 /\ Len(log) \in Nat /\ MaxRecords \in Nat
    BY <2>1, InboxTypes, AppendProperties, LenProperties, InboxAssumption
  <2> QED
    BY <2>2, <2>3, InboxTypes, NothingMoves
<1>2. CASE ListPending
  <2>1. listed' \subseteq Names
    BY <1>2 DEF ListPending
  <2>2. UNCHANGED <<kind, log, inbox, stager, reviewer, contested>>
    BY <1>2 DEF ListPending
  <2> QED
    BY <2>1, <2>2, InboxTypes, NothingMoves
<1>3. CASE UNCHANGED inboxVars
  <2>1. UNCHANGED <<kind, log, inbox, stager, listed, reviewer, contested>>
    BY <1>3 DEF inboxVars
  <2> QED
    BY <2>1, InboxTypes, NothingMoves
<1> QED
  BY <1>1, <1>2, <1>3, ImporterLooks, ImporterWrites, ReviewerSteps DEF InboxNext

\* The inbox, its log and its queue keep their types, for any number of importers.
THEOREM InboxTypeCorrect == InboxSpec => []InboxTypeOK
<1>1. InboxInv => InboxTypeOK
  BY DEF InboxInv
<1> QED
  BY <1>1, InboxStarts, InboxStep, PTL DEF InboxSpec

\* However many imports run and calls resolve files at once, and wherever an importer dies,
\* a candidate that two imports did not look for at the same time is never in two places:
\* no import brings a decided one back, and two decisions never both count.
THEOREM CandidateIsInOnePlace == InboxSpec => []InOnePlaceUnlessContested
<1>1. InboxInv => InOnePlaceUnlessContested
  BY DEF InboxInv
<1> QED
  BY <1>1, InboxStarts, InboxStep, PTL DEF InboxSpec

-------------------------------------------------------------------------------
(* The parts side by side.                                                    *)

PartsInv ==
    /\ MeterInv /\ SubagentTypeOK /\ MeterInOrder /\ WritesStayInScratch
    /\ SemanticInv /\ SandboxInv /\ InboxInv /\ CompactionInv
    /\ SwarmInv /\ LossIsBounded

PartsSafe ==
    /\ InOnePlaceUnlessContested /\ MeterHonest /\ WritesStayInScratch /\ OneLoad /\ ProjectionSound
    /\ WithinOneDeadline /\ ServicesTypeOK

LEMMA PartsStart == ServicesInit => PartsInv
BY MeterStarts, RunStarts, ScratchStarts, SemanticStarts, SandboxStarts, InboxStarts,
   CompactionStarts, SwarmStarts, LossStarts
DEF ServicesInit, PartsInv

LEMMA PartsStep == PartsInv /\ [ServicesNext]_servicesVars => PartsInv'
<1> SUFFICES ASSUME PartsInv, [ServicesNext]_servicesVars PROVE PartsInv'
  OBVIOUS
<1>1. /\ [InboxNext]_inboxVars /\ [SubagentNext]_subagentVars
      /\ [SemanticNext]_semanticVars /\ [SandboxNext]_sandboxVars
      /\ [CompactionNext]_compactionVars /\ [Next]_vars
  BY DEF ServicesNext, InboxMoves, SubagentMoves, SemanticMoves, SandboxMoves,
         CompactionMoves, SwarmMoves, servicesVars
<1>2. InboxInv'
  BY <1>1, InboxStep DEF PartsInv
<1>3. MeterInv' /\ SubagentTypeOK' /\ MeterInOrder' /\ WritesStayInScratch'
  BY <1>1, MeterStep, RunTyped, ScratchStep DEF PartsInv
<1>4. SemanticInv' /\ SandboxInv'
  BY <1>1, SemanticStep, SandboxStep DEF PartsInv
<1>5. CompactionInv'
  BY <1>1, CompactionStep DEF PartsInv
<1>6. SwarmInv' /\ LossIsBounded'
  BY <1>1, SwarmStep, LossStep DEF PartsInv
<1> QED
  BY <1>2, <1>3, <1>4, <1>5, <1>6 DEF PartsInv

\* Whichever part moves, the safety of the inbox, the delegated run, the index, the
\* sandboxes, the compacted thread and the swarm holds in all of them.
THEOREM PartsAreSafe == ServicesSpec => []PartsSafe
<1>2. MeterInv => MeterHonest
  BY DEF MeterInv, MeterHonest
<1>3. SemanticInv => OneLoad /\ SemanticTypeOK
  BY DEF SemanticInv, ToldTyped, OneLoadInv, OncePerState, HolderWorks, OneLoad,
         SemanticTypeOK, Settled, Whereabouts
<1>4. CompactionInv => ProjectionSound /\ CompactionTypeOK
  BY InvIsSound, InvIsTyped
<1>5. SwarmInv /\ LossIsBounded => WithinOneDeadline /\ TypeOK
  BY InOneDeadline, SwarmTyped
<1>6. PartsInv => PartsSafe
  BY <1>2, <1>3, <1>4, <1>5 DEF PartsInv, PartsSafe, SandboxInv, InboxInv, ServicesTypeOK
<1> QED
  BY <1>6, PartsStart, PartsStep, PTL DEF ServicesSpec

\* Every part keeps the types of its state beside the others.
THEOREM ServicesTypeCorrect == ServicesSpec => []ServicesTypeOK
<1>1. PartsSafe => ServicesTypeOK
  BY DEF PartsSafe
<1> QED
  BY <1>1, PartsAreSafe, PTL
===============================================================================
