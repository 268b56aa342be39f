----------------------------- MODULE SwarmProofs -----------------------------
(*****************************************************************************)
(* Theorems about one admitted swarm, for a plan of any length, any number   *)
(* of slots that holds it and any deadline.                                  *)
(*****************************************************************************)
EXTENDS Swarm, FiniteSetTheorems, FunctionTheorems, SequenceTheorems, TLAPS

Planned == Cardinality(Subtasks)

\* Every variable is what the code makes of it; the bounds on counters come later.
SwarmTypes ==
    /\ phase \in {"running", "reported", "cancelled"}
    /\ pc \in [Subtasks -> {"queued", "flying", "over"}]
    /\ age \in [Subtasks -> Nat]
    /\ results \in Seq(Result)
    /\ received \subseteq Event
    /\ lost \in Nat
    /\ called \subseteq Subtasks
    /\ closed \in BOOLEAN
    /\ elapsed \in Nat

\* The results are those of the workers that ended, one for each.
ResultsOfWorkers ==
    /\ \A i \in 1..Len(results) : pc[results[i].id] = "over"
    /\ \A i, j \in 1..Len(results) : results[i].id = results[j].id => i = j
    /\ phase # "cancelled" =>
         \A s \in Subtasks : pc[s] = "over" => \E i \in 1..Len(results) : results[i].id = s

\* Who is flying was called, who is queued was not, and nobody is done without a call.
CallsOfWorkers ==
    /\ \A s \in Subtasks : pc[s] = "flying" => s \in called
    /\ \A s \in Subtasks : pc[s] = "queued" => s \notin called
    /\ \A i \in 1..Len(results) : results[i].status = "done" => results[i].id \in called

\* An event the bridge received says what the result says, and whether a call was made.
EventsOfWorkers ==
    /\ \A e \in received :
         \E i \in 1..Len(results) : results[i].id = e.id /\ results[i].status = e.status
    /\ \A e \in received : e.started <=> e.id \in called
    /\ phase = "running" /\ lost = 0 =>
         \A s \in Subtasks : pc[s] = "over" => \E e \in received : e.id = s

\* All calls start before the clock moves: they are as old as the swarm.
OneClock ==
    /\ elapsed <= WorkerTimeout
    /\ \A s \in Subtasks : age[s] <= WorkerTimeout
    /\ phase = "running" => \A s \in Subtasks : pc[s] = "queued" => elapsed = 0
    /\ phase = "running" => \A s \in Subtasks : pc[s] # "over" => age[s] = elapsed

SwarmInv ==
    SwarmTypes /\ ResultsOfWorkers /\ CallsOfWorkers /\ EventsOfWorkers /\ OneClock

-------------------------------------------------------------------------------
(* Counting the plan.                                                         *)

LEMMA PlanIsFinite ==
    /\ IsFiniteSet(Subtasks) /\ Planned \in Nat
    /\ Subtasks = 1..Planned /\ Subtasks \subseteq Nat
<1>1. IsFiniteSet(Subtasks) /\ Subtasks = 1..Planned
  BY SwarmAssumption DEF Planned
<1>2. Planned \in Nat
  BY <1>1, FS_CardinalityType DEF Planned
<1> QED
  BY <1>1, <1>2

\* There is a slot for every subtask: whoever is queued may start.
LEMMA SlotForEveryone ==
    ASSUME NEW s \in Subtasks, pc[s] = "queued"
    PROVE  MayStart(s)
<1> DEFINE Others == Subtasks \ {s}
<1>1. IsFiniteSet(Others) /\ Cardinality(Others) = Planned - 1
  BY PlanIsFinite, FS_RemoveElement DEF Planned
<1>2. InState("flying") \in SUBSET Others
  BY DEF InState
<1>3. /\ IsFiniteSet(InState("flying"))
      /\ Cardinality(InState("flying")) <= Planned - 1
  BY <1>1, <1>2, FS_Subset
<1>4. Cardinality(InState("flying")) \in Nat
  BY <1>3, FS_CardinalityType
<1> QED
  BY <1>3, <1>4, PlanIsFinite, SwarmAssumption DEF MayStart, Planned

LEMMA ResultFields ==
    ASSUME NEW rs \in Seq(Result), NEW i \in 1..Len(rs)
    PROVE  rs[i].id \in Subtasks /\ rs[i].status \in Terminal
<1>1. rs[i] \in Result
  BY ElementOfSeq
<1> QED
  BY <1>1 DEF Result

\* One result for each subtask: as many results as subtasks.
LEMMA OneResultEach ==
    ASSUME NEW rs \in Seq(Result),
           \A i, j \in 1..Len(rs) : rs[i].id = rs[j].id => i = j,
           \A s \in Subtasks : \E i \in 1..Len(rs) : rs[i].id = s
    PROVE  Len(rs) = Planned
<1> DEFINE IdOf == [i \in 1..Len(rs) |-> rs[i].id]
<1>1. Len(rs) \in Nat /\ \A i \in 1..Len(rs) : rs[i].id \in Subtasks
  BY LenProperties, ResultFields
<1>2. IdOf \in [1..Len(rs) -> Subtasks]
  BY <1>1
<1>3. \A i, j \in 1..Len(rs) : IdOf[i] = IdOf[j] => i = j
  OBVIOUS
<1>4. \A s \in Subtasks : \E i \in 1..Len(rs) : IdOf[i] = s
  OBVIOUS
<1> HIDE DEF IdOf
<1>5. IdOf \in Bijection(1..Len(rs), Subtasks)
  BY <1>2, <1>3, <1>4, Fun_IsBij
<1>6. ExistsBijection(1..Len(rs), Subtasks)
  BY <1>5 DEF ExistsBijection
<1> QED
  BY <1>1, <1>6, FS_CountingElements DEF Planned

\* No more results than subtasks.
LEMMA FewResults ==
    ASSUME NEW rs \in Seq(Result),
           \A i, j \in 1..Len(rs) : rs[i].id = rs[j].id => i = j
    PROVE  Len(rs) <= Planned
<1> DEFINE IdOf == [i \in 1..Len(rs) |-> rs[i].id]
<1>1. Len(rs) \in Nat /\ \A i \in 1..Len(rs) : rs[i].id \in Subtasks
  BY LenProperties, ResultFields
<1>2. IdOf \in [1..Len(rs) -> Subtasks]
  BY <1>1
<1>3. \A i, j \in 1..Len(rs) : IdOf[i] = IdOf[j] => i = j
  OBVIOUS
<1> HIDE DEF IdOf
<1>4. IdOf \in Injection(1..Len(rs), Subtasks)
  BY <1>2, <1>3, Fun_IsInj
<1>5. Cardinality(1..Len(rs)) <= Planned
  BY <1>4, PlanIsFinite, FS_Injection DEF Planned
<1>6. \A n \in Nat : Cardinality(1..n) = n
  BY FS_Interval
<1> QED
  BY <1>1, <1>5, <1>6

\* As many results come before the one of s as there are subtasks before s.
LEMMA EarlierResults ==
    ASSUME NEW rs \in Seq(Result),
           \A i, j \in 1..Len(rs) : rs[i].id = rs[j].id => i = j,
           \A s \in Subtasks : \E i \in 1..Len(rs) : rs[i].id = s,
           NEW s \in Subtasks
    PROVE  Cardinality({j \in 1..Len(rs) : rs[j].id < s}) = s - 1
<1> DEFINE Earlier == {j \in 1..Len(rs) : rs[j].id < s}
           IdOf == [j \in Earlier |-> rs[j].id]
<1>1. Len(rs) \in Nat /\ \A i \in 1..Len(rs) : rs[i].id \in Subtasks
  BY LenProperties, ResultFields
<1>2. s \in Nat \ {0} /\ Subtasks = 1..Planned /\ Planned \in Nat
  BY PlanIsFinite
<1>3. IdOf \in [Earlier -> 1..(s - 1)]
  BY <1>1, <1>2
<1>4. \A i, j \in Earlier : IdOf[i] = IdOf[j] => i = j
  OBVIOUS
<1>5. \A t \in 1..(s - 1) : \E i \in Earlier : IdOf[i] = t
  <2> SUFFICES ASSUME NEW t \in 1..(s - 1) PROVE \E i \in Earlier : IdOf[i] = t
    OBVIOUS
  <2>1. t \in Subtasks /\ t < s
    BY <1>2
  <2>2. PICK i \in 1..Len(rs) : rs[i].id = t
    BY <2>1
  <2> QED
    BY <2>1, <2>2
<1>6. IsFiniteSet(Earlier)
  <2>1. IsFiniteSet(1..Len(rs)) /\ Earlier \in SUBSET (1..Len(rs))
    BY <1>1, FS_Interval
  <2> QED
    BY <2>1, FS_Subset
<1> HIDE DEF IdOf, Earlier
<1>7. IdOf \in Bijection(Earlier, 1..(s - 1))
  BY <1>3, <1>4, <1>5, Fun_IsBij
<1>8. ExistsBijection(Earlier, 1..(s - 1))
  BY <1>7 DEF ExistsBijection
<1>9. Cardinality(1..(s - 1)) = Cardinality(Earlier)
  BY <1>6, <1>8, FS_Bijection
<1>10. Cardinality(1..(s - 1)) = s - 1
  BY <1>2, FS_Interval
<1> QED
  BY <1>9, <1>10 DEF Earlier

\* Sorting by the plan puts the result of s in the place of s.
LEMMA PlanOrder ==
    ASSUME NEW rs \in Seq(Result),
           \A i, j \in 1..Len(rs) : rs[i].id = rs[j].id => i = j,
           \A s \in Subtasks : \E i \in 1..Len(rs) : rs[i].id = s
    PROVE  /\ Len(InPlanOrder(rs)) = Planned
           /\ \A s \in Subtasks :
                \E i \in 1..Len(rs) : InPlanOrder(rs)[s] = rs[i] /\ rs[i].id = s
<1>1. Len(rs) = Planned /\ Planned \in Nat /\ Subtasks = 1..Planned
  BY OneResultEach, PlanIsFinite
<1>2. Len(InPlanOrder(rs)) = Planned
  BY <1>1 DEF InPlanOrder
<1>3. ASSUME NEW s \in Subtasks
      PROVE  \E i \in 1..Len(rs) : InPlanOrder(rs)[s] = rs[i] /\ rs[i].id = s
  <2> DEFINE Place(i) == Cardinality({j \in 1..Len(rs) : rs[j].id < rs[i].id})
             Chosen == CHOOSE i \in 1..Len(rs) : Place(i) = s - 1
  <2>1. InPlanOrder(rs)[s] = rs[Chosen]
    BY <1>1, <1>3 DEF InPlanOrder
  <2>2. \A i \in 1..Len(rs) : rs[i].id \in Subtasks
    BY ResultFields
  <2>3. \A i \in 1..Len(rs) : Place(i) = rs[i].id - 1
    BY <2>2, EarlierResults
  <2>4. PICK k \in 1..Len(rs) : rs[k].id = s
    BY <1>3
  <2> HIDE DEF Place
  <2>5. Place(k) = s - 1
    BY <2>3, <2>4
  <2>6. Chosen \in 1..Len(rs) /\ Place(Chosen) = s - 1
    BY <2>5
  <2> HIDE DEF Chosen
  <2>7. rs[Chosen].id - 1 = s - 1 /\ rs[Chosen].id \in Subtasks
    BY <2>2, <2>3, <2>6
  <2>8. rs[Chosen].id = s
    BY <2>7, PlanIsFinite, <1>3
  <2> QED
    BY <2>1, <2>6, <2>8
<1> QED
  BY <1>2, <1>3

-------------------------------------------------------------------------------
(* The invariant.                                                             *)

LEMMA SwarmStarts == Init => SwarmInv
<1> SUFFICES ASSUME Init PROVE SwarmInv
  OBVIOUS
<1>1. results = <<>> /\ Len(results) = 0 /\ results \in Seq(Result)
  BY DEF Init
<1>2. \A s \in Subtasks : pc[s] = "queued" /\ age[s] = 0
  BY DEF Init
<1>3. SwarmTypes
  BY <1>1 DEF Init, SwarmTypes
<1>4. ResultsOfWorkers /\ CallsOfWorkers /\ EventsOfWorkers
  <2>1. \A i \in 1..Len(results) : FALSE
    BY <1>1
  <2>2. received = {} /\ called = {}
    BY DEF Init
  <2> QED
    BY <1>2, <2>1, <2>2 DEF ResultsOfWorkers, CallsOfWorkers, EventsOfWorkers
<1>5. OneClock
  BY <1>2, SwarmAssumption DEF Init, OneClock
<1> QED
  BY <1>3, <1>4, <1>5 DEF SwarmInv

\* A worker ends, with an event that tells whether it called the provider.
LEMMA EndKeepsInv ==
    ASSUME SwarmInv, phase = "running",
           NEW s \in Subtasks, pc[s] # "over",
           NEW status \in Terminal, status = "done" => s \in called,
           NEW started \in BOOLEAN, started <=> s \in called,
           NEW before \in 0..1,
           EndsAs(s, status, started, before),
           UNCHANGED <<phase, age, reply, called, closed, elapsed>>
    PROVE  SwarmInv'
<1> DEFINE last == Len(results) + 1
           result == [id |-> s, status |-> status]
           event == [id |-> s, status |-> status, started |-> started]
<1>0. SwarmTypes /\ ResultsOfWorkers /\ CallsOfWorkers /\ EventsOfWorkers /\ OneClock
  BY DEF SwarmInv
<1>1. /\ pc' = [pc EXCEPT ![s] = "over"] /\ results' = Append(results, result)
      /\ \/ received' = received \cup {event} /\ lost' = lost + before
         \/ received' = received /\ lost' = lost + before + 1
  BY DEF EndsAs
<1>2. result \in Result /\ event \in Event
  BY DEF Result, Event
<1>3. /\ results' \in Seq(Result) /\ Len(results) \in Nat /\ Len(results') = last
      /\ results'[last] = result
      /\ \A i \in 1..Len(results) : results'[i] = results[i]
  BY <1>0, <1>1, <1>2, AppendProperties, LenProperties DEF SwarmTypes
<1>4. \A i \in 1..Len(results) : results[i].id \in Subtasks /\ results[i].id # s
  BY <1>0, ResultFields DEF SwarmTypes, ResultsOfWorkers
<1>5. result.id = s /\ result.status = status
  OBVIOUS
<1>6. /\ pc'[s] = "over"
      /\ \A t \in Subtasks : t # s => pc'[t] = pc[t]
      /\ pc' \in [Subtasks -> {"queued", "flying", "over"}]
  BY <1>0, <1>1 DEF SwarmTypes
<1>7. \A i \in 1..last : i = last \/ i \in 1..Len(results)
  BY <1>3
<1> HIDE DEF last, result
<1>8. SwarmTypes'
  BY <1>0, <1>1, <1>2, <1>3, <1>6 DEF SwarmTypes
<1>9. ResultsOfWorkers'
  <2>1. \A i \in 1..last : pc'[results'[i].id] = "over"
    BY <1>0, <1>3, <1>4, <1>5, <1>6, <1>7 DEF ResultsOfWorkers
  <2>2. \A i, j \in 1..last : results'[i].id = results'[j].id => i = j
    BY <1>0, <1>3, <1>4, <1>5, <1>7 DEF ResultsOfWorkers
  <2>3. last \in 1..last /\ \A i \in 1..Len(results) : i \in 1..last
    BY <1>3 DEF last
  <2>4. \A t \in Subtasks : pc'[t] = "over" => \E i \in 1..last : results'[i].id = t
    BY <1>0, <1>3, <1>5, <1>6, <2>3 DEF ResultsOfWorkers
  <2> QED
    BY <1>3, <2>1, <2>2, <2>4 DEF ResultsOfWorkers
<1>10. CallsOfWorkers'
  <2>1. \A i \in 1..last : results'[i].status = "done" => results'[i].id \in called
    BY <1>0, <1>3, <1>5, <1>7 DEF CallsOfWorkers
  <2> QED
    BY <1>0, <1>3, <1>6, <2>1 DEF CallsOfWorkers
<1>11. EventsOfWorkers'
  <2>1. last \in 1..last /\ \A i \in 1..Len(results) : i \in 1..last
    BY <1>3 DEF last
  <2>2. event.id = s /\ event.status = status /\ event.started = started
    OBVIOUS
  <2>3. \A e \in received' : e \in received \/ e = event
    BY <1>1
  <2> HIDE DEF event
  <2>4. \A e \in received' :
          \E i \in 1..last : results'[i].id = e.id /\ results'[i].status = e.status
    <3> SUFFICES ASSUME NEW e \in received'
                 PROVE  \E i \in 1..last : results'[i].id = e.id /\ results'[i].status = e.status
      OBVIOUS
    <3>1. CASE e = event
      BY <1>3, <1>5, <2>1, <2>2, <3>1
    <3>2. CASE e \in received
      BY <1>0, <1>3, <2>1, <3>2 DEF EventsOfWorkers
    <3> QED
      BY <2>3, <3>1, <3>2
  <2>5. \A e \in received' : e.started <=> e.id \in called
    BY <1>0, <2>2, <2>3 DEF EventsOfWorkers
  <2>6. lost' = 0 => lost = 0 /\ received' = received \cup {event}
    BY <1>0, <1>1 DEF SwarmTypes, event
  <2>7. lost' = 0 => \A t \in Subtasks : pc'[t] = "over" => \E e \in received' : e.id = t
    BY <1>0, <1>6, <2>2, <2>6 DEF EventsOfWorkers
  <2> QED
    BY <1>3, <2>4, <2>5, <2>7 DEF EventsOfWorkers
<1>12. OneClock'
  BY <1>0, <1>6 DEF OneClock
<1> QED
  BY <1>8, <1>9, <1>10, <1>11, <1>12 DEF SwarmInv

\* A worker that calls the provider: it was queued, so the clock has not moved.
LEMMA CallKeepsInv ==
    ASSUME SwarmInv, NEW s \in Subtasks, WorkerCalls(s)
    PROVE  SwarmInv'
<1>0. SwarmTypes /\ ResultsOfWorkers /\ CallsOfWorkers /\ EventsOfWorkers /\ OneClock
  BY DEF SwarmInv
<1>1. /\ phase = "running" /\ pc[s] = "queued"
      /\ pc' = [pc EXCEPT ![s] = "flying"] /\ called' = called \cup {s}
      /\ lost' \in {lost, lost + 1}
      /\ UNCHANGED <<phase, age, results, received, reply, closed, elapsed>>
  BY DEF WorkerCalls, MayStart
<1>2. /\ pc'[s] = "flying"
      /\ \A t \in Subtasks : t # s => pc'[t] = pc[t]
      /\ pc' \in [Subtasks -> {"queued", "flying", "over"}]
  BY <1>0, <1>1 DEF SwarmTypes
<1>3. /\ \A i \in 1..Len(results) : results[i].id \in Subtasks /\ results[i].id # s
      /\ \A e \in received : e.id # s
  <2>1. \A i \in 1..Len(results) : results[i].id \in Subtasks
    BY <1>0, ResultFields DEF SwarmTypes
  <2>2. \A i \in 1..Len(results) : results[i].id # s
    BY <1>0, <1>1 DEF ResultsOfWorkers
  <2>3. \A e \in received : \E i \in 1..Len(results) : results[i].id = e.id
    BY <1>0 DEF EventsOfWorkers
  <2> QED
    BY <2>1, <2>2, <2>3
<1>4. SwarmTypes'
  BY <1>0, <1>1, <1>2 DEF SwarmTypes
<1>5. ResultsOfWorkers'
  BY <1>0, <1>1, <1>2, <1>3 DEF ResultsOfWorkers
<1>6. CallsOfWorkers'
  BY <1>0, <1>1, <1>2, <1>3 DEF CallsOfWorkers
<1>7. EventsOfWorkers'
  <2>1. lost' = 0 => lost = 0
    BY <1>0, <1>1 DEF SwarmTypes
  <2> QED
    BY <1>0, <1>1, <1>2, <1>3, <2>1 DEF EventsOfWorkers
<1>8. OneClock'
  BY <1>0, <1>1, <1>2 DEF OneClock
<1> QED
  BY <1>4, <1>5, <1>6, <1>7, <1>8 DEF SwarmInv

\* When the clock moves, everyone has started: all calls get older together.
LEMMA TickKeepsInv == SwarmInv /\ Tick => SwarmInv'
<1> SUFFICES ASSUME SwarmInv, Tick PROVE SwarmInv'
  OBVIOUS
<1>0. SwarmTypes /\ ResultsOfWorkers /\ CallsOfWorkers /\ EventsOfWorkers /\ OneClock
  BY DEF SwarmInv
<1>1. /\ phase = "running" /\ InState("flying") # {}
      /\ \A s \in Subtasks : ~MayStart(s) /\ ~AtDeadline(s)
      /\ age' = [s \in Subtasks |-> IF pc[s] = "flying" THEN age[s] + 1 ELSE age[s]]
      /\ elapsed' = elapsed + 1
      /\ UNCHANGED <<phase, pc, results, received, lost, reply, called, closed>>
  BY DEF Tick
<1>2. \A s \in Subtasks : pc[s] # "queued"
  BY <1>1, SlotForEveryone
<1>3. PICK f \in Subtasks : pc[f] = "flying"
  BY <1>1 DEF InState
<1>4. elapsed < WorkerTimeout /\ WorkerTimeout \in Nat
  BY <1>0, <1>1, <1>3, SwarmAssumption DEF SwarmTypes, OneClock, AtDeadline
<1>5. \A s \in Subtasks : pc[s] # "over" => pc[s] = "flying"
  BY <1>0, <1>2 DEF SwarmTypes
<1>6. \A s \in Subtasks : age'[s] = (IF pc[s] = "flying" THEN age[s] + 1 ELSE age[s])
  BY <1>1
<1>7. SwarmTypes'
  BY <1>0, <1>1 DEF SwarmTypes
<1>8. OneClock'
  <2>1. \A s \in Subtasks : age[s] \in Nat
    BY <1>0 DEF SwarmTypes
  <2>2. elapsed \in Nat
    BY <1>0 DEF SwarmTypes
  <2>3. \A s \in Subtasks : pc[s] # "over" => age'[s] = elapsed'
    BY <1>0, <1>1, <1>5, <1>6 DEF OneClock
  <2>4. \A s \in Subtasks : age'[s] <= WorkerTimeout
    BY <1>0, <1>1, <1>4, <1>6, <2>1, <2>2 DEF OneClock
  <2> QED
    BY <1>1, <1>2, <1>4, <2>2, <2>3, <2>4 DEF OneClock
<1>9. ResultsOfWorkers' /\ CallsOfWorkers' /\ EventsOfWorkers'
  BY <1>0, <1>1 DEF ResultsOfWorkers, CallsOfWorkers, EventsOfWorkers
<1> QED
  BY <1>7, <1>8, <1>9 DEF SwarmInv

\* The run's end, by its report or by a cancellation.
LEMMA EndOfRunKeepsInv == SwarmInv /\ (Report \/ Cancel) => SwarmInv'
<1> SUFFICES ASSUME SwarmInv, Report \/ Cancel PROVE SwarmInv'
  OBVIOUS
<1>0. SwarmTypes /\ ResultsOfWorkers /\ CallsOfWorkers /\ EventsOfWorkers /\ OneClock
  BY DEF SwarmInv
<1>1. CASE Report
  <2>1. /\ phase' = "reported" /\ closed' \in BOOLEAN
        /\ lost' = IF closed' THEN lost ELSE lost + 1
        /\ UNCHANGED <<pc, age, results, received, called, elapsed>>
    BY <1>1 DEF Report
  <2>2. lost' \in Nat
    BY <1>0, <2>1 DEF SwarmTypes
  <2> QED
    BY <1>0, <1>1, <2>1, <2>2 DEF Report, SwarmInv, SwarmTypes, ResultsOfWorkers, CallsOfWorkers,
       EventsOfWorkers, OneClock
<1>2. CASE Cancel
  <2>1. /\ phase' = "cancelled" /\ \A s \in Subtasks : pc'[s] = "over"
        /\ pc' \in [Subtasks -> {"queued", "flying", "over"}]
        /\ UNCHANGED <<age, results, received, lost, called, closed, elapsed>>
    BY <1>2 DEF Cancel
  <2>2. \A i \in 1..Len(results) : results[i].id \in Subtasks
    BY <1>0, ResultFields DEF SwarmTypes
  <2> QED
    BY <1>0, <2>1, <2>2 DEF SwarmInv, SwarmTypes, ResultsOfWorkers, CallsOfWorkers,
       EventsOfWorkers, OneClock
<1> QED
  BY <1>1, <1>2

LEMMA SwarmStep == SwarmInv /\ [Next]_vars => SwarmInv'
<1> SUFFICES ASSUME SwarmInv, [Next]_vars PROVE SwarmInv'
  OBVIOUS
<1>0. SwarmTypes /\ CallsOfWorkers
  BY DEF SwarmInv
<1>1. ASSUME NEW s \in Subtasks, WorkerRefused(s) PROVE SwarmInv'
  <2>1. /\ phase = "running" /\ pc[s] = "queued"
        /\ EndsAs(s, "failed", FALSE, 0)
        /\ UNCHANGED <<phase, age, reply, called, closed, elapsed>>
    BY <1>1 DEF WorkerRefused, MayStart
  <2>2. "failed" \in Terminal /\ s \notin called /\ 0 \in 0..1
    BY <1>0, <2>1 DEF Terminal, CallsOfWorkers
  <2> QED
    BY <2>1, <2>2, EndKeepsInv
<1>2. ASSUME NEW s \in Subtasks, WorkerSetupFails(s) PROVE SwarmInv'
  <2>1. PICK before \in 0..1 : EndsAs(s, "failed", FALSE, before)
    BY <1>2 DEF WorkerSetupFails
  <2>2. /\ phase = "running" /\ pc[s] = "queued"
        /\ UNCHANGED <<phase, age, reply, called, closed, elapsed>>
    BY <1>2 DEF WorkerSetupFails, MayStart
  <2>3. "failed" \in Terminal /\ s \notin called
    BY <1>0, <2>2 DEF Terminal, CallsOfWorkers
  <2> QED
    BY <2>1, <2>2, <2>3, EndKeepsInv
<1>3. ASSUME NEW s \in Subtasks, WorkerAnswered(s) PROVE SwarmInv'
  <2>1. PICK status \in Terminal \ {"timeout"} : EndsAs(s, status, StartedFlag(status), 0)
    BY <1>3 DEF WorkerAnswered
  <2>2. /\ phase = "running" /\ pc[s] = "flying"
        /\ UNCHANGED <<phase, age, reply, called, closed, elapsed>>
    BY <1>3 DEF WorkerAnswered
  <2>3. status \in Terminal /\ (StartedFlag(status) <=> TRUE) /\ s \in called /\ 0 \in 0..1
    BY <1>0, <2>1, <2>2 DEF StartedFlag, CallsOfWorkers
  <2> QED
    BY <2>1, <2>2, <2>3, EndKeepsInv DEF StartedFlag
<1>4. ASSUME NEW s \in Subtasks, WorkerTimesOut(s) PROVE SwarmInv'
  <2>1. /\ phase = "running" /\ pc[s] = "flying"
        /\ EndsAs(s, "timeout", StartedFlag("timeout"), 0)
        /\ UNCHANGED <<phase, age, reply, called, closed, elapsed>>
    BY <1>4 DEF WorkerTimesOut
  <2>2. "timeout" \in Terminal /\ s \in called /\ 0 \in 0..1
    BY <1>0, <2>1 DEF Terminal, CallsOfWorkers
  <2> QED
    BY <2>1, <2>2, EndKeepsInv DEF StartedFlag
<1>5. CASE UNCHANGED vars
  BY <1>5 DEF vars, SwarmInv, SwarmTypes, ResultsOfWorkers, CallsOfWorkers, EventsOfWorkers,
     OneClock
<1> QED
  BY <1>1, <1>2, <1>3, <1>4, <1>5, CallKeepsInv, TickKeepsInv, EndOfRunKeepsInv DEF Next, Starts

\* The inductive invariant of a swarm, for a plan of any length.
THEOREM SwarmInvariant == Spec => []SwarmInv
BY SwarmStarts, SwarmStep, PTL DEF Spec

-------------------------------------------------------------------------------
(* The properties.                                                            *)

LEMMA InOneDeadline == SwarmInv => WithinOneDeadline
BY DEF SwarmInv, OneClock, WithinOneDeadline

\* All workers run at once: a swarm of any size takes no longer than one worker may.
THEOREM SwarmTakesOneDeadline == Spec => []WithinOneDeadline
BY InOneDeadline, SwarmInvariant, PTL

\* What the report says of the events, in the states after it: whatever the bridge was
\* not told of, the report counts.
LostIsTold ==
    phase = "reported" /\ reply.eventsLost = 0 =>
        closed /\ \A s \in Subtasks : \E e \in received : e.id = s

LEMMA WhoWasCalled ==
    ASSUME SwarmInv, \A s \in Subtasks : \E e \in received : e.id = s
    PROVE  /\ {e.id : e \in received} = Subtasks
           /\ called = {e.id : e \in {f \in received : f.started}}
<1>0. SwarmTypes /\ EventsOfWorkers
  BY DEF SwarmInv
<1>1. \A e \in received : e.id \in Subtasks
  BY <1>0 DEF SwarmTypes, Event
<1>2. \A e \in received : e.started <=> e.id \in called
  BY <1>0 DEF EventsOfWorkers
<1>3. called \subseteq Subtasks
  BY <1>0 DEF SwarmTypes
<1>4. {e.id : e \in received} = Subtasks
  BY <1>1
<1>5. ASSUME NEW s \in called PROVE s \in {e.id : e \in {f \in received : f.started}}
  <2>1. PICK e \in received : e.id = s
    BY <1>3
  <2> QED
    BY <1>2, <2>1
<1>6. ASSUME NEW e \in received, e.started PROVE e.id \in called
  BY <1>2, <1>6
<1> QED
  BY <1>4, <1>5, <1>6

LEMMA ReportTellsLost ==
    ASSUME SwarmInv, Report
    PROVE  LostIsTold'
<1>0. SwarmTypes /\ EventsOfWorkers
  BY DEF SwarmInv
<1>1. /\ phase = "running" /\ InState("over") = Subtasks
      /\ closed' \in BOOLEAN /\ received' = received
      /\ reply'.eventsLost = EventsLost(closed')
  BY DEF Report
<1> SUFFICES ASSUME EventsLost(closed') = 0
             PROVE  closed' /\ \A s \in Subtasks : \E e \in received : e.id = s
  BY <1>1 DEF LostIsTold
<1>2. lost \in Nat
  BY <1>0 DEF SwarmTypes
<1>3. closed' /\ lost = 0
  BY <1>1, <1>2 DEF EventsLost
<1>4. \A s \in Subtasks : pc[s] = "over"
  BY <1>1 DEF InState
<1> QED
  BY <1>0, <1>1, <1>3, <1>4 DEF EventsOfWorkers

\* After its end a swarm does nothing more.
LEMMA OverIsOver ==
    ASSUME phase # "running", [Next]_vars
    PROVE  UNCHANGED vars
<1>1. \A s \in Subtasks : ~Starts(s) /\ ~WorkerAnswered(s) /\ ~WorkerTimesOut(s)
  BY DEF Starts, WorkerRefused, WorkerSetupFails, WorkerCalls, WorkerAnswered, WorkerTimesOut
<1>2. ~Report /\ ~Cancel /\ ~Tick
  BY DEF Report, Cancel, Tick
<1> QED
  BY <1>1, <1>2 DEF Next

\* While a swarm runs, only its report makes it "reported".
LEMMA OnlyReportReports ==
    ASSUME phase = "running", [Next]_vars, phase' = "reported"
    PROVE  Report
<1>1. \A s \in Subtasks : ~Starts(s) /\ ~WorkerAnswered(s) /\ ~WorkerTimesOut(s)
  BY DEF Starts, WorkerRefused, WorkerSetupFails, WorkerCalls, WorkerAnswered, WorkerTimesOut
<1>2. ~Cancel /\ ~Tick /\ ~UNCHANGED vars
  BY DEF Cancel, Tick, vars
<1> QED
  BY <1>1, <1>2 DEF Next

\* The bridge books nothing as free that was called, and a report that mentions no lost
\* event leaves its books whole.
THEOREM SwarmAccountingHonest == Spec => []AccountingHonest
<1>1. Init => LostIsTold
  BY DEF Init, LostIsTold
<1>2. SwarmInv /\ LostIsTold /\ [Next]_vars => LostIsTold'
  <2> SUFFICES ASSUME SwarmInv, LostIsTold, [Next]_vars PROVE LostIsTold'
    OBVIOUS
  <2>1. CASE phase # "running"
    BY <2>1, OverIsOver DEF vars, LostIsTold
  <2>2. CASE phase = "running" /\ phase' = "reported"
    BY <2>2, OnlyReportReports, ReportTellsLost
  <2>3. CASE phase' # "reported"
    BY <2>3 DEF LostIsTold
  <2> QED
    BY <2>1, <2>2, <2>3
<1>3. SwarmInv /\ LostIsTold => AccountingHonest
  <2> SUFFICES ASSUME SwarmInv, LostIsTold PROVE AccountingHonest
    OBVIOUS
  <2>1. \A e \in received : ~e.started => e.id \notin called
    BY DEF SwarmInv, EventsOfWorkers
  <2> QED
    BY <2>1, WhoWasCalled DEF LostIsTold, AccountingHonest
<1> QED
  BY <1>1, <1>2, <1>3, SwarmInvariant, PTL DEF Spec

\* The report is made of the results, when every worker has ended.
MadeOfResults ==
    phase = "reported" =>
        /\ \A s \in Subtasks : pc[s] = "over"
        /\ reply.status = SwarmStatus(results)
        /\ reply.order = InPlanOrder(results)

\* A swarm is complete when every result is: one that is not keeps it from it.
LEMMA CompleteMeansAll ==
    ASSUME NEW rs \in Seq(Result), SwarmStatus(rs) = "complete"
    PROVE  \A i \in 1..Len(rs) : rs[i].status = "done"
<1> DEFINE done == {i \in 1..Len(rs) : rs[i].status = "done"}
<1>1. Cardinality(done) = Len(rs) /\ Len(rs) \in Nat
  BY LenProperties DEF SwarmStatus
<1>2. IsFiniteSet(1..Len(rs)) /\ Cardinality(1..Len(rs)) = Len(rs)
  <2>1. \A n \in Nat : IsFiniteSet(1..n) /\ Cardinality(1..n) = n
    BY FS_Interval
  <2> QED
    BY <1>1, <2>1
<1>3. done \in SUBSET (1..Len(rs))
  OBVIOUS
<1>4. done = 1..Len(rs)
  BY <1>1, <1>2, <1>3, FS_Subset
<1> QED
  BY <1>4

LEMMA PlanOfReport ==
    ASSUME SwarmInv, MadeOfResults, phase = "reported"
    PROVE  ReportFollowsPlan
<1>0. /\ SwarmTypes /\ ResultsOfWorkers /\ CallsOfWorkers
      /\ \A e \in received :
           \E i \in 1..Len(results) : results[i].id = e.id /\ results[i].status = e.status
  BY DEF SwarmInv, EventsOfWorkers
<1>1. /\ results \in Seq(Result)
      /\ \A i, j \in 1..Len(results) : results[i].id = results[j].id => i = j
      /\ \A s \in Subtasks : \E i \in 1..Len(results) : results[i].id = s
  BY <1>0 DEF SwarmTypes, ResultsOfWorkers, MadeOfResults
<1> DEFINE order == InPlanOrder(results)
<1>2. /\ reply.order = order /\ reply.status = SwarmStatus(results)
  BY DEF MadeOfResults
<1>3. /\ Len(order) = Planned
      /\ \A s \in Subtasks : \E i \in 1..Len(results) : order[s] = results[i] /\ results[i].id = s
  BY <1>1, PlanOrder
<1> HIDE DEF order
<1>4. \A s \in Subtasks : order[s].id = s
  BY <1>3
<1>5. ASSUME reply.status = "complete"
      PROVE  called = Subtasks /\ \A s \in Subtasks : order[s].status = "done"
  <2>1. \A i \in 1..Len(results) : results[i].status = "done" /\ results[i].id \in called
    <3>1. \A i \in 1..Len(results) : results[i].status = "done"
      BY <1>1, <1>2, <1>5, CompleteMeansAll
    <3> QED
      BY <1>0, <3>1 DEF CallsOfWorkers
  <2>2. called \subseteq Subtasks
    BY <1>0 DEF SwarmTypes
  <2>3. ASSUME NEW s \in Subtasks PROVE s \in called
    BY <1>1, <2>1
  <2> QED
    BY <1>3, <2>1, <2>2, <2>3
<1>6. ASSUME NEW e \in received PROVE order[e.id].status = e.status
  <2>1. PICK i \in 1..Len(results) : results[i].id = e.id /\ results[i].status = e.status
    BY <1>0
  <2>2. e.id \in Subtasks
    BY <1>1, <2>1, ResultFields
  <2>3. PICK k \in 1..Len(results) : order[e.id] = results[k] /\ results[k].id = e.id
    BY <1>3, <2>2
  <2>4. k = i
    BY <1>1, <2>1, <2>3
  <2> QED
    BY <2>1, <2>3, <2>4
<1> QED
  BY <1>2, <1>3, <1>4, <1>5, <1>6 DEF ReportFollowsPlan, Planned

\* The lead reads one result for each subtask, in the order of the plan, and none of them
\* is better than what the bridge heard.
THEOREM SwarmReportFollowsPlan == Spec => []ReportFollowsPlan
<1>1. Init => MadeOfResults
  BY DEF Init, MadeOfResults
<1>2. SwarmInv /\ MadeOfResults /\ [Next]_vars => MadeOfResults'
  <2> SUFFICES ASSUME SwarmInv, MadeOfResults, [Next]_vars PROVE MadeOfResults'
    OBVIOUS
  <2>1. CASE phase # "running"
    BY <2>1, OverIsOver DEF vars, MadeOfResults
  <2>2. CASE phase = "running" /\ phase' = "reported"
    <3>1. /\ InState("over") = Subtasks
          /\ reply'.status = SwarmStatus(results)
          /\ reply'.order = InPlanOrder(results)
          /\ pc' = pc /\ results' = results
      BY <2>2, OnlyReportReports DEF Report
    <3>2. \A s \in Subtasks : pc[s] = "over"
      BY <3>1 DEF InState
    <3> QED
      BY <3>1, <3>2 DEF MadeOfResults
  <2>3. CASE phase' # "reported"
    BY <2>3 DEF MadeOfResults
  <2> QED
    BY <2>1, <2>2, <2>3
<1>3. SwarmInv /\ MadeOfResults => ReportFollowsPlan
  BY PlanOfReport DEF ReportFollowsPlan
<1> QED
  BY <1>1, <1>2, <1>3, SwarmInvariant, PTL DEF Spec

-------------------------------------------------------------------------------
(* The bound on the events that may get lost.                                 *)

Begun == {s \in Subtasks : pc[s] # "queued"}

\* A worker loses at most what it sends: one event when it announces itself, one when it
\* ends; the run loses at most the one that closes it.
LossIsBounded ==
    lost <= Len(results) + Cardinality(Begun) + IF phase = "reported" THEN 1 ELSE 0

LEMMA BegunCounts == IsFiniteSet(Begun) /\ Cardinality(Begun) \in Nat /\ Cardinality(Begun) <= Planned
<1>1. Begun \in SUBSET Subtasks
  BY DEF Begun
<1>2. IsFiniteSet(Begun) /\ Cardinality(Begun) <= Planned
  BY <1>1, PlanIsFinite, FS_Subset DEF Planned
<1> QED
  BY <1>2, FS_CardinalityType

\* What a worker's end adds to the losses and to what bounds them.
LEMMA EndLosesFew ==
    ASSUME SwarmInv, LossIsBounded, phase = "running", phase' = phase,
           NEW s \in Subtasks, NEW status \in Terminal, NEW started \in BOOLEAN,
           NEW before \in 0..1, before = 1 => pc[s] = "queued",
           EndsAs(s, status, started, before)
    PROVE  LossIsBounded'
<1>0. SwarmTypes
  BY DEF SwarmInv
<1> DEFINE result == [id |-> s, status |-> status]
<1>1. /\ pc' = [pc EXCEPT ![s] = "over"] /\ results' = Append(results, result)
      /\ lost' <= lost + before + 1
  BY <1>0 DEF EndsAs, SwarmTypes
<1>2. result \in Result
  BY DEF Result
<1>3. Len(results) \in Nat /\ Len(results') = Len(results) + 1
  BY <1>0, <1>1, <1>2, AppendProperties, LenProperties DEF SwarmTypes
<1>4. Begun' = Begun \cup {s}
  BY <1>0, <1>1 DEF Begun, SwarmTypes
<1>5. Cardinality(Begun') = (IF s \in Begun THEN Cardinality(Begun) ELSE Cardinality(Begun) + 1)
  BY <1>4, BegunCounts, FS_AddElement
<1>6. before = 1 => s \notin Begun
  BY DEF Begun
<1>7. lost \in Nat /\ lost' \in Nat
  BY <1>0 DEF SwarmTypes, EndsAs
<1> HIDE DEF Begun
<1> QED
  BY <1>1, <1>3, <1>5, <1>6, <1>7, BegunCounts DEF LossIsBounded

LEMMA OthersLoseFew ==
    ASSUME SwarmInv, LossIsBounded, phase = "running",
           \/ \E s \in Subtasks : WorkerCalls(s)
           \/ Report \/ Cancel \/ Tick
    PROVE  LossIsBounded'
<1>0. SwarmTypes
  BY DEF SwarmInv
<1>1. lost \in Nat /\ Len(results) \in Nat /\ results' = results
  BY <1>0, LenProperties DEF SwarmTypes, WorkerCalls, Report, Cancel, Tick
<1>2. ASSUME NEW s \in Subtasks, WorkerCalls(s) PROVE LossIsBounded'
  <2>1. /\ s \notin Begun /\ Begun' = Begun \cup {s} /\ phase' = phase
        /\ lost' \in {lost, lost + 1}
    BY <1>0, <1>2 DEF Begun, SwarmTypes, WorkerCalls, MayStart
  <2>2. Cardinality(Begun') = Cardinality(Begun) + 1
    BY <2>1, BegunCounts, FS_AddElement
  <2> QED
    BY <1>1, <2>1, <2>2, BegunCounts DEF LossIsBounded
<1>3. CASE Report
  <2>1. Begun' = Begun /\ phase' = "reported" /\ lost' \in {lost, lost + 1}
    BY <1>3 DEF Report, Begun
  <2> QED
    BY <1>1, <2>1, BegunCounts DEF LossIsBounded
<1>4. CASE Cancel
  <2>1. Begun' = Subtasks /\ phase' = "cancelled" /\ lost' = lost
    BY <1>4 DEF Cancel, Begun
  <2> QED
    BY <1>1, <2>1, BegunCounts, PlanIsFinite DEF LossIsBounded, Planned
<1>5. CASE Tick
  <2>1. Begun' = Begun /\ phase' = phase /\ lost' = lost
    BY <1>5 DEF Tick, Begun
  <2> QED
    BY <1>1, <2>1 DEF LossIsBounded
<1> QED
  BY <1>2, <1>3, <1>4, <1>5

LEMMA LossStep == SwarmInv /\ LossIsBounded /\ [Next]_vars => LossIsBounded'
<1> SUFFICES ASSUME SwarmInv, LossIsBounded, [Next]_vars PROVE LossIsBounded'
  OBVIOUS
<1>1. CASE phase # "running" \/ UNCHANGED vars
  <2>1. UNCHANGED vars
    BY <1>1, OverIsOver
  <2> QED
    BY <2>1 DEF vars, LossIsBounded, Begun
<1>2. ASSUME phase = "running", NEW s \in Subtasks, WorkerRefused(s) PROVE LossIsBounded'
  <2>1. phase' = phase /\ EndsAs(s, "failed", FALSE, 0)
    BY <1>2 DEF WorkerRefused
  <2>2. "failed" \in Terminal /\ 0 \in 0..1 /\ 0 # 1
    BY DEF Terminal
  <2> QED
    BY <1>2, <2>1, <2>2, EndLosesFew
<1>3. ASSUME phase = "running", NEW s \in Subtasks, WorkerSetupFails(s) PROVE LossIsBounded'
  <2>1. PICK before \in 0..1 : EndsAs(s, "failed", FALSE, before)
    BY <1>3 DEF WorkerSetupFails
  <2>2. pc[s] = "queued" /\ phase' = phase /\ "failed" \in Terminal
    BY <1>3 DEF WorkerSetupFails, MayStart, Terminal
  <2> QED
    BY <1>3, <2>1, <2>2, EndLosesFew
<1>4. ASSUME phase = "running", NEW s \in Subtasks, WorkerAnswered(s) PROVE LossIsBounded'
  <2>1. PICK status \in Terminal \ {"timeout"} : EndsAs(s, status, StartedFlag(status), 0)
    BY <1>4 DEF WorkerAnswered
  <2>2. phase' = phase /\ 0 \in 0..1 /\ 0 # 1
    BY <1>4 DEF WorkerAnswered
  <2> QED
    BY <1>4, <2>1, <2>2, EndLosesFew DEF StartedFlag
<1>5. ASSUME phase = "running", NEW s \in Subtasks, WorkerTimesOut(s) PROVE LossIsBounded'
  <2>1. phase' = phase /\ EndsAs(s, "timeout", StartedFlag("timeout"), 0)
    BY <1>5 DEF WorkerTimesOut
  <2>2. "timeout" \in Terminal /\ 0 \in 0..1 /\ 0 # 1
    BY DEF Terminal
  <2> QED
    BY <1>5, <2>1, <2>2, EndLosesFew DEF StartedFlag
<1> QED
  BY <1>1, <1>2, <1>3, <1>4, <1>5, OthersLoseFew DEF Next, Starts

LEMMA LossStarts == Init => LossIsBounded
<1> SUFFICES ASSUME Init PROVE LossIsBounded
  OBVIOUS
<1>1. lost = 0 /\ Len(results) = 0 /\ phase = "running"
  BY DEF Init
<1> QED
  BY <1>1, BegunCounts DEF LossIsBounded

LEMMA SwarmTyped == SwarmInv /\ LossIsBounded => TypeOK
<1> SUFFICES ASSUME SwarmInv, LossIsBounded PROVE TypeOK
  OBVIOUS
<1>1. SwarmTypes /\ ResultsOfWorkers /\ OneClock
  BY DEF SwarmInv
<1>2. Len(results) \in Nat /\ Len(results) <= Planned
  BY <1>1, FewResults, LenProperties DEF SwarmTypes, ResultsOfWorkers
<1>3. lost \in 0..(2 * Planned + 1)
  BY <1>1, <1>2, BegunCounts, PlanIsFinite DEF LossIsBounded, SwarmTypes
<1>4. age \in [Subtasks -> 0..WorkerTimeout]
  BY <1>1, SwarmAssumption DEF SwarmTypes, OneClock
<1> QED
  BY <1>1, <1>2, <1>3, <1>4 DEF SwarmTypes, TypeOK, Planned

\* Every variable stays within its type, the counters within their bounds.
THEOREM SwarmTypeCorrect == Spec => []TypeOK
BY LossStarts, SwarmTyped, LossStep, SwarmInvariant, PTL DEF Spec

===============================================================================
