---------------------------- MODULE TaskGateProofs ----------------------------
(***************************************************************************)
(* Theorems about the completion gates, for any messages of the owner, any *)
(* offers and batches of calls, and any limits.                            *)
(***************************************************************************)
EXTENDS TaskGate, RunningValues, SequenceTheorems

ReadsType == [called : BOOLEAN, successful : BOOLEAN]
TurnType == [plan : PlanTools \cup {"none"}, open : BOOLEAN, fired : Nat,
             progress : BOOLEAN, acted : BOOLEAN, view : Views \cup {"none"},
             repeated : 0..3, reads : ReadsType]

SiteType == {"none", "dirty", "typecheck_failed", "clean"}
Unresolved == {"dirty", "typecheck_failed"}

-------------------------------------------------------------------------------
(* What a turn becomes with the calls of a batch and the answers to it.       *)

LEMMA OneCall ==
    ASSUME NEW t \in TurnType, NEW call \in Calls
    PROVE  /\ AfterCall(t, call) \in TurnType
           /\ AfterCall(t, call).reads = t.reads
           /\ AfterCall(t, call).fired =
                IF call.gate /\ graph = "native" THEN t.fired + 1 ELSE t.fired
           /\ AfterCall(t, call).progress <=>
                ~(call.gate /\ graph = "native") /\ (t.progress \/ call.tool \notin Bookkeeping)
<1> DEFINE own == call.gate /\ graph = "native"
           works == ~own /\ (t.progress \/ call.tool \notin Bookkeeping)
           plan == IF call.tool \in PlanTools THEN call.tool ELSE t.plan
           open == IF call.tool \in PlanTools THEN call.open ELSE t.open
           fired == IF own THEN t.fired + 1 ELSE t.fired
<1>1. AfterCall(t, call) = [t EXCEPT !.acted = TRUE, !.plan = plan, !.open = open,
                                     !.fired = fired, !.progress = works]
  BY DEF AfterCall
<1>2. works \in BOOLEAN /\ plan \in PlanTools \cup {"none"} /\ open \in BOOLEAN /\ fired \in Nat
  BY DEF TurnType, Calls
<1> HIDE DEF works, plan, open, fired
<1>3. AfterCall(t, call) \in TurnType
  BY <1>1, <1>2 DEF TurnType
<1>4. /\ AfterCall(t, call).reads = t.reads
      /\ AfterCall(t, call).fired = fired /\ AfterCall(t, call).progress = works
  BY <1>1 DEF TurnType
<1> QED
  BY <1>2, <1>3, <1>4 DEF works, fired

LEMMA OneAnswer ==
    ASSUME NEW t \in TurnType, NEW tool, NEW answer, IsView(tool) => answer \in Views
    PROVE  /\ AfterAnswer(t, tool, answer) \in TurnType
           /\ AfterAnswer(t, tool, answer).fired = t.fired
           /\ AfterAnswer(t, tool, answer).progress = t.progress
           /\ AfterAnswer(t, tool, answer).reads = ReadsAfter(t.reads, tool, answer)
<1> DEFINE reads == ReadsAfter(t.reads, tool, answer)
           seen == [t EXCEPT !.reads = reads]
           repeated == IF t.view # answer THEN 1 ELSE IF t.repeated < 3 THEN t.repeated + 1 ELSE 3
<1>1. reads \in ReadsType /\ repeated \in 0..3
  <2> DEFINE successful == t.reads.successful \/ answer = "state"
  <2>1. successful \in BOOLEAN /\ t.reads \in ReadsType
    BY DEF TurnType
  <2>2. reads = IF tool # "status" THEN t.reads ELSE [called |-> TRUE, successful |-> successful]
    BY DEF ReadsAfter
  <2> HIDE DEF successful, reads
  <2>3. reads \in ReadsType
    BY <2>1, <2>2 DEF ReadsType
  <2> QED
    BY <2>3 DEF TurnType
<1> HIDE DEF reads
<1>2. /\ seen \in TurnType /\ seen.reads = reads /\ seen.fired = t.fired
      /\ seen.progress = t.progress /\ seen.repeated = t.repeated
  BY <1>1 DEF TurnType
<1> HIDE DEF repeated, seen
<1>3. AfterAnswer(t, tool, answer) =
        IF IsView(tool) THEN [seen EXCEPT !.view = answer, !.repeated = repeated] ELSE seen
  BY <1>2 DEF AfterAnswer, reads, repeated, seen
<1> DEFINE viewed == [seen EXCEPT !.view = answer, !.repeated = repeated]
<1>4. ASSUME answer \in Views
      PROVE  /\ viewed \in TurnType /\ viewed.fired = seen.fired
             /\ viewed.progress = seen.progress /\ viewed.reads = seen.reads
  BY <1>1, <1>2, <1>4 DEF TurnType
<1> HIDE DEF viewed
<1> QED
  BY <1>2, <1>3, <1>4 DEF reads, viewed

LEMMA OneAnswerOnSite ==
    ASSUME NEW s \in SiteType, NEW tool, NEW answer, IsView(tool) => answer \in Views
    PROVE  /\ SiteAfter(s, tool, answer) \in SiteType
           /\ tool = "site_write" => SiteAfter(s, tool, answer) = "dirty"
           /\ s \in Unresolved /\ ~(IsView(tool) /\ answer \in {"passed", "cancelled"}) =>
                SiteAfter(s, tool, answer) \in Unresolved
BY DEF SiteAfter, SiteType, Unresolved, IsView, Views

\* The recursive function that goes through the calls of a batch is what it says.
LEMMA CallsOneByOne ==
    ASSUME turn \in TurnType, NEW calls \in Seq(Calls)
    PROVE  \E f : /\ AfterCalls(calls) = f[Len(calls)] /\ f[0] = turn
                  /\ \A k \in 1..Len(calls) : f[k] = AfterCall(f[k - 1], calls[k])
<1> DEFINE n == Len(calls)
           step == [k \in 1..n |-> [t \in TurnType |-> AfterCall(t, calls[k])]]
<1>1. n \in Nat /\ \A k \in 1..n : calls[k] \in Calls
  BY LenProperties, ElementOfSeq
<1>2. step \in StepsIn(TurnType, n)
  BY <1>1, OneCall DEF StepsIn
<1> HIDE DEF n
<1>3. PICK g : Computed(g, TurnType, n, turn, step)
  <2>1. n \in Nat
    BY <1>1
  <2> HIDE DEF step
  <2> QED
    BY <1>2, <2>1, RunningValuesExist
<1>4. g \in [0..n -> TurnType] /\ g[0] = turn /\ \A k \in 1..n : g[k] = step[k][g[k - 1]]
  BY <1>3 DEF Computed
<1>5. g = [k \in 0..n |-> IF k = 0 THEN turn ELSE AfterCall(g[k - 1], calls[k])]
  <2>1. \A k \in 1..n : g[k - 1] \in TurnType
    BY <1>1, <1>4
  <2>2. \A k \in 1..n : g[k] = AfterCall(g[k - 1], calls[k])
    BY <1>4, <2>1
  <2> QED
    BY <1>1, <1>4, <2>2
<1> DEFINE f == CHOOSE h : h = [k \in 0..n |-> IF k = 0 THEN turn ELSE AfterCall(h[k - 1], calls[k])]
<1>6. f = [k \in 0..n |-> IF k = 0 THEN turn ELSE AfterCall(f[k - 1], calls[k])]
  BY <1>5
<1>7. AfterCalls(calls) = f[n]
  BY DEF AfterCalls, n
<1> HIDE DEF f
<1>8. f[0] = turn /\ \A k \in 1..n : f[k] = AfterCall(f[k - 1], calls[k])
  BY <1>1, <1>6
<1> QED
  BY <1>7, <1>8 DEF n

\* Calls the model makes leave the count of the gates alone; progress comes from work.
LEMMA CallsOfBatch ==
    ASSUME turn \in TurnType, NEW calls \in Seq(Calls)
    PROVE  /\ AfterCalls(calls) \in TurnType
           /\ AfterCalls(calls).reads = turn.reads
           /\ (\A k \in 1..Len(calls) : ~(calls[k].gate /\ graph = "native")) =>
                /\ AfterCalls(calls).fired = turn.fired
                /\ AfterCalls(calls).progress =>
                     turn.progress \/ \E k \in 1..Len(calls) : calls[k].tool \notin Bookkeeping
<1>1. PICK f : /\ AfterCalls(calls) = f[Len(calls)] /\ f[0] = turn
               /\ \A k \in 1..Len(calls) : f[k] = AfterCall(f[k - 1], calls[k])
  BY CallsOneByOne
<1>2. Len(calls) \in Nat /\ \A k \in 1..Len(calls) : calls[k] \in Calls
  BY LenProperties, ElementOfSeq
<1> DEFINE worked == turn.progress \/ \E k \in 1..Len(calls) : calls[k].tool \notin Bookkeeping
           ours == \A k \in 1..Len(calls) : ~(calls[k].gate /\ graph = "native")
           Reached == {t \in TurnType : /\ t.reads = turn.reads
                                        /\ ours => t.fired = turn.fired /\ (t.progress => worked)}
<1>3. f[0] \in Reached
  BY <1>1
<1>4. ASSUME NEW k \in 1..Len(calls), f[k - 1] \in Reached PROVE f[k] \in Reached
  <2>1. f[k] = AfterCall(f[k - 1], calls[k]) /\ f[k - 1] \in TurnType /\ calls[k] \in Calls
    BY <1>1, <1>2, <1>4
  <2> DEFINE t == f[k - 1]
             call == calls[k]
  <2>2. /\ AfterCall(t, call) \in TurnType
        /\ AfterCall(t, call).reads = t.reads
        /\ AfterCall(t, call).fired =
             IF call.gate /\ graph = "native" THEN t.fired + 1 ELSE t.fired
        /\ AfterCall(t, call).progress <=>
             ~(call.gate /\ graph = "native") /\ (t.progress \/ call.tool \notin Bookkeeping)
    BY <2>1, OneCall
  <2>3. call.tool \notin Bookkeeping => worked
    OBVIOUS
  <2>4. ours => ~(call.gate /\ graph = "native")
    OBVIOUS
  <2>5. t.reads = turn.reads /\ (ours => t.fired = turn.fired /\ (t.progress => worked))
    BY <1>4
  <2> HIDE DEF worked, ours, t, call
  <2>6. AfterCall(t, call) \in Reached
    BY <2>2, <2>3, <2>4, <2>5
  <2> QED
    BY <2>1, <2>6 DEF t, call
<1> HIDE DEF Reached
<1>5. \A k \in 0..Len(calls) : f[k] \in Reached
  BY <1>2, <1>3, <1>4, RunningStays
<1>6. AfterCalls(calls) \in Reached
  BY <1>1, <1>2, <1>5
<1> QED
  BY <1>6 DEF Reached

\* The call of a gate counts, and asks for new work.
LEMMA CallOfGate ==
    ASSUME turn \in TurnType, NEW call \in Calls, call.gate, graph = "native"
    PROVE  /\ AfterCalls(<<call>>).fired = turn.fired + 1
           /\ ~AfterCalls(<<call>>).progress
<1>1. <<call>> \in Seq(Calls) /\ Len(<<call>>) = 1 /\ <<call>>[1] = call
  OBVIOUS
<1>2. AfterCalls(<<call>>) = AfterCall(turn, call)
  <2> DEFINE calls == <<call>>
  <2>1. calls \in Seq(Calls) /\ Len(calls) = 1 /\ calls[1] = call
    BY <1>1
  <2> HIDE DEF calls
  <2>2. PICK f : /\ AfterCalls(calls) = f[Len(calls)] /\ f[0] = turn
                 /\ \A k \in 1..Len(calls) : f[k] = AfterCall(f[k - 1], calls[k])
    BY <2>1, CallsOneByOne
  <2>3. f[1] = AfterCall(f[0], call)
    BY <2>1, <2>2
  <2> QED
    BY <2>1, <2>2, <2>3 DEF calls
<1> QED
  BY <1>2, OneCall

\* The answers to a batch, each with its tool.
Seen == {p \in (External \cup Native) \X UNION {AnswersOf(c.tool) : c \in Calls} :
            p[2] \in AnswersOf(p[1])}

LEMMA SeenViews ==
    ASSUME NEW seen \in Seq(Seen), NEW k \in 1..Len(seen)
    PROVE  IsView(seen[k][1]) => seen[k][2] \in Views
<1>1. seen[k] \in Seen
  BY ElementOfSeq
<1>2. seen[k][2] \in AnswersOf(seen[k][1])
  BY <1>1 DEF Seen
<1> QED
  BY <1>2 DEF AnswersOf, IsView

\* So is the one that goes through the answers ...
LEMMA AnswersOneByOne ==
    ASSUME turn \in TurnType, NEW seen \in Seq(Seen)
    PROVE  \E f : /\ AfterAnswers(seen) = f[Len(seen)] /\ f[0] = turn
                  /\ \A k \in 1..Len(seen) : f[k] = AfterAnswer(f[k - 1], seen[k][1], seen[k][2])
<1> DEFINE n == Len(seen)
           step == [k \in 1..n |-> [t \in TurnType |-> AfterAnswer(t, seen[k][1], seen[k][2])]]
<1>1. n \in Nat /\ \A k \in 1..n : IsView(seen[k][1]) => seen[k][2] \in Views
  BY LenProperties, SeenViews
<1>2. step \in StepsIn(TurnType, n)
  BY <1>1, OneAnswer DEF StepsIn
<1> HIDE DEF n
<1>3. PICK g : Computed(g, TurnType, n, turn, step)
  <2>1. n \in Nat
    BY <1>1
  <2> HIDE DEF step
  <2> QED
    BY <1>2, <2>1, RunningValuesExist
<1>4. g \in [0..n -> TurnType] /\ g[0] = turn /\ \A k \in 1..n : g[k] = step[k][g[k - 1]]
  BY <1>3 DEF Computed
<1>5. g = [k \in 0..n |-> IF k = 0 THEN turn ELSE AfterAnswer(g[k - 1], seen[k][1], seen[k][2])]
  <2>1. \A k \in 1..n : g[k - 1] \in TurnType
    BY <1>1, <1>4
  <2>2. \A k \in 1..n : g[k] = AfterAnswer(g[k - 1], seen[k][1], seen[k][2])
    BY <1>4, <2>1
  <2>3. \A k \in 0..n : g[k] = IF k = 0 THEN turn ELSE AfterAnswer(g[k - 1], seen[k][1], seen[k][2])
    BY <1>1, <1>4, <2>2
  <2>4. g \in [0..n -> TurnType]
    BY <1>4
  <2> QED
    BY <2>3, <2>4
<1> DEFINE f == CHOOSE h :
             h = [k \in 0..n |-> IF k = 0 THEN turn ELSE AfterAnswer(h[k - 1], seen[k][1], seen[k][2])]
<1>6. f = [k \in 0..n |-> IF k = 0 THEN turn ELSE AfterAnswer(f[k - 1], seen[k][1], seen[k][2])]
  BY <1>5
<1>7. AfterAnswers(seen) = f[n]
  BY DEF AfterAnswers, n
<1> HIDE DEF f
<1>8. f[0] = turn /\ \A k \in 1..n : f[k] = AfterAnswer(f[k - 1], seen[k][1], seen[k][2])
  BY <1>1, <1>6
<1> QED
  BY <1>7, <1>8 DEF n

\* Answers bring no progress; a successful status read is one of them or came before.
LEMMA AnswersOfBatch ==
    ASSUME turn \in TurnType, NEW seen \in Seq(Seen)
    PROVE  /\ AfterAnswers(seen) \in TurnType
           /\ AfterAnswers(seen).fired = turn.fired
           /\ AfterAnswers(seen).progress = turn.progress
           /\ AfterAnswers(seen).reads.successful =>
                \/ turn.reads.successful
                \/ \E k \in 1..Len(seen) : seen[k][1] = "status" /\ seen[k][2] = "state"
<1>1. PICK f : /\ AfterAnswers(seen) = f[Len(seen)] /\ f[0] = turn
               /\ \A k \in 1..Len(seen) : f[k] = AfterAnswer(f[k - 1], seen[k][1], seen[k][2])
  BY AnswersOneByOne
<1>2. Len(seen) \in Nat /\ \A k \in 1..Len(seen) : IsView(seen[k][1]) => seen[k][2] \in Views
  BY LenProperties, SeenViews
<1> DEFINE read == \/ turn.reads.successful
                   \/ \E k \in 1..Len(seen) : seen[k][1] = "status" /\ seen[k][2] = "state"
           Reached == {t \in TurnType : /\ t.fired = turn.fired /\ t.progress = turn.progress
                                        /\ t.reads.successful => read}
<1>3. f[0] \in Reached
  BY <1>1
<1>4. ASSUME NEW k \in 1..Len(seen), f[k - 1] \in Reached PROVE f[k] \in Reached
  <2> DEFINE t == f[k - 1]
             tool == seen[k][1]
             answer == seen[k][2]
             now == AfterAnswer(t, tool, answer)
  <2>1. f[k] = now /\ t \in TurnType
    BY <1>1, <1>4
  <2>2. /\ now \in TurnType /\ now.fired = t.fired /\ now.progress = t.progress
        /\ now.reads = ReadsAfter(t.reads, tool, answer)
    BY <1>2, <2>1, OneAnswer
  <2>3. tool = "status" /\ answer = "state" => read
    OBVIOUS
  <2>4. t.fired = turn.fired /\ t.progress = turn.progress /\ (t.reads.successful => read)
    BY <1>4
  <2> HIDE DEF read, t, tool, answer, now
  <2>5. ReadsAfter(t.reads, tool, answer).successful => read
    BY <2>3, <2>4 DEF ReadsAfter
  <2> QED
    BY <2>1, <2>2, <2>4, <2>5
<1> HIDE DEF Reached
<1>5. \A k \in 0..Len(seen) : f[k] \in Reached
  BY <1>2, <1>3, <1>4, RunningStays
<1>6. AfterAnswers(seen) \in Reached
  BY <1>1, <1>2, <1>5
<1> QED
  BY <1>6 DEF Reached

\* ... and the one that follows the site copy through them.
LEMMA SiteOneByOne ==
    ASSUME site \in SiteType, NEW seen \in Seq(Seen)
    PROVE  \E f : /\ SiteAfterAnswers(seen) = f[Len(seen)] /\ f[0] = site
                  /\ \A k \in 1..Len(seen) : f[k] = SiteAfter(f[k - 1], seen[k][1], seen[k][2])
<1> DEFINE n == Len(seen)
           step == [k \in 1..n |-> [t \in SiteType |-> SiteAfter(t, seen[k][1], seen[k][2])]]
<1>1. n \in Nat /\ \A k \in 1..n : IsView(seen[k][1]) => seen[k][2] \in Views
  BY LenProperties, SeenViews
<1>2. step \in StepsIn(SiteType, n)
  BY <1>1, OneAnswerOnSite DEF StepsIn
<1> HIDE DEF n
<1>3. PICK g : Computed(g, SiteType, n, site, step)
  <2>1. n \in Nat
    BY <1>1
  <2> HIDE DEF step
  <2> QED
    BY <1>2, <2>1, RunningValuesExist
<1>4. g \in [0..n -> SiteType] /\ g[0] = site /\ \A k \in 1..n : g[k] = step[k][g[k - 1]]
  BY <1>3 DEF Computed
<1>5. g = [k \in 0..n |-> IF k = 0 THEN site ELSE SiteAfter(g[k - 1], seen[k][1], seen[k][2])]
  <2>1. \A k \in 1..n : g[k - 1] \in SiteType
    BY <1>1, <1>4
  <2>2. \A k \in 1..n : g[k] = SiteAfter(g[k - 1], seen[k][1], seen[k][2])
    BY <1>4, <2>1
  <2>3. \A k \in 0..n : g[k] = IF k = 0 THEN site ELSE SiteAfter(g[k - 1], seen[k][1], seen[k][2])
    BY <1>1, <1>4, <2>2
  <2>4. g \in [0..n -> SiteType]
    BY <1>4
  <2> QED
    BY <2>3, <2>4
<1> DEFINE f == CHOOSE h :
             h = [k \in 0..n |-> IF k = 0 THEN site ELSE SiteAfter(h[k - 1], seen[k][1], seen[k][2])]
<1>6. f = [k \in 0..n |-> IF k = 0 THEN site ELSE SiteAfter(f[k - 1], seen[k][1], seen[k][2])]
  BY <1>5
<1>7. SiteAfterAnswers(seen) = f[n]
  BY DEF SiteAfterAnswers, n
<1> HIDE DEF f
<1>8. f[0] = site /\ \A k \in 1..n : f[k] = SiteAfter(f[k - 1], seen[k][1], seen[k][2])
  BY <1>1, <1>6
<1> QED
  BY <1>7, <1>8 DEF n

\* A copy that was written, or open already, stays open unless a check came back passed or
\* the job was cancelled.
LEMMA SiteOfBatch ==
    ASSUME site \in SiteType, NEW seen \in Seq(Seen)
    PROVE  /\ SiteAfterAnswers(seen) \in SiteType
           /\ /\ site \in Unresolved \/ \E k \in 1..Len(seen) : seen[k][1] = "site_write"
              /\ \A k \in 1..Len(seen) : ~(IsView(seen[k][1]) /\ seen[k][2] \in {"passed", "cancelled"})
              => SiteAfterAnswers(seen) \in Unresolved
<1>1. PICK f : /\ SiteAfterAnswers(seen) = f[Len(seen)] /\ f[0] = site
               /\ \A k \in 1..Len(seen) : f[k] = SiteAfter(f[k - 1], seen[k][1], seen[k][2])
  BY SiteOneByOne
<1>2. Len(seen) \in Nat /\ \A k \in 1..Len(seen) : IsView(seen[k][1]) => seen[k][2] \in Views
  BY LenProperties, SeenViews
<1>3. ASSUME NEW from \in 0..Len(seen),
             from = 0 => site \in Unresolved,
             from # 0 => seen[from][1] = "site_write",
             \A k \in 1..Len(seen) : ~(IsView(seen[k][1]) /\ seen[k][2] \in {"passed", "cancelled"})
      PROVE  f[Len(seen)] \in Unresolved
  <2> DEFINE Reached == {p \in Nat \X SiteType : p[1] >= from => p[2] \in Unresolved}
             g == [k \in 0..Len(seen) |-> <<k, f[k]>>]
  <2>1. g[0] \in Reached
    BY <1>1, <1>2, <1>3
  <2>2. ASSUME NEW k \in 1..Len(seen), g[k - 1] \in Reached PROVE g[k] \in Reached
    <3> DEFINE s == f[k - 1]
               tool == seen[k][1]
               answer == seen[k][2]
    <3>1. k - 1 \in 0..Len(seen) /\ k \in 0..Len(seen) /\ k \in Nat
      BY <1>2
    <3>2. s \in SiteType /\ (k - 1 >= from => s \in Unresolved)
      BY <2>2, <3>1
    <3>3. f[k] = SiteAfter(s, tool, answer)
      BY <1>1
    <3>4. /\ SiteAfter(s, tool, answer) \in SiteType
          /\ tool = "site_write" => SiteAfter(s, tool, answer) = "dirty"
          /\ s \in Unresolved /\ ~(IsView(tool) /\ answer \in {"passed", "cancelled"}) =>
               SiteAfter(s, tool, answer) \in Unresolved
      BY <1>2, <3>2, OneAnswerOnSite
    <3>5. k >= from => k - 1 >= from \/ tool = "site_write"
      BY <1>2, <1>3
    <3>6. ~(IsView(tool) /\ answer \in {"passed", "cancelled"})
      BY <1>3
    <3>7. "dirty" \in Unresolved
      BY DEF Unresolved
    <3> HIDE DEF s, tool, answer
    <3>8. f[k] \in SiteType /\ (k >= from => f[k] \in Unresolved)
      BY <3>2, <3>3, <3>4, <3>5, <3>6, <3>7
    <3> QED
      BY <3>1, <3>8
  <2> HIDE DEF Reached, g
  <2>3. \A k \in 0..Len(seen) : g[k] \in Reached
    BY <1>2, <2>1, <2>2, RunningStays
  <2>4. g[Len(seen)] \in Reached /\ g[Len(seen)] = <<Len(seen), f[Len(seen)]>>
    BY <1>2, <2>3 DEF g
  <2>5. Len(seen) >= from
    BY <1>2
  <2> QED
    BY <2>4, <2>5 DEF Reached
<1>4. f[Len(seen)] \in SiteType
  <2>1. \A k \in 1..Len(seen) : f[k - 1] \in SiteType => f[k] \in SiteType
    BY <1>1, <1>2, OneAnswerOnSite
  <2>2. \A k \in 0..Len(seen) : f[k] \in SiteType
    BY <1>1, <1>2, <2>1, RunningStays
  <2> QED
    BY <1>2, <2>2
<1>5. ASSUME \A k \in 1..Len(seen) : ~(IsView(seen[k][1]) /\ seen[k][2] \in {"passed", "cancelled"}),
             site \in Unresolved \/ \E k \in 1..Len(seen) : seen[k][1] = "site_write"
      PROVE  f[Len(seen)] \in Unresolved
  <2>1. CASE site \in Unresolved
    <3>1. 0 \in 0..Len(seen)
      BY <1>2
    <3> QED
      BY <1>3, <1>5, <2>1, <3>1
  <2>2. CASE \E k \in 1..Len(seen) : seen[k][1] = "site_write"
    <3>1. PICK k \in 1..Len(seen) : seen[k][1] = "site_write"
      BY <2>2
    <3>2. k \in 0..Len(seen) /\ k # 0
      BY <1>2
    <3> QED
      BY <1>3, <1>5, <3>1, <3>2
  <2> QED
    BY <1>5, <2>1, <2>2
<1> QED
  BY <1>1, <1>4, <1>5

-------------------------------------------------------------------------------
(* What a result becomes on its way through the gates.                        *)

Endings == {"stop", "cut", "blocked"}
Labels == {"none", "incident_first_action_required", "site_typecheck_required",
           "site_explicit_typecheck_required", "site_typecheck_failed", "site_executor_stalled",
           "site_executor_verified", "failed_verification_preserved",
           "native_verification_required", "open_plan_continue", "open_plan_released"}
Result == [calls : Seq(Calls), text : Texts, ending : Endings, label : Labels]

LEMMA InsteadShape ==
    ASSUME NEW r \in Result, NEW call \in Calls, NEW label \in Labels
    PROVE  /\ Instead(r, call, label) \in Result
           /\ Instead(r, call, label).calls = <<call>>
           /\ Instead(r, call, label).label = label
           /\ Instead(r, call, label).text = "system"
           /\ Instead(r, call, label).ending = r.ending
<1>1. <<call>> \in Seq(Calls) /\ "system" \in Texts
  BY DEF Texts
<1> QED
  BY <1>1 DEF Instead, Result

LEMMA RefusalShape ==
    ASSUME NEW r \in Result, NEW label \in Labels
    PROVE  /\ Refusal(r, label) \in Result
           /\ Refusal(r, label).calls = <<>>
           /\ Refusal(r, label).label = label
           /\ Refusal(r, label).text = "system"
<1>1. <<>> \in Seq(Calls) /\ "system" \in Texts /\ {"cut", "blocked"} \subseteq Endings
  BY DEF Texts, Endings
<1> QED
  BY <1>1 DEF Refusal, Result

LEMMA LabelShape ==
    ASSUME NEW r \in Result, NEW label \in Labels
    PROVE  /\ [r EXCEPT !.label = label] \in Result
           /\ [r EXCEPT !.label = label].calls = r.calls
           /\ [r EXCEPT !.label = label].label = label
           /\ [r EXCEPT !.label = label].text = r.text
           /\ [r EXCEPT !.label = label].ending = r.ending
BY DEF Result

\* The one call of the gate on an open plan, within its limits.
Continues(r) == r.label = "open_plan_continue" /\ r.calls # <<>>
GateCallAlone(r) == /\ Len(r.calls) = 1 /\ r.calls[1].gate
                    /\ r.calls[1].tool \in Bookkeeping
                    /\ ~Exhausted(turn)

\* What holds of a result behind the gates: a text of the model ends a turn only where
\* neither a failed verification nor an open site copy speaks against it.
Passed(r) ==
    /\ r \in Result
    /\ r.ending = "blocked" => r.text = "system"
    /\ graph = "legacy" => \A k \in 1..Len(r.calls) : r.calls[k].tool \notin Native
    /\ Continues(r) => GateCallAlone(r)
    /\ ~Continues(r) => \A k \in 1..Len(r.calls) : ~r.calls[k].gate
    /\ r.calls = <<>> /\ r.text # "system" =>
         /\ contract.status = "blocked" => site = "clean"
         /\ r.ending = "stop" /\ ~ask.control /\ ~Disabled => site \notin Unresolved

\* What the pipeline makes of a result before the gates see it.
FromModel(r) ==
    /\ r \in Result /\ r.label = "none"
    /\ r.ending = "blocked" => r.text = "system"
    /\ graph = "legacy" => \A k \in 1..Len(r.calls) : r.calls[k].tool \notin Native
    /\ \A k \in 1..Len(r.calls) : ~r.calls[k].gate

LEMMA ModelAnswers ==
    ASSUME NEW a \in Results
    PROVE  /\ a \in Result /\ a.label = "none"
           /\ a.ending = "blocked" => a.text = "system"
           /\ \A k \in 1..Len(a.calls) : ~a.calls[k].gate
<1>1. /\ \A b \in Batches : b \in Seq(Calls) /\ \A k \in 1..Len(b) : ~b[k].gate
      /\ <<>> \in Seq(Calls) /\ Len(<<>>) = 0
      /\ {"plain", "claim", "system"} \subseteq Texts
  BY TaskGateAssumption, LenProperties DEF Texts
<1>2. \/ \E b \in Batches, e \in {"stop", "cut"} :
            a = [calls |-> b, text |-> "plain", ending |-> e, label |-> "none"]
      \/ \E t \in {"plain", "claim"}, e \in {"stop", "cut"} :
            a = [calls |-> <<>>, text |-> t, ending |-> e, label |-> "none"]
      \/ a = [calls |-> <<>>, text |-> "system", ending |-> "blocked", label |-> "none"]
  BY DEF Results
<1>3. ASSUME NEW b \in Batches, NEW e \in {"stop", "cut"},
             a = [calls |-> b, text |-> "plain", ending |-> e, label |-> "none"]
      PROVE  /\ a \in Result /\ a.label = "none" /\ a.ending # "blocked"
             /\ \A k \in 1..Len(a.calls) : ~a.calls[k].gate
  <2>1. a.calls = b /\ a.label = "none" /\ a.ending = e
    BY <1>3
  <2>2. a \in Result
    BY <1>1, <1>3 DEF Result, Endings, Labels
  <2> QED
    BY <1>1, <2>1, <2>2
<1>4. ASSUME NEW t \in {"plain", "claim", "system"}, NEW e \in Endings,
             e = "blocked" => t = "system",
             a = [calls |-> <<>>, text |-> t, ending |-> e, label |-> "none"]
      PROVE  /\ a \in Result /\ a.label = "none"
             /\ a.ending = "blocked" => a.text = "system"
             /\ \A k \in 1..Len(a.calls) : ~a.calls[k].gate
  <2>1. a.calls = <<>> /\ a.label = "none" /\ a.ending = e /\ a.text = t
    BY <1>4
  <2>2. a \in Result
    BY <1>1, <1>4 DEF Result, Labels
  <2> QED
    BY <1>1, <1>4, <2>1, <2>2
<1> QED
  BY <1>2, <1>3, <1>4 DEF Endings

LEMMA ValidatedAnswers ==
    ASSUME NEW a \in Results, offer \in Offers
    PROVE  FromModel(Validated(a))
<1> DEFINE offered(c) == c.tool \in offer \/ (c.tool \in Native /\ graph = "native")
           bare == [a EXCEPT !.calls = <<>>]
           told == [a EXCEPT !.calls = <<>>, !.text = "system"]
<1>1. /\ a \in Result /\ a.label = "none"
      /\ a.ending = "blocked" => a.text = "system"
      /\ \A k \in 1..Len(a.calls) : ~a.calls[k].gate
  BY ModelAnswers
<1>2. offer \subseteq External
  BY TaskGateAssumption
<1>3. <<>> \in Seq(Calls) /\ Len(<<>>) = 0 /\ "system" \in Texts
  BY DEF Texts
<1>4. FromModel(bare) /\ FromModel(told)
  <2>1. /\ bare \in Result /\ bare.calls = <<>> /\ bare.label = a.label
        /\ bare.ending = a.ending /\ bare.text = a.text
    BY <1>1, <1>3 DEF Result
  <2>2. /\ told \in Result /\ told.calls = <<>> /\ told.label = a.label
        /\ told.text = "system"
    BY <1>1, <1>3 DEF Result
  <2> HIDE DEF bare, told
  <2> QED
    BY <1>1, <1>3, <2>1, <2>2 DEF FromModel
<1>5. a.calls \in Seq(Calls) /\ DOMAIN a.calls = 1..Len(a.calls) /\ Len(a.calls) \in Nat
  BY <1>1, LenProperties DEF Result
<1>6. ASSUME \A k \in DOMAIN a.calls : offered(a.calls[k]) PROVE FromModel(a)
  BY <1>1, <1>2, <1>5, <1>6 DEF FromModel, Native, External
<1>7. a.calls = <<>> => FromModel(a)
  BY <1>1, <1>3 DEF FromModel
<1>8. \/ Validated(a) = bare \/ Validated(a) = told
      \/ Validated(a) = a /\ (a.calls = <<>> \/ \A k \in DOMAIN a.calls : offered(a.calls[k]))
  BY DEF Validated
<1> QED
  BY <1>4, <1>6, <1>7, <1>8

\* A refusal passes, and so does a call of the gates' own, but for the one that continues.
LEMMA RefusalPasses ==
    ASSUME NEW r \in Result, NEW label \in Labels
    PROVE  Passed(Refusal(r, label))
<1> DEFINE g == Refusal(r, label)
<1>1. g \in Result /\ g.calls = <<>> /\ g.text = "system"
  BY RefusalShape
<1>2. Len(<<>>) = 0
  OBVIOUS
<1> HIDE DEF g
<1>3. Passed(g)
  BY <1>1, <1>2 DEF Passed, Continues
<1> QED
  BY <1>3 DEF g

\* So does what the check of the gates' own call leaves of a result that passes.
LEMMA RecheckedPasses ==
    ASSUME NEW v \in Result, NEW r, Passed(r), NEW g \in Rechecked(v, r)
    PROVE  Passed(g)
<1>1. r \in Result /\ r.label \in Labels
  BY DEF Passed, Result
<1>2. g = r \/ g = Refusal(r, r.label)
  BY DEF Rechecked
<1> QED
  BY <1>1, <1>2, RefusalPasses

LEMMA InsteadPasses ==
    ASSUME NEW r \in Result, r.ending = "stop", NEW call \in Calls, ~call.gate,
           call.tool \in External, NEW label \in Labels, label # "open_plan_continue"
    PROVE  Passed(Instead(r, call, label))
<1> DEFINE g == Instead(r, call, label)
<1>1. /\ g \in Result /\ g.calls = <<call>> /\ g.label = label /\ g.ending = "stop"
  BY InsteadShape
<1>2. Len(<<call>>) = 1 /\ <<call>>[1] = call /\ <<call>> # <<>> /\ call.tool \notin Native
  BY DEF External, Native
<1> HIDE DEF g
<1>3. Passed(g)
  BY <1>1, <1>2 DEF Passed, Continues
<1> QED
  BY <1>3 DEF g

LEMMA PlainCalls ==
    ASSUME NEW tool \in External
    PROVE  Call(tool) \in Calls /\ ~Call(tool).gate /\ Call(tool).tool = tool
BY DEF Call, Calls

\* A result no gate changes, or one that only gets a label.
LEMMA LabelPasses ==
    ASSUME NEW r \in Result, FromModel(r), NEW g \in Result,
           g.calls = r.calls, g.text = r.text, g.ending = r.ending,
           g.label # "open_plan_continue",
           r.calls = <<>> /\ r.text # "system" =>
             /\ contract.status = "blocked" => site = "clean"
             /\ r.ending = "stop" /\ ~ask.control /\ ~Disabled => site \notin Unresolved
    PROVE  Passed(g)
BY DEF Passed, FromModel, Continues

LEMMA SiteGatePasses ==
    ASSUME NEW r \in Result, r.ending = "stop"
    PROVE  Passed(SiteGate(r))
<1>1. \A label \in Labels : Passed(Refusal(r, label))
  BY RefusalPasses
<1>2. \A tool \in External, label \in Labels :
         label # "open_plan_continue" => Passed(Instead(r, Call(tool), label))
  BY InsteadPasses, PlainCalls
<1>3. {"site_status", "site_check"} \subseteq External
  BY DEF External
<1>4. {"site_typecheck_failed", "site_typecheck_required", "site_explicit_typecheck_required",
       "site_executor_stalled"} \subseteq Labels
  BY DEF Labels
<1>5. \/ SiteGate(r) = Refusal(r, "site_typecheck_failed")
      \/ SiteGate(r) = Refusal(r, "site_typecheck_required")
      \/ SiteGate(r) = Instead(r, Call("site_check"), "site_explicit_typecheck_required")
      \/ SiteGate(r) = Refusal(r, "site_executor_stalled")
      \/ SiteGate(r) = Instead(r, Call("site_status"), "site_typecheck_required")
  BY DEF SiteGate
<1> QED
  BY <1>1, <1>2, <1>3, <1>4, <1>5

LEMMA OpenPlanGatePasses ==
    ASSUME NEW r \in Result, FromModel(r), r.ending = "stop", site \notin Unresolved,
           contract.status # "blocked"
    PROVE  Passed(OpenPlanGate(r))
<1>1. CASE OpenPlanGate(r) = r \/ OpenPlanGate(r) = [r EXCEPT !.label = "open_plan_released"]
  <2>1. "open_plan_released" \in Labels /\ "none" # "open_plan_continue"
    BY DEF Labels
  <2>2. /\ OpenPlanGate(r) \in Result /\ OpenPlanGate(r).calls = r.calls
        /\ OpenPlanGate(r).text = r.text /\ OpenPlanGate(r).ending = r.ending
        /\ OpenPlanGate(r).label # "open_plan_continue"
    <3>1. CASE OpenPlanGate(r) = r
      BY <2>1, <3>1 DEF FromModel
    <3>2. CASE OpenPlanGate(r) = [r EXCEPT !.label = "open_plan_released"]
      BY <2>1, <3>2, LabelShape
    <3> QED
      BY <1>1, <3>1, <3>2
  <2> QED
    BY <2>2, LabelPasses
<1>2. ASSUME NEW call \in Calls, call.gate, call.tool \in Bookkeeping, ~Exhausted(turn),
             graph = "legacy" => call.tool \notin Native,
             OpenPlanGate(r) = Instead(r, call, "open_plan_continue")
      PROVE  Passed(OpenPlanGate(r))
  <2> DEFINE g == OpenPlanGate(r)
  <2>1. "open_plan_continue" \in Labels
    BY DEF Labels
  <2>2. /\ g \in Result /\ g.calls = <<call>> /\ g.label = "open_plan_continue"
        /\ g.ending = "stop"
    BY <1>2, <2>1, InsteadShape
  <2>3. Len(<<call>>) = 1 /\ <<call>>[1] = call /\ <<call>> # <<>>
    OBVIOUS
  <2> HIDE DEF g
  <2>4. Passed(g)
    BY <1>2, <2>2, <2>3 DEF Passed, Continues, GateCallAlone
  <2> QED
    BY <2>4 DEF g
<1>3. CASE ~Exhausted(turn) /\ turn.plan = "task_plan" /\ Permitted("task_check")
  <2> DEFINE call == [Call("task_check") EXCEPT !.gate = TRUE]
  <2>1. call \in Calls /\ call.gate /\ call.tool = "task_check"
    BY DEF Call, Calls, External
  <2>2. call.tool \in Bookkeeping /\ call.tool \notin Native
    BY <2>1 DEF Bookkeeping, Native
  <2>3. OpenPlanGate(r) = Instead(r, call, "open_plan_continue")
    BY <1>3 DEF OpenPlanGate
  <2> HIDE DEF call
  <2> QED
    BY <1>2, <1>3, <2>1, <2>2, <2>3
<1>4. CASE /\ ~Exhausted(turn) /\ ~(turn.plan = "task_plan" /\ Permitted("task_check"))
           /\ turn.plan = "todos" /\ NativeOffered
  <2> DEFINE call == [tool |-> "todos", open |-> TRUE, gate |-> TRUE]
  <2>1. call \in Calls /\ call.gate /\ call.tool = "todos"
    BY DEF Calls, Native
  <2>2. call.tool \in Bookkeeping /\ graph # "legacy"
    BY <1>4, <2>1 DEF Bookkeeping, PlanTools, NativeOffered
  <2>3. OpenPlanGate(r) = Instead(r, call, "open_plan_continue")
    BY <1>4 DEF OpenPlanGate
  <2> HIDE DEF call
  <2> QED
    BY <1>2, <1>4, <2>1, <2>2, <2>3
<1> QED
  BY <1>1, <1>3, <1>4 DEF OpenPlanGate

LEMMA GateFinalPasses ==
    ASSUME NEW r \in Result, FromModel(r)
    PROVE  Passed(GateFinal(r))
<1>1. \A label \in Labels : Passed(Refusal(r, label))
  BY RefusalPasses
<1>2. ASSUME NEW tool \in External, NEW label \in Labels, label # "open_plan_continue",
             r.ending = "stop"
      PROVE  Passed(Instead(r, Call(tool), label))
  BY <1>2, InsteadPasses, PlainCalls
<1>3. {"memory", "verify"} \subseteq External
  BY DEF External
<1>4. {"none", "incident_first_action_required", "failed_verification_preserved",
       "site_executor_verified", "native_verification_required"} \subseteq Labels
  BY DEF Labels
<1>5. CASE StartsIncident(r)
  <2>1. r.ending = "stop" /\ GateFinal(r) = Instead(r, Call("memory"), "incident_first_action_required")
    BY <1>5 DEF StartsIncident, Finished, GateFinal
  <2> QED
    BY <1>2, <1>3, <1>4, <2>1
<1>6. CASE ~StartsIncident(r) /\ UncheckedSite(r)
  <2>1. r.ending = "stop" /\ GateFinal(r) = SiteGate(r)
    BY <1>6 DEF UncheckedSite, Finished, GateFinal
  <2> QED
    BY <2>1, SiteGatePasses
<1>7. CASE ~StartsIncident(r) /\ ~UncheckedSite(r) /\ FailedContract(r)
  <2>1. GateFinal(r) = FailedGate(r)
    BY <1>7 DEF GateFinal
  <2>2. CASE site = "clean"
    <3>1. FailedGate(r) = [r EXCEPT !.label = "site_executor_verified"] /\ site \notin Unresolved
      BY <2>2 DEF FailedGate, Unresolved
    <3>2. /\ FailedGate(r) \in Result /\ FailedGate(r).calls = r.calls
          /\ FailedGate(r).text = r.text /\ FailedGate(r).ending = r.ending
          /\ FailedGate(r).label # "open_plan_continue"
      BY <1>4, <3>1, LabelShape
    <3> QED
      BY <2>1, <2>2, <3>1, <3>2, LabelPasses
  <2>3. CASE site # "clean"
    BY <1>1, <1>4, <2>1, <2>3 DEF FailedGate
  <2> QED
    BY <2>2, <2>3
<1> DEFINE free == ~StartsIncident(r) /\ ~UncheckedSite(r) /\ ~FailedContract(r)
<1>8. CASE free /\ VerificationDue(r)
  <2>1. r.ending = "stop" /\ GateFinal(r) = VerifyGate(r)
    BY <1>8 DEF VerificationDue, Finished, GateFinal
  <2>2. \/ VerifyGate(r) = Instead(r, Call("verify"), "native_verification_required")
        \/ VerifyGate(r) = Refusal(r, "none")
    BY DEF VerifyGate
  <2> QED
    BY <1>1, <1>2, <1>3, <1>4, <2>1, <2>2
<1>9. CASE free /\ ~VerificationDue(r) /\ OpenPlan(r)
  <2>1. /\ r.ending = "stop" /\ GateFinal(r) = OpenPlanGate(r)
        /\ site \notin Unresolved /\ contract.status # "blocked"
    BY <1>9 DEF OpenPlan, Finished, GateFinal, UncheckedSite, FailedContract, Unresolved
  <2> QED
    BY <2>1, OpenPlanGatePasses
<1>10. CASE free /\ ~VerificationDue(r) /\ ~OpenPlan(r)
  <2>1. GateFinal(r) = r
    BY <1>10 DEF GateFinal
  <2>2. r.calls = <<>> =>
          /\ contract.status # "blocked"
          /\ r.ending = "stop" /\ ~ask.control /\ ~Disabled => site \notin Unresolved
    BY <1>10 DEF FailedContract, UncheckedSite, Finished, Unresolved
  <2>3. r.label # "open_plan_continue"
    BY DEF FromModel
  <2> QED
    BY <2>1, <2>2, <2>3, LabelPasses
<1> QED
  BY <1>5, <1>6, <1>7, <1>8, <1>9, <1>10

\* The filter behind the gates keeps what they promise, and the common limit.
LEMMA FilteredPasses ==
    ASSUME NEW r, Passed(r)
    PROVE  /\ Passed(Filtered(r))
           /\ graph # "legacy" =>
                \/ Filtered(r).calls = <<>>
                \/ Len(Filtered(r).calls) <= Len(r.calls)
                   /\ ~(issued + native + Len(r.calls) > MaxActions)
<1>1. r \in Result /\ r.calls \in Seq(Calls) /\ r.label \in Labels
  BY DEF Passed, Result
<1>2. Len(r.calls) \in Nat /\ DOMAIN r.calls = 1..Len(r.calls)
  BY <1>1, LenProperties
<1>3. CASE /\ Filtered(r) = r
           /\ graph # "legacy" => ~(issued + native + Len(r.calls) > MaxActions)
  BY <1>2, <1>3
<1>4. CASE Filtered(r) = Refusal(r, r.label)
  BY <1>1, <1>4, RefusalPasses, RefusalShape
<1>5. CASE /\ graph # "legacy" /\ ~(issued + native + Len(r.calls) > MaxActions)
           /\ OwnCalls(r) # {} /\ Filtered(r) = OnlyOwn(r)
  <2> DEFINE own == CHOOSE k \in OwnCalls(r) : TRUE
             call == r.calls[own]
             g == OnlyOwn(r)
  <2>1. own \in 1..Len(r.calls) /\ call \in Calls
    BY <1>1, <1>2, <1>5, ElementOfSeq DEF OwnCalls
  <2>2. <<call>> \in Seq(Calls) /\ Len(<<call>>) = 1 /\ <<call>>[1] = call /\ <<call>> # <<>>
    BY <2>1
  <2>3. g = [r EXCEPT !.calls = <<call>>]
    BY DEF OnlyOwn
  <2> HIDE DEF call, own, g
  <2>4. /\ g \in Result /\ g.calls = <<call>> /\ g.text = r.text /\ g.label = r.label
        /\ g.ending = r.ending
    BY <1>1, <2>2, <2>3 DEF Result
  <2>5. r.calls # <<>> /\ 1 <= Len(r.calls)
    BY <1>2, <2>1
  <2>6. Continues(g) <=> Continues(r)
    BY <2>2, <2>4, <2>5 DEF Continues
  <2>7. Continues(r) => GateCallAlone(g)
    <3> SUFFICES ASSUME Continues(r) PROVE GateCallAlone(g)
      OBVIOUS
    <3>1. GateCallAlone(r)
      BY DEF Passed
    <3>2. call = r.calls[1]
      BY <2>1, <3>1 DEF GateCallAlone, call
    <3> QED
      BY <2>2, <2>4, <3>1, <3>2 DEF GateCallAlone
  <2>8. ~Continues(r) => ~call.gate
    BY <2>1 DEF Passed, call
  <2>9. Passed(g)
    BY <1>5, <2>2, <2>4, <2>6, <2>7, <2>8 DEF Passed
  <2> QED
    BY <1>5, <2>2, <2>4, <2>5, <2>9 DEF g
<1>6. \/ /\ Filtered(r) = r
         /\ graph # "legacy" => ~(issued + native + Len(r.calls) > MaxActions)
      \/ Filtered(r) = Refusal(r, r.label)
      \/ /\ graph # "legacy" /\ ~(issued + native + Len(r.calls) > MaxActions)
         /\ OwnCalls(r) # {} /\ Filtered(r) = OnlyOwn(r)
  BY DEF Filtered
<1> QED
  BY <1>3, <1>4, <1>5, <1>6

\* The evidence gate changes a text and nothing else: a claim that passes it rests on a
\* status read.
LEMMA EvidencePasses ==
    ASSUME NEW r, Passed(r), NEW reads
    PROVE  LET f == GateFinalAnswer(r, ask, reads)
           IN  /\ Passed(f) /\ f.calls = r.calls
               /\ f.calls = <<>> /\ f.text = "claim" /\ f.label = "none"
                  /\ (ask.question \/ reads.called) => reads.successful
<1> DEFINE f == GateFinalAnswer(r, ask, reads)
           changes == /\ Gated(r) /\ InScope(ask, reads) /\ r.text = "claim"
                      /\ ~reads.successful
<1>1. r \in Result /\ "rewritten" \in Texts
  BY DEF Passed, Texts
<1>2. CASE changes
  <2>1. f = [r EXCEPT !.text = "rewritten"]
    BY <1>2 DEF GateFinalAnswer
  <2> HIDE DEF f
  <2>2. /\ f \in Result /\ f.calls = r.calls /\ f.label = r.label /\ f.ending = r.ending
        /\ f.text = "rewritten"
    BY <1>1, <2>1 DEF Result
  <2>3. r.calls = <<>> /\ r.ending # "blocked" /\ r.label = "none" /\ r.text = "claim"
    BY <1>2 DEF Gated
  <2>4. Passed(f)
    BY <2>2, <2>3 DEF Passed, Continues, GateCallAlone
  <2> QED
    BY <2>2, <2>4 DEF f
<1>3. CASE ~changes
  <2>1. f = r
    BY <1>3 DEF GateFinalAnswer
  <2> HIDE DEF f
  <2>2. ASSUME r.calls = <<>>, r.text = "claim", r.label = "none", ask.question \/ reads.called
        PROVE  reads.successful
    <3>1. Gated(r)
      BY <2>2 DEF Gated, Passed
    <3>2. InScope(ask, reads)
      BY <2>2 DEF InScope
    <3> QED
      BY <1>3, <2>2, <3>1, <3>2
  <2> QED
    BY <2>1, <2>2 DEF f
<1> QED
  BY <1>2, <1>3

-------------------------------------------------------------------------------
(* The invariant.                                                             *)

ContractType == [status : {"none", "planned", "blocked", "verified"}, known : BOOLEAN]
GhostType == [stale : BOOLEAN, failed : BOOLEAN, unchecked : BOOLEAN, lastRead : Nat,
              turns : Nat, continued : Nat, moved : BOOLEAN]
Statuses == {"none", "incomplete", "blocked", "waiting", "answered", "verified"}
OutType == [calls : Seq(Calls), text : Texts, ending : Endings, label : Labels,
            status : Statuses]

\* The variables' types; a turn's gates are as many as the limit allows.
GateTypes ==
    /\ graph \in Graphs /\ offer \in Offers /\ ask \in Asks
    /\ turn \in TurnType /\ turn.fired <= GateLimit
    /\ site \in SiteType
    /\ contract \in ContractType
    /\ issued \in 0..MaxActions /\ native \in 0..MaxActions
    /\ place \in {"idle", "model", "tools"}
    /\ out \in OutType
    /\ ghost \in GhostType

\* What the gates read tells what happened: the thread counts the continuations and the
\* work since the last one, the contract knows of every action since a verification and
\* of every failure, an unchecked write shows on the site copy, a read is of this turn.
ThreadTells ==
    /\ graph = "native" => ghost.continued = turn.fired /\ (turn.progress => ghost.moved)
    /\ contract.status = "verified" => ~ghost.stale
    /\ ghost.failed => contract.status = "blocked"
    /\ ghost.unchecked => site \in Unresolved
    /\ turn.reads.successful => ghost.lastRead = ghost.turns

\* What an ended turn was told, while nothing has happened since.
OutcomeHolds ==
    place = "idle" /\ out # Nothing =>
        /\ out.status = "verified" => contract.status = "verified"
        /\ contract.status = "blocked" => /\ out.status \notin {"answered", "verified"}
                                          /\ out.text # "system" => site = "clean"
        /\ out.status \in {"answered", "verified"} /\ out.text # "system"
             /\ ~ask.control /\ ~Disabled => site \notin Unresolved
        /\ out.label = "none" /\ out.text = "claim" /\ (ask.question \/ turn.reads.called) =>
             turn.reads.successful

TaskInv == GateTypes /\ ThreadTells /\ OutcomeHolds

\* The history after each kind of step, and its fields.
TurnHistory(g, turns, continued, moved) ==
    [g EXCEPT !.turns = turns, !.continued = continued, !.moved = moved]
StepHistory(g, stale, continued, moved) ==
    [g EXCEPT !.stale = stale, !.continued = continued, !.moved = moved]
AnswerHistory(g, stale, failed, unchecked, lastRead) ==
    [g EXCEPT !.stale = stale, !.failed = failed, !.unchecked = unchecked,
              !.lastRead = lastRead]

AfterTurn(h, g, continued) ==
    /\ h \in GhostType /\ h.stale = g.stale /\ h.failed = g.failed
    /\ h.unchecked = g.unchecked /\ h.continued = continued
AfterStep(h, g, stale, continued, moved) ==
    /\ h \in GhostType /\ h.stale = stale /\ h.continued = continued
    /\ h.moved = moved /\ h.failed = g.failed /\ h.unchecked = g.unchecked
    /\ h.lastRead = g.lastRead /\ h.turns = g.turns
AfterReplies(h, g, stale, failed, unchecked, lastRead) ==
    /\ h \in GhostType /\ h.stale = stale /\ h.failed = failed
    /\ h.unchecked = unchecked /\ h.lastRead = lastRead
    /\ h.turns = g.turns /\ h.continued = g.continued /\ h.moved = g.moved

LEMMA HistoryOfTurn ==
    ASSUME NEW g \in GhostType, NEW turns \in Nat, NEW continued \in Nat, NEW moved \in BOOLEAN
    PROVE  AfterTurn(TurnHistory(g, turns, continued, moved), g, continued)
BY DEF GhostType, TurnHistory, AfterTurn

LEMMA HistoryOfStep ==
    ASSUME NEW g \in GhostType, NEW stale \in BOOLEAN, NEW continued \in Nat, NEW moved \in BOOLEAN
    PROVE  AfterStep(StepHistory(g, stale, continued, moved), g, stale, continued, moved)
BY DEF GhostType, StepHistory, AfterStep

LEMMA HistoryOfAnswers ==
    ASSUME NEW g \in GhostType, NEW stale \in BOOLEAN, NEW failed \in BOOLEAN,
           NEW unchecked \in BOOLEAN, NEW lastRead \in Nat
    PROVE  AfterReplies(AnswerHistory(g, stale, failed, unchecked, lastRead),
                        g, stale, failed, unchecked, lastRead)
BY DEF GhostType, AnswerHistory, AfterReplies

LEMMA TaskStarts == TaskInit => TaskInv
<1> SUFFICES ASSUME TaskInit PROVE TaskInv
  OBVIOUS
<1>1. {MaxActions, GateLimit} \subseteq Nat \ {0}
  BY TaskGateAssumption
<1>2. turn \in TurnType /\ turn.fired = 0 /\ ~turn.progress /\ ~turn.reads.successful
  BY DEF TaskInit, NewTurn, NothingRead, TurnType, ReadsType
<1>3. /\ ghost \in GhostType /\ ~ghost.stale /\ ~ghost.failed /\ ~ghost.unchecked
      /\ ghost.continued = 0
  BY DEF TaskInit, Untouched, GhostType
<1>4. out = Nothing /\ Nothing \in OutType
  BY DEF TaskInit, Nothing, OutType, Texts, Endings, Labels, Statuses
<1>5. contract \in ContractType
  BY DEF TaskInit, NoContract, ContractType
<1>6. GateTypes
  BY <1>1, <1>2, <1>3, <1>4, <1>5 DEF TaskInit, GateTypes, SiteType
<1>7. ThreadTells
  BY <1>2, <1>3 DEF ThreadTells
<1>8. OutcomeHolds
  BY <1>4 DEF OutcomeHolds
<1> QED
  BY <1>6, <1>7, <1>8 DEF TaskInv

\* The owner writes: the turn is new and the rest stays.
LEMMA OwnerTurnKeeps == TaskInv /\ OwnerTurn => TaskInv'
<1> SUFFICES ASSUME TaskInv, OwnerTurn PROVE TaskInv'
  OBVIOUS
<1>0. GateTypes /\ ThreadTells
  BY DEF TaskInv
<1>1. /\ ask' \in Asks /\ turn' = NewTurn /\ place' = "model" /\ out' = Nothing
      /\ ghost' = [ghost EXCEPT !.turns = ghost.turns + 1, !.continued = 0, !.moved = FALSE]
      /\ UNCHANGED <<graph, offer, site, contract, issued, native>>
  BY DEF OwnerTurn
<1>2. turn' \in TurnType /\ turn'.fired = 0 /\ ~turn'.progress /\ ~turn'.reads.successful
  BY <1>1 DEF NewTurn, NothingRead, TurnType, ReadsType
<1>3. /\ ghost' \in GhostType /\ ghost'.stale = ghost.stale /\ ghost'.failed = ghost.failed
      /\ ghost'.unchecked = ghost.unchecked /\ ghost'.continued = 0
  <2>1. ghost \in GhostType
    BY <1>0 DEF GateTypes
  <2>2. ghost.turns + 1 \in Nat
    BY <2>1 DEF GhostType
  <2>3. ghost' = TurnHistory(ghost, ghost.turns + 1, 0, FALSE)
    BY <1>1 DEF TurnHistory
  <2>4. 0 \in Nat /\ FALSE \in BOOLEAN
    OBVIOUS
  <2>5. AfterTurn(ghost', ghost, 0)
    BY <2>1, <2>2, <2>3, <2>4, HistoryOfTurn, Zenon
  <2> QED
    BY <2>5 DEF AfterTurn
<1>4. Nothing \in OutType
  BY DEF Nothing, OutType, Texts, Endings, Labels, Statuses
<1>5. GateLimit \in Nat
  BY TaskGateAssumption
<1>6. GateTypes'
  BY <1>0, <1>1, <1>2, <1>3, <1>4, <1>5 DEF GateTypes
<1>7. ThreadTells'
  BY <1>0, <1>1, <1>2, <1>3 DEF ThreadTells
<1>8. OutcomeHolds'
  BY <1>1 DEF OutcomeHolds
<1> QED
  BY <1>6, <1>7, <1>8 DEF TaskInv

\* What a publication leaves in the variables.
LEMMA Published ==
    ASSUME TaskInv, NEW f, Passed(f), Publish(f)
    PROVE  /\ contract' = AfterResult(f.calls) /\ turn' = AfterCalls(f.calls)
           /\ out' \in [calls : {f.calls}, text : {f.text}, ending : {f.ending},
                        label : {f.label}, status : {StatusOf(f, AfterResult(f.calls))}]
           /\ place' = IF f.calls = <<>> THEN "idle" ELSE "tools"
           /\ UNCHANGED <<graph, offer, ask, site>>
           /\ ghost' \in GhostType
           /\ ghost'.stale <=> ghost.stale \/ \E i \in DOMAIN f.calls : f.calls[i].tool \in Acting
           /\ ghost'.continued = IF Continues(f) /\ ghost.continued <= GateLimit
                                 THEN ghost.continued + 1 ELSE ghost.continued
           /\ ghost'.moved <=>
                /\ ~Continues(f)
                /\ ghost.moved \/ \E i \in DOMAIN f.calls : f.calls[i].tool \notin Bookkeeping
           /\ ghost'.failed = ghost.failed /\ ghost'.unchecked = ghost.unchecked
           /\ ghost'.lastRead = ghost.lastRead /\ ghost'.turns = ghost.turns
<1> DEFINE acts == \E i \in DOMAIN f.calls : f.calls[i].tool \in Acting
           works == \E i \in DOMAIN f.calls : f.calls[i].tool \notin Bookkeeping
           continues == f.calls # <<>> /\ f.label = "open_plan_continue"
           stale == ghost.stale \/ acts
           continued == IF continues /\ ghost.continued <= GateLimit
                        THEN ghost.continued + 1 ELSE ghost.continued
           moved == IF continues THEN FALSE ELSE ghost.moved \/ works
<1>1. ghost \in GhostType /\ GateLimit \in Nat
  BY TaskGateAssumption DEF TaskInv, GateTypes
<1>2. stale \in BOOLEAN /\ moved \in BOOLEAN
  BY <1>1 DEF GhostType
<1>3. continued \in Nat
  BY <1>1 DEF GhostType
<1>4. ghost' = [ghost EXCEPT !.stale = stale, !.continued = continued, !.moved = moved]
  BY DEF Publish
<1>5. /\ stale <=> ghost.stale \/ acts
      /\ continued = IF Continues(f) /\ ghost.continued <= GateLimit
                     THEN ghost.continued + 1 ELSE ghost.continued
      /\ moved <=> ~Continues(f) /\ (ghost.moved \/ works)
  BY <1>1 DEF Continues
<1> HIDE DEF stale, continued, moved, acts, works
<1>6. ghost' = StepHistory(ghost, stale, continued, moved)
  BY <1>4 DEF StepHistory
<1>7. AfterStep(ghost', ghost, stale, continued, moved)
  BY <1>1, <1>2, <1>3, <1>6, HistoryOfStep, Zenon
<1>8. /\ ghost' \in GhostType /\ ghost'.stale = stale /\ ghost'.continued = continued
      /\ ghost'.moved = moved /\ ghost'.failed = ghost.failed
      /\ ghost'.unchecked = ghost.unchecked
      /\ ghost'.lastRead = ghost.lastRead /\ ghost'.turns = ghost.turns
  BY <1>7 DEF AfterStep
<1>9. /\ contract' = AfterResult(f.calls) /\ turn' = AfterCalls(f.calls)
      /\ out' = [calls |-> f.calls, text |-> f.text, ending |-> f.ending,
                 label |-> f.label, status |-> StatusOf(f, AfterResult(f.calls))]
      /\ place' = IF f.calls = <<>> THEN "idle" ELSE "tools"
      /\ UNCHANGED <<graph, offer, ask, site>>
  BY DEF Publish
<1> QED
  BY <1>5, <1>8, <1>9 DEF acts, works

\* The contract after a publication: a failure stays, and so does a verification that no
\* call but its own and the plan's follows.
LEMMA ContractOfStep ==
    ASSUME contract \in ContractType, NEW calls \in Seq(Calls)
    PROVE  /\ AfterResult(calls) \in ContractType
           /\ contract.status = "blocked" => AfterResult(calls) = contract
           /\ calls = <<>> => AfterResult(calls) = contract
           /\ AfterResult(calls).status = "verified" =>
                /\ contract.status = "verified"
                /\ \A i \in DOMAIN calls : calls[i].tool \notin Acting
<1> DEFINE again == [contract EXCEPT !.status = "planned"]
           does == \E i \in DOMAIN calls : calls[i].tool \notin {"verify", "todos"}
<1>1. again \in ContractType /\ again.status = "planned"
  BY DEF ContractType
<1>2. ~does => \A i \in DOMAIN calls : calls[i].tool \notin Acting
  BY DEF Acting
<1>3. calls = <<>> => ~does
  OBVIOUS
<1>4. AfterResult(calls) = IF contract.status = "verified" /\ does THEN again ELSE contract
  BY DEF AfterResult
<1> HIDE DEF again, does
<1> QED
  BY <1>1, <1>2, <1>3, <1>4

\* What the published status says: a verification is the contract's, and a blocked
\* contract is never told as an answer.
LEMMA StatusTells ==
    ASSUME NEW f, f.ending \in Endings, NEW c, c.status \in {"none", "planned", "blocked", "verified"}
    PROVE  /\ StatusOf(f, c) \in Statuses
           /\ f.calls = <<>> =>
                /\ StatusOf(f, c) = "verified" => c.status = "verified"
                /\ c.status = "blocked" => StatusOf(f, c) \notin {"answered", "verified"}
           /\ StatusOf(f, c) \in {"answered", "verified"} => f.ending = "stop"
BY DEF StatusOf, Statuses, Endings

\* A publication behind the gates keeps the invariant.
LEMMA PublishKeeps ==
    ASSUME TaskInv, NEW f, Passed(f), Publish(f),
           \/ f.calls = <<>> \/ issued + native + Len(f.calls) <= MaxActions
           \/ graph = "legacy" /\ Len(f.calls) <= MaxActions - issued,
           f.calls = <<>> /\ f.text = "claim" /\ f.label = "none"
             /\ (ask.question \/ turn.reads.called) => turn.reads.successful
    PROVE  TaskInv'
<1> DEFINE calls == f.calls
<1>1. GateTypes /\ ThreadTells
  BY DEF TaskInv
<1>2. /\ contract' = AfterResult(calls) /\ turn' = AfterCalls(calls)
      /\ out' \in [calls : {calls}, text : {f.text}, ending : {f.ending},
                   label : {f.label}, status : {StatusOf(f, AfterResult(calls))}]
      /\ place' = IF calls = <<>> THEN "idle" ELSE "tools"
      /\ UNCHANGED <<graph, offer, ask, site>>
  BY Published
<1>3. /\ ghost' \in GhostType
      /\ ghost'.stale <=> ghost.stale \/ \E i \in DOMAIN calls : calls[i].tool \in Acting
      /\ ghost'.failed = ghost.failed /\ ghost'.unchecked = ghost.unchecked
      /\ ghost'.lastRead = ghost.lastRead /\ ghost'.turns = ghost.turns
  BY Published
<1>4. /\ ghost'.continued = IF Continues(f) /\ ghost.continued <= GateLimit
                            THEN ghost.continued + 1 ELSE ghost.continued
      /\ ghost'.moved <=>
           /\ ~Continues(f)
           /\ ghost.moved \/ \E i \in DOMAIN calls : calls[i].tool \notin Bookkeeping
  BY Published
<1>5. {MaxActions, GateLimit} \subseteq Nat
  BY TaskGateAssumption
<1>6. /\ calls \in Seq(Calls) /\ Len(calls) \in Nat /\ DOMAIN calls = 1..Len(calls)
      /\ f.text \in Texts /\ f.ending \in Endings /\ f.label \in Labels
  <2>1. calls \in Seq(Calls) /\ f.text \in Texts /\ f.ending \in Endings /\ f.label \in Labels
    BY DEF Passed, Result
  <2> QED
    BY <2>1, LenProperties
<1>7. /\ turn \in TurnType /\ turn.fired <= GateLimit /\ contract \in ContractType
      /\ site \in SiteType /\ ghost \in GhostType
  BY <1>1 DEF GateTypes
<1>8. /\ AfterResult(calls) \in ContractType
      /\ contract.status = "blocked" => AfterResult(calls) = contract
      /\ calls = <<>> => AfterResult(calls) = contract
      /\ AfterResult(calls).status = "verified" =>
           /\ contract.status = "verified"
           /\ \A i \in DOMAIN calls : calls[i].tool \notin Acting
  BY <1>6, <1>7, ContractOfStep
<1>9. AfterResult(calls).status \in {"none", "planned", "blocked", "verified"}
  BY <1>8 DEF ContractType
<1>10. /\ StatusOf(f, AfterResult(calls)) \in Statuses
       /\ calls = <<>> =>
            /\ StatusOf(f, AfterResult(calls)) = "verified" => AfterResult(calls).status = "verified"
            /\ AfterResult(calls).status = "blocked" =>
                 StatusOf(f, AfterResult(calls)) \notin {"answered", "verified"}
       /\ StatusOf(f, AfterResult(calls)) \in {"answered", "verified"} => f.ending = "stop"
  BY <1>6, <1>9, StatusTells
<1>11. /\ turn' \in TurnType /\ turn'.reads = turn.reads
       /\ (\A k \in 1..Len(calls) : ~(calls[k].gate /\ graph = "native")) =>
            /\ turn'.fired = turn.fired
            /\ turn'.progress =>
                 turn.progress \/ \E k \in 1..Len(calls) : calls[k].tool \notin Bookkeeping
  BY <1>2, <1>6, <1>7, CallsOfBatch
<1> HIDE DEF calls
<1>12. ASSUME Continues(f), graph = "native"
       PROVE  /\ turn'.fired <= GateLimit
              /\ ghost'.continued = turn'.fired /\ ~turn'.progress
  <2> DEFINE call == calls[1]
  <2>1. Len(calls) = 1 /\ call.gate /\ ~Exhausted(turn)
    BY <1>12 DEF Passed, GateCallAlone, calls
  <2>2. call \in Calls
    <3>1. 1 \in 1..Len(calls)
      BY <2>1
    <3> QED
      BY <1>6, <3>1, ElementOfSeq
  <2>3. calls = <<call>>
    <3>1. <<call>> \in Seq(Calls) /\ Len(<<call>>) = 1 /\ <<call>>[1] = calls[1]
      BY <2>2
    <3> HIDE DEF call
    <3> QED
      BY <1>6, <2>1, <3>1, SeqEqual
  <2> HIDE DEF call
  <2>4. turn'.fired = turn.fired + 1 /\ ~turn'.progress
    BY <1>2, <1>7, <1>12, <2>1, <2>2, <2>3, CallOfGate
  <2>5. turn.fired < GateLimit /\ turn.fired \in Nat
    BY <1>5, <1>7, <2>1 DEF Exhausted, TurnType
  <2>6. turn'.fired <= GateLimit
    BY <1>5, <2>4, <2>5
  <2>7. ghost.continued = turn.fired
    BY <1>1, <1>12 DEF ThreadTells
  <2>8. ghost'.continued = turn'.fired
    BY <1>4, <1>5, <1>12, <2>4, <2>5, <2>7
  <2> QED
    BY <2>4, <2>6, <2>8
<1>13. ASSUME ~(Continues(f) /\ graph = "native")
       PROVE  /\ turn'.fired <= GateLimit
              /\ graph = "native" => ghost'.continued = turn'.fired /\ (turn'.progress => ghost'.moved)
  <2>1. \A k \in 1..Len(calls) : ~(calls[k].gate /\ graph = "native")
    BY <1>13 DEF Passed, calls
  <2>2. turn'.fired = turn.fired /\ turn'.fired <= GateLimit
    BY <1>7, <1>11, <2>1
  <2>3. graph = "native" => ghost'.continued = turn'.fired
    BY <1>1, <1>4, <1>13, <2>2 DEF ThreadTells
  <2>4. ASSUME graph = "native", turn'.progress PROVE ghost'.moved
    <3>1. turn.progress => ghost.moved
      BY <1>1, <2>4 DEF ThreadTells
    <3> QED
      BY <1>4, <1>6, <1>11, <1>13, <2>1, <2>4, <3>1
  <2> QED
    BY <2>2, <2>3, <2>4
<1>14. /\ turn'.fired <= GateLimit
       /\ graph = "native" => ghost'.continued = turn'.fired /\ (turn'.progress => ghost'.moved)
  BY <1>12, <1>13
<1>15. issued' \in 0..MaxActions /\ native' \in 0..MaxActions
  <2> DEFINE mine == calls # <<>> /\ OfNative(calls[1])
             n == Len(calls)
  <2>1. /\ native' = IF mine THEN native + n ELSE native
        /\ issued' = IF mine THEN issued ELSE issued + n
    BY DEF Publish, Charged, calls
  <2>2. issued \in 0..MaxActions /\ native \in 0..MaxActions /\ MaxActions \in Nat /\ n \in Nat
    BY <1>1, <1>5, <1>6 DEF GateTypes
  <2>3. graph = "legacy" => ~mine
    <3>1. calls # <<>> => 1 \in 1..Len(calls)
      BY <1>6
    <3> QED
      BY <3>1 DEF OfNative, Passed, calls
  <2>4. \/ n = 0 \/ issued + native + n <= MaxActions
        \/ graph = "legacy" /\ n <= MaxActions - issued
    BY DEF calls
  <2> HIDE DEF mine, n
  <2>5. CASE mine
    BY <2>1, <2>2, <2>3, <2>4, <2>5
  <2>6. CASE ~mine
    BY <2>1, <2>2, <2>4, <2>6
  <2> QED
    BY <2>5, <2>6
<1>16. /\ out' \in OutType /\ out'.text = f.text /\ out'.label = f.label
       /\ out'.status = StatusOf(f, AfterResult(calls))
  BY <1>2, <1>6, <1>10 DEF OutType
<1>17. place' \in {"idle", "model", "tools"}
  BY <1>2
<1>18. GateTypes'
  BY <1>1, <1>2, <1>3, <1>8, <1>11, <1>14, <1>15, <1>16, <1>17 DEF GateTypes
<1>19. contract'.status = "verified" => ~ghost'.stale
  BY <1>1, <1>2, <1>3, <1>8 DEF ThreadTells
<1>20. /\ ghost'.failed => contract'.status = "blocked"
       /\ ghost'.unchecked => site' \in Unresolved
       /\ turn'.reads.successful => ghost'.lastRead = ghost'.turns
  BY <1>1, <1>2, <1>3, <1>8, <1>11 DEF ThreadTells
<1>21. ThreadTells'
  BY <1>2, <1>14, <1>19, <1>20 DEF ThreadTells
<1>22. OutcomeHolds'
  <2> SUFFICES ASSUME calls = <<>>
               PROVE  /\ out'.status = "verified" => contract'.status = "verified"
                      /\ contract'.status = "blocked" =>
                            /\ out'.status \notin {"answered", "verified"}
                            /\ out'.text # "system" => site = "clean"
                      /\ out'.status \in {"answered", "verified"} /\ out'.text # "system"
                           /\ ~ask.control /\ ~Disabled => site \notin Unresolved
                      /\ out'.label = "none" /\ out'.text = "claim"
                           /\ (ask.question \/ turn'.reads.called) => turn'.reads.successful
    BY <1>2 DEF OutcomeHolds, Disabled
  <2>1. f.calls = <<>>
    BY DEF calls
  <2>2. f.text # "system" =>
          /\ contract.status = "blocked" => site = "clean"
          /\ f.ending = "stop" /\ ~ask.control /\ ~Disabled => site \notin Unresolved
    BY <2>1 DEF Passed
  <2>3. contract' = contract /\ AfterResult(calls) = contract
    BY <1>2, <1>8
  <2> QED
    BY <1>10, <1>11, <1>16, <2>1, <2>2, <2>3
<1> QED
  BY <1>18, <1>21, <1>22 DEF TaskInv

\* A step of the model publishes a result that passed the gates and keeps the limit, or
\* gives up on a batch past the limit of the legacy graph.
Abandons == /\ place' = "idle" /\ out' = Nothing
            /\ UNCHANGED <<graph, offer, ask, turn, site, contract, issued, native, ghost>>
Publishable(f) ==
    /\ Passed(f) /\ Publish(f)
    /\ \/ f.calls = <<>> \/ issued + native + Len(f.calls) <= MaxActions
       \/ graph = "legacy" /\ Len(f.calls) <= MaxActions - issued
    /\ f.calls = <<>> /\ f.text = "claim" /\ f.label = "none"
         /\ (ask.question \/ turn.reads.called) => turn.reads.successful

LEMMA AtMost ==
    ASSUME NEW most \in Nat, NEW i \in Nat, NEW k \in Nat, NEW a \in Nat, NEW b \in Nat
    PROVE  /\ ~(a > most - i) => a <= most - i
           /\ a <= b /\ ~(i + k + b > most) => i + k + a <= most
OBVIOUS

LEMMA ModelStepPublishes ==
    ASSUME TaskInv, ModelStep
    PROVE  Abandons \/ \E f : Publishable(f)
<1>1. offer \in Offers /\ issued \in 0..MaxActions /\ native \in 0..MaxActions /\ MaxActions \in Nat
  BY TaskGateAssumption DEF TaskInv, GateTypes
<1>0. issued \in Nat /\ native \in Nat
  BY <1>1
<1>2. PICK answer \in Results :
        \E gated \in Rechecked(Validated(answer), GateFinal(Validated(answer))) :
          LET r == Filtered(gated)
          IN IF graph = "legacy" /\ Len(r.calls) > MaxActions - issued
             THEN Abandons ELSE Publish(GateFinalAnswer(r, ask, turn.reads))
  BY DEF ModelStep, Abandons
<1> DEFINE v == Validated(answer)
<1>12. PICK g \in Rechecked(v, GateFinal(v)) :
        LET r == Filtered(g)
        IN IF graph = "legacy" /\ Len(r.calls) > MaxActions - issued
           THEN Abandons ELSE Publish(GateFinalAnswer(r, ask, turn.reads))
  BY <1>2
<1> DEFINE r == Filtered(g)
           f == GateFinalAnswer(r, ask, turn.reads)
<1>3. FromModel(v)
  BY <1>1, ValidatedAnswers
<1>4. v \in Result
  BY <1>3 DEF FromModel
<1>5. IF graph = "legacy" /\ Len(r.calls) > MaxActions - issued THEN Abandons ELSE Publish(f)
  BY <1>12
<1> HIDE DEF v
<1>6. Passed(g)
  BY <1>3, <1>4, GateFinalPasses, RecheckedPasses
<1>7. /\ Passed(r)
      /\ graph # "legacy" => \/ r.calls = <<>>
                             \/ Len(r.calls) <= Len(g.calls)
                                /\ ~(issued + native + Len(g.calls) > MaxActions)
  BY <1>6, FilteredPasses
<1> HIDE DEF r
<1>8. /\ Passed(f) /\ f.calls = r.calls
      /\ f.calls = <<>> /\ f.text = "claim" /\ f.label = "none"
           /\ (ask.question \/ turn.reads.called) => turn.reads.successful
  BY <1>7, EvidencePasses
<1> HIDE DEF f
<1>9. Len(r.calls) \in Nat /\ Len(g.calls) \in Nat
  <2>1. r.calls \in Seq(Calls) /\ g.calls \in Seq(Calls)
    BY <1>6, <1>7 DEF Passed, Result
  <2> QED
    BY <2>1, LenProperties
<1>10. CASE graph = "legacy" /\ Len(r.calls) > MaxActions - issued
  BY <1>5, <1>10
<1>11. CASE ~(graph = "legacy" /\ Len(r.calls) > MaxActions - issued)
  <2>1. Publish(f)
    BY <1>5, <1>11
  <2>2. \/ f.calls = <<>> \/ issued + native + Len(r.calls) <= MaxActions
        \/ graph = "legacy" /\ Len(r.calls) <= MaxActions - issued
    <3>1. CASE graph = "legacy"
      <4>1. Len(r.calls) <= MaxActions - issued
        BY <1>1, <1>9, <1>11, <1>0, <3>1, AtMost
      <4> QED
        BY <3>1, <4>1
    <3>2. CASE graph # "legacy" /\ r.calls = <<>>
      BY <1>8, <3>2
    <3>3. CASE /\ Len(r.calls) <= Len(g.calls)
               /\ ~(issued + native + Len(g.calls) > MaxActions)
      <4>1. issued + native + Len(r.calls) <= MaxActions
        BY <1>0, <1>1, <1>9, <3>3, AtMost
      <4> QED
        BY <4>1
    <3> QED
      BY <1>7, <3>1, <3>2, <3>3
  <2>3. Publishable(f)
    BY <1>8, <2>1, <2>2 DEF Publishable
  <2> QED
    BY <2>3
<1> QED
  BY <1>10, <1>11

LEMMA ModelStepKeeps == TaskInv /\ ModelStep => TaskInv'
<1> SUFFICES ASSUME TaskInv, ModelStep PROVE TaskInv'
  OBVIOUS
<1>1. ASSUME NEW f, Publishable(f) PROVE TaskInv'
  BY <1>1, PublishKeeps DEF Publishable
<1>2. CASE Abandons
  <2>1. Nothing \in OutType
    BY DEF Nothing, OutType, Texts, Endings, Labels, Statuses
  <2>2. GateTypes'
    BY <1>2, <2>1 DEF TaskInv, GateTypes, Abandons
  <2>3. ThreadTells'
    BY <1>2 DEF TaskInv, ThreadTells, Abandons
  <2>4. OutcomeHolds'
    BY <1>2 DEF OutcomeHolds, Abandons
  <2> QED
    BY <2>2, <2>3, <2>4 DEF TaskInv
<1> QED
  BY <1>1, <1>2, ModelStepPublishes

-------------------------------------------------------------------------------
(* The answers to a batch.                                                    *)

Told(answers) == [i \in DOMAIN out.calls |-> <<out.calls[i].tool, answers[i]>>]
Has(answers, tool, answer) == \E i \in DOMAIN Told(answers) : Told(answers)[i] = <<tool, answer>>
Answers == {a \in [DOMAIN out.calls -> UNION {AnswersOf(c.tool) : c \in Calls}] :
                \A i \in DOMAIN a : a[i] \in AnswersOf(out.calls[i].tool)}

LEMMA ToldAnswers ==
    ASSUME out \in OutType, NEW answers \in Answers
    PROVE  /\ Told(answers) \in Seq(Seen) /\ Len(Told(answers)) = Len(out.calls)
           /\ Len(out.calls) \in Nat /\ DOMAIN out.calls = 1..Len(out.calls)
           /\ \A i \in 1..Len(out.calls) :
                /\ Told(answers)[i] = <<out.calls[i].tool, answers[i]>>
                /\ answers[i] \in AnswersOf(out.calls[i].tool)
           /\ \A tool, answer : Has(answers, tool, answer) <=>
                \E i \in 1..Len(out.calls) : out.calls[i].tool = tool /\ answers[i] = answer
<1>1. out.calls \in Seq(Calls)
  BY DEF OutType
<1> DEFINE n == Len(out.calls)
<1>2. n \in Nat /\ DOMAIN out.calls = 1..n /\ \A i \in 1..n : out.calls[i] \in Calls
  BY <1>1, LenProperties, ElementOfSeq
<1> HIDE DEF n
<1>3. \A i \in 1..n : /\ answers[i] \in AnswersOf(out.calls[i].tool)
                       /\ answers[i] \in UNION {AnswersOf(c.tool) : c \in Calls}
                       /\ out.calls[i].tool \in External \cup Native
  BY <1>2 DEF Answers, Calls
<1>4. \A i \in 1..n : <<out.calls[i].tool, answers[i]>> \in Seen
  BY <1>3 DEF Seen
<1>5. Told(answers) = [i \in 1..n |-> <<out.calls[i].tool, answers[i]>>]
  BY <1>2 DEF Told
<1>6. Told(answers) \in Seq(Seen) /\ Len(Told(answers)) = n
  <2>1. Told(answers) \in [1..n -> Seen]
    BY <1>4, <1>5
  <2>2. Told(answers) \in Seq(Seen)
    BY <1>2, <2>1, SeqDef
  <2> QED
    BY <1>2, <2>1, <2>2, LenProperties
<1>7. \A i \in 1..n : Told(answers)[i] = <<out.calls[i].tool, answers[i]>>
  BY <1>5
<1>8. DOMAIN Told(answers) = 1..n
  BY <1>5
<1>9. \A tool, answer : Has(answers, tool, answer) <=>
         \E i \in 1..n : out.calls[i].tool = tool /\ answers[i] = answer
  BY <1>7, <1>8 DEF Has
<1> QED
  BY <1>2, <1>3, <1>6, <1>7, <1>9 DEF n

Passes(answers) == Has(answers, "verify", "passed") /\ contract.known
Fails(answers) == \/ Ambiguous \/ Has(answers, "plan", "unconfirmed")
                  \/ Has(answers, "verify", "failed") /\ contract.status # "none"

\* The contract after the answers: verified only by a verification that passed alone, and
\* blocked by every failure until a plan is confirmed or a verification passes.
LEMMA ContractOfAnswers ==
    ASSUME out \in OutType, contract \in ContractType, NEW answers \in Answers
    PROVE  /\ Observed(answers) \in ContractType
           /\ Observed(answers).status = "verified" =>
                contract.status = "verified" \/ (~Ambiguous /\ Passes(answers))
           /\ Fails(answers) => Observed(answers).status = "blocked"
           /\ contract.status = "blocked" /\ ~Passes(answers) /\ ~Has(answers, "plan", "planned") =>
                Observed(answers).status = "blocked"
<1> DEFINE n == Len(out.calls)
<1>1. /\ n \in Nat /\ DOMAIN out.calls = 1..n
      /\ \A i \in 1..n : answers[i] \in AnswersOf(out.calls[i].tool)
      /\ \A tool, answer : Has(answers, tool, answer) <=>
           \E i \in 1..n : out.calls[i].tool = tool /\ answers[i] = answer
  BY ToldAnswers
<1>2. /\ Of("plan") = {i \in 1..n : out.calls[i].tool = "plan"}
      /\ Of("verify") = {i \in 1..n : out.calls[i].tool = "verify"}
  BY <1>1 DEF Of
<1>3. \A i \in 1..n : /\ out.calls[i].tool = "plan" => answers[i] \in {"planned", "unconfirmed"}
                      /\ out.calls[i].tool = "verify" => answers[i] \in {"passed", "failed"}
  BY <1>1 DEF AnswersOf, IsView
<1>4. Unconfirmed \in ContractType /\ Unconfirmed.status = "blocked"
  BY DEF Unconfirmed, ContractType
<1> DEFINE planned == [status |-> "planned", known |-> TRUE]
<1>5. planned \in ContractType /\ planned.status = "planned"
  BY DEF ContractType
<1> HIDE DEF n, planned
<1>6. CASE Ambiguous
  BY <1>4, <1>6 DEF Observed
<1>7. CASE ~Ambiguous /\ Of("plan") # {}
  <2>1. Cardinality(Of("plan")) <= 1 /\ \A i, j \in Of("plan") : i = j
    <3>1. IsFiniteSet(Of("plan"))
      <4>1. IsFiniteSet(1..n) /\ Of("plan") \subseteq 1..n
        BY <1>1, <1>2, FS_Interval
      <4> QED
        BY <4>1, FS_Subset
    <3>2. Cardinality(Of("plan")) \in Nat
      BY <3>1, FS_CardinalityType
    <3>3. Cardinality(Of("plan")) <= 1
      BY <1>7, <3>2 DEF Ambiguous
    <3>4. ASSUME NEW i \in Of("plan"), NEW j \in Of("plan"), i # j PROVE FALSE
      <4>1. {i, j} \subseteq Of("plan") /\ IsFiniteSet({i, j}) /\ Cardinality({i, j}) = 2
        <5>1. IsFiniteSet({i}) /\ Cardinality({i}) = 1
          BY FS_Singleton
        <5>2. {i, j} = {i} \cup {j} /\ j \notin {i}
          BY <3>4
        <5> QED
          <6>1. IsFiniteSet({i} \cup {j}) /\ Cardinality({i} \cup {j}) = 1 + 1
            BY <5>1, <5>2, FS_AddElement
          <6> QED
            BY <3>4, <5>2, <6>1
      <4>2. Cardinality({i, j}) <= Cardinality(Of("plan"))
        BY <3>1, <4>1, FS_Subset
      <4> QED
        BY <3>2, <3>3, <4>1, <4>2
    <3> QED
      BY <3>3, <3>4
  <2>2. ~\E i \in 1..n : out.calls[i].tool = "verify" /\ n # 1
    BY <1>1, <1>2, <1>7 DEF Ambiguous, n
  <2>3. PICK p \in 1..n : out.calls[p].tool = "plan"
    BY <1>2, <1>7
  <2>4. ~\E i \in 1..n : out.calls[i].tool = "verify"
    BY <1>1, <2>2, <2>3
  <2>5. Observed(answers) = IF \E i \in Of("plan") : answers[i] = "planned"
                            THEN planned ELSE Unconfirmed
    BY <1>7 DEF Observed, planned
  <2>6. Has(answers, "plan", "unconfirmed") => ~\E i \in Of("plan") : answers[i] = "planned"
    BY <1>1, <1>2, <2>1
  <2>7. ~Has(answers, "plan", "planned") => ~\E i \in Of("plan") : answers[i] = "planned"
    BY <1>1, <1>2
  <2>8. ~Has(answers, "verify", "failed")
    BY <1>1, <2>4
  <2> QED
    BY <1>4, <1>5, <1>7, <2>5, <2>6, <2>7, <2>8 DEF Fails
<1>8. CASE ~Ambiguous /\ Of("plan") = {}
  <2>1. ~Has(answers, "plan", "unconfirmed") /\ ~Has(answers, "plan", "planned")
    BY <1>1, <1>2, <1>8
  <2>2. CASE Of("verify") # {} /\ contract.status # "none"
    <3> DEFINE status == IF contract.known /\ answers[1] = "passed" THEN "verified" ELSE "blocked"
               now == [contract EXCEPT !.status = status]
    <3>1. Observed(answers) = now
      BY <1>8, <2>2 DEF Observed
    <3>2. n = 1 /\ out.calls[1].tool = "verify"
      BY <1>1, <1>2, <1>8, <2>2 DEF Ambiguous, n
    <3>3. now \in ContractType /\ now.status = status
      BY DEF ContractType
    <3> HIDE DEF now
    <3>4. (Has(answers, "verify", "passed") <=> answers[1] = "passed")
          /\ (Has(answers, "verify", "failed") <=> answers[1] = "failed")
      BY <1>1, <3>2
    <3> QED
      BY <1>8, <2>1, <2>2, <3>1, <3>3, <3>4 DEF Passes, Fails
  <2>3. CASE ~(Of("verify") # {} /\ contract.status # "none")
    <3>1. Observed(answers) = contract
      BY <1>8, <2>3 DEF Observed
    <3>2. ~(Has(answers, "verify", "failed") /\ contract.status # "none")
      BY <1>1, <1>2, <2>3
    <3> QED
      BY <1>8, <2>1, <3>1, <3>2 DEF Fails
  <2> QED
    BY <2>2, <2>3
<1> QED
  BY <1>6, <1>7, <1>8

\* What the answers leave in the variables.
Checked(answers) == \/ Has(answers, "site_status", "passed") \/ Has(answers, "site_status", "cancelled")
                    \/ Has(answers, "site_check", "passed") \/ Has(answers, "site_check", "cancelled")

LEMMA Answered ==
    ASSUME TaskInv, ToolsAnswer
    PROVE  /\ place' = "model" /\ out' = Nothing
           /\ UNCHANGED <<graph, offer, ask, issued, native>>
           /\ \E answers \in Answers :
                /\ contract' = Observed(answers) /\ turn' = AfterAnswers(Told(answers))
                /\ site' = SiteAfterAnswers(Told(answers))
                /\ ghost' \in GhostType
                /\ ghost'.stale <=> ghost.stale /\ (Ambiguous \/ ~Passes(answers))
                /\ ghost'.failed <=>
                     Fails(answers) \/ (ghost.failed /\ ~Passes(answers) /\ ~Has(answers, "plan", "planned"))
                /\ ghost'.unchecked <=>
                     (ghost.unchecked \/ Has(answers, "site_write", "done")) /\ ~Checked(answers)
                /\ ghost'.lastRead =
                     IF Has(answers, "status", "state") THEN ghost.turns ELSE ghost.lastRead
                /\ ghost'.turns = ghost.turns /\ ghost'.continued = ghost.continued
                /\ ghost'.moved = ghost.moved
<1>1. /\ place' = "model" /\ out' = Nothing
      /\ UNCHANGED <<graph, offer, ask, issued, native>>
  BY DEF ToolsAnswer
<1>2. PICK answers \in Answers :
        LET seen == Told(answers)
            has(tool, answer) == \E i \in DOMAIN seen : seen[i] = <<tool, answer>>
            passes == has("verify", "passed") /\ contract.known
            fails == Ambiguous \/ has("plan", "unconfirmed")
                     \/ (has("verify", "failed") /\ contract.status # "none")
            checked == has("site_status", "passed") \/ has("site_status", "cancelled")
                       \/ has("site_check", "passed") \/ has("site_check", "cancelled")
        IN /\ contract' = Observed(answers)
           /\ turn' = AfterAnswers(seen)
           /\ site' = SiteAfterAnswers(seen)
           /\ ghost' = [ghost EXCEPT
                !.stale = @ /\ (Ambiguous \/ ~passes),
                !.failed = fails \/ (@ /\ ~passes /\ ~has("plan", "planned")),
                !.unchecked = (@ \/ has("site_write", "done")) /\ ~checked,
                !.lastRead = IF has("status", "state") THEN ghost.turns ELSE @]
  BY DEF ToolsAnswer, Answers, Told
<1> DEFINE stale == ghost.stale /\ (Ambiguous \/ ~Passes(answers))
           failed == Fails(answers)
                     \/ (ghost.failed /\ ~Passes(answers) /\ ~Has(answers, "plan", "planned"))
           unchecked == (ghost.unchecked \/ Has(answers, "site_write", "done")) /\ ~Checked(answers)
           lastRead == IF Has(answers, "status", "state") THEN ghost.turns ELSE ghost.lastRead
<1>3. /\ contract' = Observed(answers) /\ turn' = AfterAnswers(Told(answers))
      /\ site' = SiteAfterAnswers(Told(answers))
  BY <1>2
<1>4. ghost' = [ghost EXCEPT !.stale = stale, !.failed = failed, !.unchecked = unchecked,
                             !.lastRead = lastRead]
  BY <1>2 DEF Passes, Fails, Checked, Has
<1>5. ghost \in GhostType
  BY DEF TaskInv, GateTypes
<1>6. stale \in BOOLEAN /\ failed \in BOOLEAN /\ unchecked \in BOOLEAN
  BY <1>5 DEF GhostType, Fails, Passes, Has, Checked, Ambiguous
<1>7. lastRead \in Nat
  BY <1>5 DEF GhostType
<1>8. /\ stale <=> ghost.stale /\ (Ambiguous \/ ~Passes(answers))
      /\ failed <=> Fails(answers)
                    \/ (ghost.failed /\ ~Passes(answers) /\ ~Has(answers, "plan", "planned"))
      /\ unchecked <=>
           (ghost.unchecked \/ Has(answers, "site_write", "done")) /\ ~Checked(answers)
      /\ lastRead = IF Has(answers, "status", "state") THEN ghost.turns ELSE ghost.lastRead
  OBVIOUS
<1> HIDE DEF stale, failed, unchecked, lastRead
<1>9. ghost' = AnswerHistory(ghost, stale, failed, unchecked, lastRead)
  BY <1>4 DEF AnswerHistory
<1>10. AfterReplies(ghost', ghost, stale, failed, unchecked, lastRead)
  BY <1>5, <1>6, <1>7, <1>9, HistoryOfAnswers, Zenon
<1>11. /\ ghost' \in GhostType /\ ghost'.stale = stale /\ ghost'.failed = failed
       /\ ghost'.unchecked = unchecked /\ ghost'.lastRead = lastRead
       /\ ghost'.turns = ghost.turns /\ ghost'.continued = ghost.continued
       /\ ghost'.moved = ghost.moved
  BY <1>10 DEF AfterReplies
<1>12. /\ ghost'.stale <=> ghost.stale /\ (Ambiguous \/ ~Passes(answers))
       /\ ghost'.failed <=>
            Fails(answers) \/ (ghost.failed /\ ~Passes(answers) /\ ~Has(answers, "plan", "planned"))
       /\ ghost'.unchecked <=>
            (ghost.unchecked \/ Has(answers, "site_write", "done")) /\ ~Checked(answers)
       /\ ghost'.lastRead = IF Has(answers, "status", "state") THEN ghost.turns ELSE ghost.lastRead
  BY <1>8, <1>11
<1> QED
  BY <1>1, <1>3, <1>11, <1>12

LEMMA ToolsAnswerKeeps == TaskInv /\ ToolsAnswer => TaskInv'
<1> SUFFICES ASSUME TaskInv, ToolsAnswer PROVE TaskInv'
  OBVIOUS
<1>1. GateTypes /\ ThreadTells
  BY DEF TaskInv
<1>2. /\ place' = "model" /\ out' = Nothing
      /\ UNCHANGED <<graph, offer, ask, issued, native>>
  BY Answered
<1>3. PICK answers \in Answers :
        /\ contract' = Observed(answers) /\ turn' = AfterAnswers(Told(answers))
        /\ site' = SiteAfterAnswers(Told(answers))
        /\ ghost' \in GhostType
        /\ ghost'.stale <=> ghost.stale /\ (Ambiguous \/ ~Passes(answers))
        /\ ghost'.failed <=>
             Fails(answers) \/ (ghost.failed /\ ~Passes(answers) /\ ~Has(answers, "plan", "planned"))
        /\ ghost'.unchecked <=>
             (ghost.unchecked \/ Has(answers, "site_write", "done")) /\ ~Checked(answers)
        /\ ghost'.lastRead = IF Has(answers, "status", "state") THEN ghost.turns ELSE ghost.lastRead
        /\ ghost'.turns = ghost.turns /\ ghost'.continued = ghost.continued
        /\ ghost'.moved = ghost.moved
  BY Answered
<1>4. /\ turn \in TurnType /\ turn.fired <= GateLimit /\ contract \in ContractType
      /\ site \in SiteType /\ out \in OutType
  BY <1>1 DEF GateTypes
<1> DEFINE n == Len(out.calls)
           seen == Told(answers)
<1>5. /\ seen \in Seq(Seen) /\ Len(seen) = n
      /\ \A i \in 1..n : seen[i] = <<out.calls[i].tool, answers[i]>>
      /\ \A i \in 1..n : answers[i] \in AnswersOf(out.calls[i].tool)
      /\ \A tool, answer : Has(answers, tool, answer) <=>
           \E i \in 1..n : out.calls[i].tool = tool /\ answers[i] = answer
  BY <1>4, ToldAnswers
<1> HIDE DEF n, seen
<1>6. /\ turn' \in TurnType /\ turn'.fired = turn.fired /\ turn'.progress = turn.progress
      /\ turn'.reads.successful =>
           \/ turn.reads.successful
           \/ \E k \in 1..n : seen[k][1] = "status" /\ seen[k][2] = "state"
  BY <1>3, <1>4, <1>5, AnswersOfBatch DEF seen
<1>7. /\ site' \in SiteType
      /\ /\ site \in Unresolved \/ \E k \in 1..n : seen[k][1] = "site_write"
         /\ \A k \in 1..n : ~(IsView(seen[k][1]) /\ seen[k][2] \in {"passed", "cancelled"})
         => site' \in Unresolved
  BY <1>3, <1>4, <1>5, SiteOfBatch DEF seen
<1>8. /\ contract' \in ContractType
      /\ contract'.status = "verified" =>
           contract.status = "verified" \/ (~Ambiguous /\ Passes(answers))
      /\ Fails(answers) => contract'.status = "blocked"
      /\ contract.status = "blocked" /\ ~Passes(answers) /\ ~Has(answers, "plan", "planned") =>
           contract'.status = "blocked"
  BY <1>3, <1>4, ContractOfAnswers
<1>9. \A k \in 1..n : seen[k][1] = out.calls[k].tool /\ seen[k][2] = answers[k]
  BY <1>5
<1>10. contract'.status = "verified" => ~ghost'.stale
  BY <1>1, <1>3, <1>8 DEF ThreadTells
<1>11. ghost'.failed => contract'.status = "blocked"
  BY <1>1, <1>3, <1>8 DEF ThreadTells
<1>12. ASSUME ghost'.unchecked PROVE site' \in Unresolved
  <2>1. site \in Unresolved \/ Has(answers, "site_write", "done")
    BY <1>1, <1>3, <1>12 DEF ThreadTells
  <2>2. site \in Unresolved \/ \E k \in 1..n : seen[k][1] = "site_write"
    BY <1>5, <1>9, <2>1
  <2>3. ASSUME NEW k \in 1..n
        PROVE  ~(IsView(seen[k][1]) /\ seen[k][2] \in {"passed", "cancelled"})
    BY <1>3, <1>5, <1>9, <1>12 DEF IsView, Checked
  <2> QED
    BY <1>7, <2>2, <2>3
<1>13. ASSUME turn'.reads.successful PROVE ghost'.lastRead = ghost'.turns
  BY <1>1, <1>3, <1>5, <1>6, <1>9, <1>13 DEF ThreadTells
<1>14. graph' = "native" => ghost'.continued = turn'.fired /\ (turn'.progress => ghost'.moved)
  BY <1>1, <1>2, <1>3, <1>6 DEF ThreadTells
<1>15. Nothing \in OutType
  BY DEF Nothing, OutType, Texts, Endings, Labels, Statuses
<1>16. GateTypes'
  BY <1>1, <1>2, <1>3, <1>4, <1>6, <1>7, <1>8, <1>15 DEF GateTypes
<1>17. ThreadTells'
  BY <1>10, <1>11, <1>12, <1>13, <1>14 DEF ThreadTells
<1>18. OutcomeHolds'
  BY <1>2 DEF OutcomeHolds
<1> QED
  BY <1>16, <1>17, <1>18 DEF TaskInv

-------------------------------------------------------------------------------
(* The theorems.                                                              *)

LEMMA TaskStepKeeps == TaskInv /\ [TaskNext]_taskVars => TaskInv'
<1>1. ASSUME TaskInv, UNCHANGED taskVars PROVE TaskInv'
  <2>1. UNCHANGED <<graph, offer, ask, turn, site, contract, issued, native, place, out, ghost>>
    BY <1>1 DEF taskVars
  <2>2. GateTypes' /\ ThreadTells'
    BY <1>1, <2>1 DEF TaskInv, GateTypes, ThreadTells
  <2>3. OutcomeHolds'
    BY <1>1, <2>1 DEF TaskInv, OutcomeHolds, Disabled
  <2> QED
    BY <2>2, <2>3 DEF TaskInv
<1> QED
  BY <1>1, ModelStepKeeps, ToolsAnswerKeeps, OwnerTurnKeeps DEF TaskNext

\* What the gates read of the thread tells what happened in it: the inductive invariant of
\* the completion gates, for the owner's messages, offers and batches in any order.
THEOREM TaskInvariant == TaskSpec => []TaskInv
<1>1. TaskInit => TaskInv
  BY TaskStarts
<1>2. TaskInv /\ [TaskNext]_taskVars => TaskInv'
  BY TaskStepKeeps
<1> QED
  BY <1>1, <1>2, PTL DEF TaskSpec

\* The gates' variables keep their types, the external and the native actions stay within
\* the limit, and a turn's thread shows at most GateLimit calls of the open-plan gate.
THEOREM GatesTypeCorrect == TaskSpec => []TaskTypeOK
<1>1. TaskInv => TaskTypeOK
  <2> SUFFICES ASSUME TaskInv PROVE TaskTypeOK
    OBVIOUS
  <2>1. GateTypes /\ GateLimit \in Nat
    BY TaskGateAssumption DEF TaskInv
  <2>2. turn \in TurnType /\ turn.fired <= GateLimit
    BY <2>1 DEF GateTypes
  <2>3. turn.fired \in 0..GateLimit
    BY <2>1, <2>2 DEF TurnType
  <2>4. turn \in [plan : PlanTools \cup {"none"}, open : BOOLEAN, fired : 0..GateLimit,
                 progress : BOOLEAN, acted : BOOLEAN, view : Views \cup {"none"},
                 repeated : 0..3, reads : [called : BOOLEAN, successful : BOOLEAN]]
    BY <2>2, <2>3 DEF TurnType, ReadsType
  <2>5. out.text \in Texts
    BY <2>1 DEF GateTypes, OutType
  <2> QED
    BY <2>1, <2>4, <2>5 DEF GateTypes, TaskTypeOK, SiteType, ContractType
<1> QED
  BY <1>1, TaskInvariant, PTL

\* No turn is reported as verified after something that can change an artefact was issued
\* behind the verification (after_result, observe).
THEOREM VerificationStaysCurrent == TaskSpec => []VerifiedIsCurrent
<1>1. TaskInv => VerifiedIsCurrent
  BY DEF TaskInv, ThreadTells, OutcomeHolds, VerifiedIsCurrent, Ended
<1> QED
  BY <1>1, TaskInvariant, PTL

\* No sequence of turns makes the gates forget a failed verification or a plan that was
\* not confirmed (gate_final, final_status).
THEOREM FailureIsNotForgotten == TaskSpec => []FailureSurvives
<1>1. TaskInv => FailureSurvives
  BY DEF TaskInv, ThreadTells, OutcomeHolds, FailureSurvives, Ended
<1> QED
  BY <1>1, TaskInvariant, PTL

\* No answer of the model ends a turn over a site copy written since its last typecheck,
\* unless the owner stopped the work or forbade tools (site_jobs, gate_final).
THEOREM NoAnswerOnUncheckedSite == TaskSpec => []SiteIsChecked
<1>1. TaskInv => SiteIsChecked
  BY DEF TaskInv, ThreadTells, OutcomeHolds, SiteIsChecked, Ended
<1> QED
  BY <1>1, TaskInvariant, PTL

\* No negative claim without a gate's label ends a turn but on a status read that
\* succeeded in that turn (gate_final_answer, successful_status_reads).
THEOREM ClaimsRestOnReads == TaskSpec => []NegativeRestsOnRead
<1>1. TaskInv => NegativeRestsOnRead
  BY DEF TaskInv, ThreadTells, OutcomeHolds, NegativeRestsOnRead, RestsOnRead, Ended
<1> QED
  BY <1>1, TaskInvariant, PTL

\* In the native graph the gate on an open plan continues a turn at most GateLimit times,
\* and never twice without real work in between (open_plan_gate).
THEOREM ContinuesOnlyAfterWork == TaskSpec => ContinuationsBounded
<1>1. ASSUME TaskInv, TaskNext, graph = "native" PROVE ContinuesWithin
  <2> SUFFICES ASSUME place = "model", place' = "tools", out'.label = "open_plan_continue"
               PROVE  /\ ghost.continued < GateLimit
                      /\ ghost.continued = 0 \/ ghost.moved
    BY DEF ContinuesWithin
  <2>1. ModelStep
    BY <1>1 DEF TaskNext, ToolsAnswer, OwnerTurn
  <2>2. PICK f : Publishable(f)
    BY <1>1, <2>1, ModelStepPublishes DEF Abandons
  <2>3. Continues(f)
    BY <1>1, <2>2, Published DEF Publishable, Continues
  <2>4. ~Exhausted(turn)
    BY <2>2, <2>3 DEF Publishable, Passed, GateCallAlone
  <2>5. /\ turn.fired \in Nat /\ GateLimit \in Nat
        /\ ghost.continued = turn.fired /\ (turn.progress => ghost.moved)
    BY <1>1, TaskGateAssumption DEF TaskInv, GateTypes, ThreadTells, TurnType
  <2> QED
    BY <2>4, <2>5 DEF Exhausted
<1>2. TaskInv /\ [TaskNext]_taskVars => [graph = "native" => ContinuesWithin]_taskVars
  BY <1>1
<1> QED
  BY <1>2, TaskInvariant, PTL DEF TaskSpec, ContinuationsBounded
===============================================================================
