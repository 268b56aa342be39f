--------------------------- MODULE LoopPartsProofs ---------------------------
(***************************************************************************)
(* Theorems about the parts of one round of the durable loop: the tools a  *)
(* model step is offered, for any registry, any catalogues and owner       *)
(* messages and any limit on the offer; the journal of the tools that      *)
(* failed, for any calls, batches and limits; the paid calls of a step;    *)
(* and the round they make together.                                       *)
(***************************************************************************)
EXTENDS LoopParts, RunningValues, SequenceTheorems, FunctionTheorems

-------------------------------------------------------------------------------
(* The paid calls of a step: their inductive invariant and what follows from   *)
(* it, for a stage of any size and any admissible reserve.                     *)

\* The limits under which the calls of a step are made never exceed the stage's.
LEMMA LimitsInside ==
    ASSUME TypeOK
    PROVE  /\ StageLimit \in Nat /\ StageLimit <= OutputLimit
           /\ FallbackIsPlain => FirstLimit \in Nat /\ FirstLimit <= StageLimit
  BY GenerationAssumption DEF TypeOK, StageLimit, FirstLimit, FallbackIsPlain

\* A sum of usages is unknown or the sum of both: it is never less than what was spent.
LEMMA SumIsExact ==
    ASSUME NEW u \in {Unknown, spent}, NEW a, a.cost \in Nat, spent \in Nat
    PROVE  SumUsage(u, Usage(a)) \in {Unknown, spent + a.cost}
  BY DEF SumUsage, Usage, Unknown

\* The inductive invariant holds before the first call.
LEMMA InitInv == Init => GenerationInv
<1>1. SUFFICES ASSUME Init PROVE GenerationInv
  OBVIOUS
<1>2. lowered \in BOOLEAN /\ toolsOff \in BOOLEAN
  BY <1>1, Zenon DEF Init
<1>3. fallback \in BOOLEAN /\ withdrawn \in BOOLEAN
  BY <1>1, Zenon DEF Init
<1>4. result \in Result /\ shown \in Text
  BY <1>1 DEF Init, NoResult, NoText, Result, Text, Writers, Kinds, Unknown
<1>5. TypeOK
  BY <1>1, <1>2, <1>3, <1>4, GenerationAssumption DEF Init, TypeOK
<1>6. QED
  BY <1>1, <1>5, GenerationAssumption DEF Init, GenerationInv, UsageHonest, TwoCallsAtMost,
     ShownIsPublished, CallsAreWhole, CheckCoversCalls, BeforeFirst, FallbackIsPlain,
     Accounted, OncePerKind, StageLimit

\* A message the step builds is a result.
LEMMA ResultIsTyped ==
    ASSUME NEW t \in Text, NEW c \in {"none", "model", "server"},
           NEW s \in {"none", "clean", "cut", "refused"},
           NEW u \in {Unknown} \cup 0..OutputLimit, NEW b \in BOOLEAN
    PROVE  [text |-> t, calls |-> c, stop |-> s, usage |-> u, blocked |-> b] \in Result
  BY DEF Result

\* A usage the stage can have.
LEMMA UsageIsTyped ==
    ASSUME NEW a, a.cost \in 0..OutputLimit
    PROVE  Usage(a) \in {Unknown} \cup 0..OutputLimit
  BY DEF Usage

\* A refusal in the server's words is a result, and these are its parts.
LEMMA RefusalIsTyped ==
    ASSUME NEW u \in {Unknown} \cup 0..OutputLimit, NEW b \in BOOLEAN
    PROVE  /\ Refusal(u, b) \in Result
           /\ Refusal(u, b).usage = u /\ Refusal(u, b).calls = "none"
           /\ Refusal(u, b).text = ServerText
<1>1. ServerText \in Text
  BY DEF ServerText, Text, Writers, Kinds
<1>2. Refusal(u, b) \in Result
  BY <1>1, ResultIsTyped DEF Refusal
<1> QED
  BY <1>2 DEF Refusal

\* The message of an answer is well typed, and so is the result made of it.
LEMMA AnswerIsTyped ==
    ASSUME NEW who \in {"main", "synthesis", "retry"}, NEW limit \in 0..OutputLimit,
           NEW a \in Answers(who, limit)
    PROVE  /\ a.text \in Text /\ a.cost \in 0..limit
           /\ a.calls \in {"none", "model"} /\ a.stop \in {"clean", "cut", "refused"}
           /\ \A u \in {Unknown} \cup 0..OutputLimit :
                 /\ AsResult(a, u) \in Result /\ AsResult(a, u).usage = u
                 /\ ~AsResult(a, u).blocked /\ AsResult(a, u).stop = a.stop
                 /\ AsResult(a, u).calls = a.calls /\ AsResult(a, u).text = a.text
<1>1. a.text \in {NoText} \cup {[by |-> who, kind |-> k] : k \in Kinds \ {"none"}}
  BY DEF Answers
<1>2. a.text \in Text
  <2>1. CASE a.text = NoText
    BY <2>1 DEF Text, NoText, Writers, Kinds
  <2>2. ASSUME NEW k \in Kinds \ {"none"}, a.text = [by |-> who, kind |-> k]
        PROVE  a.text \in Text
    <3>1. who \in Writers /\ k \in Kinds
      BY DEF Writers
    <3> QED
      BY <2>2, <3>1 DEF Text
  <2> QED
    BY <1>1, <2>1, <2>2
<1>3. a.cost \in 0..limit /\ a.calls \in {"none", "model"} /\ a.stop \in {"clean", "cut", "refused"}
  BY DEF Answers
<1>4. ASSUME NEW u \in {Unknown} \cup 0..OutputLimit
      PROVE  /\ AsResult(a, u) \in Result /\ AsResult(a, u).usage = u
             /\ ~AsResult(a, u).blocked /\ AsResult(a, u).stop = a.stop
             /\ AsResult(a, u).calls = a.calls /\ AsResult(a, u).text = a.text
  <2>1. AsResult(a, u) \in Result
    BY <1>2, <1>3, ResultIsTyped DEF AsResult
  <2> QED
    BY <2>1 DEF AsResult
<1> QED
  BY <1>2, <1>3, <1>4

\* A stream that broke off leaves nothing shown that is not withdrawn.
LEMMA BreaksOffWithdraws ==
    ASSUME TypeOK, BreaksOff
    PROVE  shown' \in Text /\ withdrawn' \in BOOLEAN /\ (shown' # NoText => withdrawn')
<1>1. [by |-> "cut short", kind |-> "words"] \in Text
  BY DEF Text, Writers, Kinds
<1>2. shown' \in Text
  BY <1>1 DEF TypeOK, BreaksOff
<1>3. withdrawn' \in BOOLEAN /\ (shown' # NoText => withdrawn')
  BY Zenon DEF BreaksOff
<1> QED
  BY <1>2, <1>3

\* What is shown of a text is a text.
LEMMA ShowsIsTyped ==
    ASSUME TypeOK, NEW t \in Text, Shows(t)
    PROVE  shown' \in Text
  BY DEF TypeOK, Shows

LEMMA PreflightRejectsInv ==
    ASSUME GenerationInv, PreflightRejects
    PROVE  GenerationInv'
<1> USE DEF GenerationInv
<1>1. result' \in Result /\ result'.usage = 0 /\ result'.calls = "none"
  <2>1. 0 \in {Unknown} \cup 0..OutputLimit /\ FALSE \in BOOLEAN
    BY GenerationAssumption
  <2> QED
    BY <2>1, RefusalIsTyped DEF PreflightRejects
<1>2. fallback' = fallback /\ lowered' = lowered /\ toolsOff' = toolsOff /\ withdrawn' = withdrawn
  BY DEF PreflightRejects, settings
<1>3. TypeOK'
  BY <1>1, <1>2 DEF TypeOK, PreflightRejects, settings
<1>4. spent' = 0 /\ calls' = 0 /\ shown' = NoText /\ pc' = "published" /\ held' = held
      /\ repeated' = "none"
      /\ attested' \in {NoCheck} \cup 0..2
  BY DEF PreflightRejects, BeforeFirst, settings, TypeOK
<1> QED
  BY <1>1, <1>2, <1>3, <1>4, GenerationAssumption DEF UsageHonest, TwoCallsAtMost, ShownIsPublished,
     CallsAreWhole, CheckCoversCalls, BeforeFirst, FallbackIsPlain, Accounted, OncePerKind,
     StageLimit

LEMMA CircuitOpenInv ==
    ASSUME GenerationInv, CircuitOpen
    PROVE  GenerationInv'
<1> USE DEF GenerationInv
<1>1. result' \in Result /\ result'.usage = Unknown /\ result'.calls = "none"
  BY RefusalIsTyped, GenerationAssumption DEF CircuitOpen, Blocked
<1>2. fallback' = fallback /\ lowered' = lowered /\ toolsOff' = toolsOff /\ withdrawn' = withdrawn
  BY DEF CircuitOpen, settings
<1>3. TypeOK'
  BY <1>1, <1>2 DEF FirstCheck, TypeOK, CircuitOpen, settings
<1> QED
  BY <1>1, <1>3 DEF FirstCheck, CircuitOpen, settings, UsageHonest, TwoCallsAtMost, ShownIsPublished,
     CallsAreWhole, CheckCoversCalls, BeforeFirst, FallbackIsPlain, Accounted, OncePerKind,
     StageLimit

LEMMA PolicyRejectsInv ==
    ASSUME GenerationInv, PolicyRejects
    PROVE  GenerationInv'
<1> USE DEF GenerationInv
<1>1. CASE pc' = "main"
  <2>1. fallback' = TRUE /\ lowered' = FALSE /\ held' = 0 /\ result' = result
    BY <1>1 DEF PolicyRejects
  <2>2. TypeOK'
    BY <1>1, <2>1 DEF TypeOK, PolicyRejects
  <2> QED
    BY <1>1, <2>1, <2>2, GenerationAssumption DEF PolicyRejects, UsageHonest, TwoCallsAtMost,
       ShownIsPublished, CallsAreWhole, CheckCoversCalls, BeforeFirst, FallbackIsPlain,
       Accounted, OncePerKind, StageLimit
<1>2. CASE pc' # "main"
  <2>1. pc' = "published" /\ result' = Blocked(0) /\ fallback' = fallback /\ lowered' = lowered
        /\ held' = held
    BY <1>2 DEF PolicyRejects
  <2>2. result' \in Result /\ result'.usage = 0 /\ result'.calls = "none"
    <3>1. 0 \in {Unknown} \cup 0..OutputLimit /\ TRUE \in BOOLEAN
      BY GenerationAssumption
    <3> QED
      BY <2>1, <3>1, RefusalIsTyped DEF Blocked
  <2>3. TypeOK'
    BY <2>1, <2>2 DEF TypeOK, PolicyRejects
  <2>4. spent' = 0 /\ calls' = 0 /\ shown' = NoText /\ repeated' = "none"
       /\ attested' \in {NoCheck} \cup 0..2
    BY DEF PolicyRejects, BeforeFirst, TypeOK
  <2> QED
    BY <2>1, <2>2, <2>3, <2>4, GenerationAssumption DEF UsageHonest, TwoCallsAtMost, ShownIsPublished,
       CallsAreWhole, CheckCoversCalls, BeforeFirst, FallbackIsPlain, Accounted, OncePerKind,
       StageLimit
<1> QED
  BY <1>1, <1>2

LEMMA MainFailsInv ==
    ASSUME GenerationInv, MainFails
    PROVE  GenerationInv'
<1> USE DEF GenerationInv
<1>1. FirstLimit \in Nat /\ FirstLimit <= StageLimit /\ StageLimit \in Nat
  BY LimitsInside
<1>2. PICK cost \in 0..FirstLimit : Charged(cost)
  BY DEF MainFails
<1>3. spent' \in 0..StageLimit /\ calls' = 1
  BY <1>1, <1>2 DEF MainFails, BeforeFirst, Charged
<1>4. result' \in Result /\ result'.usage = Unknown /\ result'.calls = "none"
  BY RefusalIsTyped DEF MainFails, Blocked
<1>5. shown' \in Text /\ withdrawn' \in BOOLEAN /\ (shown' # NoText => withdrawn')
  BY BreaksOffWithdraws DEF MainFails
<1>6. fallback' = fallback /\ lowered' = lowered /\ toolsOff' = toolsOff
  BY DEF MainFails, settings
<1>7. TypeOK'
  BY <1>1, <1>3, <1>4, <1>5, <1>6 DEF FirstCheck, TypeOK, MainFails, settings
<1> QED
  BY <1>1, <1>3, <1>4, <1>5, <1>6, <1>7 DEF FirstCheck, MainFails, settings, UsageHonest, TwoCallsAtMost,
     ShownIsPublished, CallsAreWhole, CheckCoversCalls, BeforeFirst, FallbackIsPlain,
     Accounted, OncePerKind, StageLimit

LEMMA MainRaisesInv ==
    ASSUME GenerationInv, MainRaises
    PROVE  GenerationInv'
<1> USE DEF GenerationInv
<1>1. FirstLimit \in Nat /\ FirstLimit <= StageLimit /\ StageLimit \in Nat
  BY LimitsInside
<1>2. PICK cost \in 0..FirstLimit : Charged(cost)
  BY DEF MainRaises
<1>3. spent' \in 0..StageLimit /\ calls' = 1
  BY <1>1, <1>2 DEF MainRaises, BeforeFirst, Charged
<1>4. fallback' = fallback /\ lowered' = lowered /\ toolsOff' = toolsOff /\ withdrawn' = withdrawn
  BY DEF MainRaises, settings
<1>5. TypeOK'
  BY <1>1, <1>3, <1>4 DEF TypeOK, MainRaises, settings
<1> QED
  BY <1>1, <1>3, <1>4, <1>5 DEF MainRaises, settings, UsageHonest, TwoCallsAtMost,
     ShownIsPublished, CallsAreWhole, CheckCoversCalls, BeforeFirst, FallbackIsPlain,
     Accounted, OncePerKind, StageLimit

LEMMA MainAnswersInv ==
    ASSUME GenerationInv, NEW a \in Answers("main", FirstLimit), MainAnswers(a)
    PROVE  GenerationInv'
<1> USE DEF GenerationInv
<1>1. FirstLimit \in Nat /\ FirstLimit <= StageLimit /\ StageLimit \in Nat /\ StageLimit <= OutputLimit
      /\ FirstLimit \in 0..OutputLimit
  BY LimitsInside, GenerationAssumption
<1>2. a.cost \in 0..FirstLimit /\ a.text \in Text /\ a.stop \in {"clean", "cut", "refused"}
  BY <1>1, AnswerIsTyped
<1>3. spent' = a.cost /\ calls' = 1
  BY <1>1, <1>2 DEF MainAnswers, Charged, BeforeFirst
<1>4. shown' \in Text
  BY <1>2, ShowsIsTyped DEF MainAnswers
<1>5. Usage(a) \in {Unknown, spent'} /\ Usage(a) \in {Unknown} \cup 0..OutputLimit
  <2>1. a.cost \in 0..OutputLimit
    BY <1>1, <1>2, GenerationAssumption
  <2>2. Usage(a) \in {Unknown, spent'}
    BY <1>3 DEF Usage
  <2> QED
    BY <2>1, <2>2, UsageIsTyped
<1>6. CASE a.accepted
  <2>1. result' = AsResult(a, Usage(a)) /\ pc' = "answered" /\ withdrawn' = withdrawn
    BY <1>6 DEF MainAnswers
  <2>2. result' \in Result /\ result'.usage = Usage(a) /\ ~result'.blocked
        /\ result'.stop \in {"clean", "cut", "refused"}
    BY <2>1, <1>1, <1>2, <1>5, AnswerIsTyped
  <2>3. TypeOK'
    BY <2>1, <2>2, <1>1, <1>2, <1>3, <1>4 DEF FirstCheck, TypeOK, MainAnswers, settings
  <2> QED
    BY <2>1, <2>2, <2>3, <1>1, <1>2, <1>3, <1>5 DEF FirstCheck, MainAnswers, settings, UsageHonest,
       TwoCallsAtMost, ShownIsPublished, CallsAreWhole, CheckCoversCalls, BeforeFirst,
       FallbackIsPlain, Accounted, OncePerKind, StageLimit
<1>7. CASE ~a.accepted
  <2>1. result' = Blocked(Usage(a)) /\ pc' = "published"
    BY <1>7 DEF MainAnswers
  <2>2. withdrawn' \in BOOLEAN /\ (shown' # NoText => withdrawn')
    BY <1>7, Zenon DEF MainAnswers
  <2>3. result' \in Result /\ result'.usage = Usage(a) /\ result'.calls = "none"
    BY <2>1, <1>5, RefusalIsTyped DEF Blocked
  <2>4. TypeOK'
    BY <2>1, <2>2, <2>3, <1>1, <1>2, <1>3, <1>4 DEF FirstCheck, TypeOK, MainAnswers, settings
  <2> QED
    BY <2>1, <2>2, <2>3, <2>4, <1>1, <1>2, <1>3, <1>5 DEF FirstCheck, MainAnswers, settings, UsageHonest,
       TwoCallsAtMost, ShownIsPublished, CallsAreWhole, CheckCoversCalls, BeforeFirst,
       FallbackIsPlain, Accounted, OncePerKind, StageLimit
<1> QED
  BY <1>6, <1>7

\* The limit of a repetition is what the first call left of the stage.
LEMMA RepetitionLimits ==
    ASSUME GenerationInv, pc \in {"synthesis", "retry"}
    PROVE  /\ result.usage = spent /\ result.usage \in Nat
           /\ Headroom(result.usage) \in Nat
           /\ pc = "synthesis" => SynthesisLimit \in Nat
           /\ SynthesisLimit <= Headroom(result.usage)
           /\ spent + Headroom(result.usage) = StageLimit
           /\ StageLimit \in Nat /\ StageLimit <= OutputLimit
           /\ ~fallback
<1> USE DEF GenerationInv
<1>1. StageLimit \in Nat /\ StageLimit <= OutputLimit /\ FirstLimit \in Nat
  BY LimitsInside
<1>2. result.usage = spent
  BY DEF Accounted, OncePerKind, IsLowAnswer, IsEmptyTruncation
<1>3. spent \in Nat /\ spent <= StageLimit
  BY DEF TypeOK, Accounted
<1>4. ~fallback
  BY GenerationAssumption DEF FallbackIsPlain, OncePerKind, IsLowAnswer, IsEmptyTruncation
<1> QED
  BY <1>1, <1>2, <1>3, <1>4 DEF Headroom, SynthesisLimit, Least

LEMMA BeginRepetitionInv ==
    ASSUME GenerationInv, BeginRepetition
    PROVE  GenerationInv'
<1> USE DEF GenerationInv
<1>1. fallback' = fallback /\ lowered' = lowered /\ toolsOff' = toolsOff /\ withdrawn' = withdrawn
      /\ held' = held /\ streaming' = streaming /\ result' = result /\ attested' = attested
      /\ shown' = shown /\ repeated' = repeated /\ calls' = calls /\ spent' = spent
  BY DEF BeginRepetition, settings
<1>2. TypeOK' /\ StageLimit' = StageLimit
  BY <1>1 DEF TypeOK, BeginRepetition, StageLimit
<1>3. Accounted' /\ FallbackIsPlain'
  BY <1>1, <1>2 DEF BeginRepetition, Accounted, FallbackIsPlain
<1>4. IsLowAnswer' = IsLowAnswer
  BY <1>1 DEF IsLowAnswer, Visible
<1>5. IsEmptyTruncation' = IsEmptyTruncation
  BY <1>1, <1>2 DEF IsEmptyTruncation, Visible, Headroom
<1>6. OncePerKind'
  <2>1. CASE IsLowAnswer /\ pc' = "synthesis"
    <3>1. repeated = "none" /\ calls = 1 /\ attested \in FirstCheck /\ ~result.blocked
      BY <2>1 DEF FirstCheck, BeginRepetition, OncePerKind, IsLowAnswer
    <3> QED
      BY <2>1, <3>1, <1>1, <1>4 DEF OncePerKind
  <2>2. CASE ~IsLowAnswer /\ IsEmptyTruncation /\ pc' = "retry"
    <3>1. repeated = "none" /\ calls = 1 /\ attested \in FirstCheck /\ ~result.blocked
      BY <2>2 DEF FirstCheck, BeginRepetition, OncePerKind, IsEmptyTruncation, TypeOK
    <3> QED
      BY <2>2, <3>1, <1>1, <1>5 DEF OncePerKind
  <2> QED
    BY <2>1, <2>2 DEF BeginRepetition
<1> QED
  BY <1>1, <1>2, <1>3, <1>6 DEF BeginRepetition, UsageHonest, TwoCallsAtMost, ShownIsPublished,
     CallsAreWhole, CheckCoversCalls, BeforeFirst

LEMMA SynthesisFailsInv ==
    ASSUME GenerationInv, SynthesisFails
    PROVE  GenerationInv'
<1> USE DEF GenerationInv
<1>1. PICK cost \in 0..SynthesisLimit : Charged(cost)
  BY DEF SynthesisFails
<1>2. StageLimit \in Nat /\ ~fallback /\ spent + cost <= StageLimit /\ spent + cost \in Nat
  BY <1>1, RepetitionLimits DEF SynthesisFails, TypeOK
<1>3. IsLowAnswer /\ calls = 1 /\ attested \in FirstCheck /\ ~result.blocked
  BY DEF SynthesisFails, OncePerKind
<1>4. spent' = spent + cost /\ calls' = 2 /\ attested' \in {NoCheck, 2} /\ repeated' = "synthesis"
      /\ pc' = "answered"
  BY <1>1, <1>3 DEF SynthesisFails, Charged, CountsRepetition, FirstCheck
<1>5. fallback' = fallback /\ lowered' = lowered /\ toolsOff' = toolsOff /\ held' = held
      /\ streaming' = streaming
  BY DEF SynthesisFails, settings
<1>6. shown' \in Text /\ withdrawn' \in BOOLEAN
  BY BreaksOffWithdraws DEF SynthesisFails
<1>7. result' \in Result /\ result'.usage = Unknown /\ ~result'.blocked /\ result'.stop = "clean"
  BY <1>3 DEF SynthesisFails, TypeOK, Result, IsLowAnswer
<1>8. TypeOK'
  BY <1>2, <1>4, <1>5, <1>6, <1>7 DEF TypeOK
<1> QED
  BY <1>2, <1>4, <1>5, <1>7, <1>8 DEF UsageHonest, TwoCallsAtMost, ShownIsPublished,
     CallsAreWhole, CheckCoversCalls, BeforeFirst, FallbackIsPlain, Accounted, OncePerKind,
     StageLimit

LEMMA SynthesisAnswersInv ==
    ASSUME GenerationInv, NEW a \in Answers("synthesis", SynthesisLimit), SynthesisAnswers(a)
    PROVE  GenerationInv'
<1> USE DEF GenerationInv
<1> DEFINE sum == SumUsage(result.usage, Usage(a))
<1>1. StageLimit \in Nat /\ StageLimit <= OutputLimit /\ ~fallback /\ result.usage = spent
      /\ SynthesisLimit \in 0..OutputLimit /\ spent + SynthesisLimit <= StageLimit
  BY RepetitionLimits, GenerationAssumption DEF SynthesisAnswers, TypeOK
<1>2. a.cost \in 0..SynthesisLimit /\ a.text \in Text
  BY <1>1, AnswerIsTyped
<1>3. spent + a.cost <= StageLimit /\ spent + a.cost \in 0..OutputLimit
  BY <1>1, <1>2, GenerationAssumption DEF TypeOK
<1>4. IsLowAnswer /\ calls = 1 /\ attested \in FirstCheck /\ ~result.blocked
  BY DEF SynthesisAnswers, OncePerKind
<1>5. spent' = spent + a.cost /\ calls' = 2 /\ attested' \in {NoCheck, 2} /\ repeated' = "synthesis"
      /\ pc' = "answered"
  BY <1>4 DEF SynthesisAnswers, Charged, CountsRepetition, FirstCheck
<1>6. fallback' = fallback /\ lowered' = lowered /\ toolsOff' = toolsOff /\ held' = held
      /\ streaming' = streaming /\ withdrawn' = withdrawn
  BY DEF SynthesisAnswers, settings
<1>7. shown' \in Text
  BY <1>2, ShowsIsTyped DEF SynthesisAnswers
<1>8. sum \in {Unknown, spent'} /\ sum \in {Unknown} \cup 0..OutputLimit
  <2>1. sum \in {Unknown, spent + a.cost}
    BY <1>1, <1>2, SumIsExact DEF TypeOK
  <2> QED
    BY <2>1, <1>3, <1>5
<1>9. /\ result' \in Result /\ result'.usage \in {Unknown, spent'}
      /\ ~result'.blocked /\ result'.stop = "clean"
  <2>1. CASE ~a.accepted
    <3>1. result' = [result EXCEPT !.usage = Unknown]
      BY <2>1 DEF SynthesisAnswers
    <3> QED
      BY <3>1, <1>4 DEF TypeOK, Result, IsLowAnswer
  <2>2. CASE a.accepted /\ IsUsable(a)
    <3>1. result' = AsResult(a, sum)
      BY <2>2 DEF SynthesisAnswers
    <3>2. a.stop = "clean"
      BY <2>2 DEF IsUsable
    <3> HIDE DEF sum
    <3> QED
      BY <3>1, <3>2, <1>1, <1>8, AnswerIsTyped
  <2>3. CASE a.accepted /\ ~IsUsable(a)
    <3>1. result' = [result EXCEPT !.usage = sum]
      BY <2>3 DEF SynthesisAnswers
    <3> HIDE DEF sum
    <3> QED
      BY <3>1, <1>4, <1>8 DEF TypeOK, Result, IsLowAnswer
  <2> QED
    BY <2>1, <2>2, <2>3
<1>10. TypeOK'
  BY <1>3, <1>5, <1>6, <1>7, <1>9 DEF TypeOK
<1> QED
  BY <1>1, <1>3, <1>5, <1>6, <1>9, <1>10 DEF UsageHonest, TwoCallsAtMost, ShownIsPublished,
     CallsAreWhole, CheckCoversCalls, BeforeFirst, FallbackIsPlain, Accounted, OncePerKind,
     StageLimit

LEMMA RetryFailsInv ==
    ASSUME GenerationInv, RetryFails
    PROVE  GenerationInv'
<1> USE DEF GenerationInv
<1>1. PICK cost \in 0..Headroom(result.usage) : Charged(cost)
  BY DEF RetryFails
<1>2. StageLimit \in Nat /\ ~fallback /\ spent + cost <= StageLimit /\ spent + cost \in Nat
  BY <1>1, RepetitionLimits DEF RetryFails, TypeOK
<1>3. result.stop = "cut" /\ calls = 1 /\ attested \in FirstCheck /\ ~result.blocked
  BY DEF RetryFails, OncePerKind, IsEmptyTruncation
<1>4. spent' = spent + cost /\ calls' = 2 /\ attested' \in {NoCheck, 2} /\ repeated' = "retry"
      /\ pc' = "answered" /\ toolsOff' = TRUE
  BY <1>1, <1>3 DEF RetryFails, Charged, CountsRepetition, FirstCheck
<1>5. fallback' = fallback /\ lowered' = lowered /\ held' = held /\ streaming' = streaming
  BY DEF RetryFails
<1>6. shown' \in Text /\ withdrawn' \in BOOLEAN
  BY BreaksOffWithdraws DEF RetryFails
<1>7. result' \in Result /\ result'.usage = Unknown /\ ~result'.blocked /\ result'.stop = "cut"
  BY <1>3 DEF RetryFails, TypeOK, Result
<1>8. TypeOK'
  BY <1>2, <1>4, <1>5, <1>6, <1>7 DEF TypeOK
<1> QED
  BY <1>2, <1>4, <1>5, <1>7, <1>8 DEF UsageHonest, TwoCallsAtMost, ShownIsPublished,
     CallsAreWhole, CheckCoversCalls, BeforeFirst, FallbackIsPlain, Accounted, OncePerKind,
     StageLimit

LEMMA RetryAnswersInv ==
    ASSUME GenerationInv, NEW a \in Answers("retry", Headroom(result.usage)), RetryAnswers(a)
    PROVE  GenerationInv'
<1> USE DEF GenerationInv
<1> DEFINE sum == SumUsage(result.usage, Usage(a))
<1>1. StageLimit \in Nat /\ StageLimit <= OutputLimit /\ ~fallback /\ result.usage = spent
      /\ Headroom(result.usage) \in 0..OutputLimit
      /\ spent + Headroom(result.usage) = StageLimit
  BY RepetitionLimits, GenerationAssumption DEF RetryAnswers, TypeOK
<1>2. a.cost \in 0..Headroom(result.usage) /\ a.text \in Text
  BY <1>1, AnswerIsTyped
<1>3. spent + a.cost <= StageLimit /\ spent + a.cost \in 0..OutputLimit
  BY <1>1, <1>2, GenerationAssumption DEF TypeOK
<1>4. calls = 1 /\ attested \in FirstCheck
  BY DEF RetryAnswers, OncePerKind
<1>5. spent' = spent + a.cost /\ calls' = 2 /\ attested' \in {NoCheck, 2} /\ repeated' = "retry"
      /\ pc' = "answered" /\ toolsOff' = TRUE
  BY <1>4 DEF RetryAnswers, Charged, CountsRepetition, FirstCheck, RetryTools
<1>6. fallback' = fallback /\ lowered' = lowered /\ held' = held /\ streaming' = streaming
  BY DEF RetryAnswers
<1>7. shown' \in Text /\ withdrawn' \in BOOLEAN
  <2>1. withdrawn' \in BOOLEAN
    BY Zenon DEF RetryAnswers
  <2> QED
    BY <1>2, <2>1, ShowsIsTyped DEF RetryAnswers
<1>8. sum \in {Unknown, spent'} /\ sum \in {Unknown} \cup 0..OutputLimit
  <2>1. sum \in {Unknown, spent + a.cost}
    BY <1>1, <1>2, SumIsExact DEF TypeOK
  <2> QED
    BY <2>1, <1>3, <1>5
<1>9. /\ result' \in Result /\ result'.usage \in {Unknown, spent'}
      /\ result'.blocked => result'.calls = "none"
      /\ result'.stop = "none" => result'.blocked
  <2>1. CASE a.accepted
    <3>1. result' = AsResult(a, sum)
      BY <2>1 DEF RetryAnswers
    <3> HIDE DEF sum
    <3> QED
      BY <3>1, <1>1, <1>8, AnswerIsTyped
  <2>2. CASE ~a.accepted
    <3>1. result' = Blocked(sum)
      BY <2>2 DEF RetryAnswers
    <3> HIDE DEF sum
    <3>2. result' \in Result /\ result'.usage = sum /\ result'.calls = "none" /\ result'.blocked
      BY <3>1, <1>8, RefusalIsTyped DEF Blocked, Refusal
    <3> QED
      BY <3>2, <1>8
  <2> QED
    BY <2>1, <2>2
<1>10. TypeOK'
  BY <1>3, <1>5, <1>6, <1>7, <1>9 DEF TypeOK
<1> QED
  BY <1>1, <1>3, <1>5, <1>6, <1>9, <1>10 DEF UsageHonest, TwoCallsAtMost, ShownIsPublished,
     CallsAreWhole, CheckCoversCalls, BeforeFirst, FallbackIsPlain, Accounted, OncePerKind,
     StageLimit

\* What the gates make of a result keeps its usage and its end, and leaves calls only
\* to an answer that ended normally and was made with tools on.
LEMMA GatesKeepUsage ==
    ASSUME TypeOK, NEW r \in Result, NEW g \in Gated(Explained(r)),
           r.blocked => r.calls = "none", r.stop = "none" => r.blocked
    PROVE  /\ g \in Result /\ g.usage = r.usage
           /\ g.calls # "none" => ~toolsOff /\ ~g.blocked /\ g.stop = "clean"
<1> DEFINE e == Explained(r)
<1>1. ServerText \in Text
  BY DEF ServerText, Text, Writers, Kinds
<1>2. /\ e \in Result /\ e.usage = r.usage /\ e.stop = r.stop /\ e.blocked = r.blocked
      /\ e.calls # "none" => e.calls = r.calls /\ ~Terminated(r)
  BY <1>1 DEF Explained, Terminated, Result
<1>3. Terminated(e) <=> Terminated(r)
  BY <1>2 DEF Terminated
<1> HIDE DEF e
<1>4. e.calls # "none" => ~e.blocked /\ e.stop = "clean"
  BY <1>2 DEF Terminated, Result
<1>5. CASE e.calls # "none" /\ toolsOff
  <2>1. g \in {Refused(e), [Refused(e) EXCEPT !.blocked = TRUE]}
    BY <1>5 DEF Gated, e
  <2> QED
    BY <2>1, <1>1, <1>2 DEF Refused, Result
<1>6. CASE ~(e.calls # "none" /\ toolsOff)
  <2>1. \/ g = e
        \/ g = [e EXCEPT !.text = ServerText]
        \/ g = [e EXCEPT !.calls = "none", !.text = ServerText]
        \/ g = [e EXCEPT !.calls = "none", !.text = ServerText, !.blocked = TRUE]
        \/ /\ g = [e EXCEPT !.calls = "server", !.text = ServerText]
           /\ e.calls = "none" /\ ~toolsOff /\ ~e.blocked /\ ~Terminated(e)
    BY <1>6 DEF Gated, e
  <2>2. CASE g = e \/ g = [e EXCEPT !.text = ServerText]
    BY <2>2, <1>1, <1>2, <1>4, <1>6 DEF Result
  <2>3. CASE g = [e EXCEPT !.calls = "none", !.text = ServerText]
    BY <2>3, <1>1, <1>2 DEF Result
  <2>4. CASE g = [e EXCEPT !.calls = "none", !.text = ServerText, !.blocked = TRUE]
    BY <2>4, <1>1, <1>2 DEF Result
  <2>5. CASE /\ g = [e EXCEPT !.calls = "server", !.text = ServerText]
             /\ e.calls = "none" /\ ~toolsOff /\ ~e.blocked /\ ~Terminated(e)
    BY <2>5, <1>1, <1>2 DEF Result, Terminated
  <2> QED
    BY <2>1, <2>2, <2>3, <2>4, <2>5
<1> QED
  BY <1>5, <1>6

LEMMA PublishInv ==
    ASSUME GenerationInv, Publish
    PROVE  GenerationInv'
<1> USE DEF GenerationInv
<1>1. fallback' = fallback /\ lowered' = lowered /\ toolsOff' = toolsOff /\ held' = held
      /\ streaming' = streaming /\ attested' = attested /\ shown' = shown
      /\ repeated' = repeated /\ calls' = calls /\ spent' = spent /\ pc' = "published"
  BY DEF Publish, settings
<1>2. /\ result \in Result /\ result.usage \in {Unknown, spent} /\ calls <= 2
      /\ attested \in {NoCheck, calls} /\ calls \in Nat /\ spent <= StageLimit
      /\ repeated = "retry" => toolsOff
      /\ result.blocked => result.calls = "none"
      /\ result.stop = "none" => result.blocked
  BY DEF Publish, TypeOK, Accounted, OncePerKind, TwoCallsAtMost
<1>3. /\ result' \in Result /\ result'.usage = result.usage
      /\ result'.calls # "none" => ~toolsOff /\ ~result'.blocked /\ result'.stop = "clean"
  BY <1>2, GatesKeepUsage DEF Publish
<1>4. /\ withdrawn' \in BOOLEAN
      /\ shown # NoText /\ ~withdrawn' => result'.text = shown /\ ~result'.blocked
  BY Zenon DEF Publish, Withdraws
<1>5. TypeOK'
  BY <1>1, <1>3, <1>4 DEF TypeOK
<1>6. CallsAreWhole'
  BY <1>1, <1>2, <1>3 DEF CallsAreWhole
<1> QED
  BY <1>1, <1>2, <1>3, <1>4, <1>5, <1>6 DEF UsageHonest, TwoCallsAtMost, ShownIsPublished,
     CheckCoversCalls, BeforeFirst, FallbackIsPlain, Accounted, OncePerKind, StageLimit

LEMMA CancelledInv ==
    ASSUME GenerationInv, Cancelled
    PROVE  GenerationInv'
<1> USE DEF GenerationInv
<1>1. fallback' = fallback /\ lowered' = lowered /\ toolsOff' = toolsOff /\ held' = held
      /\ streaming' = streaming /\ result' = result /\ attested' = attested
      /\ repeated' = repeated /\ pc' = "cancelled"
  BY DEF Cancelled, settings
<1>2. shown' \in Text /\ withdrawn' \in BOOLEAN /\ (shown' # NoText => withdrawn')
  BY BreaksOffWithdraws DEF Cancelled
<1>3. calls \in Nat /\ spent \in Nat
  BY DEF TypeOK
<1>4. calls' = calls + 1 /\ spent' \in Nat /\ spent' <= StageLimit
  <2>1. CASE pc = "main"
    <3>1. PICK cost \in 0..FirstLimit : Charged(cost)
      BY <2>1 DEF Cancelled
    <3> QED
      BY <2>1, <3>1, <1>3, LimitsInside DEF Charged, BeforeFirst
  <2>2. CASE pc = "synthesis"
    <3>1. PICK cost \in 0..SynthesisLimit : Charged(cost)
      BY <2>2 DEF Cancelled
    <3> QED
      BY <2>2, <3>1, <1>3, RepetitionLimits DEF Charged
  <2>3. CASE pc = "retry"
    <3>1. PICK cost \in 0..Headroom(result.usage) : Charged(cost)
      BY <2>3 DEF Cancelled
    <3> QED
      BY <2>3, <3>1, <1>3, RepetitionLimits DEF Charged
  <2> QED
    BY <2>1, <2>2, <2>3 DEF Cancelled
<1>5. calls' <= 2 /\ (fallback => calls' <= 1)
  BY <1>3, <1>4, RepetitionLimits DEF Cancelled, BeforeFirst, OncePerKind
<1>6. TypeOK'
  BY <1>1, <1>2, <1>3, <1>4 DEF TypeOK
<1> QED
  BY <1>1, <1>2, <1>4, <1>5, <1>6 DEF UsageHonest, TwoCallsAtMost, ShownIsPublished,
     CallsAreWhole, CheckCoversCalls, BeforeFirst, FallbackIsPlain, Accounted, OncePerKind,
     StageLimit

LEMMA StutterInv ==
    ASSUME GenerationInv, UNCHANGED vars
    PROVE  GenerationInv'
  BY DEF GenerationInv, vars, TypeOK, UsageHonest, TwoCallsAtMost, ShownIsPublished,
     CallsAreWhole, CheckCoversCalls, BeforeFirst, FallbackIsPlain, Accounted, OncePerKind,
     StageLimit, IsLowAnswer, IsEmptyTruncation, Visible, Headroom

\* Whatever a step does keeps the invariant.
LEMMA StageStep == GenerationInv /\ [Next]_vars => GenerationInv'
<1> SUFFICES ASSUME GenerationInv, [Next]_vars PROVE GenerationInv'
  OBVIOUS
<1>1. CASE FirstCall
  BY <1>1, PreflightRejectsInv, CircuitOpenInv, PolicyRejectsInv, MainFailsInv, MainRaisesInv,
     MainAnswersInv DEF FirstCall
<1>2. CASE Repetition
  BY <1>2, BeginRepetitionInv, SynthesisFailsInv, SynthesisAnswersInv, RetryFailsInv,
     RetryAnswersInv DEF Repetition
<1> QED
  BY <1>1, <1>2, PublishInv, CancelledInv, StutterInv DEF Next

\* The inductive invariant holds in every reachable state.
THEOREM StepIsSound == Spec => []GenerationInv
BY InitInv, StageStep, PTL DEF Spec

\* What a stage publishes accounts for all its calls, at any size of the stage: no usage
\* leaves out a call that was, or may have been, charged for, and the check stands for the
\* input of each.
THEOREM NoCallIsLost == Spec => []StageAccounted
  BY StepIsSound, PTL DEF GenerationInv, StageAccounted

LEMMA StageInvBounds == GenerationInv => StageWithinLimit
BY LimitsInside, GenerationAssumption DEF GenerationInv, Accounted, StageWithinLimit, TypeOK

\* All calls of a stage together stay within the output limit the bridge reserved for it,
\* whatever the reserve and the fallback profile's limit.
THEOREM StageIsBounded == Spec => []StageWithinLimit
BY StageInvBounds, StepIsSound, PTL

\* A stage pays for two calls at most, for one under the fallback profile.
THEOREM CallsAreFew == Spec => []TwoCallsAtMost
  BY StepIsSound, PTL DEF GenerationInv

\* What the owner was shown is what is published, or it was withdrawn.
THEOREM NothingStaysShown == Spec => []ShownIsPublished
  BY StepIsSound, PTL DEF GenerationInv

\* The loop is handed calls of whole answers made with tools on, and of no other.
THEOREM OnlyWholeCalls == Spec => []CallsAreWhole
  BY StepIsSound, PTL DEF GenerationInv

\* The repetition of a low answer keeps an answer: it replaces it only by one that says
\* or does something.
THEOREM LowAnswerKept == Spec => AnswerNeverLost
<1>1. GenerationInv /\ [Next]_vars =>
        [pc = "synthesis" /\ pc' = "answered" => Visible(result') \/ result'.calls # "none"]_vars
  <2> SUFFICES ASSUME GenerationInv, Next, pc = "synthesis", pc' = "answered"
               PROVE  Visible(result') \/ result'.calls # "none"
    OBVIOUS
  <2>1. Visible(result) /\ result \in Result
    BY DEF GenerationInv, OncePerKind, IsLowAnswer, TypeOK
  <2>2. SynthesisFails \/ \E a \in Answers("synthesis", SynthesisLimit) : SynthesisAnswers(a)
    BY DEF Next, FirstCall, PreflightRejects, CircuitOpen, PolicyRejects, MainFails, MainRaises,
       MainAnswers, Repetition, BeginRepetition, RetryFails, RetryAnswers, Publish, Cancelled
  <2>3. CASE SynthesisFails
    BY <2>1, <2>3 DEF SynthesisFails, Visible, Result
  <2>4. ASSUME NEW a \in Answers("synthesis", SynthesisLimit), SynthesisAnswers(a)
        PROVE  Visible(result') \/ result'.calls # "none"
    BY <2>1, <2>4 DEF SynthesisAnswers, IsUsable, AsResult, Visible, Result
  <2> QED
    BY <2>2, <2>3, <2>4
<1> QED
  BY <1>1, StepIsSound, PTL DEF Spec, AnswerNeverLost

-------------------------------------------------------------------------------
(* The tools a step is offered, the journal of failures, and the round.        *)

Writes == With("write") \cup With("known_write")

\* WritesAreOpened for every stage: a message that continues the work takes the route of
\* the work over, and with it what had been opened.
RouteIsOpened == route.names \cap Writes \subseteq opened \cup called

\* A promise is a tool the model asked for in this turn and the client supplies, and no
\* answer of the client comes between the promise and the step it is made for.
PromiseHolds ==
    /\ stage = "connect" => pending \subseteq asked /\ choice # "none"
    /\ promised \subseteq asked \cap supplied
    /\ promised # {} => stage \in {"model", "idle"} /\ choice # "none"

(* What the router chooses. *)

LEMMA ChosenIsSupplied ==
    ASSUME NEW hits
    PROVE  SelectTools(hits) \subseteq Chosen(hits) /\ Chosen(hits) \subseteq supplied
<1>1. SelectTools(hits) \subseteq Chosen(hits)
  BY DEF SelectTools
<1>2. Chosen(hits) \subseteq supplied
  BY DEF Chosen, Historical
<1> QED
  BY <1>1, <1>2

\* No tool that is protected and chosen is cut, whatever the limit.
LEMMA ProtectedIsKept ==
    ASSUME NEW hits
    PROVE  Protected(Chosen(hits)) \cap Chosen(hits) \subseteq SelectTools(hits)
BY DEF SelectTools

\* The words of a fresh message give a tool that writes only by its name or by their intent.
LEMMA FreshIsOpened ==
    ASSUME NEW t \in Fresh \cap Writes
    PROVE  \/ t \in text.names \cup text.brings
           \/ t \in Tools /\ Intent = "mutate" /\ Domain[t] \in text.domains
<1>1. t \in Tools /\ Role[t] \in {"write", "known_write"}
  BY DEF Writes, With
<1>2. /\ t \notin With("codex") /\ t \notin WindowTools /\ t \notin Connectors
      /\ t \notin With("core") /\ t \notin With("org")
  BY <1>1 DEF With, WindowTools, Connectors
<1>3. t \in text.names \cup text.brings \cup ByDomain
  BY <1>2 DEF Fresh
<1>4. t \in ByDomain => Intent = "mutate" /\ Domain[t] \in text.domains
  BY <1>1 DEF ByDomain
<1> QED
  BY <1>1, <1>3, <1>4

LEMMA HitsOnlyRead ==
    ASSUME NEW hits \in SemanticHits
    PROVE  hits \cap Writes = {}
<1>1. hits \subseteq With("read") \cup With("core")
  BY DEF SemanticHits
<1> QED
  BY <1>1 DEF With, Writes

\* Of the tools on offer only those that are opened, or called before, write.
LEMMA OfferIsOpened ==
    ASSUME NEW hits \in SemanticHits, RouteIsOpened
    PROVE  SelectTools(hits) \cap Writes \subseteq Opens \cup called
<1> SUFFICES ASSUME NEW t \in Chosen(hits) \cap Writes
             PROVE  t \in Opens \cup called
  BY ChosenIsSupplied
<1>1. t \in Tools /\ Role[t] \in {"write", "known_write"}
  BY DEF Writes, With
<1>2. /\ t \notin WindowTools /\ t \notin AlwaysThere /\ t \notin With("core")
      /\ t \notin hits
  BY <1>1, HitsOnlyRead DEF With, WindowTools, AlwaysThere
<1>3. \/ t \in Historical \/ t \in Required \/ t \in Requested
      \/ Continued /\ t \in route.names
      \/ ~Continued /\ t \in Fresh
  BY <1>2 DEF Chosen
<1>4. CASE t \in Historical
  BY <1>4 DEF Historical
<1>5. CASE t \in Required
  BY <1>5 DEF Required, Opens
<1>6. CASE t \in Requested
  BY <1>1, <1>6 DEF Requested, Opens
<1>7. CASE Continued /\ t \in route.names
  BY <1>7 DEF RouteIsOpened, Opens
<1>8. CASE ~Continued /\ t \in Fresh
  <2>1. \/ t \in text.names \cup text.brings
        \/ t \in Tools /\ Intent = "mutate" /\ Domain[t] \in text.domains
    BY <1>8, FreshIsOpened
  <2> QED
    BY <1>8, <2>1 DEF Opens
<1> QED
  BY <1>3, <1>4, <1>5, <1>6, <1>7, <1>8

\* Up to the limit every name the model asked for is connected: the sorting cuts nothing.
LEMMA AskedIsRequested ==
    ASSUME OfferTypeOK, Cardinality(asked \cup passed) <= MaxSelected
    PROVE  asked \cap supplied \subseteq Requested
<1> SUFFICES ASSUME NEW t \in asked \cap supplied PROVE t \in Requested
  OBVIOUS
<1> DEFINE set == (asked \cup passed) \cap supplied
           earlier == {u \in set : Alphabet[u] < Alphabet[t]}
<1>1. asked \cup passed \subseteq Tools /\ IsFiniteSet(Tools) /\ Alphabet \in [Tools -> Nat]
  BY ToolOfferAssumption DEF OfferTypeOK
<1>2. IsFiniteSet(asked \cup passed)
  BY <1>1, FS_Subset
<1>3. earlier \in SUBSET ((asked \cup passed) \ {t})
  BY <1>1
<1>4. /\ IsFiniteSet((asked \cup passed) \ {t})
      /\ Cardinality((asked \cup passed) \ {t}) = Cardinality(asked \cup passed) - 1
  BY <1>2, FS_RemoveElement
<1>5. IsFiniteSet(earlier) /\ Cardinality(earlier) <= Cardinality(asked \cup passed) - 1
  BY <1>3, <1>4, FS_Subset
<1>6. Cardinality(earlier) \in Nat /\ Cardinality(asked \cup passed) \in Nat
  BY <1>2, <1>5, FS_CardinalityType
<1>7. Cardinality(earlier) < MaxSelected
  BY <1>5, <1>6, ToolOfferAssumption
<1>8. t \in FirstByName(set)
  BY <1>7 DEF FirstByName
<1> QED
  BY <1>8 DEF Requested

(* The steps of the thread. *)

\* Every variable of a thread is what the code gives it.
LEMMA OfferTypeStep == OfferTypeOK /\ [OfferNext]_offerVars => OfferTypeOK'
<1> SUFFICES ASSUME OfferTypeOK, [OfferNext]_offerVars PROVE OfferTypeOK'
  OBVIOUS
<1>0. Catalogs \subseteq SUBSET Tools /\ Twins \subseteq Tools
  BY ToolOfferAssumption
<1>1. ASSUME NEW next, Offered(next)
      PROVE  /\ route'.names \subseteq supplied /\ stage' = next
             /\ UNCHANGED <<desk, supplied, choice, text>>
  <2>1. PICK hits \in SemanticHits : route' = Route(hits)
    BY <1>1 DEF Offered
  <2> QED
    BY <1>1, <2>1, ChosenIsSupplied DEF Offered, Route
<1>2. CASE StepAnswers
  BY <1>1, <1>2 DEF StepAnswers, OfferTypeOK
<1>3. CASE StepRaises
  BY <1>3 DEF StepRaises, OfferTypeOK
<1>4. CASE AsksForTools
  BY <1>1, <1>4 DEF AsksForTools, OfferTypeOK
<1>5. CASE CallsTwin
  BY <1>0, <1>1, <1>5 DEF CallsTwin, OfferTypeOK
<1>6. CASE CallsExternal
  <2>1. PICK used \in SUBSET route'.names, target \in Tools :
           /\ pending' = used /\ called' = called \cup used
           /\ passed' = passed \cup (IF Passthrough \in used THEN {target} ELSE {})
    BY <1>6 DEF CallsExternal
  <2>2. Offered("client") /\ asked' = asked
    BY <1>6 DEF CallsExternal
  <2> QED
    BY <1>1, <2>1, <2>2 DEF OfferTypeOK
<1>7. CASE Connect
  BY <1>7 DEF Connect, OfferTypeOK
<1>8. CASE ClientAnswers
  BY <1>0, <1>8 DEF ClientAnswers, OfferTypeOK
<1>9. CASE HandOver
  BY <1>9 DEF HandOver, OfferTypeOK
<1>10. CASE OwnerWritesText
  BY <1>0, <1>10 DEF OwnerWritesText, OfferTypeOK
<1>11. CASE UNCHANGED offerVars
  BY <1>11 DEF offerVars, OfferTypeOK
<1> QED
  BY <1>2, <1>3, <1>4, <1>5, <1>6, <1>7, <1>8, <1>9, <1>10, <1>11 DEF OfferNext

LEMMA OfferStarts == OfferInit => OfferTypeOK /\ RouteIsOpened
BY ToolOfferAssumption DEF OfferInit, NoRoute, OfferTypeOK, RouteIsOpened

\* Everything on offer, called or asked for is a tool somebody supplies.
THEOREM OfferTypeCorrect == OfferSpec => []OfferTypeOK
BY OfferStarts, OfferTypeStep, PTL DEF OfferSpec

LEMMA OpenedStep == RouteIsOpened /\ [OfferNext]_offerVars => RouteIsOpened'
<1> SUFFICES ASSUME RouteIsOpened, [OfferNext]_offerVars PROVE RouteIsOpened'
  OBVIOUS
<1>1. ASSUME NEW next, Offered(next), called \subseteq called' PROVE RouteIsOpened'
  <2>1. PICK hits \in SemanticHits : route' = Route(hits)
    BY <1>1 DEF Offered
  <2>2. route'.names = SelectTools(hits) /\ opened' = Opens
    BY <1>1, <2>1 DEF Offered, Route
  <2>3. Writes' = Writes
    BY DEF Writes, With
  <2>4. SelectTools(hits) \cap Writes \subseteq Opens \cup called
    BY OfferIsOpened
  <2> QED
    BY <1>1, <2>2, <2>3, <2>4 DEF RouteIsOpened
<1>2. CASE StepAnswers \/ AsksForTools \/ CallsTwin \/ CallsExternal
  <2>1. (\E next : Offered(next)) /\ called \subseteq called'
    BY <1>2 DEF StepAnswers, AsksForTools, CallsTwin, CallsExternal
  <2> QED
    BY <1>1, <2>1
<1>3. CASE StepRaises \/ Connect \/ ClientAnswers \/ HandOver \/ OwnerWritesText \/ UNCHANGED offerVars
  <2>1. UNCHANGED <<route, opened, called>>
    BY <1>3 DEF StepRaises, Connect, ClientAnswers, HandOver, OwnerWritesText, offerVars
  <2> QED
    BY <2>1 DEF RouteIsOpened, Writes, With
<1> QED
  BY <1>2, <1>3 DEF OfferNext

\* No tool that writes is on offer unless somebody opened it.
THEOREM OfferWritesAreOpened == OfferSpec => []WritesAreOpened
<1>1. RouteIsOpened => WritesAreOpened
  BY DEF RouteIsOpened, WritesAreOpened, Writes
<1> QED
  BY <1>1, OfferStarts, OpenedStep, PTL DEF OfferSpec

LEMMA PromiseStep == PromiseHolds /\ [OfferNext]_offerVars => PromiseHolds'
<1> SUFFICES ASSUME PromiseHolds, [OfferNext]_offerVars PROVE PromiseHolds'
  OBVIOUS
<1>1. CASE StepAnswers
  BY <1>1 DEF StepAnswers, Offered, PromiseHolds
<1>2. CASE StepRaises
  BY <1>2 DEF StepRaises, PromiseHolds
<1>3. CASE AsksForTools
  <2>1. /\ pending' \subseteq asked' /\ promised' = {} /\ choice' = choice
        /\ choice # "none"
    BY <1>3 DEF AsksForTools, Offered, MayAsk
  <2> QED
    BY <2>1 DEF PromiseHolds
<1>4. CASE CallsTwin
  BY <1>4 DEF CallsTwin, Offered, PromiseHolds
<1>5. CASE CallsExternal
  BY <1>5 DEF CallsExternal, Offered, PromiseHolds
<1>6. CASE Connect
  BY <1>6 DEF Connect, PromiseHolds
<1>7. CASE ClientAnswers
  BY <1>7 DEF ClientAnswers, PromiseHolds
<1>8. CASE HandOver
  BY <1>8 DEF HandOver, PromiseHolds
<1>9. CASE OwnerWritesText
  BY <1>9 DEF OwnerWritesText, PromiseHolds
<1>10. CASE UNCHANGED offerVars
  BY <1>10 DEF offerVars, PromiseHolds
<1> QED
  BY <1>1, <1>2, <1>3, <1>4, <1>5, <1>6, <1>7, <1>8, <1>9, <1>10 DEF OfferNext

\* What a step is offered, of what was called before and of what was promised.
LEMMA StepKeepsPromise ==
    ASSUME OfferTypeOK, PromiseHolds, NEW hits
    PROVE  /\ called \cap supplied \subseteq SelectTools(hits)
           /\ Cardinality(asked \cup passed) <= MaxSelected => promised \subseteq SelectTools(hits)
<1>1. called \cap supplied \subseteq SelectTools(hits)
  <2>1. Historical \subseteq Chosen(hits) /\ Historical \subseteq Protected(Chosen(hits))
    BY DEF Chosen, Protected, Historical
  <2> QED
    BY <2>1, ProtectedIsKept DEF Historical
<1>2. ASSUME Cardinality(asked \cup passed) <= MaxSelected, NEW t \in promised
      PROVE  t \in SelectTools(hits)
  <2>1. t \in asked \cap supplied /\ choice # "none"
    BY <1>2 DEF PromiseHolds
  <2>2. t \in Requested
    BY <1>2, <2>1, AskedIsRequested
  <2>3. t \in Chosen(hits) /\ t \in Protected(Chosen(hits))
    BY <2>1, <2>2 DEF Chosen, Protected
  <2> QED
    BY <2>3, ProtectedIsKept
<1> QED
  BY <1>1, <1>2

\* The tools the node announced are on offer in the step they were announced for.
THEOREM OfferKeepsPromise == OfferSpec => PromiseKept
<1>1. OfferInit => PromiseHolds
  BY DEF OfferInit, PromiseHolds
<1>2. ASSUME OfferTypeOK, PromiseHolds, [OfferNext]_offerVars, stage = "model", rounds' # rounds
      PROVE  /\ called \cap supplied \subseteq route'.names
             /\ Cardinality(asked \cup passed) <= MaxSelected => promised \subseteq route'.names
  <2>1. \E next : Offered(next)
    BY <1>2 DEF OfferNext, StepAnswers, StepRaises, AsksForTools, CallsTwin, CallsExternal,
       Connect, ClientAnswers, HandOver, OwnerWritesText, offerVars
  <2>2. PICK hits \in SemanticHits : route' = Route(hits)
    BY <2>1 DEF Offered
  <2>3. route'.names = SelectTools(hits)
    BY <2>2 DEF Route
  <2> QED
    BY <1>2, <2>3, StepKeepsPromise
<1> QED
  BY <1>1, <1>2, PromiseStep, OfferTypeCorrect, PTL DEF OfferSpec, PromiseKept

-----------------------------------------------------------------------------
(* The journal. *)

\* A journal names failures of the thread, each of them once.
NoTwice(log) == \A j, k \in DOMAIN log : log[j] = log[k] => j = k
Journals == {log \in Seq(Failures) : NoTwice(log)}

LEMMA LimitsAreNumbers ==
    /\ AttemptBudget \in Nat \ {0} /\ LogLimit \in Nat \ {0} /\ MaxParallel \in Nat \ {0}
    /\ TransientRetries \in Nat
BY RecoveryAssumption

LEMMA FailuresFinite ==
    ASSUME messages \in Seq(Message)
    PROVE  IsFiniteSet(Failures) /\ Failures \subseteq 1..Len(messages)
<1>1. Failures \subseteq 1..Len(messages) /\ Len(messages) \in Nat
  BY LenProperties DEF Failures
<1>2. IsFiniteSet(1..Len(messages))
  BY <1>1, FS_Interval
<1> QED
  BY <1>1, <1>2, FS_Subset

LEMMA JournalGrows ==
    ASSUME NEW log \in Journals, NEW i \in Failures \ Entries(log)
    PROVE  Append(log, i) \in Journals /\ Entries(Append(log, i)) = Entries(log) \cup {i}
<1> DEFINE n == Len(log)
           longer == Append(log, i)
<1>1. log \in Seq(Failures) /\ n \in Nat /\ DOMAIN log = 1..n /\ NoTwice(log)
  BY LenProperties DEF Journals
<1>2. /\ longer \in Seq(Failures) /\ Len(longer) = n + 1 /\ longer[n + 1] = i
      /\ \A k \in 1..n : longer[k] = log[k]
  BY <1>1, AppendProperties
<1>3. DOMAIN longer = 1..(n + 1)
  BY <1>2, LenProperties
<1>4. \A k \in 1..n : log[k] # i
  BY <1>1 DEF Entries
<1> HIDE DEF n, longer
<1>5. \A k \in 1..(n + 1) : k \in 1..n \/ k = n + 1
  BY <1>1
<1>6. NoTwice(longer)
  BY <1>1, <1>2, <1>3, <1>4, <1>5 DEF NoTwice
<1>7. Entries(longer) = Entries(log) \cup {i}
  <2>1. \A x \in Entries(longer) : x \in Entries(log) \cup {i}
    BY <1>1, <1>2, <1>3, <1>5 DEF Entries
  <2>2. \A x \in Entries(log) : x \in Entries(longer)
    BY <1>1, <1>2, <1>3 DEF Entries
  <2>3. i \in Entries(longer)
    BY <1>1, <1>2, <1>3 DEF Entries
  <2> QED
    BY <2>1, <2>2, <2>3
<1> QED
  BY <1>2, <1>6, <1>7 DEF Journals, longer

\* A journal that is cut to its limit is one still, and is cut only when the thread has
\* more failures than the limit.
LEMMA JournalCut ==
    ASSUME messages \in Seq(Message), NEW log \in Journals
    PROVE  /\ Truncated(log) \in Journals
           /\ Cardinality(Failures) <= LogLimit => Truncated(log) = log
<1> DEFINE n == Len(log)
           from == n - LogLimit + 1
           cut == SubSeq(log, from, n)
<1>1. log \in Seq(Failures) /\ n \in Nat /\ DOMAIN log = 1..n /\ NoTwice(log)
  BY LenProperties DEF Journals
<1>2. n <= Cardinality(Failures)
  <2>1. log \in Injection(1..n, Failures)
    BY <1>1, LenProperties DEF Injection, IsInjective, NoTwice
  <2>2. Cardinality(1..n) <= Cardinality(Failures)
    BY <2>1, FailuresFinite, FS_Injection
  <2>3. Cardinality(1..n) = n
    <3>1. n \in Nat
      BY <1>1
    <3> HIDE DEF n
    <3>2. 1 \in Int /\ n \in Int
      BY <3>1
    <3>3. Cardinality(1..n) = IF 1 > n THEN 0 ELSE n - 1 + 1
      BY <3>2, FS_Interval
    <3> QED
      BY <3>1, <3>3
  <2> QED
    BY <2>2, <2>3
<1>3. Cardinality(Failures) \in Nat
  BY FailuresFinite, FS_CardinalityType
<1>4. ASSUME n > LogLimit PROVE cut \in Journals
  <2>1. from \in 1..n /\ from \in Int /\ n \in Int /\ n - from + 1 = LogLimit
    BY <1>1, <1>4, LimitsAreNumbers
  <2>2. \A i \in from..n : log[i] \in Failures
    BY <1>1, <2>1, ElementOfSeq
  <2> HIDE DEF n, from
  <2>3. /\ cut \in Seq(Failures) /\ Len(cut) = LogLimit
        /\ \A i \in 1..LogLimit : cut[i] = log[from + i - 1]
    BY <2>1, <2>2, SubSeqProperties, LimitsAreNumbers
  <2>4. DOMAIN cut = 1..LogLimit
    BY <2>3, LenProperties
  <2> HIDE DEF cut
  <2>5. \A i \in 1..LogLimit : from + i - 1 \in 1..n
    BY <1>1, <2>1, LimitsAreNumbers
  <2>6. NoTwice(cut)
    <3> SUFFICES ASSUME NEW j \in 1..LogLimit, NEW k \in 1..LogLimit, cut[j] = cut[k]
                 PROVE  j = k
      BY <2>4 DEF NoTwice
    <3>1. log[from + j - 1] = log[from + k - 1]
      BY <2>3
    <3>2. from + j - 1 = from + k - 1
      BY <1>1, <2>5, <3>1 DEF NoTwice
    <3> QED
      BY <2>1, <3>2
  <2> QED
    BY <2>3, <2>6 DEF Journals
<1> HIDE DEF cut
<1>5. Truncated(log) = IF n > LogLimit THEN cut ELSE log
  BY DEF Truncated, Latest, cut
<1> QED
  BY <1>1, <1>2, <1>3, <1>4, <1>5, LimitsAreNumbers

\* The journal after a model step names failures once each, and all of the thread's as long
\* as there are no more of them than it holds.
LEMMA FoldKeepsAll ==
    ASSUME messages \in Seq(Message), errors \in Journals
    PROVE  /\ Fold \in Journals
           /\ Cardinality(Failures) <= LogLimit => Failures \subseteq Entries(Fold)
<1> DEFINE n == Len(messages)
           Next1(log, i) == IF i \in Failures \ Entries(log) THEN Append(log, i) ELSE log
           step == [i \in 1..n |-> [log \in Journals |-> Next1(log, i)]]
<1>1. n \in Nat /\ Failures \subseteq 1..n
  BY LenProperties, FailuresFinite
<1>2. \A log \in Journals, i \in 1..n :
         /\ Next1(log, i) \in Journals
         /\ Entries(log) \subseteq Entries(Next1(log, i))
         /\ i \in Failures => i \in Entries(Next1(log, i))
  BY JournalGrows
<1> HIDE DEF n
<1>3. PICK g : Computed(g, Journals, n, errors, step)
  <2>1. step \in StepsIn(Journals, n)
    BY <1>2 DEF StepsIn
  <2> HIDE DEF step
  <2> QED
    BY <1>1, <2>1, RunningValuesExist
<1>4. g \in [0..n -> Journals] /\ g[0] = errors /\ \A k \in 1..n : g[k] = step[k][g[k - 1]]
  BY <1>3 DEF Computed
<1>5. g = [i \in 0..n |-> IF i = 0 THEN errors ELSE Next1(g[i - 1], i)]
  <2>1. \A k \in 1..n : g[k - 1] \in Journals
    BY <1>1, <1>4
  <2> HIDE DEF Next1
  <2>2. \A k \in 1..n : g[k] = Next1(g[k - 1], k)
    BY <1>4, <2>1
  <2> QED
    BY <1>1, <1>4, <2>2
<1> DEFINE f == CHOOSE h : h = [i \in 0..n |-> IF i = 0 THEN errors ELSE Next1(h[i - 1], i)]
<1>6. f = [i \in 0..n |-> IF i = 0 THEN errors ELSE Next1(f[i - 1], i)]
  BY <1>5
<1>7. Fold = Truncated(f[n])
  BY DEF Fold, n
<1> HIDE DEF f, Next1
<1>8. f[0] = errors /\ \A k \in 1..n : f[k] = Next1(f[k - 1], k)
  BY <1>1, <1>6
<1> DEFINE Reached == {p \in Nat \X Journals :
                         \A i \in Failures : i <= p[1] => i \in Entries(p[2])}
           pair == [k \in 0..n |-> <<k, f[k]>>]
<1>9. pair[0] \in Reached
  BY <1>1, <1>8
<1>10. ASSUME NEW k \in 1..n, pair[k - 1] \in Reached PROVE pair[k] \in Reached
  <2>1. k - 1 \in 0..n /\ k \in 0..n /\ k \in Nat
    BY <1>1
  <2>2. f[k - 1] \in Journals /\ \A i \in Failures : i <= k - 1 => i \in Entries(f[k - 1])
    BY <1>10, <2>1
  <2>3. /\ f[k] \in Journals /\ Entries(f[k - 1]) \subseteq Entries(f[k])
        /\ k \in Failures => k \in Entries(f[k])
    BY <1>2, <1>8, <2>2
  <2>4. \A i \in Failures : i <= k => i <= k - 1 \/ i = k
    BY <1>1
  <2>5. \A i \in Failures : i <= k => i \in Entries(f[k])
    BY <2>2, <2>3, <2>4
  <2> QED
    BY <2>1, <2>3, <2>5
<1> HIDE DEF Reached, pair
<1>11. pair[n] \in Reached
  <2>1. \A k \in 0..n : pair[k] \in Reached
    BY <1>1, <1>9, <1>10, RunningStays
  <2> QED
    BY <1>1, <2>1
<1>12. pair[n] = <<n, f[n]>>
  BY <1>1 DEF pair
<1>13. f[n] \in Journals /\ Failures \subseteq Entries(f[n])
  BY <1>1, <1>11, <1>12 DEF Reached
<1> QED
  BY <1>7, <1>13, JournalCut

\* What a call's budget is counted by: its failures in the journal are failures of this turn
\* in the thread, and are all of them when the journal is complete.
LEMMA PriorCounts ==
    ASSUME messages \in Seq(Message), errors \in Journals, NEW c
    PROVE  /\ IsFiniteSet(FailedInTurn(c, turn)) /\ PriorAttempts(errors, c) \in Nat
           /\ PriorAttempts(errors, c) <= Cardinality(FailedInTurn(c, turn))
           /\ Failures \subseteq Entries(errors) =>
                PriorAttempts(errors, c) = Cardinality(FailedInTurn(c, turn))
<1> DEFINE Places == {k \in DOMAIN errors : messages[errors[k]].call = c
                                              /\ messages[errors[k]].turn = turn}
           named == [k \in Places |-> errors[k]]
           Failed == FailedInTurn(c, turn)
<1>1. /\ errors \in Seq(Failures) /\ NoTwice(errors) /\ DOMAIN errors = 1..Len(errors)
      /\ \A k \in DOMAIN errors : errors[k] \in Failures
  BY LenProperties, ElementOfSeq DEF Journals
<1>2. IsFiniteSet(Failed)
  <2>1. Failed \subseteq Failures
    BY DEF FailedInTurn, Failures
  <2> HIDE DEF Failed
  <2> QED
    BY <2>1, FailuresFinite, FS_Subset
<1>3. named \in Injection(Places, Failed)
  <2>1. \A k \in Places : errors[k] \in Failed
    BY <1>1 DEF FailedInTurn, Failures
  <2>2. named \in [Places -> Failed]
    BY <2>1
  <2>3. \A j, k \in Places : named[j] = named[k] => j = k
    BY <1>1 DEF NoTwice
  <2> QED
    BY <2>2, <2>3 DEF Injection, IsInjective
<1>4. Failures \subseteq Entries(errors) => named \in Surjection(Places, Failed)
  <2> SUFFICES ASSUME Failures \subseteq Entries(errors) PROVE named \in Surjection(Places, Failed)
    OBVIOUS
  <2>1. ASSUME NEW i \in Failed PROVE \E k \in Places : named[k] = i
    <3>1. i \in Failures /\ messages[i].call = c /\ messages[i].turn = turn
      BY DEF FailedInTurn, Failures
    <3>2. PICK k \in DOMAIN errors : errors[k] = i
      BY <3>1 DEF Entries
    <3> QED
      BY <3>1, <3>2
  <2> QED
    BY <1>3, <2>1 DEF Injection, Surjection
<1> HIDE DEF named, Places, Failed
<1>5. /\ IsFiniteSet(Places) /\ Cardinality(Places) <= Cardinality(Failed)
      /\ Cardinality(Places) = Cardinality(Failed) <=> named \in Surjection(Places, Failed)
  BY <1>2, <1>3, FS_Injection
<1>6. PriorAttempts(errors, c) = Cardinality(Places)
  BY DEF PriorAttempts, Places
<1>7. Cardinality(Places) \in Nat
  BY <1>5, FS_CardinalityType
<1> QED
  BY <1>2, <1>4, <1>5, <1>6, <1>7 DEF Failed

(* The results of a batch. *)

Failed(thread, c, t) ==
    {i \in DOMAIN thread : /\ thread[i].call = c /\ thread[i].turn = t
                           /\ thread[i].kind = "failure"}

\* A thread that grew by m messages has at most m failures more, and what counts them one
\* by one has their number.
LEMMA FailuresCounted ==
    ASSUME NEW before \in Seq(Message), NEW after \in Seq(Message), NEW m \in Nat,
           Len(after) = Len(before) + m,
           \A i \in 1..Len(before) : after[i] = before[i],
           NEW c, NEW t
    PROVE  /\ IsFiniteSet(Failed(before, c, t)) /\ IsFiniteSet(Failed(after, c, t))
           /\ Failed(before, c, t) \subseteq Failed(after, c, t)
           /\ Cardinality(Failed(after, c, t)) <= Cardinality(Failed(before, c, t)) + m
           /\ \A total \in [0..m -> Nat] :
                 /\ total[0] = Cardinality(Failed(before, c, t))
                 /\ \A k \in 1..m : total[k] = total[k - 1] +
                       (IF Len(before) + k \in Failed(after, c, t) THEN 1 ELSE 0)
                 => total[m] = Cardinality(Failed(after, c, t))
<1> DEFINE n == Len(before)
           Upto(k) == {i \in Failed(after, c, t) : i <= n + k}
<1>1. /\ n \in Nat /\ DOMAIN before = 1..n /\ DOMAIN after = 1..(n + m)
  BY LenProperties
<1>2. Failed(before, c, t) = Upto(0) /\ Failed(after, c, t) = Upto(m)
  BY <1>1 DEF Failed
<1>3. Failed(after, c, t) \subseteq 1..(n + m) /\ \A k : Upto(k) \subseteq Failed(after, c, t)
  BY <1>1 DEF Failed
<1> HIDE DEF n
<1>4. ASSUME NEW k \in 1..m
      PROVE  Upto(k) = IF n + k \in Failed(after, c, t) THEN Upto(k - 1) \cup {n + k}
                       ELSE Upto(k - 1)
  <2>1. n \in Int /\ k \in Int
    BY <1>1
  <2>2. \A i \in Int : i <= n + k <=> i <= n + (k - 1) \/ i = n + k
    BY <2>1
  <2>3. Failed(after, c, t) \subseteq Int
    BY <1>1, <1>3
  <2> QED
    BY <2>2, <2>3
<1>5. IsFiniteSet(Failed(after, c, t)) /\ \A k : IsFiniteSet(Upto(k))
  <2>1. IsFiniteSet(1..(n + m))
    <3>1. 1 \in Int /\ n + m \in Int
      BY <1>1
    <3> QED
      BY <3>1, FS_Interval
  <2>2. IsFiniteSet(Failed(after, c, t))
    BY <1>3, <2>1, FS_Subset
  <2> HIDE DEF Upto
  <2> QED
    BY <1>3, <2>2, FS_Subset
<1>6. \A k \in 0..m : Cardinality(Upto(k)) \in Nat
  BY <1>5, FS_CardinalityType
<1>7. ASSUME NEW k \in 1..m
      PROVE  Cardinality(Upto(k)) = Cardinality(Upto(k - 1)) +
                                       (IF n + k \in Failed(after, c, t) THEN 1 ELSE 0)
  <2>1. n + k \notin Upto(k - 1) /\ k - 1 \in 0..m
    BY <1>1
  <2>2. IsFiniteSet(Upto(k - 1)) /\ Cardinality(Upto(k - 1)) \in Nat
    BY <1>5, <1>6, <2>1
  <2> HIDE DEF Upto
  <2>3. Cardinality(Upto(k - 1) \cup {n + k}) = Cardinality(Upto(k - 1)) + 1
    BY <2>1, <2>2, FS_AddElement
  <2>4. CASE n + k \in Failed(after, c, t)
    <3>1. Upto(k) = Upto(k - 1) \cup {n + k}
      BY <1>4, <2>4
    <3> QED
      BY <2>3, <2>4, <3>1
  <2>5. CASE n + k \notin Failed(after, c, t)
    <3>1. Upto(k) = Upto(k - 1)
      BY <1>4, <2>5
    <3> QED
      BY <2>2, <2>5, <3>1
  <2> QED
    BY <2>4, <2>5
<1> HIDE DEF Upto
<1>8. Failed(before, c, t) \subseteq Failed(after, c, t)
  BY <1>2, <1>3
<1>9. Cardinality(Upto(m)) <= Cardinality(Upto(0)) + m
  <2> DEFINE New == (n + 1)..(n + m)
  <2>1. IsFiniteSet(New) /\ Cardinality(New) = m
    <3>1. n + 1 \in Int /\ n + m \in Int
      BY <1>1
    <3>2. /\ IsFiniteSet(New)
          /\ Cardinality(New) = IF n + 1 > n + m THEN 0 ELSE (n + m) - (n + 1) + 1
      BY <3>1, FS_Interval
    <3> QED
      BY <1>1, <3>2
  <2>2. Upto(m) \subseteq Upto(0) \cup New
    BY <1>1, <1>2, <1>3 DEF Upto
  <2> HIDE DEF New
  <2>3. /\ IsFiniteSet(Upto(0)) /\ Cardinality(Upto(0)) \in Nat
        /\ IsFiniteSet(Upto(0) \cap New) /\ Cardinality(Upto(0) \cap New) \in Nat
    <3>1. IsFiniteSet(Upto(0))
      BY <1>5
    <3>2. IsFiniteSet(Upto(0) \cap New)
      BY <3>1, FS_Subset
    <3> QED
      BY <3>1, <3>2, FS_CardinalityType
  <2>4. /\ IsFiniteSet(Upto(0) \cup New)
        /\ Cardinality(Upto(0) \cup New) =
             Cardinality(Upto(0)) + Cardinality(New) - Cardinality(Upto(0) \cap New)
    BY <2>1, <2>3, FS_Union
  <2>5. Cardinality(Upto(m)) <= Cardinality(Upto(0) \cup New)
    BY <2>2, <2>4, FS_Subset
  <2>6. Cardinality(Upto(m)) \in Nat
    BY <1>5, FS_CardinalityType
  <2> QED
    BY <2>1, <2>3, <2>4, <2>5, <2>6
<1>10. ASSUME NEW total \in [0..m -> Nat], total[0] = Cardinality(Upto(0)),
              \A k \in 1..m : total[k] = total[k - 1] +
                                 (IF n + k \in Failed(after, c, t) THEN 1 ELSE 0)
       PROVE  total[m] = Cardinality(Upto(m))
  <2> DEFINE apart == [k \in 0..m |-> total[k] - Cardinality(Upto(k))]
  <2>1. apart[0] \in {0}
    BY <1>6, <1>10
  <2>2. ASSUME NEW k \in 1..m, apart[k - 1] \in {0} PROVE apart[k] \in {0}
    <3>1. k \in 0..m /\ k - 1 \in 0..m
      OBVIOUS
    <3>2. total[k] \in Nat /\ total[k - 1] \in Nat
      BY <3>1
    <3>3. total[k - 1] = Cardinality(Upto(k - 1))
      BY <1>6, <2>2, <3>1, <3>2
    <3>4. total[k] = Cardinality(Upto(k))
      BY <1>7, <1>10, <3>3
    <3> QED
      BY <1>6, <3>1, <3>4
  <2> HIDE DEF apart
  <2>3. \A k \in 0..m : apart[k] \in {0}
    BY <2>1, <2>2, RunningStays
  <2> QED
    BY <1>6, <2>3 DEF apart
<1> QED
  BY <1>2, <1>5, <1>8, <1>9, <1>10 DEF n

\* The invariant: no message is of a later turn; while a batch waits, the journal it is
\* judged by holds every failure of the thread, unless there are more than its limit.
NoneLater == \A i \in DOMAIN messages : messages[i].turn <= turn
JournalComplete ==
    batch # << >> /\ Cardinality(Failures) <= LogLimit => Failures \subseteq Entries(errors)

RecoveryInv ==
    /\ RecoveryTypeOK /\ Len(batch) <= MaxParallel
    /\ NoneLater /\ JournalComplete
    /\ BudgetHonest /\ WritesNotRepeated

\* How one call ends: a call of a server tool that may write is executed once or not at all.
LEMMA OutcomeTyped ==
    ASSUME NEW c \in Calls, NEW o \in Outcomes(c)
    PROVE  /\ o.kind \in {"ok", "failure", "exhausted"} /\ o.failed \in Nat
           /\ o.kind = "failure" => ~Spent(c)
           /\ o.kind = "exhausted" => Spent(c)
           /\ c \notin External \cup Idempotent =>
                o.failed = IF o.kind = "failure" THEN 1 ELSE 0
<1>1. Retries(c) \in Nat /\ (c \notin External \cup Idempotent => Retries(c) = 0)
  BY LimitsAreNumbers DEF Retries
<1>2. CASE c \notin External /\ Spent(c)
  BY <1>2 DEF Outcomes
<1>3. CASE ~(c \notin External /\ Spent(c))
  <2> DEFINE bad == IF Spent(c) THEN "exhausted" ELSE "failure"
  <2>1. \/ o \in [kind : {"ok"}, failed : 0..Retries(c)]
        \/ o \in [kind : {bad}, failed : 1..(1 + Retries(c))]
    BY <1>3 DEF Outcomes
  <2>2. CASE o \in [kind : {"ok"}, failed : 0..Retries(c)]
    <3>1. o.kind = "ok" /\ o.failed \in 0..Retries(c)
      BY <2>2
    <3> QED
      BY <1>1, <3>1
  <2>3. CASE o \in [kind : {bad}, failed : 1..(1 + Retries(c))]
    <3>1. o.kind = bad /\ o.failed \in 1..(1 + Retries(c))
      BY <2>3
    <3>2. c \notin External \cup Idempotent => ~Spent(c)
      BY <1>3
    <3> QED
      BY <1>1, <3>1, <3>2
  <2> QED
    BY <2>1, <2>2, <2>3
<1> QED
  BY <1>2, <1>3

\* The executions that failed are counted call by call.
CountsRuns(f, c, out) ==
    /\ RunsAfter(c, out) = f[Len(batch)] /\ f[0] = runs[c]
    /\ \A k \in 1..Len(batch) :
          f[k] = f[k - 1] + (IF batch[k] = c THEN out[k].failed ELSE 0)

LEMMA RunsOneByOne ==
    ASSUME RecoveryTypeOK, NEW c \in Calls, NEW out,
           \A k \in 1..Len(batch) : out[k].failed \in Nat
    PROVE  \E f \in [0..Len(batch) -> Nat] : CountsRuns(f, c, out)
<1> DEFINE n == Len(batch)
           Plus(x, k) == x + (IF batch[k] = c THEN out[k].failed ELSE 0)
           step == [k \in 1..n |-> [x \in Nat |-> Plus(x, k)]]
<1>1. n \in Nat /\ runs[c] \in Nat
  BY LenProperties DEF RecoveryTypeOK
<1>2. \A k \in 1..n, x \in Nat : Plus(x, k) \in Nat
  OBVIOUS
<1> HIDE DEF n, Plus
<1>3. PICK g : Computed(g, Nat, n, runs[c], step)
  <2>1. step \in StepsIn(Nat, n)
    BY <1>2 DEF StepsIn
  <2> HIDE DEF step
  <2> QED
    BY <1>1, <2>1, RunningValuesExist
<1>4. g \in [0..n -> Nat] /\ g[0] = runs[c] /\ \A k \in 1..n : g[k] = step[k][g[k - 1]]
  BY <1>3 DEF Computed
<1>5. g = [k \in 0..n |-> IF k = 0 THEN runs[c] ELSE Plus(g[k - 1], k)]
  <2>1. \A k \in 1..n : g[k - 1] \in Nat
    BY <1>1, <1>4
  <2>2. \A k \in 1..n : g[k] = Plus(g[k - 1], k)
    BY <1>4, <2>1
  <2> QED
    BY <1>1, <1>4, <2>2
<1> DEFINE f == CHOOSE h : h = [k \in 0..n |-> IF k = 0 THEN runs[c] ELSE Plus(h[k - 1], k)]
<1>6. f = [k \in 0..n |-> IF k = 0 THEN runs[c] ELSE Plus(f[k - 1], k)]
  BY <1>5
<1>7. RunsAfter(c, out) = f[n]
  BY DEF RunsAfter, n, Plus
<1> HIDE DEF f
<1>8. f[0] = runs[c] /\ \A k \in 1..n : f[k] = Plus(f[k - 1], k)
  BY <1>1, <1>6
<1>9. \A k \in 0..n : f[k] \in Nat
  <2>1. f[0] \in Nat /\ \A k \in 1..n : f[k - 1] \in Nat => f[k] \in Nat
    BY <1>1, <1>2, <1>8
  <2> QED
    BY <1>1, <2>1, RunningStays
<1>10. f = [k \in 0..n |-> f[k]]
  BY <1>6
<1>11. f \in [0..n -> Nat]
  BY <1>9, <1>10
<1> QED
  BY <1>7, <1>8, <1>11 DEF n, Plus, CountsRuns

LEMMA BatchAnswered ==
    ASSUME RecoveryInv, NEW out \in [DOMAIN batch -> UNION {Outcomes(batch[i]) : i \in DOMAIN batch}],
           \A i \in DOMAIN batch : out[i] \in Outcomes(batch[i]),
           messages' = messages \o [i \in DOMAIN batch |->
                         [call |-> batch[i], turn |-> turn, kind |-> out[i].kind]]
    PROVE  /\ messages' \in Seq(Message) /\ Len(messages') = Len(messages) + Len(batch)
           /\ \A i \in 1..Len(messages) : messages'[i] = messages[i]
           /\ \A k \in 1..Len(batch) :
                 messages'[Len(messages) + k] =
                    [call |-> batch[k], turn |-> turn, kind |-> out[k].kind]
<1> DEFINE n == Len(messages)
           m == Len(batch)
           answers == [i \in DOMAIN batch |->
                         [call |-> batch[i], turn |-> turn, kind |-> out[i].kind]]
<1>1. /\ messages \in Seq(Message) /\ batch \in Seq(Calls) /\ turn \in Nat
      /\ n \in Nat /\ m \in Nat /\ DOMAIN batch = 1..m /\ \A k \in 1..m : batch[k] \in Calls
  BY LenProperties, ElementOfSeq, RecoveryAssumption DEF RecoveryInv, RecoveryTypeOK
<1>2. \A k \in 1..m : [call |-> batch[k], turn |-> turn, kind |-> out[k].kind] \in Message
  BY <1>1, OutcomeTyped DEF Message
<1>3. answers \in [1..m -> Message]
  BY <1>1, <1>2
<1>4. answers \in Seq(Message) /\ Len(answers) = m
  BY <1>1, <1>3
<1>5. \A k \in 1..m :
         answers[k] = [call |-> batch[k], turn |-> turn, kind |-> out[k].kind]
  BY <1>1
<1>6. messages' = messages \o answers
  OBVIOUS
<1> DEFINE joined == messages \o answers
<1> HIDE DEF answers
<1>7. /\ messages' \in Seq(Message) /\ Len(messages') = n + m
      /\ \A i \in 1..(n + m) : messages'[i] = IF i <= n THEN messages[i] ELSE answers[i - n]
  <2>1. /\ joined \in Seq(Message) /\ Len(joined) = Len(messages) + Len(answers)
        /\ \A i \in 1..(Len(messages) + Len(answers)) :
              joined[i] = IF i <= Len(messages) THEN messages[i] ELSE answers[i - Len(messages)]
    BY <1>1, <1>4, ConcatProperties
  <2> HIDE DEF joined
  <2> QED
    BY <1>4, <1>6, <2>1 DEF joined
<1> HIDE DEF n, m
<1>8. \A i \in 1..n : messages'[i] = messages[i]
  BY <1>1, <1>7
<1>9. \A k \in 1..m : messages'[n + k] = answers[k]
  <2> TAKE k \in 1..m
  <2>1. n + k \in 1..(n + m) /\ ~(n + k <= n) /\ (n + k) - n = k
    BY <1>1
  <2> QED
    BY <1>7, <2>1
<1> QED
  BY <1>5, <1>7, <1>8, <1>9 DEF n, m

\* The tool node: every call of the batch on the journal of the last model step.
LEMMA ToolsKeep == RecoveryInv /\ RunTools => RecoveryInv'
<1> SUFFICES ASSUME RecoveryInv, RunTools PROVE RecoveryInv'
  OBVIOUS
<1>0. PICK out \in [DOMAIN batch -> UNION {Outcomes(batch[i]) : i \in DOMAIN batch}] :
         /\ \A i \in DOMAIN batch : out[i] \in Outcomes(batch[i])
         /\ messages' = messages \o [i \in DOMAIN batch |->
                           [call |-> batch[i], turn |-> turn, kind |-> out[i].kind]]
         /\ runs' = [c \in Calls |-> RunsAfter(c, out)]
  BY DEF RunTools
<1> DEFINE n == Len(messages)
           m == Len(batch)
           Had(c) == Failed(messages, c, turn)
           Has(c) == Failed(messages', c, turn)
<1>1. /\ messages \in Seq(Message) /\ n \in Nat /\ DOMAIN messages = 1..n
      /\ m \in Nat /\ m <= MaxParallel /\ DOMAIN batch = 1..m
      /\ \A k \in 1..m : batch[k] \in Calls /\ out[k] \in Outcomes(batch[k])
      /\ turn \in 0..MaxTurns /\ errors \in Journals
  BY <1>0, LenProperties, ElementOfSeq DEF RecoveryInv, RecoveryTypeOK, Journals, NoTwice
<1>2. batch' = << >> /\ UNCHANGED <<running, turn, errors>>
  BY DEF RunTools
<1>3. /\ messages' \in Seq(Message) /\ Len(messages') = n + m
      /\ \A i \in 1..n : messages'[i] = messages[i]
      /\ \A k \in 1..m :
            messages'[n + k] = [call |-> batch[k], turn |-> turn, kind |-> out[k].kind]
  BY <1>0, BatchAnswered
<1>4. DOMAIN messages' = 1..(n + m)
  BY <1>3, LenProperties
<1>16. \A k \in 1..m : /\ n + k \in 1..(n + m) /\ messages'[n + k].call = batch[k]
                       /\ messages'[n + k].turn = turn /\ messages'[n + k].kind = out[k].kind
  <2> TAKE k \in 1..m
  <2> DEFINE entry == messages'[n + k]
  <2>1. entry = [call |-> batch[k], turn |-> turn, kind |-> out[k].kind]
    BY <1>3
  <2>2. n \in Nat /\ m \in Nat
    BY <1>1
  <2> HIDE DEF n, m, entry
  <2>3. n + k \in 1..(n + m)
    BY <2>2
  <2>4. entry.call = batch[k] /\ entry.turn = turn /\ entry.kind = out[k].kind
    BY <2>1
  <2> QED
    BY <2>3, <2>4 DEF entry
<1>5. \A k \in 1..m :
         /\ out[k].kind \in {"ok", "failure", "exhausted"} /\ out[k].failed \in Nat
         /\ out[k].kind = "failure" => ~Spent(batch[k])
         /\ out[k].kind = "exhausted" => Spent(batch[k])
         /\ batch[k] \notin External \cup Idempotent =>
              out[k].failed = IF out[k].kind = "failure" THEN 1 ELSE 0
  BY <1>1, OutcomeTyped
<1> HIDE DEF n, m
<1>6. \A i \in 1..(n + m) : i \in 1..n \/ \E k \in 1..m : i = n + k
  <2> TAKE i \in 1..(n + m)
  <2>1. i \in 1..n \/ (i - n \in 1..m /\ i = n + (i - n))
    BY <1>1
  <2> QED
    BY <2>1
<1>7. /\ \A c : FailedInTurn(c, turn) = Had(c)
      /\ \A c : FailedInTurn(c, turn)' = Has(c)
  BY <1>2 DEF FailedInTurn, Failed
<1>8. \A c : /\ IsFiniteSet(Had(c)) /\ IsFiniteSet(Has(c))
             /\ Had(c) \subseteq Has(c) /\ Cardinality(Has(c)) <= Cardinality(Had(c)) + m
             /\ Cardinality(Had(c)) \in Nat /\ Cardinality(Has(c)) \in Nat
  <2> TAKE c
  <2>1. /\ IsFiniteSet(Had(c)) /\ IsFiniteSet(Has(c))
        /\ Had(c) \subseteq Has(c) /\ Cardinality(Has(c)) <= Cardinality(Had(c)) + m
    BY <1>1, <1>3, FailuresCounted DEF n
  <2> QED
    BY <2>1, FS_CardinalityType
<1>9. \A c, k : k \in 1..m =>
         (n + k \in Has(c) <=> batch[k] = c /\ out[k].kind = "failure")
  <2>1. \A c, i : i \in Has(c) <=> /\ i \in 1..(n + m) /\ messages'[i].call = c
                                   /\ messages'[i].turn = turn /\ messages'[i].kind = "failure"
    BY <1>4 DEF Failed
  <2> HIDE DEF Has
  <2> QED
    BY <1>16, <2>1
<1>10. Failures \subseteq Failures' /\ IsFiniteSet(Failures') /\ IsFiniteSet(Failures)
  <2>1. Failures \subseteq Failures'
    BY <1>1, <1>3, <1>4 DEF Failures
  <2>2. IsFiniteSet(Failures)
    BY <1>1, FailuresFinite
  <2>3. Failures' \subseteq 1..(n + m)
    BY <1>4 DEF Failures
  <2>4. IsFiniteSet(1..(n + m))
    <3>1. 1 \in Int /\ n + m \in Int
      BY <1>1
    <3> QED
      BY <3>1, FS_Interval
  <2> QED
    BY <2>1, <2>2, <2>3, <2>4, FS_Subset
<1>11. RecoveryTypeOK'
  <2>1. errors' \in Seq(Failures')
    BY <1>1, <1>2, <1>10, SeqMonotonic DEF Journals
  <2>2. \A j, k \in DOMAIN errors' : errors'[j] = errors'[k] => j = k
    BY <1>1, <1>2 DEF Journals, NoTwice
  <2>3. runs' \in [Calls -> Nat]
    <3>1. \A c \in Calls : RunsAfter(c, out) \in Nat
      <4> TAKE c \in Calls
      <4>1. PICK f \in [0..m -> Nat] : RunsAfter(c, out) = f[m]
        BY <1>5, RunsOneByOne DEF RecoveryInv, CountsRuns, m
      <4> QED
        BY <1>1, <4>1
    <3> QED
      BY <1>0, <3>1
  <2> QED
    BY <1>2, <1>3, <2>1, <2>2, <2>3 DEF RecoveryInv, RecoveryTypeOK
<1>12. NoneLater'
  <2>1. \A i \in 1..n : messages'[i].turn <= turn
    BY <1>1, <1>3 DEF RecoveryInv, NoneLater
  <2>2. \A k \in 1..m : messages'[n + k].turn <= turn
    <3>1. turn <= turn
      BY <1>1, RecoveryAssumption
    <3> QED
      BY <1>16, <3>1
  <2>3. \A i \in 1..(n + m) : messages'[i].turn <= turn
    BY <1>6, <2>1, <2>2
  <2> QED
    BY <1>2, <1>4, <2>3 DEF NoneLater
<1>13. Len(batch') <= MaxParallel /\ JournalComplete'
  BY <1>2, LimitsAreNumbers DEF JournalComplete
<1>14. BudgetHonest'
  <2>1. ASSUME Cardinality(Failures') <= LogLimit, NEW c \in Calls \ External
        PROVE  Cardinality(Has(c)) <= AttemptBudget - 1 + MaxParallel
    <3>1. Cardinality(Failures) <= LogLimit
      <4>1. Cardinality(Failures) <= Cardinality(Failures')
        BY <1>10, FS_Subset
      <4>2. Cardinality(Failures) \in Nat /\ Cardinality(Failures') \in Nat
        BY <1>10, FS_CardinalityType
      <4> QED
        BY <2>1, <4>1, <4>2, LimitsAreNumbers
    <3>2. CASE Spent(c)
      <4>1. \A i \in Has(c) : i \in 1..n
        <5>1. \A i \in Has(c) : i \in 1..(n + m)
          BY <1>4 DEF Failed
        <5>2. \A k \in 1..m : n + k \notin Has(c)
          BY <1>5, <1>9, <3>2
        <5> HIDE DEF Has
        <5> QED
          BY <1>6, <5>1, <5>2
      <4>2. \A i \in 1..n : i \in Has(c) => i \in Had(c)
        BY <1>1, <1>3, <1>4 DEF Failed
      <4>3. Has(c) = Had(c)
        BY <1>8, <4>1, <4>2
      <4>4. Cardinality(Had(c)) <= AttemptBudget - 1 + MaxParallel
        BY <1>7, <2>1, <3>1 DEF RecoveryInv, BudgetHonest
      <4> QED
        BY <4>3, <4>4
    <3>3. CASE ~Spent(c)
      <4>1. batch # << >>
        BY DEF RunTools
      <4>2. Failures \subseteq Entries(errors)
        BY <3>1, <4>1 DEF RecoveryInv, JournalComplete
      <4>3. PriorAttempts(errors, c) = Cardinality(Had(c))
        BY <1>1, <1>7, <4>2, PriorCounts
      <4>4. Cardinality(Had(c)) < AttemptBudget
        BY <1>8, <3>3, <4>3, LimitsAreNumbers DEF Spent
      <4> HIDE DEF Had, Has
      <4> QED
        BY <1>1, <1>8, <4>4, LimitsAreNumbers
    <3> QED
      BY <3>2, <3>3
  <2>2. ASSUME NEW i \in 1..(n + m), messages'[i].kind = "exhausted"
        PROVE  Cardinality({k \in Failed(messages', messages'[i].call, messages'[i].turn) : k < i})
                  >= AttemptBudget
    <3>1. CASE i \in 1..n
      <4>1. messages'[i] = messages[i]
        BY <1>3, <3>1
      <4>2. {k \in Failed(messages', messages[i].call, messages[i].turn) : k < i}
              = {k \in FailedInTurn(messages[i].call, messages[i].turn) : k < i}
        BY <1>1, <1>3, <1>4, <3>1 DEF Failed, FailedInTurn
      <4>3. messages[i].kind = "exhausted" /\ i \in DOMAIN messages
        BY <1>1, <2>2, <3>1, <4>1
      <4>4. Cardinality({k \in FailedInTurn(messages[i].call, messages[i].turn) : k < i})
              >= AttemptBudget
        BY <4>3 DEF RecoveryInv, BudgetHonest
      <4> QED
        BY <4>1, <4>2, <4>4
    <3>2. ASSUME NEW k \in 1..m, i = n + k
          PROVE  Cardinality({j \in Failed(messages', messages'[i].call, messages'[i].turn) : j < i})
                    >= AttemptBudget
      <4> DEFINE c == batch[k]
                 earlier == {j \in Has(c) : j < i}
      <4>1. messages'[i].call = c /\ messages'[i].turn = turn /\ out[k].kind = "exhausted"
        BY <1>16, <2>2, <3>2
      <4>2. PriorAttempts(errors, c) >= AttemptBudget
        BY <1>5, <4>1 DEF Spent
      <4>3. /\ PriorAttempts(errors, c) \in Nat
            /\ PriorAttempts(errors, c) <= Cardinality(Had(c))
        BY <1>1, <1>7, PriorCounts
      <4>4. Had(c) \subseteq earlier
        <5>1. \A j \in Had(c) : j \in 1..n /\ j \in Has(c)
          BY <1>1, <1>8 DEF Failed
        <5>2. \A j \in 1..n : j < i
          BY <1>1, <3>2
        <5> QED
          BY <5>1, <5>2
      <4>5. earlier \subseteq Has(c) /\ IsFiniteSet(Has(c)) /\ Cardinality(Had(c)) \in Nat
        BY <1>8
      <4>6. messages'[i].call = c /\ messages'[i].turn = turn
              => Failed(messages', messages'[i].call, messages'[i].turn) = Has(c)
        OBVIOUS
      <4> HIDE DEF earlier, Had, Has, c
      <4>7. Cardinality(Had(c)) <= Cardinality(earlier) /\ Cardinality(earlier) \in Nat
        BY <4>4, <4>5, FS_Subset, FS_CardinalityType
      <4>8. Cardinality(earlier) >= AttemptBudget
        BY <4>2, <4>3, <4>5, <4>7, LimitsAreNumbers
      <4> QED
        BY <4>1, <4>6, <4>8 DEF earlier
    <3> QED
      BY <1>6, <3>1, <3>2
  <2>3. \A c, t : FailedInTurn(c, t)' = Failed(messages', c, t)
    BY DEF FailedInTurn, Failed
  <2>4. Cardinality(Failures)' <= LogLimit =>
          \A c \in Calls \ External :
             Cardinality(FailedInTurn(c, turn))' <= AttemptBudget - 1 + MaxParallel
    BY <1>7, <2>1
  <2>5. \A i \in DOMAIN messages' :
          messages'[i].kind = "exhausted" =>
            Cardinality({k \in FailedInTurn(messages[i].call, messages[i].turn)' : k < i})
              >= AttemptBudget
    BY <1>4, <2>2, <2>3 DEF FailedInTurn, Failed
  <2> QED
    BY <2>4, <2>5 DEF BudgetHonest
<1>15. WritesNotRepeated'
  <2> SUFFICES ASSUME NEW c \in Calls \ (External \cup Idempotent)
               PROVE  runs'[c] = Cardinality(Has(c))
    BY <1>7 DEF WritesNotRepeated
  <2>1. PICK f \in [0..m -> Nat] :
           /\ RunsAfter(c, out) = f[m] /\ f[0] = runs[c]
           /\ \A k \in 1..m : f[k] = f[k - 1] + (IF batch[k] = c THEN out[k].failed ELSE 0)
    <3>1. c \in Calls /\ RecoveryTypeOK /\ \A k \in 1..Len(batch) : out[k].failed \in Nat
      BY <1>5 DEF RecoveryInv, m
    <3>2. \E f \in [0..Len(batch) -> Nat] : CountsRuns(f, c, out)
      BY <3>1, RunsOneByOne
    <3> QED
      BY <3>2 DEF m, CountsRuns
  <2>2. f[0] = Cardinality(Had(c))
    BY <1>7, <2>1 DEF RecoveryInv, WritesNotRepeated
  <2>3. \A k \in 1..m : f[k] = f[k - 1] + (IF n + k \in Has(c) THEN 1 ELSE 0)
    <3> TAKE k \in 1..m
    <3>1. (IF batch[k] = c THEN out[k].failed ELSE 0) = (IF n + k \in Has(c) THEN 1 ELSE 0)
      BY <1>5, <1>9
    <3> QED
      BY <2>1, <3>1
  <2>4. f[m] = Cardinality(Has(c))
    <3>1. \A total \in [0..m -> Nat] :
             /\ total[0] = Cardinality(Had(c))
             /\ \A k \in 1..m :
                   total[k] = total[k - 1] + (IF n + k \in Has(c) THEN 1 ELSE 0)
             => total[m] = Cardinality(Has(c))
      <4> DEFINE before == messages
                 after == messages'
      <4>1. /\ before \in Seq(Message) /\ after \in Seq(Message) /\ m \in Nat
            /\ Len(after) = Len(before) + m
            /\ \A i \in 1..Len(before) : after[i] = before[i]
        BY <1>1, <1>3 DEF n
      <4> HIDE DEF before, after
      <4>2. \A total \in [0..m -> Nat] :
               /\ total[0] = Cardinality(Failed(before, c, turn))
               /\ \A k \in 1..m : total[k] = total[k - 1] +
                     (IF Len(before) + k \in Failed(after, c, turn) THEN 1 ELSE 0)
               => total[m] = Cardinality(Failed(after, c, turn))
        BY <4>1, FailuresCounted
      <4> QED
        BY <4>2 DEF before, after, n
    <3> HIDE DEF Had, Has
    <3> QED
      BY <2>2, <2>3, <3>1
  <2> QED
    BY <1>0, <2>1, <2>4
<1> QED
  BY <1>11, <1>12, <1>13, <1>14, <1>15 DEF RecoveryInv

\* A new owner message: nothing has failed in a turn that begins.
LEMMA OwnerKeeps == RecoveryInv /\ OwnerTurn => RecoveryInv'
<1> SUFFICES ASSUME RecoveryInv, OwnerTurn PROVE RecoveryInv'
  OBVIOUS
<1>1. /\ messages \in Seq(Message) /\ turn \in 0..MaxTurns /\ MaxTurns \in Nat
      /\ DOMAIN messages = 1..Len(messages) /\ \A i \in DOMAIN messages : messages[i].turn \in Nat
  <2>1. messages \in Seq(Message) /\ turn \in 0..MaxTurns
    BY DEF RecoveryInv, RecoveryTypeOK
  <2>2. DOMAIN messages = 1..Len(messages) /\ \A i \in DOMAIN messages : messages[i] \in Message
    BY <2>1, LenProperties, ElementOfSeq
  <2> QED
    BY <2>1, <2>2, RecoveryAssumption DEF Message
<1>2. /\ running' = TRUE /\ turn' = turn + 1 /\ batch' = << >> /\ turn < MaxTurns
      /\ runs' = [c \in Calls |-> 0] /\ UNCHANGED <<messages, errors>>
  BY DEF OwnerTurn
<1>3. RecoveryTypeOK'
  <2>1. turn' \in 0..MaxTurns
    BY <1>1, <1>2
  <2> QED
    BY <1>2, <2>1 DEF RecoveryInv, RecoveryTypeOK, Failures
<1>4. NoneLater' /\ JournalComplete' /\ Len(batch') <= MaxParallel
  BY <1>1, <1>2, LimitsAreNumbers DEF RecoveryInv, NoneLater, JournalComplete
<1>5. \A c : FailedInTurn(c, turn)' = {}
  <2>1. \A i \in DOMAIN messages : messages[i].turn # turn + 1
    BY <1>1 DEF RecoveryInv, NoneLater
  <2> QED
    BY <1>2, <2>1 DEF FailedInTurn
<1>6. Cardinality({}) = 0
  BY FS_EmptySet
<1>7. BudgetHonest'
  <2>1. 0 <= AttemptBudget - 1 + MaxParallel
    BY LimitsAreNumbers
  <2>2. \A c : Cardinality(FailedInTurn(c, turn))' <= AttemptBudget - 1 + MaxParallel
    BY <1>5, <1>6, <2>1
  <2>3. \A i \in DOMAIN messages :
          messages[i].kind = "exhausted" =>
            Cardinality({k \in FailedInTurn(messages[i].call, messages[i].turn) : k < i})
              >= AttemptBudget
    BY DEF RecoveryInv, BudgetHonest
  <2> QED
    BY <1>2, <2>2, <2>3 DEF BudgetHonest, FailedInTurn
<1>8. WritesNotRepeated'
  BY <1>2, <1>5, <1>6 DEF WritesNotRepeated
<1> QED
  BY <1>3, <1>4, <1>7, <1>8 DEF RecoveryInv

\* A model step folds the journal and leaves the thread as it is.
LEMMA FoldKeeps ==
    ASSUME RecoveryInv, FoldJournal, running' \in BOOLEAN, batch' \in Seq(Calls),
           Len(batch') <= MaxParallel
    PROVE  RecoveryInv'
<1>1. messages \in Seq(Message) /\ errors \in Journals
  BY DEF RecoveryInv, RecoveryTypeOK, Journals, NoTwice
<1>2. errors' = Fold /\ UNCHANGED <<turn, messages, runs>>
  BY DEF FoldJournal
<1>3. /\ errors' \in Journals
      /\ Cardinality(Failures) <= LogLimit => Failures \subseteq Entries(errors')
  BY <1>1, <1>2, FoldKeepsAll
<1>4. RecoveryTypeOK'
  BY <1>2, <1>3 DEF RecoveryInv, RecoveryTypeOK, Failures, Journals, NoTwice
<1>5. NoneLater' /\ JournalComplete'
  BY <1>2, <1>3 DEF RecoveryInv, NoneLater, JournalComplete, Failures, Entries
<1>6. BudgetHonest' /\ WritesNotRepeated'
  BY <1>2 DEF RecoveryInv, BudgetHonest, WritesNotRepeated, FailedInTurn, Failures
<1> QED
  BY <1>4, <1>5, <1>6 DEF RecoveryInv

LEMMA ModelKeeps == RecoveryInv /\ (ModelActs \/ ModelAnswers) => RecoveryInv'
<1>1. ASSUME RecoveryInv, ModelActs PROVE RecoveryInv'
  <2>1. PICK n \in 1..MaxParallel : batch' \in [1..n -> Calls]
    BY <1>1 DEF ModelActs
  <2>2. n \in Nat /\ n <= MaxParallel
    BY LimitsAreNumbers
  <2>3. batch' \in Seq(Calls) /\ Len(batch') = n
    BY <2>1, <2>2
  <2>4. FoldJournal /\ running' \in BOOLEAN
    BY <1>1 DEF ModelActs, RecoveryInv, RecoveryTypeOK
  <2> QED
    BY <1>1, <2>2, <2>3, <2>4, FoldKeeps
<1>2. ASSUME RecoveryInv, ModelAnswers PROVE RecoveryInv'
  BY <1>2, FoldKeeps DEF ModelAnswers, RecoveryInv, RecoveryTypeOK
<1> QED
  BY <1>1, <1>2

LEMMA RecoveryStarts == RecoveryInit => RecoveryInv
<1> SUFFICES ASSUME RecoveryInit PROVE RecoveryInv
  OBVIOUS
<1>1. /\ running = FALSE /\ turn = 0 /\ messages = << >> /\ errors = << >> /\ batch = << >>
      /\ runs = [c \in Calls |-> 0]
  BY DEF RecoveryInit
<1>2. DOMAIN messages = {} /\ DOMAIN errors = {} /\ Len(batch) = 0
  BY <1>1
<1>3. RecoveryTypeOK
  <2>1. messages \in Seq(Message) /\ errors \in Seq(Failures) /\ batch \in Seq(Calls)
    BY <1>1, EmptySeq
  <2>2. turn \in 0..MaxTurns
    BY <1>1, RecoveryAssumption
  <2> QED
    BY <1>1, <1>2, <2>1, <2>2 DEF RecoveryTypeOK
<1>4. \A c : FailedInTurn(c, turn) = {}
  BY <1>2 DEF FailedInTurn
<1>5. Cardinality({}) = 0 /\ 0 <= AttemptBudget - 1 + MaxParallel /\ 0 <= MaxParallel
  BY FS_EmptySet, LimitsAreNumbers
<1>6. BudgetHonest /\ WritesNotRepeated
  BY <1>1, <1>2, <1>4, <1>5 DEF BudgetHonest, WritesNotRepeated
<1>7. NoneLater /\ JournalComplete
  BY <1>1, <1>2 DEF NoneLater, JournalComplete
<1> QED
  BY <1>2, <1>3, <1>5, <1>6, <1>7 DEF RecoveryInv

LEMMA RecoveryStep == RecoveryInv /\ [RecoveryNext]_recoveryVars => RecoveryInv'
<1> SUFFICES ASSUME RecoveryInv, [RecoveryNext]_recoveryVars PROVE RecoveryInv'
  OBVIOUS
<1>1. CASE UNCHANGED recoveryVars
  <2>1. UNCHANGED <<running, turn, messages, errors, batch, runs>>
    BY <1>1 DEF recoveryVars
  <2> QED
    BY <2>1 DEF RecoveryInv, RecoveryTypeOK, NoneLater, JournalComplete, BudgetHonest,
                WritesNotRepeated, FailedInTurn, Failures, Entries
<1>2. CASE RecoveryNext
  BY <1>2, OwnerKeeps, ModelKeeps, ToolsKeep DEF RecoveryNext
<1> QED
  BY <1>1, <1>2

\* The budget of attempts says neither too much nor too little (prior_attempts, _fold_tau).
THEOREM BudgetIsHonest == RecoverySpec => []BudgetHonest
<1>1. RecoveryInv => BudgetHonest
  BY DEF RecoveryInv
<1> QED
  BY <1>1, RecoveryStarts, RecoveryStep, PTL DEF RecoverySpec

\* A call that may write is never executed behind the model's back
\* (_native_call_with_recovery).
THEOREM NoWriteIsRepeated == RecoverySpec => []WritesNotRepeated
<1>1. RecoveryInv => WritesNotRepeated
  BY DEF RecoveryInv
<1> QED
  BY <1>1, RecoveryStarts, RecoveryStep, PTL DEF RecoverySpec

\* The journal names failures of the thread only, each of them once, over any fold and cut.
THEOREM JournalTypeCorrect == RecoverySpec => []RecoveryTypeOK
<1>1. RecoveryInv => RecoveryTypeOK
  BY DEF RecoveryInv
<1> QED
  BY <1>1, RecoveryStarts, RecoveryStep, PTL DEF RecoverySpec

-----------------------------------------------------------------------------
(* The round. *)

\* Each part keeps its invariant, in focus and out of it.
RoundInv == GenerationInv /\ OfferTypeOK /\ RouteIsOpened /\ RecoveryInv

LEMMA RoundStarts == LoopInit => RoundInv
BY InitInv, OfferStarts, RecoveryStarts DEF LoopInit, RoundInv

LEMMA RoundStep == RoundInv /\ [LoopNext]_loopVars => RoundInv'
<1> SUFFICES ASSUME RoundInv, [LoopNext]_loopVars PROVE RoundInv'
  OBVIOUS
<1>1. [Next]_vars /\ [OfferNext]_offerVars /\ [RecoveryNext]_recoveryVars
  BY DEF LoopNext, GenerationMoves, OfferMoves, RecoveryMoves, loopVars
<1>2. GenerationInv'
  BY <1>1, StageStep DEF RoundInv
<1>3. OfferTypeOK' /\ RouteIsOpened'
  BY <1>1, OfferTypeStep, OpenedStep DEF RoundInv
<1>4. RecoveryInv'
  BY <1>1, RecoveryStep DEF RoundInv
<1> QED
  BY <1>2, <1>3, <1>4 DEF RoundInv

\* The parts of a round keep their types (LoopTypeOK), whichever of them moves.
THEOREM RoundTypesCorrect == LoopSpec => []LoopTypeOK
<1>1. RoundInv => LoopTypeOK
  BY DEF RoundInv, GenerationInv, RecoveryInv, LoopTypeOK
<1> QED
  BY <1>1, RoundStarts, RoundStep, PTL DEF LoopSpec

\* The safety of every part is that of the round: what a step pays for and publishes, what
\* the model is offered, what the journal lets be tried again.
RoundSafe ==
    /\ StageAccounted /\ StageWithinLimit /\ ShownIsPublished /\ CallsAreWhole
    /\ WritesAreOpened /\ BudgetHonest /\ WritesNotRepeated

THEOREM RoundIsSafe == LoopSpec => []RoundSafe
<1>1. GenerationInv => StageAccounted /\ StageWithinLimit /\ ShownIsPublished /\ CallsAreWhole
  BY StageInvBounds DEF GenerationInv, StageAccounted
<1>2. RouteIsOpened => WritesAreOpened
  BY DEF RouteIsOpened, WritesAreOpened, Writes
<1>3. RoundInv => RoundSafe
  BY <1>1, <1>2 DEF RoundInv, RecoveryInv, RoundSafe
<1> QED
  BY <1>3, RoundStarts, RoundStep, PTL DEF LoopSpec
=============================================================================
