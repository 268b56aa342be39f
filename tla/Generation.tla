------------------------------- MODULE Generation -------------------------------
(*****************************************************************************)
(* The paid provider calls of one model step (msty._respond_step with its     *)
(* policy fallback, synthesis and retry, and msty_stream.TextStream): one     *)
(* stage of the task's budget, at most one repetition of the call, the gates  *)
(* that may rewrite the answer, and the provisional text the owner may        *)
(* already have seen.                                                         *)
(*                                                                           *)
(* Output tokens stand for the whole usage.  The provider keeps to the limit  *)
(* it is sent and refuses an input before it generates anything (external).   *)
(* The breaker has a module of its own; here it may refuse any call.          *)
(*****************************************************************************)
EXTENDS Integers

CONSTANTS
    OutputLimit,        \* the bound output limit of the stage
    Reserve,            \* retry_reserve: what the first call leaves unused
    MinRetry,           \* RETRY_MIN_OUTPUT
    FallbackLimit       \* the output limit under the fallback profile

ASSUME GenerationAssumption ==
    /\ OutputLimit \in Nat
    /\ Reserve \in 0..OutputLimit
    /\ MinRetry \in Nat \ {0} /\ MinRetry <= Reserve
    /\ FallbackLimit \in 0..OutputLimit

VARIABLES
    pc,         \* "main", "synthesis", "retry": before that call; "answered": after one;
                \* "published", "raised", "cancelled"
    fallback,   \* POLICY_FALLBACK_KEY is set: the step runs on the other profile
    lowered,    \* effort['step'] = 'tool_chain': the first call runs at the low level
    held,       \* the reserve held back from the first call, or 0
    toolsOff,   \* tools_disabled
    streaming,  \* no stream, a stream that withholds the text, or one that shows it
    result,     \* the result as the step has it
    attested,   \* budget_check: inputs the published check accounts for, or NoCheck
    shown,      \* stream.parts: the text the owner has been shown
    withdrawn,  \* stream.invalidated
    repeated,   \* the repetition made in this step
    calls,      \* history: calls the provider generated for, or may have
    spent       \* history: what those calls really cost

vars == <<pc, fallback, lowered, held, toolsOff, streaming, result, attested, shown,
          withdrawn, repeated, calls, spent>>

Unknown == -1

\* What budget_check is after the first call: the count of its input, or None where the
\* state binds neither a protocol nor a task and the request is small.
NoCheck == -1
FirstCheck == {NoCheck, 1}

Kinds == {"none", "blank", "words"}
Writers == {"nobody", "main", "synthesis", "retry", "cut short", "server"}
Text == [by : Writers, kind : Kinds]
NoText == [by |-> "nobody", kind |-> "none"]
ServerText == [by |-> "server", kind |-> "words"]
Result == [text : Text, calls : {"none", "model", "server"},
           stop : {"none", "clean", "cut", "refused"},
           usage : {Unknown} \cup 0..OutputLimit, blocked : BOOLEAN]
NoResult == [text |-> NoText, calls |-> "none", stop |-> "none", usage |-> Unknown,
             blocked |-> FALSE]

Visible(r) == r.text.kind = "words"

Init ==
    /\ pc = "main"
    /\ fallback = FALSE
    /\ lowered \in BOOLEAN
    /\ held \in {0, Reserve}
    /\ toolsOff \in {b \in BOOLEAN : lowered => ~b}     \* step_effort
    /\ streaming \in {"none", "withheld", "shown"}
    /\ result = NoResult
    /\ attested = 0
    /\ shown = NoText
    /\ withdrawn = FALSE
    /\ repeated = "none"
    /\ calls = 0
    /\ spent = 0

settings == <<lowered, held, toolsOff, streaming>>

-------------------------------------------------------------------------------
(* Limits and usage.                                                          *)

StageLimit == IF fallback THEN FallbackLimit ELSE OutputLimit
FirstLimit == StageLimit - held

\* Mutant of Headroom: the repetition has the whole limit of the stage.
WholeStage(used) == StageLimit

\* What is left of the stage for a repetition.
Headroom(used) == StageLimit - used

Least(a, b) == IF a < b THEN a ELSE b

\* Mutant of SumUsage: what is unknown is read as zero.
UnknownIsFree(a, b) ==
    IF b = Unknown THEN a ELSE IF a = Unknown THEN b ELSE a + b

\* _sum_usage
SumUsage(a, b) == IF Unknown \in {a, b} THEN Unknown ELSE a + b

\* What a call within `limit` may answer: the message, whether its usage was
\* measured, what it cost, and whether stamp_usage accepts its model.
Answers(who, limit) ==
    [text : {NoText} \cup {[by |-> who, kind |-> k] : k \in Kinds \ {"none"}},
     calls : {"none", "model"}, stop : {"clean", "cut", "refused"},
     cost : 0..limit, measured : BOOLEAN, accepted : BOOLEAN]

Usage(a) == IF a.measured THEN a.cost ELSE Unknown

AsResult(a, usage) ==
    [text |-> a.text, calls |-> a.calls, stop |-> a.stop, usage |-> usage, blocked |-> FALSE]

\* A refusal in the server's own words.
Refusal(usage, blocked) ==
    [text |-> ServerText, calls |-> "none", stop |-> "none", usage |-> usage,
     blocked |-> blocked]
Blocked(usage) == Refusal(usage, TRUE)

\* The provider worked for this step once more; a call that failed may have cost something.
Charged(cost) == calls' = calls + 1 /\ spent' = spent + cost

\* What stream.invoke shows of a text while it arrives.
Shows(text) == shown' = IF streaming = "shown" /\ shown = NoText THEN text ELSE shown

\* A stream that breaks off, possibly in the middle of a text, withdraws it.
BreaksOff ==
    /\ shown' \in IF streaming = "shown" THEN {shown, [by |-> "cut short", kind |-> "words"]}
                  ELSE {shown}
    /\ withdrawn' = (withdrawn \/ shown' # NoText)

-------------------------------------------------------------------------------
(* The first call.                                                            *)

\* rejected_context_budget: nothing was generated, and the usage says so.
PreflightRejects ==
    /\ pc = "main"
    /\ result' = Refusal(0, FALSE)
    /\ pc' = "published"
    /\ UNCHANGED <<fallback, settings, attested, shown, withdrawn, repeated, calls, spent>>

\* The circuit is open: the provider is not called.
CircuitOpen ==
    /\ pc = "main"
    /\ result' = Blocked(Unknown)
    /\ attested' \in FirstCheck
    /\ pc' = "published"
    /\ UNCHANGED <<fallback, settings, shown, withdrawn, repeated, calls, spent>>

\* _policy_fallback_step: once, and only where the table has an entry.
FallsBack == ~fallback

\* policy_rejection_code before anything was shown: the same step runs once more on
\* the fallback's profile, with no reserve, no lowered effort and its own binding.
PolicyRejects ==
    /\ pc = "main"
    /\ shown = NoText
    /\ \/ /\ FallsBack
          /\ fallback' = TRUE
          /\ lowered' = FALSE
          /\ held' = 0
          /\ UNCHANGED <<pc, result>>
       \/ /\ result' = Blocked(0)
          /\ pc' = "published"
          /\ UNCHANGED <<fallback, lowered, held>>
    /\ UNCHANGED <<toolsOff, streaming, attested, shown, withdrawn, repeated, calls, spent>>

\* A transport failure, or a stream that broke: an honest refusal, the expense unknown.
MainFails ==
    /\ pc = "main"
    /\ \E cost \in 0..FirstLimit : Charged(cost)
    /\ BreaksOff
    /\ result' = Blocked(Unknown)
    /\ attested' \in FirstCheck
    /\ pc' = "published"
    /\ UNCHANGED <<fallback, settings, repeated>>

\* Without a stream, an exception that is not transport leaves the step.
MainRaises ==
    /\ pc = "main"
    /\ streaming = "none"
    /\ \E cost \in 0..FirstLimit : Charged(cost)
    /\ pc' = "raised"
    /\ UNCHANGED <<fallback, settings, result, attested, shown, withdrawn, repeated>>

\* The call answered; an answer of another model keeps its usage and nothing else.
MainAnswers(a) ==
    /\ pc = "main"
    /\ Charged(a.cost)
    /\ Shows(a.text)
    /\ attested' \in FirstCheck
    /\ IF a.accepted
         THEN /\ result' = AsResult(a, Usage(a))
              /\ pc' = "answered"
              /\ UNCHANGED withdrawn
         ELSE /\ result' = Blocked(Usage(a))
              /\ pc' = "published"
              /\ withdrawn' = (shown' # NoText)
    /\ UNCHANGED <<fallback, settings, repeated>>

-------------------------------------------------------------------------------
(* At most one repetition.                                                    *)

\* A lowered step turned out to be the answer.
IsLowAnswer ==
    /\ lowered /\ ~toolsOff /\ repeated = "none"
    /\ result.calls = "none" /\ result.stop = "clean" /\ Visible(result)
    /\ shown = NoText
    /\ result.usage # Unknown

\* The whole first limit went into reasoning.
IsEmptyTruncation ==
    /\ held > 0 /\ repeated # "retry"
    /\ result.stop = "cut" /\ ~Visible(result)
    /\ shown = NoText
    /\ result.usage # Unknown /\ Headroom(result.usage) >= MinRetry

\* Admitted: in time, counted within the input limit, and let through by the breaker.
BeginRepetition ==
    /\ pc = "answered"
    /\ \/ IsLowAnswer /\ pc' = "synthesis"
       \/ ~IsLowAnswer /\ IsEmptyTruncation /\ pc' = "retry"
    /\ UNCHANGED <<fallback, settings, result, attested, shown, withdrawn, repeated, calls,
                   spent>>

SynthesisLimit == Least(FirstLimit, Headroom(result.usage))

\* Mutant of CountsRepetition: the check published is the one of the first call.
FirstCheckOnly == attested

\* budget_check grows by the counted input of the repetition.
CountsRepetition == IF attested = NoCheck THEN NoCheck ELSE attested + 1

\* The expense of the repetition is unknown, the low answer stays.
SynthesisFails ==
    /\ pc = "synthesis"
    /\ \E cost \in 0..SynthesisLimit : Charged(cost)
    /\ BreaksOff
    /\ result' = [result EXCEPT !.usage = Unknown]
    /\ attested' = CountsRepetition
    /\ repeated' = "synthesis"
    /\ pc' = "answered"
    /\ UNCHANGED <<fallback, settings>>

\* _synthesis_step keeps the low answer unless the repetition is whole and says or does something.
IsUsable(a) ==
    a.accepted /\ a.stop = "clean" /\ (a.text.kind = "words" \/ a.calls # "none")

SynthesisAnswers(a) ==
    /\ pc = "synthesis"
    /\ Charged(a.cost)
    /\ Shows(a.text)
    /\ LET sum == SumUsage(result.usage, Usage(a))
       IN  result' = IF ~a.accepted THEN [result EXCEPT !.usage = Unknown]
                     ELSE IF IsUsable(a) THEN AsResult(a, sum)
                     ELSE [result EXCEPT !.usage = sum]
    /\ attested' = CountsRepetition
    /\ repeated' = "synthesis"
    /\ pc' = "answered"
    /\ UNCHANGED <<fallback, settings, withdrawn>>

\* The empty first answer stays, the expense unknown; tools stay off from here.
RetryFails ==
    /\ pc = "retry"
    /\ \E cost \in 0..Headroom(result.usage) : Charged(cost)
    /\ BreaksOff
    /\ result' = [result EXCEPT !.usage = Unknown]
    /\ toolsOff' = TRUE
    /\ attested' = CountsRepetition
    /\ repeated' = "retry"
    /\ pc' = "answered"
    /\ UNCHANGED <<fallback, lowered, held, streaming>>

\* Mutant of RetryTools: the setting of the step is kept.
KeepsTools == toolsOff

\* The retry is bound with the choice 'none'; a model that calls a tool all the same is refused.
RetryTools == TRUE

RetryAnswers(a) ==
    /\ pc = "retry"
    /\ Charged(a.cost)
    /\ Shows(a.text)
    /\ LET sum == SumUsage(result.usage, Usage(a))
       IN  result' = IF a.accepted THEN AsResult(a, sum) ELSE Blocked(sum)
    /\ withdrawn' = (withdrawn \/ (~a.accepted /\ shown' # NoText))
    /\ toolsOff' = RetryTools
    /\ attested' = CountsRepetition
    /\ repeated' = "retry"
    /\ pc' = "answered"
    /\ UNCHANGED <<fallback, lowered, held, streaming>>

-------------------------------------------------------------------------------
(* The gates and the publication, with no await between them.                 *)

Terminated(r) == r.stop \in {"cut", "refused"}

\* Cut or refused: no call of it survives, and the owner is told unless the text was shown.
Explained(r) ==
    IF ~Terminated(r) THEN r
    ELSE [r EXCEPT !.calls = "none",
                   !.text = IF ~Visible(r) \/ (r.stop = "cut" /\ shown = NoText)
                              THEN ServerText ELSE r.text]

\* Calls although tools are off are refused; so is an unknown or malformed call.
Refused(r) == [r EXCEPT !.calls = "none", !.text = ServerText]

\* What the checks of the calls, gate_final, native_result_filter and the evidence
\* gate may make of a result: refuse or block it, drop a part, rewrite the text, or
\* replace an answer that is no answer yet by a call of their own.
Gated(r) ==
    IF r.calls # "none" /\ toolsOff
      THEN {Refused(r), [Refused(r) EXCEPT !.blocked = TRUE]}
      ELSE {r, [r EXCEPT !.text = ServerText],
            [r EXCEPT !.calls = "none", !.text = ServerText],
            [r EXCEPT !.calls = "none", !.text = ServerText, !.blocked = TRUE]} \cup
           (IF r.calls = "none" /\ ~toolsOff /\ ~r.blocked /\ ~Terminated(r)
              THEN {[r EXCEPT !.calls = "server", !.text = ServerText]} ELSE {})

\* Mutant of Withdraws: the text is compared as the model gave it, before the gates.
ComparesModelText(r) == result.text # shown \/ r.blocked

\* TextStream.finish compares what was shown with what is published.
Withdraws(r) == r.text # shown \/ r.blocked

Publish ==
    /\ pc = "answered"
    /\ result' \in Gated(Explained(result))
    /\ withdrawn' = (withdrawn \/ (shown # NoText /\ Withdraws(result')))
    /\ pc' = "published"
    /\ UNCHANGED <<fallback, settings, attested, shown, repeated, calls, spent>>

\* The bridge stops the run while a call is awaited; its cost is nobody's to know.
Cancelled ==
    /\ pc \in {"main", "synthesis", "retry"}
    /\ \E cost \in 0..(IF pc = "main" THEN FirstLimit ELSE
                       IF pc = "retry" THEN Headroom(result.usage) ELSE SynthesisLimit) :
          Charged(cost)
    /\ BreaksOff
    /\ pc' = "cancelled"
    /\ UNCHANGED <<fallback, settings, result, attested, repeated>>

FirstCall ==
    \/ PreflightRejects
    \/ CircuitOpen
    \/ PolicyRejects
    \/ MainFails
    \/ MainRaises
    \/ \E a \in Answers("main", FirstLimit) : MainAnswers(a)

Repetition ==
    \/ BeginRepetition
    \/ SynthesisFails
    \/ \E a \in Answers("synthesis", SynthesisLimit) : SynthesisAnswers(a)
    \/ RetryFails
    \/ \E a \in Answers("retry", Headroom(result.usage)) : RetryAnswers(a)

Next == FirstCall \/ Repetition \/ Publish \/ Cancelled

Spec == Init /\ [][Next]_vars

-------------------------------------------------------------------------------
(* Properties.                                                                *)

\* Every variable keeps the values the code gives it.
TypeOK ==
    /\ pc \in {"main", "answered", "synthesis", "retry", "published", "raised", "cancelled"}
    /\ fallback \in BOOLEAN /\ lowered \in BOOLEAN
    /\ toolsOff \in BOOLEAN /\ withdrawn \in BOOLEAN
    /\ held \in {0, Reserve}
    /\ streaming \in {"none", "withheld", "shown"}
    /\ result \in Result
    /\ attested \in {NoCheck} \cup 0..2
    /\ shown \in Text
    /\ repeated \in {"none", "synthesis", "retry"}
    /\ calls \in Nat
    /\ spent \in Nat

\* What the bridge settles is exact or unknown: no published usage leaves out a call
\* that was, or may have been, charged for, whichever of them failed or was refused.
UsageHonest == pc = "published" => result.usage \in {Unknown, spent}

\* All calls of the stage together stay within the output limit the bridge reserved
\* for it (a stage that exceeds it breaches the budget of the whole task).
StageWithinLimit == spent <= OutputLimit

\* A stage pays for two calls at most: a policy fallback, a synthesis and a retry
\* never add up.
TwoCallsAtMost == calls <= 2 /\ (fallback => calls <= 1)

\* When the step is over, the text the owner was shown is the published text or has
\* been withdrawn, wherever the stream broke and whatever the gates rewrote.
ShownIsPublished ==
    pc \in {"published", "raised", "cancelled"} /\ shown # NoText /\ ~withdrawn =>
        pc = "published" /\ result.text = shown /\ ~result.blocked

\* The loop is only handed calls of an answer that ended normally and was made with
\* tools on: a cut prefix, a refusal or the tool-less retry never starts an action.
CallsAreWhole ==
    pc = "published" /\ result.calls # "none" =>
        result.stop = "clean" /\ repeated # "retry" /\ ~result.blocked

\* The repetition of a low answer never loses it: something is said or done after it.
AnswerNeverLost ==
    [][pc = "synthesis" /\ pc' = "answered" => Visible(result') \/ result'.calls # "none"]_vars

\* A published check accounts for the input of every call the provider may have
\* charged for, so the input limit of the stage held for their sum.
CheckCoversCalls == pc = "published" /\ attested # NoCheck => calls <= attested

\* What the bridge is told of a stage can be relied on: the usage is exact or unknown,
\* and a check the step publishes stands for the input of every call made.
StageAccounted == UsageHonest /\ CheckCoversCalls

\* What each step keeps, and why the properties above hold.
BeforeFirst ==
    pc = "main" =>
        /\ calls = 0 /\ spent = 0 /\ repeated = "none"
        /\ shown = NoText /\ ~withdrawn /\ result = NoResult
FallbackIsPlain == fallback => held = 0 /\ ~lowered /\ repeated = "none"
Accounted ==
    /\ spent <= StageLimit
    /\ pc \in {"answered", "synthesis", "retry"} => result.usage \in {Unknown, spent}
OncePerKind ==
    /\ pc = "answered" =>
          /\ calls = (IF repeated = "none" THEN 1 ELSE 2) /\ attested \in {NoCheck, calls}
          /\ repeated = "synthesis" => result.stop = "clean"
          /\ repeated = "retry" => toolsOff
          /\ repeated = "none" => ~result.blocked
          /\ result.blocked => result.calls = "none"
          /\ result.stop = "none" => result.blocked
    /\ pc = "synthesis" => IsLowAnswer /\ calls = 1 /\ attested \in FirstCheck /\ ~result.blocked
    /\ pc = "retry" =>
          /\ IsEmptyTruncation /\ repeated = "none" /\ calls = 1 /\ attested \in FirstCheck
          /\ ~result.blocked

GenerationInv ==
    /\ TypeOK
    /\ UsageHonest
    /\ TwoCallsAtMost
    /\ ShownIsPublished
    /\ CallsAreWhole
    /\ CheckCoversCalls
    /\ BeforeFirst
    /\ FallbackIsPlain
    /\ Accounted
    /\ OncePerKind

===============================================================================
