------------------------------- MODULE TaskGate -------------------------------
(***************************************************************************)
(* The completion gates of a task (msty_task) over whole owner turns: the  *)
(* contract between a plan and its verification, the first action of an    *)
(* incident, the typecheck of an edited site copy and the gate on an open  *)
(* plan, with the filters a result passes behind them. The thread is kept  *)
(* as what the gates compute from it: `turn` from the messages after the   *)
(* owner's latest one, `site` from the whole conversation.                 *)
(***************************************************************************)
EXTENDS Integers, FiniteSets, EvidenceGate

CONSTANTS Graphs,      \* subset of {"native", "legacy"}: the graphs that are run
          Asks,        \* the owner's messages
          Offers,      \* the sets of external tools a client may offer
          Batches,     \* the sequences of calls the model may ask for
          MaxActions,
          GateLimit,   \* OPEN_PLAN_GATE_LIMIT
          MaxTurns     \* bound: owner turns of one conversation

External == {"memory", "status", "act", "plan", "verify", "task_plan", "task_check",
             "site_write", "site_status", "site_check"}
Native == {"todos"}
PlanTools == {"todos", "task_plan"}
Bookkeeping == PlanTools \cup {"task_check"}

\* `open`: a plan with items left. `gate`: the call's id has PLAN_GATE_PREFIX.
Calls == [tool : External \cup Native, open : BOOLEAN, gate : BOOLEAN]
Call(tool) == [tool |-> tool, open |-> FALSE, gate |-> FALSE]

ASSUME TaskGateAssumption ==
    /\ Graphs \subseteq {"native", "legacy"}
    /\ \A ask \in Asks : /\ {ask.control, ask.incident, ask.question} \subseteq BOOLEAN
                         /\ ask.choice \in {"auto", "none"} \cup External
    /\ Offers \subseteq SUBSET External
    /\ Batches \subseteq Seq(Calls)
    /\ \A b \in Batches : \A k \in DOMAIN b : ~b[k].gate    \* no provider makes a gate's ids
    /\ {MaxActions, GateLimit, MaxTurns} \subseteq Nat \ {0}

VARIABLES graph, offer, ask,
          turn,      \* what the gates read of the owner's current turn
          site,      \* site_jobs of the one job of this conversation
          contract,  \* state.task_contract; `known` when it has a plan_id
          issued,    \* execution.actions_issued
          native,    \* execution.native_actions
          place,     \* "idle", "model": a step is due, "tools": its batch is out
          out,       \* the published result, until the thread goes on
          ghost      \* history, see Untouched

taskVars == <<graph, offer, ask, turn, site, contract, issued, native, place, out, ghost>>

NewTurn == [plan |-> "none", open |-> FALSE, fired |-> 0, progress |-> FALSE,
            acted |-> FALSE, view |-> "none", repeated |-> 0, reads |-> NothingRead]

\* The history the properties compare the gates with: whether artefacts may have changed
\* since the last passed verification; whether the last word of a verification was a
\* failure; whether site files were written since the last passed typecheck; the turn of
\* the last successful status read; continuations of this turn, and whether real work
\* was done since the last of them.
Untouched == [stale |-> FALSE, failed |-> FALSE, unchecked |-> FALSE, lastRead |-> 0,
              turns |-> 0, continued |-> 0, moved |-> FALSE]

NoContract == [status |-> "none", known |-> FALSE]
Unconfirmed == [status |-> "blocked", known |-> FALSE]
Nothing == [calls |-> <<>>, text |-> "system", ending |-> "stop", label |-> "none",
            status |-> "none"]

TaskInit ==
    /\ graph \in Graphs /\ offer \in Offers /\ ask \in Asks
    /\ turn = NewTurn /\ site = "none" /\ contract = NoContract
    /\ issued = 0 /\ native = 0
    /\ place = "idle" /\ out = Nothing /\ ghost = Untouched

-----------------------------------------------------------------------------
(* What is read from the thread *)

\* The owner's turn after one more call of the assistant: the latest plan, and the gates
\* fired with the progress since the last of them. The legacy graph keeps the client's
\* ids in the thread, so no call of a gate is recognised there.
AfterCall(t, call) ==
    LET own == call.gate /\ graph = "native"
        planned == call.tool \in PlanTools
    IN [t EXCEPT !.acted = TRUE,
                 !.plan = IF planned THEN call.tool ELSE @,
                 !.open = IF planned THEN call.open ELSE @,
                 !.fired = IF own THEN @ + 1 ELSE @,
                 !.progress = ~own /\ (@ \/ call.tool \notin Bookkeeping)]

\* The owner's turn after the calls of a batch, one after the other.
AfterCalls(calls) ==
    LET t[k \in 0..Len(calls)] == IF k = 0 THEN turn ELSE AfterCall(t[k - 1], calls[k])
    IN t[Len(calls)]

\* Views of the site executor: without a typecheck ("ready"), in flight ("busy"), passed
\* but older than the last write ("old"), failed, passed, cancelled.
Views == {"ready", "busy", "old", "failed", "passed", "cancelled"}
IsView(tool) == tool \in {"site_status", "site_check"}

\* One tool message further: the latest view and how often it came in a row.
AfterAnswer(t, tool, answer) ==
    LET seen == [t EXCEPT !.reads = ReadsAfter(@, tool, answer)]
    IN IF IsView(tool)
       THEN [seen EXCEPT !.view = answer,
                         !.repeated = IF t.view # answer THEN 1 ELSE IF @ < 3 THEN @ + 1 ELSE 3]
       ELSE seen

\* Mutant: a passed typecheck counts although files were written after it.
AnyPassedTypecheck(s, tool, answer) ==
    CASE tool = "site_write" -> "dirty"
      [] IsView(tool) /\ (s = "none" \/ answer = "cancelled") -> "none"
      [] IsView(tool) /\ s # "none" /\ answer \in {"passed", "old"} -> "clean"
      [] IsView(tool) /\ s # "none" /\ answer = "failed" -> "typecheck_failed"
      [] IsView(tool) /\ s # "none" /\ answer \in {"ready", "busy"} -> "dirty"
      [] OTHER -> s

SiteAfter(s, tool, answer) ==
    CASE tool = "site_write" -> "dirty"
      [] IsView(tool) /\ (s = "none" \/ answer = "cancelled") -> "none"
      [] IsView(tool) /\ s # "none" /\ answer = "passed" -> "clean"
      [] IsView(tool) /\ s # "none" /\ answer = "failed" -> "typecheck_failed"
      [] IsView(tool) /\ s # "none" /\ answer \in {"ready", "busy", "old"} -> "dirty"
      [] OTHER -> s

\* The turn and the site copy after the answers to a batch: `seen` has each with its tool.
AfterAnswers(seen) ==
    LET t[k \in 0..Len(seen)] ==
            IF k = 0 THEN turn ELSE AfterAnswer(t[k - 1], seen[k][1], seen[k][2])
    IN t[Len(seen)]
SiteAfterAnswers(seen) ==
    LET s[k \in 0..Len(seen)] ==
            IF k = 0 THEN site ELSE SiteAfter(s[k - 1], seen[k][1], seen[k][2])
    IN s[Len(seen)]

-----------------------------------------------------------------------------
(* gate_final *)

Disabled == ask.choice = "none"
QuotaLeft == issued < MaxActions
Permitted(tool) == tool \in offer /\ ask.choice \in {"auto", tool}
NativeOffered == graph = "native" /\ ask.choice = "auto"

\* A result that would end the turn normally.
Finished(r) == r.calls = <<>> /\ r.ending = "stop" /\ ~Disabled

Instead(r, call, label) == [r EXCEPT !.calls = <<call>>, !.text = "system", !.label = label]
\* A refused answer that was cut stays cut: its finish reason is kept.
Refusal(r, label) == [r EXCEPT !.calls = <<>>, !.text = "system", !.label = label,
                               !.ending = IF r.ending = "cut" THEN "cut" ELSE "blocked"]

\* A reported failure is answered with an action before it is answered with a diagnosis.
StartsIncident(r) == /\ Finished(r) /\ ask.incident /\ ~ask.control /\ ~turn.acted
                     /\ QuotaLeft /\ Permitted("memory")

UncheckedSite(r) == /\ Finished(r) /\ ~ask.control
                    /\ site \in {"dirty", "typecheck_failed"}

SiteGate(r) ==
    CASE site = "typecheck_failed" -> Refusal(r, "site_typecheck_failed")
      [] site # "typecheck_failed" /\ ~(Permitted("site_status") /\ QuotaLeft) ->
            Refusal(r, "site_typecheck_required")
      [] OTHER ->
            IF turn.view = "ready" /\ Permitted("site_check")
            THEN Instead(r, Call("site_check"), "site_explicit_typecheck_required")
            ELSE IF turn.view = "busy" /\ turn.repeated >= 3
            THEN Refusal(r, "site_executor_stalled")
            ELSE Instead(r, Call("site_status"), "site_typecheck_required")

\* Mutant: a stop phrase of the owner suppresses the refusal too.
FailedUnlessStopped(r) == contract.status = "blocked" /\ r.calls = <<>> /\ ~ask.control

FailedContract(r) == contract.status = "blocked" /\ r.calls = <<>>

\* A site copy that is checked overrules the failure of a plan over files.
FailedGate(r) == IF site = "clean" THEN [r EXCEPT !.label = "site_executor_verified"]
                 ELSE Refusal(r, "failed_verification_preserved")

VerificationDue(r) == contract.status = "planned" /\ Finished(r) /\ ~ask.control

VerifyGate(r) == IF Permitted("verify") /\ QuotaLeft
                 THEN Instead(r, Call("verify"), "native_verification_required")
                 ELSE Refusal(r, "none")

OpenPlan(r) == Finished(r) /\ ~ask.control /\ QuotaLeft /\ turn.open

\* Mutant: the gate fires again without work in between.
OnlyLimited(t) == t.fired >= GateLimit

Exhausted(t) == t.fired >= GateLimit \/ (t.fired > 0 /\ ~t.progress)

OpenPlanGate(r) ==
    IF Exhausted(turn) THEN [r EXCEPT !.label = "open_plan_released"]
    ELSE IF turn.plan = "task_plan" /\ Permitted("task_check")
    THEN Instead(r, [Call("task_check") EXCEPT !.gate = TRUE], "open_plan_continue")
    ELSE IF turn.plan = "todos" /\ NativeOffered
    THEN Instead(r, [tool |-> "todos", open |-> TRUE, gate |-> TRUE], "open_plan_continue")
    ELSE r

GateFinal(r) == IF StartsIncident(r)
                THEN Instead(r, Call("memory"), "incident_first_action_required")
                ELSE IF UncheckedSite(r) THEN SiteGate(r)
                ELSE IF FailedContract(r) THEN FailedGate(r)
                ELSE IF VerificationDue(r) THEN VerifyGate(r)
                ELSE IF OpenPlan(r) THEN OpenPlanGate(r)
                ELSE r

-----------------------------------------------------------------------------
(* Around the gates *)

\* An answer that was cut loses its calls; a call that was not offered, or was made with
\* tools off, is replaced by an explanation.
Validated(r) ==
    LET offered(c) == c.tool \in offer \/ (c.tool \in Native /\ graph = "native")
    IN IF r.ending = "cut" THEN [r EXCEPT !.calls = <<>>]
       ELSE IF r.calls # <<>> /\ (Disabled \/ \E i \in DOMAIN r.calls : ~offered(r.calls[i]))
       THEN [r EXCEPT !.calls = <<>>, !.text = "system"]
       ELSE r

\* A call the gates made in place of the answer may still fail its tool's schema.
Rechecked(answer, r) == {r} \cup (IF r.calls = answer.calls THEN {} ELSE {Refusal(r, r.label)})

OfNative(c) == c.tool \in Native

\* The places of the native calls in the batch of a result.
OwnCalls(r) == {k \in DOMAIN r.calls : OfNative(r.calls[k])}
OnlyOwn(r) == [r EXCEPT !.calls = <<r.calls[CHOOSE k \in OwnCalls(r) : TRUE]>>]

\* Mutant: the filter compares the external actions with the limit, as the gates do.
FilteredExternally(r) ==
    IF graph = "legacy" THEN r
    ELSE IF issued + Len(r.calls) > MaxActions \/ Cardinality(OwnCalls(r)) > 1
    THEN Refusal(r, r.label)
    ELSE IF OwnCalls(r) # {} THEN OnlyOwn(r)
    ELSE r

\* filter_result of the native graph: the common limit, then native calls before external.
Filtered(r) ==
    IF graph = "legacy" THEN r
    ELSE IF issued + native + Len(r.calls) > MaxActions \/ Cardinality(OwnCalls(r)) > 1
    THEN Refusal(r, r.label)
    ELSE IF OwnCalls(r) # {} THEN OnlyOwn(r)
    ELSE r

\* Mutant: a verified contract stays verified.
StaysVerified(calls) == contract

\* after_result: acting again makes a verified contract a planned one.
AfterResult(calls) ==
    IF contract.status = "verified" /\ \E i \in DOMAIN calls : calls[i].tool \notin {"verify", "todos"}
    THEN [contract EXCEPT !.status = "planned"]
    ELSE contract

\* execution_after, then final_status.
StatusOf(r, c) ==
    IF r.ending = "cut" THEN "incomplete"
    ELSE IF r.ending = "blocked" THEN "blocked"
    ELSE IF r.calls # <<>> THEN "waiting"
    ELSE IF c.status = "none" THEN "answered"
    ELSE IF c.status \in {"blocked", "verified"} THEN c.status
    ELSE IF ask.control \/ Disabled THEN "answered" ELSE "blocked"

\* Mutant: the plan is kept for free.
PlanIsFree(calls) == Len(SelectSeq(calls, LAMBDA c : c.tool \notin PlanTools))

\* What a publication charges, to the counter of the calls' executor.
Charged(calls) == Len(calls)

-----------------------------------------------------------------------------
(* A step of the model *)

\* What the model answers: a text or a batch, whole, cut, or already refused.
Results ==
    {[calls |-> b, text |-> "plain", ending |-> e, label |-> "none"] :
        b \in Batches, e \in {"stop", "cut"}} \cup
    {[calls |-> <<>>, text |-> t, ending |-> e, label |-> "none"] :
        t \in {"plain", "claim"}, e \in {"stop", "cut"}} \cup
    {[calls |-> <<>>, text |-> "system", ending |-> "blocked", label |-> "none"]}

Acting == {"act", "site_write"}

Publish(r) ==
    LET c == AfterResult(r.calls)
        mine == r.calls # <<>> /\ OfNative(r.calls[1])
        continues == r.calls # <<>> /\ r.label = "open_plan_continue"
        works == \E i \in DOMAIN r.calls : r.calls[i].tool \notin Bookkeeping
        acts == \E i \in DOMAIN r.calls : r.calls[i].tool \in Acting
    IN /\ contract' = c
       /\ out' = [calls |-> r.calls, text |-> r.text, ending |-> r.ending, label |-> r.label,
                   status |-> StatusOf(r, c)]
       /\ place' = IF r.calls = <<>> THEN "idle" ELSE "tools"
       /\ turn' = AfterCalls(r.calls)
       /\ native' = IF mine THEN native + Charged(r.calls) ELSE native
       /\ issued' = IF mine THEN issued ELSE issued + Charged(r.calls)
       /\ ghost' = [ghost EXCEPT
                        !.stale = @ \/ acts,
                        !.continued = IF continues /\ @ <= GateLimit THEN @ + 1 ELSE @,
                        !.moved = IF continues THEN FALSE ELSE @ \/ works]
       /\ UNCHANGED <<graph, offer, ask, site>>

\* In the legacy graph a batch past the limit raises and the run ends.
ModelStep ==
    /\ place = "model"
    /\ \E answer \in Results :
       \E gated \in Rechecked(Validated(answer), GateFinal(Validated(answer))) :
         LET r == Filtered(gated)
         IN IF graph = "legacy" /\ Len(r.calls) > MaxActions - issued
            THEN /\ place' = "idle"
                 /\ out' = Nothing
                 /\ UNCHANGED <<graph, offer, ask, turn, site, contract, issued, native, ghost>>
            ELSE Publish(GateFinalAnswer(r, ask, turn.reads))

-----------------------------------------------------------------------------
(* The results of a batch *)

AnswersOf(tool) ==
    CASE tool = "status" -> StatusAnswers
      [] tool = "plan" -> {"planned", "unconfirmed"}
      [] tool = "verify" -> {"passed", "failed"}
      [] IsView(tool) -> Views
      [] OTHER -> {"done"}

Of(tool) == {i \in DOMAIN out.calls : out.calls[i].tool = tool}

\* More than one plan, or a verification that is not alone, has no order to rely on.
Ambiguous == \/ Cardinality(Of("plan")) > 1
             \/ Of("verify") # {} /\ Len(out.calls) # 1

\* observe
Observed(answers) ==
    IF Ambiguous THEN Unconfirmed
    ELSE IF Of("plan") # {}
    THEN IF \E i \in Of("plan") : answers[i] = "planned"
         THEN [status |-> "planned", known |-> TRUE] ELSE Unconfirmed
    ELSE IF Of("verify") # {} /\ contract.status # "none"
    THEN [contract EXCEPT !.status = IF @ # "none" /\ contract.known /\ answers[1] = "passed"
                                     THEN "verified" ELSE "blocked"]
    ELSE contract

\* The tools ran and the thread goes on: the interrupt of the native or the external
\* protocol is answered (see NativeLoop).
ToolsAnswer ==
    /\ place = "tools"
    /\ \E answers \in {a \in [DOMAIN out.calls -> UNION {AnswersOf(c.tool) : c \in Calls}] :
                         \A i \in DOMAIN a : a[i] \in AnswersOf(out.calls[i].tool)} :
         LET seen == [i \in DOMAIN out.calls |-> <<out.calls[i].tool, answers[i]>>]
             has(tool, answer) == \E i \in DOMAIN seen : seen[i] = <<tool, answer>>
             passes == has("verify", "passed") /\ contract.known
             fails == Ambiguous \/ has("plan", "unconfirmed")
                      \/ (has("verify", "failed") /\ contract.status # "none")
             checked == has("site_status", "passed") \/ has("site_status", "cancelled")
                        \/ has("site_check", "passed") \/ has("site_check", "cancelled")
         IN /\ contract' = Observed(answers)
            /\ turn' = AfterAnswers(seen)
            /\ site' = SiteAfterAnswers(seen)
            /\ ghost' = [ghost EXCEPT
                 !.stale = @ /\ (Ambiguous \/ ~passes),
                 !.failed = fails \/ (@ /\ ~passes /\ ~has("plan", "planned")),
                 !.unchecked = (@ \/ has("site_write", "done")) /\ ~checked,
                 !.lastRead = IF has("status", "state") THEN ghost.turns ELSE @]
    /\ place' = "model" /\ out' = Nothing
    /\ UNCHANGED <<graph, offer, ask, issued, native>>

\* The owner writes: after an answer, or past a batch nobody answered. The contract, the
\* counters and the site copies stay.
OwnerTurn ==
    /\ place # "model" /\ ghost.turns < MaxTurns
    /\ ask' \in Asks
    /\ turn' = NewTurn
    /\ place' = "model" /\ out' = Nothing
    /\ ghost' = [ghost EXCEPT !.turns = @ + 1, !.continued = 0, !.moved = FALSE]
    /\ UNCHANGED <<graph, offer, site, contract, issued, native>>

TaskNext == ModelStep \/ ToolsAnswer \/ OwnerTurn

\* A step that is due is made, and a batch that is out is answered.
TaskSpec == TaskInit /\ [][TaskNext]_taskVars /\ WF_taskVars(ModelStep) /\ WF_taskVars(ToolsAnswer)

-----------------------------------------------------------------------------
(* Properties *)

\* The gates' variables keep their types; the counters stay within the limit.
TaskTypeOK ==
    /\ graph \in Graphs /\ offer \in Offers /\ ask \in Asks
    /\ turn \in [plan : PlanTools \cup {"none"}, open : BOOLEAN, fired : 0..GateLimit,
                 progress : BOOLEAN, acted : BOOLEAN, view : Views \cup {"none"},
                 repeated : 0..3, reads : [called : BOOLEAN, successful : BOOLEAN]]
    /\ site \in {"none", "dirty", "typecheck_failed", "clean"}
    /\ contract \in [status : {"none", "planned", "blocked", "verified"}, known : BOOLEAN]
    /\ issued \in 0..MaxActions /\ native \in 0..MaxActions
    /\ place \in {"idle", "model", "tools"}
    /\ out.text \in Texts

\* The result a turn has ended with.
Ended == place = "idle" /\ out # Nothing

\* A continuation the open-plan gate forces is one of at most GateLimit in this owner
\* turn, and real work was done since the one before.
ContinuesWithin ==
    place = "model" /\ place' = "tools" /\ out'.label = "open_plan_continue" =>
        /\ ghost.continued < GateLimit
        /\ ghost.continued = 0 \/ ghost.moved

\* The gate on an open plan is bounded in the native graph, which recognises the calls of
\* the gate in its thread.
ContinuationsBounded == [][graph = "native" => ContinuesWithin]_taskVars

\* What the note above open_plan_gate says of every turn, whatever graph runs it.
GateIsBounded == [][ContinuesWithin]_taskVars

\* A turn is reported as verified only if nothing that can change an artefact was issued
\* since the verification that passed: not in its batch, not in a later turn.
VerifiedIsCurrent == Ended /\ out.status = "verified" => ~ghost.stale

\* A verification that failed, or a plan that was not confirmed, is not forgotten: no
\* later turn ends as answered or verified, and no text of the model is published but
\* over a checked site copy, until a plan is confirmed or a verification passes.
FailureSurvives ==
    Ended /\ ghost.failed => /\ out.status \notin {"answered", "verified"}
                             /\ out.text # "system" => site = "clean"

\* The model's own word on an edited site copy ends a turn only when the last typecheck
\* is newer than the last write, unless the owner stopped the work or forbade tools.
SiteIsChecked ==
    Ended /\ ghost.unchecked /\ out.status \in {"answered", "verified"} /\ out.text # "system" =>
        ask.control \/ Disabled

\* A negative claim about the system reaches the owner as the model's answer only on a
\* status read that succeeded in the same turn.
RestsOnRead ==
    Ended /\ out.text = "claim" /\ (ask.question \/ turn.reads.called) =>
        ghost.lastRead = ghost.turns

\* So it is for every answer that no gate has labelled.
NegativeRestsOnRead == out.label = "none" => RestsOnRead

\* The gates send a turn back to work only finitely often: it ends.
TurnEnds == place # "idle" ~> place = "idle"
===============================================================================
