----------------------------- MODULE EvidenceGate -----------------------------
(***************************************************************************)
(* The evidence gate on a final answer (msty_evidence). It keeps no state: *)
(* it is a decision over the owner's latest message, what was read since,  *)
(* and the answer. A text either makes a negative claim about the system   *)
(* ("claim") or does not ("plain"); "system" is a text of the pipeline.    *)
(***************************************************************************)
EXTENDS Sequences

Texts == {"plain", "claim", "system", "rewritten"}

\* What a status read can return: the state, a failure of the call, or the tool's own
\* word that the state could not be read.
StatusAnswers == {"state", "failed", "unread"}

\* What the messages after the owner's latest one say of status reads.
NothingRead == [called |-> FALSE, successful |-> FALSE]

\* Mutant: a read that reports it could not read counts as evidence.
AnyAnswerCounts(reads, tool, answer) ==
    IF tool # "status" THEN reads
    ELSE [called |-> TRUE, successful |-> reads.successful \/ answer # "failed"]

\* successful_status_reads and _status_tool_called, one tool message further.
ReadsAfter(reads, tool, answer) ==
    IF tool # "status" THEN reads
    ELSE [called |-> TRUE, successful |-> reads.successful \/ answer = "state"]

\* in_scope: the owner asks about a state, or the model went to read one.
InScope(ask, reads) == ask.question \/ reads.called

\* Only a final answer of the model; one with a gate's label or a refusal is left alone.
Gated(result) == /\ result.calls = <<>>
                 /\ result.ending # "blocked"
                 /\ result.label = "none"

GateFinalAnswer(result, ask, reads) ==
    IF Gated(result) /\ InScope(ask, reads) /\ result.text = "claim" /\ ~reads.successful
    THEN [result EXCEPT !.text = "rewritten"]
    ELSE result
===============================================================================
