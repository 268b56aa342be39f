------------------------------- MODULE Recovery -------------------------------
(*****************************************************************************)
(* Recovery from failed tool calls (TAU L4: msty_taxonomy.py and the tool     *)
(* node of msty_native.py): the journal of failures that every model step     *)
(* folds from the thread's tool messages, the budget of attempts read from    *)
(* it, and the retries inside one execution.                                  *)
(*                                                                           *)
(* A call is what its fingerprint stands for: a tool's name with its          *)
(* arguments.  The model may ask for any batch of calls, the same one twice   *)
(* included; the calls of a batch run side by side and all read the journal   *)
(* as the last model step left it.                                            *)
(*****************************************************************************)
EXTENDS Integers, Sequences, FiniteSets

CONSTANTS
    Calls,              \* fingerprints
    External,           \* the calls the client executes, before the tool node
    Idempotent,         \* the calls whose tool only reads (is_idempotent)
    AttemptBudget,      \* ATTEMPT_BUDGET
    TransientRetries,   \* TRANSIENT_RETRIES
    LogLimit,           \* LOG_LIMIT
    MaxParallel,        \* bound of the model: calls in a batch
    MaxMessages,        \* bound of the model: tool messages of the thread
    MaxTurns            \* bound of the model: owner turns

ASSUME RecoveryAssumption ==
    /\ External \subseteq Calls
    /\ Idempotent \subseteq Calls
    /\ {AttemptBudget, LogLimit, MaxParallel} \subseteq Nat \ {0}
    /\ {TransientRetries, MaxMessages, MaxTurns} \subseteq Nat

VARIABLES
    running,    \* a run is under way
    turn,       \* turn_of(messages): owner messages so far
    messages,   \* the thread's tool messages; a message's place is its tool_call_id
    errors,     \* state['tau_errors']: the journal, as places in `messages`
    batch,      \* the calls of the last AI message that wait for the tool node
    runs        \* history: failed executions of each call in this turn

recoveryVars == <<running, turn, messages, errors, batch, runs>>

Message == [call : Calls, turn : Nat, kind : {"ok", "failure", "exhausted"}]

RecoveryInit ==
    /\ running = FALSE
    /\ turn = 0
    /\ messages = << >>
    /\ errors = << >>
    /\ batch = << >>
    /\ runs = [c \in Calls |-> 0]

-------------------------------------------------------------------------------
(* The journal.                                                               *)

\* _tau_events: the failures marked on the thread's tool messages.
Failures == {i \in DOMAIN messages : messages[i].kind = "failure"}

Entries(log) == {log[k] : k \in DOMAIN log}

\* merged[-LOG_LIMIT:]
Latest(log) == SubSeq(log, Len(log) - LogLimit + 1, Len(log))
Truncated(log) == IF Len(log) > LogLimit THEN Latest(log) ELSE log

\* _fold_tau: the failures the journal does not hold are added to it, oldest first.
Fold ==
    LET merged[i \in 0..Len(messages)] ==
            IF i = 0 THEN errors
            ELSE IF i \in Failures \ Entries(merged[i - 1]) THEN Append(merged[i - 1], i)
            ELSE merged[i - 1]
    IN Truncated(merged[Len(messages)])

\* Mutant of PriorAttempts: the failures of every turn count (turn=None).
PriorInThread(log, c) ==
    Cardinality({k \in DOMAIN log : messages[log[k]].call = c})

\* prior_attempts: this call's failures of this turn, as far as the journal holds them.
PriorAttempts(log, c) ==
    Cardinality({k \in DOMAIN log : messages[log[k]].call = c /\ messages[log[k]].turn = turn})

\* Mutant of Spent: one attempt more.
SpentLate(c) == PriorAttempts(errors, c) > AttemptBudget

Spent(c) == PriorAttempts(errors, c) >= AttemptBudget

-------------------------------------------------------------------------------
(* The steps.                                                                 *)

\* A new owner message; a batch still waiting at its interrupt is abandoned.
OwnerTurn ==
    /\ ~running \/ batch # << >>
    /\ turn < MaxTurns
    /\ running' = TRUE
    /\ turn' = turn + 1
    /\ batch' = << >>
    /\ runs' = [c \in Calls |-> 0]
    /\ UNCHANGED <<messages, errors>>

\* awrap_model_call: every step folds the journal, whatever becomes of it.
FoldJournal ==
    /\ running
    /\ batch = << >>
    /\ errors' = Fold
    /\ UNCHANGED <<turn, messages, runs>>

ModelActs ==
    /\ FoldJournal
    /\ \E n \in 1..MaxParallel :
          /\ Len(messages) + n <= MaxMessages
          /\ batch' \in [1..n -> Calls]
    /\ UNCHANGED running

\* The step ends the run, or is a compaction and another step follows it.
ModelAnswers ==
    /\ FoldJournal
    /\ running' \in BOOLEAN
    /\ UNCHANGED batch

\* Mutant of Retries: every call is repeated inside its boundary.
RetriesOfAll(c) == IF c \in External THEN 0 ELSE TransientRetries

\* _native_call_with_recovery: a transient failure of a call that only reads is
\* repeated on the spot.  What the client executed is never repeated here.
Retries(c) == IF c \in Idempotent \ External THEN TransientRetries ELSE 0

\* The failed executions of a call after a batch that ended as `out` says.
RunsAfter(c, out) ==
    LET total[k \in 0..Len(batch)] ==
            IF k = 0 THEN runs[c]
            ELSE total[k - 1] + (IF batch[k] = c THEN out[k].failed ELSE 0)
    IN total[Len(batch)]

\* How a call of the batch may end: its message, and its executions that failed.
\* A spent server call is not executed; a spent external one already was.
Outcomes(c) ==
    IF c \notin External /\ Spent(c)
      THEN {[kind |-> "exhausted", failed |-> 0]}
      ELSE [kind : {"ok"}, failed : 0..Retries(c)] \cup
           [kind : {IF Spent(c) THEN "exhausted" ELSE "failure"}, failed : 1..(1 + Retries(c))]

\* awrap_tool_call for every call of the batch, each on the same journal.
RunTools ==
    /\ batch # << >>
    /\ \E out \in [DOMAIN batch -> UNION {Outcomes(batch[i]) : i \in DOMAIN batch}] :
          /\ \A i \in DOMAIN batch : out[i] \in Outcomes(batch[i])
          /\ messages' = messages \o
                [i \in DOMAIN batch |->
                    [call |-> batch[i], turn |-> turn, kind |-> out[i].kind]]
          /\ runs' = [c \in Calls |-> RunsAfter(c, out)]
    /\ batch' = << >>
    /\ UNCHANGED <<running, turn, errors>>

RecoveryNext == OwnerTurn \/ ModelActs \/ ModelAnswers \/ RunTools

RecoverySpec == RecoveryInit /\ [][RecoveryNext]_recoveryVars

-------------------------------------------------------------------------------
(* Properties.                                                                *)

FailedInTurn(c, t) ==
    {i \in DOMAIN messages :
        messages[i].call = c /\ messages[i].turn = t /\ messages[i].kind = "failure"}

\* The journal names failures only, each of them once; a batch fits the bounds.
RecoveryTypeOK ==
    /\ running \in BOOLEAN
    /\ turn \in 0..MaxTurns
    /\ messages \in Seq(Message)
    /\ errors \in Seq(Failures)
    /\ \A j, k \in DOMAIN errors : errors[j] = errors[k] => j = k
    /\ batch \in Seq(Calls)
    /\ runs \in [Calls -> Nat]

\* The budget says neither too much nor too little.  While the journal holds every
\* failure of the thread, a call the server executes fails in one turn, over all its
\* batches, no more often than its budget and the copies of it that stand side by side
\* in one batch allow; and "budget exhausted" is only said of a call that failed that
\* often in the owner's present turn: an earlier turn, or a failure counted twice,
\* blocks nothing.
BudgetHonest ==
    /\ Cardinality(Failures) <= LogLimit =>
          \A c \in Calls \ External :
              Cardinality(FailedInTurn(c, turn)) <= AttemptBudget - 1 + MaxParallel
    /\ \A i \in DOMAIN messages :
          messages[i].kind = "exhausted" =>
              Cardinality({k \in FailedInTurn(messages[i].call, messages[i].turn) : k < i})
                  >= AttemptBudget

\* A call that may write is never executed behind the model's back: each of its
\* failed executions is a failure the model is told of and the budget counts.
WritesNotRepeated ==
    \A c \in Calls \ (External \cup Idempotent) : runs[c] = Cardinality(FailedInTurn(c, turn))

\* The comment of ATTEMPT_BUDGET: the total of attempts of one call is the original
\* and one repetition.
BudgetPerCall ==
    \A c \in Calls \ External : Cardinality(FailedInTurn(c, turn)) <= AttemptBudget

===============================================================================
