------------------------------ MODULE Subagent ------------------------------
(***************************************************************************)
(* One delegated run: the loop of msty_subagents.run with the metered      *)
(* model and the total deadline that _run_delegate of msty_native puts     *)
(* around it. An await (a provider call, a read of the virtual file        *)
(* system) is where the deadline may cancel the run.                       *)
(***************************************************************************)
EXTENDS Integers, Sequences

CONSTANTS Batches,       \* the sequences of calls the model may ask for
          BudgetCap,     \* budget_cap()
          AttemptBudget

Roles == {"researcher", "operator", "auditor"}
Readers == {"list", "read"}        \* ls, glob and grep; read_file
Writers == {"write", "edit"}

\* `at` is the root a path lies under, "outside" for an invalid path; of a request for
\* an external tool it says whether the role's loadout has that tool.
Calls == [tool : Readers \cup Writers \cup {"todos", "recommend", "delegate", "other"},
          at : {"scratch", "memory", "outside", "delegated"}]

ASSUME SubagentAssumption ==
    /\ BudgetCap \in Nat \ {0} /\ AttemptBudget \in Nat
    /\ Batches \subseteq Seq(Calls)

VARIABLES role, budget,
          at,           \* where the run is
          steps,        \* model steps begun
          queue,        \* calls of the present batch that are still to be executed
          failures,     \* `errors`, by exact call
          scratch,      \* roots the isolated files lie under
          recommended,  \* external calls written down for the parent
          meter,        \* `usage` of the metered model
          sent,         \* history: provider calls that were sent
          priced,       \* history: provider calls whose price became known
          report

subagentVars == <<role, budget, at, steps, queue, failures, scratch, recommended,
                  meter, sent, priced, report>>
\* What a step that only moves the loop leaves alone.
runInput == <<role, budget>>

NoReport == [status |-> "none", unknown |-> 0, calls |-> 0]

SubagentInit ==
    /\ role \in Roles /\ budget \in 1..BudgetCap
    /\ at = "start" /\ steps = 0 /\ queue = <<>>
    /\ failures = [c \in Calls |-> 0]
    /\ scratch = {} /\ recommended = {}
    /\ meter = [started |-> 0, calls |-> 0, measured |-> 0]
    /\ sent = 0 /\ priced = 0
    /\ report = NoReport

-----------------------------------------------------------------------------

ServerTools(r) ==
    Readers \cup {"todos", "recommend"} \cup (IF r = "operator" THEN Writers ELSE {})

\* Mutant: an answer counts as measured whatever its usage says.
AnsweredIsMeasured(status, m) ==
    /\ at' = "reported" /\ queue' = <<>>
    /\ report' = [status |-> status, unknown |-> m.started - m.calls, calls |-> m.calls]

Reports(status, m) ==
    /\ at' = "reported" /\ queue' = <<>>
    /\ report' = [status |-> status, unknown |-> m.started - m.measured, calls |-> m.calls]

\* The model cannot be made, or the role is unknown: nothing was sent.
StartFails ==
    /\ at = "start"
    /\ Reports("failed", meter)
    /\ UNCHANGED <<runInput, steps, failures, scratch, recommended, meter, sent, priced>>

Start ==
    /\ at = "start"
    /\ at' = "ask"
    /\ UNCHANGED <<runInput, steps, queue, failures, scratch, recommended, meter, sent,
                   priced, report>>

\* Mutant: the forced report counts as a step.
EveryCallIsAStep == at = "ask" /\ steps' = steps + 1

\* A model step, counted before it is sent; once the budget is used up, the one that
\* asks for the partial report.
Asking == at = "ask" /\ steps' = (IF steps < budget THEN steps + 1 ELSE steps)

\* The circuit is open: the call is not sent and the run ends.
AskRefused ==
    /\ Asking
    /\ Reports("failed", meter)
    /\ UNCHANGED <<runInput, failures, scratch, recommended, meter, sent, priced>>

\* The meter counts the call before the provider is awaited.
Ask ==
    /\ Asking
    /\ meter' = [started |-> meter.started + 1, calls |-> meter.calls,
                 measured |-> meter.measured]
    /\ sent' = sent + 1
    /\ at' = IF steps < budget THEN "flying" ELSE "forced"
    /\ UNCHANGED <<runInput, queue, failures, scratch, recommended, priced, report>>

\* The meter when an answer arrived, with a usage that can be trusted or without.
Metered(measured) ==
    /\ meter' = [started |-> meter.started, calls |-> meter.calls + 1,
                 measured |-> meter.measured + (IF measured THEN 1 ELSE 0)]
    /\ priced' = priced + (IF measured THEN 1 ELSE 0)

AnswersWithCalls ==
    /\ at = "flying"
    /\ \E m \in BOOLEAN : Metered(m)
    /\ queue' \in Batches
    /\ at' = "execute"
    /\ UNCHANGED <<runInput, steps, failures, scratch, recommended, sent, report>>

\* An answer without calls ends the run; so does whatever answers the forced request,
\* whose calls are not executed.
AnswersLast ==
    /\ at \in {"flying", "forced"}
    /\ \E m \in BOOLEAN : Metered(m)
    /\ Reports(IF at = "forced" THEN "partial" ELSE "done", meter')
    /\ UNCHANGED <<runInput, steps, failures, scratch, recommended, sent>>

\* The provider fails: the run ends, what it left in its scratch is still reported.
ModelFails ==
    /\ at \in {"flying", "forced"}
    /\ Reports("failed", meter)
    /\ UNCHANGED <<runInput, steps, failures, scratch, recommended, meter, sent, priced>>

-----------------------------------------------------------------------------
(* _execute: one call of the batch. Exactly one of the guards below holds. *)

Here == Head(queue)
Known == Here.tool \in ServerTools(role)
Tired == failures[Here] >= AttemptBudget
PathOk == Here.tool = "todos" \/ Here.at \in {"scratch", "memory"}
Runs == Known /\ Here.tool # "recommend" /\ ~Tired /\ PathOk

Executes == at = "execute" /\ queue # <<>>
Advance == queue' = Tail(queue) /\ at' = IF Tail(queue) = <<>> THEN "ask" ELSE at
Fails == failures' = [failures EXCEPT ![Here] = @ + 1]

\* An unknown name, a nested delegation, an external call outside the loadout or a path
\* outside the virtual roots: nothing is executed and the failure is recorded.
CallRejected ==
    /\ Executes /\ Advance
    /\ \/ Known /\ Here.tool = "recommend" /\ Here.at # "delegated"
       \/ ~Known
       \/ Known /\ Here.tool # "recommend" /\ ~Tired /\ ~PathOk
    /\ Fails
    /\ UNCHANGED <<runInput, steps, scratch, recommended, meter, sent, priced, report>>

CallExhausted ==
    /\ Executes /\ Advance
    /\ Known /\ Here.tool # "recommend" /\ Tired
    /\ UNCHANGED <<runInput, steps, failures, scratch, recommended, meter, sent, priced, report>>

CallRecommended ==
    /\ Executes /\ Advance
    /\ Known /\ Here.tool = "recommend" /\ Here.at = "delegated"
    /\ recommended' = recommended \cup {Here}
    /\ UNCHANGED <<runInput, steps, failures, scratch, meter, sent, priced, report>>

\* A step list or a read. A step list that is none fails; a read may fail where it has to
\* ask the backend: always for a listing, for a file unless it is in the scratch.
CallReads ==
    /\ Executes /\ Advance
    /\ Runs /\ Here.tool \in Readers \cup {"todos"}
    /\ \/ UNCHANGED failures
       \/ Here.tool \in {"list", "todos"} /\ Fails
       \/ Here.tool = "read" /\ Here.at \notin scratch /\ Fails
    /\ UNCHANGED <<runInput, steps, scratch, recommended, meter, sent, priced, report>>

\* Mutant: a write may go to any virtual root.
WritesAnywhere ==
    /\ Executes /\ Advance
    /\ Runs /\ Here.tool = "write"
    /\ scratch' = scratch \cup {Here.at}
    /\ UNCHANGED <<runInput, steps, failures, recommended, meter, sent, priced, report>>

CallWrites ==
    /\ Executes /\ Advance
    /\ Runs /\ Here.tool = "write"
    /\ IF Here.at = "scratch"
         THEN scratch' = scratch \cup {Here.at} /\ UNCHANGED failures
         ELSE Fails /\ UNCHANGED scratch
    /\ UNCHANGED <<runInput, steps, recommended, meter, sent, priced, report>>

\* An edit has no test of its own for the root: it needs a file that was written. The
\* fragment may be missing from it.
CallEdits ==
    /\ Executes /\ Advance
    /\ Runs /\ Here.tool = "edit"
    /\ \/ Fails
       \/ Here.at \in scratch /\ UNCHANGED failures
    /\ UNCHANGED <<runInput, steps, scratch, recommended, meter, sent, priced, report>>

-----------------------------------------------------------------------------

\* A backend read is awaited: a listing, or a file that is not in the scratch.
AtAwait ==
    \/ at \in {"flying", "forced"}
    \/ Executes /\ Runs /\ Here.tool \in Readers
       /\ (Here.tool = "list" \/ Here.at \notin scratch)

\* asyncio.wait_for cancels the run; the report is made from the meter alone.
Deadline ==
    /\ AtAwait
    /\ Reports("failed", meter)
    /\ scratch' = {} /\ recommended' = {}
    /\ UNCHANGED <<runInput, steps, failures, meter, sent, priced>>

RunsOn ==
    \/ Start \/ StartFails \/ Ask \/ AskRefused
    \/ CallRejected \/ CallExhausted \/ CallRecommended
    \/ CallReads \/ CallWrites \/ CallEdits

SubagentNext == RunsOn \/ AnswersWithCalls \/ AnswersLast \/ ModelFails \/ Deadline

SubagentSpec == SubagentInit /\ [][SubagentNext]_subagentVars

-----------------------------------------------------------------------------

SubagentTypeOK ==
    /\ role \in Roles /\ budget \in 1..BudgetCap
    /\ at \in {"start", "ask", "flying", "forced", "execute", "reported"}
    /\ steps \in 0..budget
    /\ queue \in Seq(Calls)
    /\ failures \in [Calls -> Nat]
    /\ scratch \subseteq {"scratch", "memory"} /\ recommended \subseteq Calls
    /\ meter \in [started : Nat, calls : Nat, measured : Nat]
    /\ sent \in Nat /\ priced \in Nat
    /\ report \in [status : {"none", "done", "partial", "failed"}, unknown : Nat, calls : Nat]

\* However the run ends, at its deadline in the middle of a call too, the report counts
\* every provider call that was sent and whose price nobody knows: no paid call is taken
\* for a free one. And there are no more calls than steps and the forced report.
MeterHonest ==
    /\ at = "reported" => report.unknown = sent - priced
    /\ sent <= budget + 1

\* A delegated run changes nothing outside its own scratch, and a role that only reads
\* has none, although an edit is not checked for either.
WritesStayInScratch ==
    /\ scratch \subseteq {"scratch"}
    /\ role # "operator" => scratch = {}
    /\ \A c \in recommended : c.at = "delegated"
=============================================================================
