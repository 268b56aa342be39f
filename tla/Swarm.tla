--------------------------------- MODULE Swarm ---------------------------------
(*****************************************************************************)
(* One admitted swarm (msty_swarm.py): the workers run side by side, each    *)
(* makes at most one paid provider call, tells the bridge of it in events    *)
(* that may get lost, and the lead gets one report.                          *)
(*                                                                           *)
(* A worker runs from one await to the next without interruption, so what it *)
(* does before the provider call is one step and what it does after it is    *)
(* another.  The breaker is a module of its own; here it may refuse any      *)
(* worker.  The bridge closes the accounting row of a subtask by the events  *)
(* it received: as nothing spent when the worker says that no call started,  *)
(* as unknown when no terminal event came.                                   *)
(*****************************************************************************)
EXTENDS Integers, Sequences, FiniteSets

CONSTANTS
    Subtasks,       \* 1..n, in the order of the plan
    Slots,          \* max_concurrency of the run: MAX_SUBTASKS
    WorkerTimeout   \* WORKER_TIMEOUT_SECONDS, in ticks

ASSUME SwarmAssumption ==
    /\ IsFiniteSet(Subtasks) /\ Subtasks = 1..Cardinality(Subtasks)
    /\ Slots \in Nat \ {0} /\ Cardinality(Subtasks) <= Slots
    /\ WorkerTimeout \in Nat \ {0}

VARIABLES
    phase,      \* "running", "reported" (the tool's reply), "cancelled"
    pc,         \* a worker: "queued", "flying" (its provider call is awaited), "over"
    age,        \* ticks its provider call has been running
    results,    \* the results as the reducer appends them
    received,   \* the terminal events the bridge has received
    lost,       \* _GuardedEmit.lost
    reply,      \* the report for the lead
    called,     \* history: the subtasks whose provider call was made
    closed,     \* history: the bridge has received the event that ends the swarm
    elapsed     \* ticks since the swarm started

vars == <<phase, pc, age, results, received, lost, reply, called, closed, elapsed>>

\* TERMINAL; model and setup errors, empty answers and refusals are all "failed".
Terminal == {"done", "incomplete", "failed", "timeout"}
Result == [id : Subtasks, status : Terminal]
Event == [id : Subtasks, status : Terminal, started : BOOLEAN]
NoReply == [status |-> "none", order |-> << >>, eventsLost |-> 0]

Init ==
    /\ phase = "running"
    /\ pc = [s \in Subtasks |-> "queued"]
    /\ age = [s \in Subtasks |-> 0]
    /\ results = << >>
    /\ received = {}
    /\ lost = 0
    /\ reply = NoReply
    /\ called = {}
    /\ closed = FALSE
    /\ elapsed = 0

-------------------------------------------------------------------------------
(* The workers.                                                               *)

InState(place) == {s \in Subtasks : pc[s] = place}

\* Mutant of MayStart: the run has half the slots it needs.
FewSlots(s) == pc[s] = "queued" /\ 2 * Cardinality(InState("flying")) < Slots

MayStart(s) == pc[s] = "queued" /\ Cardinality(InState("flying")) < Slots

\* Mutant of StartedFlag: the flag is set when the provider has answered.
StartedOnAnswer(status) == status \in {"done", "incomplete"}

\* `started` is set before the call is awaited: it is true whatever came of it.
StartedFlag(status) == status \in Terminal

\* A worker's end: its terminal event, received or lost (with `before` of its
\* earlier events), and its result.  No exception leaves a worker.
EndsAs(s, status, started, before) ==
    /\ \/ /\ received' = received \cup {[id |-> s, status |-> status, started |-> started]}
          /\ lost' = lost + before
       \/ /\ UNCHANGED received
          /\ lost' = lost + before + 1
    /\ results' = Append(results, [id |-> s, status |-> status])
    /\ pc' = [pc EXCEPT ![s] = "over"]

\* The circuit is open: one terminal event, no call.
WorkerRefused(s) ==
    /\ phase = "running"
    /\ MayStart(s)
    /\ EndsAs(s, "failed", FALSE, 0)
    /\ UNCHANGED <<phase, age, reply, called, closed, elapsed>>

\* The adapter cannot be built (model_setup): "running" was announced, nothing called.
WorkerSetupFails(s) ==
    /\ phase = "running"
    /\ MayStart(s)
    /\ \E before \in 0..1 : EndsAs(s, "failed", FALSE, before)
    /\ UNCHANGED <<phase, age, reply, called, closed, elapsed>>

\* The worker announces itself and awaits the provider.
WorkerCalls(s) ==
    /\ phase = "running"
    /\ MayStart(s)
    /\ pc' = [pc EXCEPT ![s] = "flying"]
    /\ called' = called \cup {s}
    /\ lost' \in {lost, lost + 1}
    /\ UNCHANGED <<phase, age, results, received, reply, closed, elapsed>>

\* An answer (whole, cut short, empty, of another model) or an exception of the provider.
WorkerAnswered(s) ==
    /\ phase = "running"
    /\ pc[s] = "flying"
    /\ \E status \in Terminal \ {"timeout"} : EndsAs(s, status, StartedFlag(status), 0)
    /\ UNCHANGED <<phase, age, reply, called, closed, elapsed>>

\* Mutant of AtDeadline: the provider is awaited for as long as it takes.
NoDeadline(s) == s \notin Subtasks

AtDeadline(s) == pc[s] = "flying" /\ age[s] = WorkerTimeout

\* asyncio.wait_for gives up; a TimeoutError of the provider itself looks the same.
WorkerTimesOut(s) ==
    /\ phase = "running"
    /\ pc[s] = "flying"
    /\ EndsAs(s, "timeout", StartedFlag("timeout"), 0)
    /\ UNCHANGED <<phase, age, reply, called, closed, elapsed>>

-------------------------------------------------------------------------------
(* The run.                                                                   *)

\* Mutant of InPlanOrder: the results stay in the order the workers ended.
AsAppended(rs) == rs

\* run() sorts the results by the plan.
InPlanOrder(rs) ==
    [k \in 1..Len(rs) |-> rs[CHOOSE i \in 1..Len(rs) :
        Cardinality({j \in 1..Len(rs) : rs[j].id < rs[i].id}) = k - 1]]

\* summary
SwarmStatus(rs) ==
    LET done == {i \in 1..Len(rs) : rs[i].status = "done"}
    IN  IF Cardinality(done) = Len(rs) THEN "complete"
        ELSE IF done # {} THEN "partial" ELSE "failed"

\* Mutant of EventsLost: the count is taken before the closing event is sent.
LostBeforeClosing(heard) == lost

\* `lost` is read after the closing event, which may itself be lost.
EventsLost(heard) == IF heard THEN lost ELSE lost + 1

\* collect, summary, the closing event and the reply, with no await between them.
Report ==
    /\ phase = "running"
    /\ InState("over") = Subtasks
    /\ closed' \in BOOLEAN
    /\ lost' = IF closed' THEN lost ELSE lost + 1
    /\ reply' = [status |-> SwarmStatus(results),
                  order |-> InPlanOrder(results),
                  eventsLost |-> EventsLost(closed')]
    /\ phase' = "reported"
    /\ UNCHANGED <<pc, age, results, received, called, elapsed>>

\* The bridge stops the run: every worker is cancelled where it awaits, its
\* `except` clauses let the cancellation through and nothing more is sent.
Cancel ==
    /\ phase = "running"
    /\ phase' = "cancelled"
    /\ pc' = [s \in Subtasks |-> "over"]
    /\ UNCHANGED <<age, results, received, lost, reply, called, closed, elapsed>>

\* Time passes while every worker that has a slot is awaiting its provider.
Tick ==
    /\ phase = "running"
    /\ InState("flying") # {}
    /\ \A s \in Subtasks : ~MayStart(s) /\ ~AtDeadline(s)
    /\ age' = [s \in Subtasks |-> IF pc[s] = "flying" THEN age[s] + 1 ELSE age[s]]
    /\ elapsed' = elapsed + 1
    /\ elapsed < 3 * WorkerTimeout          \* bound of the model, never reached
    /\ UNCHANGED <<phase, pc, results, received, lost, reply, called, closed>>

-------------------------------------------------------------------------------

Starts(s) == WorkerRefused(s) \/ WorkerSetupFails(s) \/ WorkerCalls(s)

DeadlineFires(s) == AtDeadline(s) /\ WorkerTimesOut(s)

Next ==
    \/ \E s \in Subtasks : Starts(s) \/ WorkerAnswered(s) \/ WorkerTimesOut(s)
    \/ Report
    \/ Cancel
    \/ Tick

Spec == Init /\ [][Next]_vars

\* The event loop runs what is ready and fires its timers; no provider has to answer.
SwarmFairness ==
    /\ WF_vars(Report)
    /\ WF_vars(Tick)
    /\ WF_vars(\E s \in Subtasks : Starts(s))
    /\ WF_vars(\E s \in Subtasks : DeadlineFires(s))

-------------------------------------------------------------------------------
(* Properties.                                                                *)

\* Every variable keeps the values the code gives it; no call outlives its deadline.
TypeOK ==
    /\ phase \in {"running", "reported", "cancelled"}
    /\ pc \in [Subtasks -> {"queued", "flying", "over"}]
    /\ age \in [Subtasks -> 0..WorkerTimeout]
    /\ results \in Seq(Result) /\ Len(results) <= Cardinality(Subtasks)
    /\ received \subseteq Event
    /\ lost \in 0..(2 * Cardinality(Subtasks) + 1)
    /\ called \subseteq Subtasks
    /\ closed \in BOOLEAN
    /\ elapsed \in Nat

\* The bridge closes a row as nothing spent only when no provider call was made: a call
\* that timed out, was refused by the provider or got lost on the way is never free. And
\* a report that mentions no lost event means that the bridge has the terminal event of
\* every subtask and the one that ends the swarm: its accounting is whole.
AccountingHonest ==
    /\ \A e \in received : ~e.started => e.id \notin called
    /\ phase = "reported" /\ reply.eventsLost = 0 =>
          /\ closed
          /\ {e.id : e \in received} = Subtasks
          /\ called = {e.id : e \in {f \in received : f.started}}

\* The lead reads one result for each subtask, in the order of the plan, however the
\* workers ended, and a result the bridge heard of is the one the lead reads. A partial
\* result is never given for a complete one: only workers that were called and finished
\* their answer make a swarm complete.
ReportFollowsPlan ==
    phase = "reported" =>
        /\ Len(reply.order) = Cardinality(Subtasks)
        /\ \A s \in Subtasks : reply.order[s].id = s
        /\ reply.status = "complete" =>
             called = Subtasks /\ \A s \in Subtasks : reply.order[s].status = "done"
        /\ \A e \in received : reply.order[e.id].status = e.status

\* All workers run at once: the swarm takes no longer than one worker may, which is
\* what leaves the lead time for its synthesis within the bridge's turn.
WithinOneDeadline == elapsed <= WorkerTimeout

===============================================================================
