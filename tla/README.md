# Sanare agent core in TLA+

A verification project for `src/src/deep_agent`: TLA+ modules for the parts of the
agent whose correctness depends on order, failure or limits, TLC runs that check
them on small instances, and TLAPS proofs of what matters most for every value of
the constants. The code is the reference; line numbers are those of `PROJECT.json`,
whose `map` names the source of every definition.

## 1. The system

The server is a LangGraph graph that answers an owner's message. A *bridge* on the
owner's machine (not in the repository) starts runs, answers their interrupts, holds
the money and executes local tools. The client only sees what the graph publishes.

| Component | Files | State | Operations |
|---|---|---|---|
| Durable native loop | `msty_native.py`, `msty_execution.py` | the checkpoint: `execution` (status, step, actions, pending batch), `compaction_round`, `swarm_admission` | `abefore_agent`, `awrap_model_call` with `filter_result`, `aafter_model` (the interrupts), `awrap_tool_call`, `validate_resume` |
| Model step | `msty.py`, `msty_effort.py`, `msty_models.py` | none between steps; within one: the result, `budget_check`, the stream | `_respond_step`, `_policy_fallback_step`, `_synthesis_step`, `_retry_after_outlimit`, `_compact_step`, `publish_result` |
| Text stream | `msty_stream.py` | `parts`, `invalidated`, the reasoning relay | `invoke`, `finish`, `invalidate` |
| Circuit breaker | `msty_breaker.py` | `_connections` per model profile, process-wide, behind a lock | `admit`, `record_success`, `record_transient_failure`, `release_probe` |
| Recovery from tool failures | `msty_taxonomy.py`, the tool node of `msty_native.py` | `tau_errors`, a journal in the checkpoint, folded from the thread | `_fold_tau`, `prior_attempts`, `_native_call_with_recovery`, classification |
| Swarm | `msty_swarm.py` | the results and lost events of one run | `descriptor`, `check_admission`, `run`, `_worker_call`, `summary` |
| Compaction | `msty_compaction.py` | `context_memory`: segments that stand for old messages | `make_plan`, `accept_summary`, `accept_mechanical`, `project_messages`, `wait_compaction` |
| Task contract and plan gates | `msty_task.py` | `task_contract` in the checkpoint; the rest is read off the thread | `observe`, `gate_final`, `open_plan_gate`, `after_result`, `final_status` |
| Evidence gate | `msty_evidence.py` | `tau_evidence` | `gate_final_answer` |
| Sub-agents | `msty_subagents.py`, `_run_delegate` | one bounded run, its meter | the delegate's loop, its budget and deadline |
| Semantic routing | `msty_semantic.py` | a lazily loaded encoder and an index, shared by threads | load, build, query |
| Tool routing, registry, guard | `msty_tool_routing.py`, `msty_registry.py`, `msty_guard.py` | the previous route | `select_tools`, schema checks |
| Memory and approved store | `msty_memory.py`, `msty_native_memory.py` | packaged and stored texts | seeding, fallback, reading |
| Sandbox cache | `sandbox.py`, `graph.py` | a process-wide cache by thread | get or create |
| Adapters, prompts, intake, consolidation | `msty_models.py`, `msty_gateway.py`, `msty_prompts.py`, `owner_intake.py`, `consolidator.py` | none | conversions and checks |
| Scripts | `src/tools/` | files | run by hand or by launchd |

**Interactions.** The loop calls the model step; the step calls the breaker around each
provider call and the stream during it, applies the gates of the task contract, the
loop's own filter and the evidence gate, and publishes. The loop then ends or waits at
one of three interrupts (`msty_local_tools`, `msty_native_continue`, `msty_compaction`),
which the bridge answers with the exact ticket. The tool node runs native calls, the
swarm (which calls the provider through the same breaker) and the delegate. Failures
are written on tool messages and folded into the journal by the next model step.

**What is hard.** Callers that share the breaker and end in any order; tickets that are
repeated, late or wrong; an owner who writes while a batch waits; steps that fail after
part of their effect or their expense; two counters for one quota; journals that are
truncated; events that get lost; text that is shown before it is approved. `hazards` in
`PROJECT.json` lists each of these at its line with the properties that cover it.

**What makes each component correct**, modelled or not yet:

- *Loop*: nothing runs that was not charged and permitted; the quota, the paid pass, the
  consultations and the swarm keep their limits over interrupts and turns; a ticket
  works once; every run ends.
- *Model step*: usage is exact or unknown; the stage keeps its limit; what was shown is
  published or withdrawn; no call of a doubtful answer is executed.
- *Breaker*: it opens only for a streak, recovers always, and a probe that vanished
  never keeps it closed.
- *Recovery*: a write is never repeated behind the model's back; a call stops at its
  budget; nothing is called exhausted that is not.
- *Swarm*: no call is accounted as free; the report is in the order of the plan and says
  partial when it is; it ends within one worker's deadline.
- *Compaction*: every message stands in the view once and in order, no call is separated
  from its result, the owner's words are whole.
- *Plan gates*: a finished answer is sent back a bounded number of times, never twice
  without work in between; a failed verification survives; a verified contract is current;
  a site is not called done on an old typecheck.
- *Evidence gate*: a negative conclusion rests on a read of this turn.
- *Sub-agents*: the meter counts every paid call whatever ends the run; nothing is changed
  outside the scratch.
- *Tool routing*: what writes is opened by somebody; what was announced is on offer; what
  the client executed reaches the model.
- *Semantic routing*: one encoder and one index however many threads ask, and every request
  is answered. *Sandbox cache*: a thread keeps its sandbox.
- *Candidate inbox*: a candidate is in one place, a decision on it is final; two imports of
  the same name at once are the exception the code leaves (finding 7).

## 2. The modules

| Module | Models | Role |
|---|---|---|
| `ActionLedger` | what the loop promises about actions: charge, permit, perform, abandon | abstract specification |
| `NativeLoop` | the durable task loop with the bridge and the owner as environment | refines `ActionLedger` |
| `NativeLoopProofs` | theorems about `NativeLoop` | proofs |
| `Breaker` | one connection of the breaker with all its kinds of callers | component |
| `BreakerProofs` | theorems about `Breaker` | proofs |
| `Generation` | the paid calls of one model step, its gates and its stream | component |
| `ToolOffer` | the tools a thread is offered, the catalogue, the results handed over | component |
| `Recovery` | the failure journal, the attempt budget and the inline retries | component |
| `LoopParts` | `Generation`, `ToolOffer` and `Recovery`: the parts of one round | composition |
| `LoopPartsProofs` | theorems about these three and the composition | proofs |
| `Swarm`, `SwarmProofs` | one admitted swarm and what the bridge hears of it; theorems about it | component, proofs |
| `EvidenceGate` | the gate on a final answer, a decision without state | operators |
| `TaskGate`, `TaskGateProofs` | the contract and the completion gates over owner turns, with `EvidenceGate`; theorems about them | component, proofs |
| `CandidateInbox` | staging and reviewing memory candidates as files | component |
| `Subagent` | one delegated run | component |
| `SemanticIndex` | the lazily loaded encoder and index | component |
| `SandboxCache` | the cache of one thread's sandbox | component |
| `Compaction`, `CompactionProofs` | the projection of a long thread, archived, left out and clipped; theorems about it | component, proofs |
| `Services` | `Swarm`, `CandidateInbox`, `Subagent`, `SemanticIndex`, `SandboxCache`, `Compaction`: the parts with state beside the loop | composition |
| `ServicesProofs` | theorems about the inbox, the sub-agent, the index and the cache, and about the composition of all six | proofs |
| `RunningValues` | induction and recursive functions over a finite range, for the proofs | lemmas |
| `MC*` | the instances TLC checks | instances |

`LoopParts` and `Services` put components side by side that read and write nothing of each
other. A free interleaving of them would only multiply states, so a behaviour chooses one
part, the *focus*, and moves it alone; the others stay in an initial state.

### NativeLoop

`place` is where the graph is: `idle` (no run), `model`, `after` (after a model step; an
interrupt when `status` waits for the bridge), `tools`. The other variables are fields of
the checkpoint under their own names. A model step asks for a *shape*: how many native
calls, todo updates, swarms, external calls and consultations, and whether the swarm's
plan parses. `ModelActs` is the whole of `awrap_model_call` for a step that publishes:
consultations beyond the allowance are dropped (`WithinConsultLimit`), the batch is
refused if over a limit (`OverLimit`), the external part of a mixed batch is deferred
(`PublishedPart`), the counters move, the ticket is published. `ResumeNative`,
`ResumeTools` and `ResumeCompaction` are the three interrupts; `ResumeRejected` is every
answer that raises (the checkpoint does not change, the interrupt is offered again).
`ModelRaises` and `ToolsRaise` end the run: the former leaves the last checkpoint, the
latter may have run some calls of the batch. `OwnerTurn` is a new message, also at a
waiting interrupt. The bridge may present *any ticket ever published*, at any time.
The batch's uuid is represented by the step that made it; `used`, `done`, `admitted`,
`swarmsRun` and `paid` are history variables.

### Breaker

One connection: profiles share only the lock and the token counter, and tokens are only
compared for equality. Times are kept as ticks left. A call slot goes `idle`, `flying`
(the provider is awaited), `recorded` or `answered`, and back. The two last places are
the two orders the callers use: swarm workers and failing calls record the outcome and
then leave `finally` (`CallFails`/`CallAnswers`, `Finish`); the lead and the metered model
leave `finally` first and record the answer after it (`LeaveAnswered`, `RecordAnswered`).
Each acquisition of the lock is an action of its own, so anything may happen between two.

### Generation

From the call to the publication of one `_respond_step`, the nested step of the policy
fallback included. An answer is a text (none, only blanks, words; and who wrote it), its
calls, how it stopped, what it cost, whether the cost was measured and whether the model
was the expected one. The repetitions may always be declined (the count does not fit, the
time is up, the circuit is open): the code then keeps the first answer. `Gated` is the set
of results the gates may make of an answer; which one they choose depends on the thread and
is nondeterministic here. `attested` counts the inputs in the published `budget_check`, or is
`NoCheck`: a state that binds neither a protocol nor a task counts a small request not at all.
The compaction branch of the step is `ModelCompacts` of `NativeLoop`. The minimum of 16
output tokens that `make_model` sends to Luna is not modelled: `StageWithinLimit` is about
stages of at least that size.

### ToolOffer

One thread over owner messages, model steps and catalogues. `text` is what the router's
patterns see in the latest message, not the message: a verb, whether it is short, domains,
names of tools, tools that a job id or an installation brings, connectors and reads that are
near in words or meaning. `Offered` is the routing half of `awrap_model_call`: `Chosen` is
everything the rules give, `Protected` what the limit may not cut, `Before` the order in
which it cuts the rest. The semantic layer may add any reads there is room for, or none
(off, warming up, failed). `AsksForTools`/`Connect` are `native_request_tools` and its tool
message, which announces what the next step has to offer (`promised`). `ClientAnswers` is
the resume of an external batch with its optional new catalogue; `HandOver` is the tool node
on those results. `asked`, `passed` and `called` are read off the thread by the code; here
they are kept. `opened`, `promised` and `dropped` are history.

### Recovery

Tool messages of the thread, each with the call's fingerprint, the owner's turn and its
kind; the journal `errors` is a sequence of places in the thread. `Fold` is what every
model step does before anything else; `RunTools` runs a whole batch on the journal as the
last step left it. External calls were already executed by the client when they come here.

### Swarm

A worker runs from one `await` to the next. It may be refused by the breaker, fail before
the call, call the provider, and end with an answer or at its deadline; each event may be
lost. `Report` is everything after the last worker, the closing event included.

### TaskGate and EvidenceGate

A conversation of several owner turns in the native or the legacy graph. The code computes
what the gates need from the messages each time; the module keeps these results: `turn` for
the messages after the owner's latest one (the open plan, the gates fired and the progress
since, the latest view of a site job, the status reads), `site` for the whole thread.
`ModelStep` is a step from the model's answer to the published result with every gate in the
order of `_respond_step`: the checks of the calls, `gate_final` (incident, site, failed
contract, verification, open plan), the native filter, the evidence gate, `after_result` and
`final_status`. A call that a gate puts in the answer's place is checked once more (`Rechecked`).
`ToolsAnswer` appends the results and runs `observe`. `ghost` is the history
the properties compare with.

### CandidateInbox

Importers, resolving calls and the file system between them: each existence test, exclusive
creation, write and rename is an action, and an importer may die between any two. Any number
of imports may run at once: nothing in the code keeps them apart but the exclusive creation,
whose other branch (`FileExistsError`) is there for a second one. A file is absent, torn, whole,
or being written by an importer. `contested` is history: the names that two imports were on
their way to stage at the same time.

### Subagent

The loop of `msty_subagents.run` for one delegation inside `_run_delegate`: model steps with
the metered model, the calls of a batch one by one, the forced partial report, and
`Deadline`, which may fire at every await.

### SemanticIndex

Requests read encoder and index without the lock and start a background thread; it and the
warm-up fill them under the lock. Every read outside the lock, every wait for it and every
end of a long computation is an action of its own.

### SandboxCache

Requests of one thread from the look at the cache to their end, with an action per await.

### Compaction

The thread is a sequence of messages with a role and a size; a view is a sequence of items
that say which messages they stand for. Plans, the paid pass, the mechanical fit
(`MechanicalFit`), the projection, the omission of the oldest turns (`Cut`, `LeftOut`) and
the clipping of large results are translated one by one; how much has to be freed is free.
A thread has one system message, its first, so leaving out the oldest turns keeps the first
item; a new segment is put where the code's sort by start moves it (`Inserted`); the largest
results are clipped one at a time instead of being sorted first. A publication resets the pass
counter or, with a native batch, keeps it (`RoundAfter`). `clip_stale_browser_results`, which
shortens old browser results while the request is assembled, is left out: it neither drops nor
moves a message.

### ActionLedger

`spent` is what was charged, `open` the batch charged and not performed, `granted` the
permission, `done` what was performed. `NativeLoop` implements it with
`spent <- issued + native`, `open <- OpenActions`, `granted <- place = "tools"`.

## 3. The runs

| Run | Instance | Question |
|---|---|---|
| `breaker` | two workers and one lead; threshold 3, cooldown 4, probe 10, deadline 5 ticks of 15 s, as in the code | probe ownership, opening, bounded refusal, the distance of two probes, recovery |
| `breaker_one_probe` | as `breaker` | *violated*: "exactly one probe" |
| `native_loop` | 4 actions, 1 consultation, 1 paid pass, 2 owner turns, 6 batches: native, mixed, external with consultation, doubled todo update, swarm with a plan, swarm without | all limits, the tickets, termination, the ledger |
| `native_loop_round` | the same | *violated*: a new request starts its paid pass from 0 |
| `loop_parts` | `Generation`: stage of 4 units, reserve 1 (the code's ratio 8192 : 2048), fallback 3. `ToolOffer`: nine tools, one of each kind and more where kinds meet, six messages, two catalogues, an offer of 3, 2 turns, 3 steps. `Recovery`: one call that writes, one that reads, one external; budget 2, batches of 2, 5 messages, 2 turns, a journal of 4 | usage, limits, shown text, calls; opened writes, kept promises; the budget of attempts |
| `recovery_budget` | the same with a journal of 3 | *violated*: the budget of attempts of one call |
| `catalog_result` | as `loop_parts` | *violated*: results of executed calls reach the model |
| `task_gates` | both graphs, 4 actions, 2 gates in a turn, 2 owner turns, four kinds of owner messages, ten batches, two toolsets | verification, failures, site checks, evidence, bounded continuation, termination |
| `plan_gate_legacy` | the same | *violated*: the open-plan gate is bounded |
| `evidence_exempt` | the same | *violated*: negative claims rest on a read |
| `services` | two importers and two reviewers, one record; a delegated budget of 2, eight batches; two requests, two warm-ups and the background thread; three overlapping requests, four sandboxes; threads of 11 messages, two segments, one paid pass, three attempts to fit; a swarm of three workers with a deadline of one tick | one place unless contested, honest meter, scratch, one load, answered requests, kept sandbox, sound view; the swarm's accounting, report, deadline and end |
| `inbox_two_imports` | two importers, one reviewer, one record | *violated*: a candidate that was staged or reviewed is not recreated |

**Bounds and why they are enough.** `native_loop`: four actions let a batch of every kind
pass, two batches add up to the cap and a third exceed it; two turns let a batch, a
compaction and an admission of the first be stale in the second. `breaker`: three calls are
the fewest that make a late failure, a probe and a refused caller meet; the constants keep
the code's proportions (60 s, 150 s, 75 s), so no tick hides an order the code has. In
`loop_parts` each unit of output is a quarter of the stage, so that the first call, the
reserve and the rest can all be exhausted; an offer of three tools is cut in most routes, and
two turns continue a route under another catalogue; five messages let a call fail up to its
budget, fail twice in one batch and come back in the next turn. The limit of 50 journal
entries is scaled down so that threads reach it, and the property says when the budget does
not hold beyond it. In `task_gates` two turns are needed for what survives a turn and four actions for a
gate to meet the quota. In `services` two importers and two reviewers are the fewest for an
import to race another import and a decision another decision, and one record is enough because
each of these races is about one name; three workers show all orders in which two may end around
a third, and one tick is enough for a deadline to come before, between and after their answers;
three requests for a sandbox make one
overlap with two others; eleven messages hold four bundles, of which two are old, and a
later owner turn. The bounds of the models that the code does not have are `MaxTurns`,
`MaxMessages`, `MaxParallel`, `OfferBatch`, `OfferTurns`, `OfferSteps`, `MaxRecords`,
`MaxBoxes`, `MaxLength`, `MaxSegments` and the bound on `elapsed` in `Swarm` (never
reached). No symmetry is used: most runs check temporal properties.

**Deadlock** is not checked where the system really stops: at an idle loop or conversation
without owner turns left, a published step, a thread at its bound of messages, a reported
swarm or delegation.

**Fairness.** `Breaker`: the clock advances and `asyncio.wait_for` fires a worker's deadline;
a provider need not answer the lead. `NativeLoop`: the server runs a started step and the
tool node to their end, and the bridge answers a pending ticket in the end (it owns the
turn's timer and resumes or stops); rejected answers may come any number of times, and the
owner need not write. The swarm in `services`: the event loop runs ready workers and timers; no
provider has to answer. `TaskGate`: a step that is due is made and a batch that is out is answered;
how is free. `SemanticIndex`: the interpreter runs every thread and loading a model ends,
well or not; nobody has to send a request or to warm up. The other components have no
liveness property: nothing in the step itself bounds a provider's time, and the files, the
sandbox and the offer wait for nobody.

**What the violated runs show.** Each checks a sentence of the repository against the code;
`findings` quotes it.
1. `OneProbe`: a late failure of a call from before the opening ends the running probe's
   window and starts a new cooldown. When that is over, a second probe is admitted while the
   first still flies.
2. `RequestStartsFromZero`: `compaction_round` is inherited by a new request when the owner
   writes at a pending native or compaction interrupt, or after a step that raised; that
   request has no paid pass.
3. `BudgetPerCall`: copies of a call in one batch read the same journal and all run.
4. `ResultsDelivered`: the answer to an external batch may bring a new catalogue, and the
   tool node judges the executed calls by it: the result of a tool that is no longer listed
   is replaced by a correction, or the run ends.
5. `GateIsBounded`: in the legacy graph the thread has the client's call ids, by which the
   open-plan gate does not recognise itself: it fires again without work in between and
   past its limit.
6. `RestsOnRead`: two gates let the model's own text through under their label, and the
   evidence gate does not look at a labelled result.
7. `InOnePlace`: an import looks for a name in three places and then creates it. Another
   import that stages the name in between, and an owner who resolves it, leave the first one
   free to create it again: the reviewed candidate is back in the queue.

Every property of a passing run has a mutant in `PROJECT.json`: a plausible bug in one
mapped definition for which TLC finds that property violated.

## 4. The proofs

The theorems hold for every value of the constants that the named assumptions allow: any
set of callers, any threshold and times for the breaker; any quota, any set of batches, any
number of turns for the loop (`MaxTurns` only has to be a natural number); any limit and
reserve for the stage; any registry, messages and catalogues for the offer; any calls, batches,
budget and journal for recovery; any plan for the swarm; any messages, offers and batches for
the gates; any batches and budget of a delegation; any threads at the encoder. A bound of the
model is a constant of the theorem, so it holds for every bound.

**Breaker** (`BreakerProofs`). `BreakerInv` is inductive. The three safety properties are
not inductive alone: that the circuit opens only after a streak needs `failures <= streak`
until the streak is full (admitting a probe sets the count to `Threshold - 1` by hand); the
bound on refusals needs what is left of a window and what has passed of it in one sum, and
needs that a stamped opening excludes a running probe window, which is the reason
`record_transient_failure` clears the probe. `StrangersCannotEndProbe` is an action property
from the same invariant; it is about callers that leave in `finally` and exempts recorded
outcomes, since a late failure does end a probe (finding 1). `WorkerProbesApart` says what is
left of "one probe" with the code's own numbers and with the lead among the callers: two
worker probes in flight began a cooldown or more apart. Its invariant relates the age of every
worker probe in flight to what is left of the present opening (`ProbesAgeWithOpening`).

**NativeLoop** (`NativeLoopProofs`). `LoopInv` is proved action by action through lemmas on
batches (deferring and dropping only shrink a batch, and leave one executor). `QuotaHolds`
needs `ChargedBeforeRun` (what is performed plus what is open is within what was charged);
`OnePaidPass` needs `paid <= round` inside a request; `SwarmIsAdmitted` (a swarm runs
only on the admission of its own batch, once a turn) needs that the swarm in a pending batch is
already counted and that an admission kept in the checkpoint is of an earlier batch
(`AdmissionsAreOld`); `TicketsAdvanceOnce` needs that used tickets
name earlier batches than the one pending; the refinement needs that a pending batch is not
empty. `ImplementsLedger` maps `Init` to the ledger's
`Init` and every step to a ledger step or a stutter: publishing charges, an accepted ticket
grants, the tool node performs, a new owner message abandons.

**Generation** (`LoopPartsProofs`). `GenerationInv` is proved with one lemma per action.
The published properties are not inductive alone: that a usage is exact or unknown needs
that it already was while a repetition is awaited; the limit of the stage needs that a
repetition begins with an exact usage and is sent only what is left (`RepetitionLimits`);
two calls at most needs that no repetition follows the policy fallback, which rests on
`MinRetry > 0` and on the fallback clearing the reserve and the lowered effort; that only
whole calls are handed over needs that a result without an end is a blocked one and that a
blocked one has no calls (`GatesKeepUsage`).

**Recovery** (`LoopPartsProofs`). `BudgetHonest` is about the count that a call reads, and
that count is the journal's, not the thread's. The invariant therefore ties the two:
`JournalComplete` says that while a batch waits the journal holds every failure of the thread,
unless there are more than it can hold; `JournalGrows` and `JournalCut` are the two halves
of `_fold_tau` (folding the thread adds each failure once, cutting keeps the newest). From a
complete journal `PriorCounts` gets the number of earlier failures, and `FailuresCounted` adds
the copies of the call in the batch, which all read the same count. `WritesNotRepeated` needs
only that an inline retry stops at the first outcome of a call that may write.

**ToolOffer** (`LoopPartsProofs`). `WritesAreOpened` is not inductive, because a message that
continues the work takes over the route of an earlier one: `RouteIsOpened` says of every
stage that what the route names and can write was opened or called. `PromiseKept` needs
`PromiseHolds`: what was announced was asked for in this turn, is supplied by the client, and no
new catalogue comes between the announcement and the step it is for. `RoundIsSafe` carries the
theorems of `Generation`, `ToolOffer` and `Recovery` over to their composition.

**Swarm** (`SwarmProofs`). `SwarmInv` ties, at every await, a worker's place to its result
(`ResultsOfWorkers`), to whether it called the provider (`CallsOfWorkers`) and to what the
bridge heard (`EventsOfWorkers`). `WithinOneDeadline` rests on `OneClock`: there is a slot
for every subtask (`SlotForEveryone`, which counts the plan), so all calls are started
before the clock moves and all workers are as old as the swarm. `ReportFollowsPlan` needs that
sorting the results by their number puts the plan's k-th subtask at place k.

**TaskGate** (`TaskGateProofs`). `TaskInvariant` has three parts: types and limits,
`ThreadTells` (what the gates read off the messages says what happened in the turn), and
`OutcomeHolds` (what a turn ended with still holds). The batch is gone through call by call and
answer by answer; `CallsOneByOne` and its like turn the recursive functions into steps, so that
one lemma about one call (`OneCall`, `OneAnswer`) gives the whole batch. `SiteIsChecked` needs
that a write marks the site until a view of a finished job clears it; `ContinuationsBounded`
needs the gate's own call recognised in the thread, which is why it is about the native graph
only (finding 5 is the other one).

**Subagent** (`ServicesProofs`). `MeterInv` says that the meter is the history: what it has
started was sent, what it has measured was priced, and outside of the forced report there
are no more calls than steps. `MeterIsHonest` follows for every batch of calls and every
budget, `Deadline` included, because the report is made from the meter alone.
`ScratchIsIsolated` is inductive as it stands: only `CallWrites` adds a root, and only an
operator reaches it; that an edit needs a file that exists is what keeps it inside, since
the code does not test its root.

**SemanticIndex** (`ServicesProofs`). `LoadedOnce` is proved for any number of requests
and warm-ups. `HolderWorks` is the mutual exclusion: a thread that loads or computes holds
the lock and found nothing settled under it; `OncePerState` ties the histories to the shared
state. The assumption is that the names of the threads differ (`SemanticAssumption`).

**SandboxCache and CandidateInbox** (`ServicesProofs`). `SandboxIsKept` is an action property
for any number of overlapping requests of a thread. `CandidateIsInOnePlace` is for any number
of importers and of reviewers: a name is in one place unless two imports were about to stage it
at once (`contested`), and for such a name the promise is false (finding 7). For the other names
an importer's last look at each place is still true when it creates the file, because a
candidate comes into the queue by nobody else and otherwise only moves from the queue to a
decision; the invariant (`StaysAbsent`, `OneStages`) says which places each importer has passed
and that no second one is behind it.

**Compaction** (`CompactionProofs`). `ProjectionSound` looks at one view; `CompactionInv` says
why every view is sound. `SegmentsInv`: the segments, of the checkpoint and of the fit under
way, are whole old bundles, in order and apart. It survives growth because an old bundle stays
old (`Complete` over more bundles), and an insertion because a plan is made of bundles that
overlap no segment; with `MechanicalFit` it is carried run by run and then summary by summary.
`Tiled`: there are ends that cut the thread into the intervals that the view's items stand for,
and each item is allowed to stand for its own (`Stands`): a message for itself, a summary for
whole old bundles, a note for everything from the second message up to a message of the owner.
The projection builds such ends place by place, leaving out turns drops the ends inside a note,
clipping changes none, so the three may follow each other in any order and number. A view that
tiles has every message once and in order; no boundary of an interval falls between a call and
its result, because summaries begin with a call and end with a result and notes end before an
owner's message. The assumption `MaxLength >= 2` only lets the thread's first two messages fit.
`ServicesTypeCorrect` and `PartsAreSafe` put the six parts together.

**Induction.** The library's induction theorems take an operator and cannot be used here.
`RunningValues` states induction for a *set* of numbers, from the well-foundedness of `<`, and
for recursive *functions* over `0..n`: such a function exists (`RunningValuesExist`), and a
property that its first value has and each step keeps is one of all its values
(`RunningStays`). The modules proved about write their folds as recursive functions.

**Only model-checked:** all liveness (`Recovers`, `EveryRunEnds`, `SwarmEnds`, `TurnEnds`,
`RequestsAnswered`), because fairness is out of the prover's reach. Every safety property of
a passing run is a theorem.

## 5. Not modelled, and why

- LangGraph's own checkpointing and re-execution after a crash of the server, and the
  bridge's accounting: external code; the models take from it only what the code relies
  on (an interrupted node starts again, a step's update is stored as a whole).
- Prompt assembly, effort levels, pattern tables, error classification, schema checks,
  adapters, the registry's entries: pure functions of data without state of their own.
- The approved store (`msty_memory.py`, `msty_native_memory.py`): a stored text is compared
  with a digest and the packaged copy is the fallback. It awaits once and keeps nothing.
- Plan parsing and message formats: a shape or a model value stands for them.
- The reasoning relay, the byte limit of the stream and the details of usage records.
- The scripts under `src/tools/` other than the candidate inbox: they print reports, call
  services once, or are run by hand; none keeps state that another step reads.

## 6. Plan

Done: every module of the table above, and the safety of all components as theorems. Left,
in this order:

1. `Turn`: `NativeLoop` composed with `TaskGate` at the level of statuses, so that the quota
   the gates see is the one the loop charges.
2. An abstract "every message exactly once" that `Compaction` implements.
