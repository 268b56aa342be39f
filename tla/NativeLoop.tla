------------------------------ MODULE NativeLoop ------------------------------
(*****************************************************************************)
(* The durable task loop of the native harness (msty_native.py on top of      *)
(* msty._respond_step, msty_execution and msty_compaction): a model step, the *)
(* interrupt after it, the bridge's answer to that interrupt, the tool node,  *)
(* and the next model step.                                                   *)
(*                                                                           *)
(* What the model asks for is a shape: how many calls of each kind.  The      *)
(* bridge and the client are not part of the repository: they may answer an   *)
(* interrupt with any ticket ever published, with the right one or with a     *)
(* corrupted one, or the owner may write again instead.                       *)
(*****************************************************************************)
EXTENDS Integers, FiniteSets

CONSTANTS
    MaxActions,         \* msty_execution.MAX_ACTIONS
    ConsultLimit,       \* msty.consultation_limit()
    MaxCompactions,     \* msty_compaction.MAX_COMPACTIONS_PER_TURN
    Shapes,             \* the batches of calls a model step may ask for
    MaxTurns            \* bound of the model: owner turns

\* A batch: native calls, todo-list updates, swarms, external calls, consultations
\* (external too), and whether the swarm's plan parses.
Shape == [native : Nat, todos : Nat, swarm : Nat, external : Nat, consult : Nat,
          planOk : BOOLEAN]

ASSUME NativeLoopAssumption ==
    /\ MaxActions \in Nat
    /\ ConsultLimit \in 0..2
    /\ MaxCompactions \in Nat
    /\ Shapes \subseteq Shape
    /\ MaxTurns \in Nat

VARIABLES
    place,          \* "idle", "model", "after" (an interrupt when it waits), "tools"
    status,         \* execution['status']
    step,           \* execution['step']; also names the batch (a fresh uuid) it publishes
    issued,         \* execution['actions_issued']: external actions
    native,         \* execution['native_actions']
    consultations,  \* execution['consultations']
    pending,        \* the calls of the last AI message, which execution['pending'] describes
                    \* until they are answered; the tool node takes them from the message
    round,          \* compaction_round
    swarmCalls,     \* swarm calls since the owner's last message
    admission,      \* swarm_admission: the batch it was granted for, and the verdict
    turn,           \* owner turns so far
    published,      \* tickets the bridge has been given, none of them ever forgotten
    used,           \* history: tickets that advanced the task
    done,           \* history: native actions performed and external results consumed
    admitted,       \* history: swarms the bridge admitted since the owner's last message
    swarmsRun,      \* history: swarms run since the owner's last message
    paid            \* history: paid summaries in the current bridge request

execution == <<status, step, issued, native, consultations, pending>>
history == <<used, done, admitted, swarmsRun, paid>>
vars == <<place, status, step, issued, native, consultations, pending, round,
          swarmCalls, admission, turn, published, used, done, admitted, swarmsRun, paid>>

NoBatch == [native |-> 0, todos |-> 0, swarm |-> 0, external |-> 0, consult |-> 0,
            planOk |-> FALSE]
NoAdmission == [batch |-> 0, verdict |-> "none"]

Verdicts == {"none", "admitted", "rejected"}
Waiting == {"waiting_tools", "waiting_native", "waiting_compaction"}
Final == {"answered", "incomplete", "blocked", "verified_against_observations"}

NativeCalls(s) == s.native + s.todos + s.swarm
ExternalCalls(s) == s.external + s.consult
Size(s) == NativeCalls(s) + ExternalCalls(s)

Init ==
    /\ place = "idle"
    /\ status = "none"
    /\ step = 0
    /\ issued = 0
    /\ native = 0
    /\ consultations = 0
    /\ pending = NoBatch
    /\ round = 0
    /\ swarmCalls = 0
    /\ admission = NoAdmission
    /\ turn = 0
    /\ published = {}
    /\ used = {}
    /\ done = 0
    /\ admitted = 0
    /\ swarmsRun = 0
    /\ paid = 0

-------------------------------------------------------------------------------
(* The model step: awrap_model_call and its filter_result.                    *)

\* Mutant of SwarmOn: the swarm is offered on every step.
AlwaysOffered == swarmCalls \in Nat

\* _swarm_on: the swarm is offered while the owner's turn holds no call of it.
SwarmOn == swarmCalls = 0

\* _respond_step drops the consultations a step has no allowance for.
WithinConsultLimit(s) ==
    IF s.consult > 0 /\ consultations + s.consult > ConsultLimit
      THEN [s EXCEPT !.consult = 0]
      ELSE s

\* Mutant of OverLimit: the cap forgets the native share of the quota.
OverExternalLimit(s) ==
    s.swarm > 1 \/ s.todos > 1 \/ issued + Size(s) > MaxActions

\* filter_result: a second swarm, a second todo update or the common cap refuse
\* the whole batch.
OverLimit(s) ==
    s.swarm > 1 \/ s.todos > 1 \/ issued + native + Size(s) > MaxActions

\* filter_result: the native part of a mixed batch goes first, the rest is deferred.
PublishedPart(s) ==
    IF NativeCalls(s) > 0 THEN [s EXCEPT !.external = 0, !.consult = 0] ELSE s

\* The part of `update` that ends a step without publishing a batch.
NothingPending(newStatus) ==
    /\ status' = newStatus
    /\ step' = step + 1
    /\ pending' = NoBatch
    /\ UNCHANGED <<issued, native, consultations>>

\* A final answer, a truncated one, or a refusal (breaker, context, protocol, a
\* batch that is not valid); the compaction count starts again.
ModelAnswers ==
    /\ place = "model"
    /\ \E s \in Final : NothingPending(s)
    /\ round' = 0
    /\ place' = "after"
    /\ UNCHANGED <<swarmCalls, admission, turn, published, history>>

\* The batch is over a limit: nothing is published, nothing is counted.
ModelOverLimit(s) ==
    /\ place = "model"
    /\ s.swarm = 0 \/ SwarmOn
    /\ OverLimit(WithinConsultLimit(s))
    /\ NothingPending("blocked")
    /\ round' = 0
    /\ place' = "after"
    /\ UNCHANGED <<swarmCalls, admission, turn, published, history>>

\* The ticket an interrupt offers for what is pending.
TicketType == [waiting_tools |-> "msty_local_tools",
               waiting_native |-> "msty_native_continue",
               waiting_compaction |-> "msty_compaction"]

Ticket(st, batch, count) == [type |-> TicketType[st], batch |-> batch, native |-> count]

\* Mutant of KeptRound: native steps of a request forget its paid summary.
ForgottenRound(b) == 0

\* compaction_round survives a native step, which stays inside the bridge request.
KeptRound(b) == IF NativeCalls(b) > 0 THEN round ELSE 0

\* execution_after counts every call; awrap_model_call moves the native ones over.
IssuedAfter(b) == issued + Size(b) - NativeCalls(b)

\* A batch within the limits is published and counted before anything runs.
ModelActs(s) ==
    /\ place = "model"
    /\ s.swarm = 0 \/ SwarmOn
    /\ LET c == WithinConsultLimit(s)
           b == PublishedPart(c)
       IN  /\ Size(c) > 0
           /\ ~OverLimit(c)
           /\ status' = IF NativeCalls(b) > 0 THEN "waiting_native" ELSE "waiting_tools"
           /\ step' = step + 1
           /\ issued' = IssuedAfter(b)
           /\ native' = native + NativeCalls(b)
           /\ consultations' = consultations + b.consult
           /\ pending' = b
           /\ round' = KeptRound(b)
           /\ swarmCalls' = swarmCalls + b.swarm
    /\ published' = published \cup {Ticket(status', step', native')}
    /\ place' = "after"
    /\ UNCHANGED <<admission, turn, history>>

\* Mutant of MayCompact: one pass too many.
OneMorePass == round <= MaxCompactions

\* _respond_step: the paid pass is taken while the request still has one.
MayCompact == round < MaxCompactions

\* _compact_step: one paid summary, then the internal resume.
ModelCompacts ==
    /\ place = "model"
    /\ MayCompact
    /\ NothingPending("waiting_compaction")
    /\ round' = round + 1
    /\ paid' = paid + 1
    /\ published' = published \cup {Ticket(status', step', native)}
    /\ place' = "after"
    /\ UNCHANGED <<swarmCalls, admission, turn, used, done, admitted, swarmsRun>>

\* _compact_step: the summary was paid for and rejected; the step is blocked.
ModelSummaryRejected ==
    /\ place = "model"
    /\ MayCompact
    /\ NothingPending("blocked")
    /\ round' = 0
    /\ paid' = paid + 1
    /\ place' = "after"
    /\ UNCHANGED <<swarmCalls, admission, turn, published, used, done, admitted, swarmsRun>>

\* An exception in the model step (the provider, a protocol error) leaves the
\* checkpoint of the last finished step and ends the run.
ModelRaises ==
    /\ place = "model"
    /\ place' = "idle"
    /\ UNCHANGED <<execution, round, swarmCalls, admission, turn, published, history>>

-------------------------------------------------------------------------------
(* aafter_model: end, or wait at the interrupt for the bridge.                *)

AtInterrupt == place = "after" /\ status \in Waiting

\* No batch is pending: the graph ends.
EndRun ==
    /\ place = "after"
    /\ status \notin Waiting
    /\ place' = "idle"
    /\ UNCHANGED <<execution, round, swarmCalls, admission, turn, published, history>>

\* Mutant of Accepts: a ticket of the right kind will do.
AcceptsType(t) == t.type = TicketType[status]

\* Mutant of Accepts: the expected ticket is built from the count before this batch.
AcceptsStale(t) == t = Ticket(status, step, native - NativeCalls(pending))

\* The exact comparison with the expected ticket (native, compaction) or the
\* binding to the pending batch (validate_resume).
Accepts(t) == t = Ticket(status, step, native)

\* swarm.descriptor: only one swarm with a plan that parses is described to the bridge.
Described == pending.swarm = 1 /\ pending.planOk

\* native_continue answered: the admission belongs to this batch, or there is none.
ResumeNative(t, verdict) ==
    /\ AtInterrupt
    /\ status = "waiting_native"
    /\ Accepts(t)
    /\ verdict \in IF Described THEN {"admitted", "rejected"} ELSE {"none"}
    /\ admission' = IF Described THEN [batch |-> step, verdict |-> verdict] ELSE NoAdmission
    /\ admitted' = IF verdict = "admitted" THEN admitted + 1 ELSE admitted
    /\ status' = "running"
    /\ used' = used \cup {t}
    /\ place' = "tools"
    /\ UNCHANGED <<step, issued, native, consultations, pending, round, swarmCalls, turn,
                   published, done, swarmsRun, paid>>

\* local tools answered, validate_resume passed: a new bridge request begins.
ResumeTools(t) ==
    /\ AtInterrupt
    /\ status = "waiting_tools"
    /\ Accepts(t)
    /\ status' = "running"
    /\ used' = used \cup {t}
    /\ paid' = 0
    /\ place' = "tools"
    /\ UNCHANGED <<step, issued, native, consultations, pending, round, swarmCalls, admission,
                   turn, published, done, admitted, swarmsRun>>

\* wait_compaction answered: straight back to the model.
ResumeCompaction(t) ==
    /\ AtInterrupt
    /\ status = "waiting_compaction"
    /\ Accepts(t)
    /\ status' = "running"
    /\ used' = used \cup {t}
    /\ place' = "model"
    /\ UNCHANGED <<step, issued, native, consultations, pending, round, swarmCalls, admission,
                   turn, published, done, admitted, swarmsRun, paid>>

\* A ticket of another step, or a corrupted answer to this one: the protocol error
\* is not checkpointed, the run ends with it and the same interrupt is offered again.
ResumeRejected ==
    /\ AtInterrupt
    /\ UNCHANGED vars

-------------------------------------------------------------------------------
(* The tool node, and the owner.                                              *)

\* Mutant of SwarmRuns: whatever the bridge has answered about this batch will do.
AnyRecord == Described /\ admission # NoAdmission

\* _run_swarm: an admission of this very batch that is not a refusal.
SwarmRuns == Described /\ admission = [batch |-> step, verdict |-> "admitted"]

\* Every call of the batch runs once; the results go to the next model step.
RunTools ==
    /\ place = "tools"
    /\ done' = done + Size(pending)
    /\ swarmsRun' = swarmsRun + (IF SwarmRuns THEN 1 ELSE 0)
    /\ pending' = NoBatch
    /\ place' = "model"
    /\ UNCHANGED <<status, step, issued, native, consultations, round, swarmCalls, admission,
                   turn, published, used, admitted, paid>>

\* A call of the batch raises and ends the run; the calls beside it may have run.
ToolsRaise ==
    /\ place = "tools"
    /\ \E n \in 0..Size(pending) : done' = done + n
    /\ \/ UNCHANGED swarmsRun
       \/ SwarmRuns /\ swarmsRun' = swarmsRun + 1
    /\ pending' = NoBatch
    /\ place' = "idle"
    /\ UNCHANGED <<status, step, issued, native, consultations, round, swarmCalls, admission,
                   turn, published, used, admitted, paid>>

\* Mutant of OwnerTurn: the charge of an abandoned native batch is given back.
OwnerTurnRefunds ==
    /\ place = "idle" \/ AtInterrupt
    /\ turn < MaxTurns
    /\ turn' = turn + 1
    /\ native' = IF AtInterrupt THEN native - NativeCalls(pending) ELSE native
    /\ swarmCalls' = 0
    /\ admitted' = 0
    /\ swarmsRun' = 0
    /\ paid' = 0
    /\ place' = "model"
    /\ UNCHANGED <<status, step, issued, consultations, pending, round, admission, published,
                   used, done>>

\* A new owner message starts a run; a batch still waiting at its interrupt is
\* abandoned, and its actions stay counted.
OwnerTurn ==
    /\ place = "idle" \/ AtInterrupt
    /\ turn < MaxTurns
    /\ turn' = turn + 1
    /\ swarmCalls' = 0
    /\ admitted' = 0
    /\ swarmsRun' = 0
    /\ paid' = 0
    /\ place' = "model"
    /\ UNCHANGED <<execution, round, admission, published, used, done>>

-------------------------------------------------------------------------------

Resume ==
    \E t \in published :
        \/ \E v \in Verdicts : ResumeNative(t, v)
        \/ ResumeTools(t)
        \/ ResumeCompaction(t)

ModelStep ==
    \/ ModelAnswers
    \/ \E s \in Shapes : ModelOverLimit(s) \/ ModelActs(s)
    \/ ModelCompacts
    \/ ModelSummaryRejected
    \/ ModelRaises

Next ==
    \/ ModelStep
    \/ EndRun
    \/ Resume
    \/ ResumeRejected
    \/ RunTools
    \/ ToolsRaise
    \/ OwnerTurn

Spec == Init /\ [][Next]_vars

\* The server runs what it started, and the bridge eventually answers its ticket.
FairSpec ==
    /\ Spec
    /\ WF_vars(ModelStep)
    /\ WF_vars(EndRun)
    /\ WF_vars(Resume)
    /\ WF_vars(RunTools \/ ToolsRaise)

-------------------------------------------------------------------------------
(* Properties.                                                                *)

\* Every variable keeps the values the code gives it.
TypeOK ==
    /\ place \in {"idle", "model", "after", "tools"}
    /\ status \in {"none", "running"} \cup Waiting \cup Final
    /\ step \in Nat
    /\ issued \in Nat
    /\ native \in Nat
    /\ consultations \in Nat
    /\ pending \in Shape
    /\ round \in Nat
    /\ swarmCalls \in Nat
    /\ admission \in [batch : Nat, verdict : Verdicts]
    /\ turn \in Nat
    /\ done \in Nat
    /\ admitted \in Nat
    /\ swarmsRun \in Nat
    /\ paid \in Nat

\* The common quota: what was charged never passes MAX_ACTIONS (the two counters
\* are kept apart and each is only checked by the other's step), and never more
\* was performed than charged, whatever the bridge replays.
QuotaHolds ==
    /\ issued + native <= MaxActions
    /\ done <= issued + native

\* A published batch is native or external, never both: the two have different
\* resume protocols, and the tool node would look for results that do not exist.
OneExecutor ==
    place \in {"after", "tools"} =>
        NativeCalls(pending) = 0 \/ ExternalCalls(pending) = 0

\* At most one paid summary in one bridge request, over all its native steps
\* (README "One paid compaction pass per request").
OnePaidPass == paid <= MaxCompactions

\* The bridge sees no more paid consultations than the server allows.
ConsultationsBounded == consultations <= ConsultLimit

\* In an owner's turn the bridge admits one swarm at most, over any number of steps, and a
\* swarm that runs is one it has admitted in this very turn: neither a refusal nor the
\* admission of an earlier turn or of an abandoned batch, both of which the checkpoint
\* keeps, starts one.
SwarmIsAdmitted == swarmsRun <= admitted /\ admitted <= 1

\* An answered interrupt consumed a ticket that had not advanced the task before:
\* a repeated or delayed answer never moves it again.
TicketsAdvanceOnce ==
    [][AtInterrupt /\ ~AtInterrupt' /\ turn' = turn => used' # used]_vars

\* Every run ends: each step of it spends the quota, spends the paid pass or ends it.
EveryRunEnds == place # "idle" ~> place = "idle"

\* A request that has paid for no summary still has its paid pass (the comment in
\* awrap_model_call: "a new request starts from 0").
RequestStartsFromZero == place = "model" /\ paid = 0 => round = 0

\* The charged batch that is neither performed nor abandoned.
OpenActions == IF AtInterrupt \/ place = "tools" THEN Size(pending) ELSE 0

\* A native batch, or the compaction, stays inside one bridge request.
InsideRequest ==
    \/ place \in {"model", "tools"}
    \/ place = "after" /\ status \in {"waiting_native", "waiting_compaction"}

\* What each step keeps, and why the properties above hold.
ChargedBeforeRun == done + OpenActions <= issued + native
WaitsForABatch == AtInterrupt /\ status # "waiting_compaction" => Size(pending) > 0
RoundCounts == round <= MaxCompactions /\ (InsideRequest => paid <= round)
SwarmCounted ==
    /\ swarmCalls <= 1
    /\ swarmsRun <= admitted /\ admitted <= swarmCalls
    /\ AtInterrupt => admitted + pending.swarm <= swarmCalls
    /\ place = "tools" /\ SwarmRuns => swarmsRun < admitted
AdmissionsAreOld == admission.batch <= step /\ (AtInterrupt => admission.batch < step)
UsedTicketsAreOld ==
    \A t \in used : t.batch \in 0..step /\ (AtInterrupt => t.batch < step)

LoopInv ==
    /\ TypeOK
    /\ QuotaHolds
    /\ OneExecutor
    /\ OnePaidPass
    /\ ConsultationsBounded
    /\ SwarmIsAdmitted
    /\ ChargedBeforeRun
    /\ WaitsForABatch
    /\ RoundCounts
    /\ SwarmCounted
    /\ AdmissionsAreOld
    /\ UsedTicketsAreOld

\* The loop implements the ledger of charged and performed actions.
Ledger == INSTANCE ActionLedger WITH
    spent <- issued + native,
    open <- OpenActions,
    granted <- place = "tools",
    done <- done

LedgerSpec == Ledger!Spec

===============================================================================
