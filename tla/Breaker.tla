-------------------------------- MODULE Breaker --------------------------------
(*****************************************************************************)
(* The circuit breaker of msty_breaker.py for ONE connection (one model       *)
(* profile), together with the callers that share it: the lead step, its      *)
(* retry and synthesis re-runs, a delegate's metered model and the swarm's    *)
(* workers.                                                                   *)
(*                                                                           *)
(* Connections only share the lock and the token counter, and a token is only *)
(* ever compared for equality, so one connection is modelled and a token is   *)
(* represented by the call it was handed to.  time.monotonic() is only used   *)
(* in differences: open_until and probe_until are kept as the ticks left.     *)
(* A missing entry of _connections reads, through state.get, like an entry    *)
(* with everything zero; the two are identified.                              *)
(*****************************************************************************)
EXTENDS Integers

CONSTANTS
    Calls,          \* concurrent call slots; a slot is reused by later calls
    Workers,        \* the slots used by swarm workers
    NoToken,        \* probe_token is 0 or absent
    Threshold,      \* FAILURE_THRESHOLD
    Cooldown,       \* COOLDOWN_SECONDS, in ticks
    Probe,          \* PROBE_SECONDS, in ticks
    WorkerTimeout   \* msty_swarm.WORKER_TIMEOUT_SECONDS, in ticks

ASSUME BreakerAssumption ==
    /\ Workers \subseteq Calls
    /\ NoToken \notin Calls
    /\ Threshold \in Nat \ {0}
    /\ Cooldown \in Nat \ {0}
    /\ Probe \in Nat \ {0}
    /\ WorkerTimeout \in Nat \ {0}

VARIABLES
    failures,       \* state['failures']
    opened,         \* state['open_until'] is not 0.0
    openLeft,       \* max(0, open_until - now)
    probeLeft,      \* max(0, probe_until - now)
    probeToken,     \* state['probe_token']
    pc,             \* where each call is
    holds,          \* the calls whose local probe_token is not 0
    age,            \* ticks a worker's provider call has been running
    streak,         \* history: transient failures since the last success, capped at Threshold
    refusedFor      \* history: ticks since the connection last admitted callers, capped

state == <<failures, opened, openLeft, probeLeft, probeToken>>
callers == <<pc, holds, age>>
vars == <<failures, opened, openLeft, probeLeft, probeToken, pc, holds, age, streak, refusedFor>>

Places == {"idle", "flying", "recorded", "answered"}

TypeOK ==
    /\ failures \in Nat
    /\ opened \in BOOLEAN
    /\ openLeft \in 0..Cooldown
    /\ probeLeft \in 0..Probe
    /\ probeToken \in Calls \cup {NoToken}
    /\ pc \in [Calls -> Places]
    /\ holds \subseteq Calls
    /\ age \in [Calls -> 0..WorkerTimeout]
    /\ streak \in 0..Threshold
    /\ refusedFor \in Nat

Init ==
    /\ failures = 0
    /\ opened = FALSE
    /\ openLeft = 0
    /\ probeLeft = 0
    /\ probeToken = NoToken
    /\ pc = [c \in Calls |-> "idle"]
    /\ holds = {}
    /\ age = [c \in Calls |-> 0]
    /\ streak = 0
    /\ refusedFor = 0

-------------------------------------------------------------------------------
(* The breaker's functions.                                                   *)

\* open_remaining() is not None; admit() refuses on the same two tests.
Blocked == openLeft > 0 \/ probeLeft > 0

\* The history variable of the time the connection has been refusing callers; the
\* bound of RefusalBounded is as far as it counts.
Refusing(ticks) ==
    refusedFor' = IF ~Blocked' THEN 0
                  ELSE IF refusedFor + ticks < Probe + Cooldown THEN refusedFor + ticks
                  ELSE Probe + Cooldown

\* Mutant of RecordSuccess: the failure count survives a success.
SuccessKeepsCount ==
    /\ opened' = FALSE /\ openLeft' = 0 /\ probeLeft' = 0 /\ probeToken' = NoToken
    /\ UNCHANGED failures
    /\ streak' = 0

\* record_success: the entry is popped.
RecordSuccess ==
    /\ failures' = 0
    /\ opened' = FALSE
    /\ openLeft' = 0
    /\ probeLeft' = 0
    /\ probeToken' = NoToken
    /\ streak' = 0

\* record_transient_failure: an opening is only stamped when none is.
RecordTransientFailure ==
    /\ failures' = failures + 1
    /\ probeLeft' = 0
    /\ IF failures + 1 >= Threshold /\ ~opened
         THEN opened' = TRUE /\ openLeft' = Cooldown
         ELSE UNCHANGED <<opened, openLeft>>
    /\ streak' = IF streak < Threshold THEN streak + 1 ELSE streak
    /\ UNCHANGED probeToken

\* Mutant of ReleaseProbe: any departing call clears the mark.
ReleaseForAnyone(c) ==
    /\ probeLeft' = 0
    /\ probeToken' = NoToken
    /\ holds' = holds \ {c}
    /\ UNCHANGED <<failures, opened, openLeft, streak>>

\* Mutant of ReleaseProbe: `finally` forgets the mark.
ReleaseForgotten(c) ==
    /\ holds' = holds \ {c}
    /\ UNCHANGED <<state, streak>>

\* release_probe: only the call that was handed the current token clears the mark.
ReleaseProbe(c) ==
    /\ IF c \in holds /\ probeToken = c
         THEN probeLeft' = 0 /\ probeToken' = NoToken
         ELSE UNCHANGED <<probeLeft, probeToken>>
    /\ holds' = holds \ {c}
    /\ UNCHANGED <<failures, opened, openLeft, streak>>

-------------------------------------------------------------------------------
(* The callers: admit, an awaited provider call, the outcome's record and the  *)
(* release of the probe in `finally`.  Each takes the lock on its own.         *)

Depart(c) ==
    /\ pc' = [pc EXCEPT ![c] = "flying"]
    /\ age' = [age EXCEPT ![c] = 0]

\* admit, no opening on record: nothing is stamped.
AdmitClosed(c) ==
    /\ pc[c] = "idle"
    /\ ~Blocked
    /\ ~opened
    /\ Depart(c)
    /\ UNCHANGED <<state, holds, streak>>
    /\ Refusing(0)

\* Mutant of AdmitProbe: the opening stays on record while it is probed.
ProbeKeepsOpening(c) ==
    /\ pc[c] = "idle"
    /\ ~Blocked
    /\ opened
    /\ failures' = Threshold - 1
    /\ probeLeft' = Probe
    /\ probeToken' = c
    /\ holds' = holds \cup {c}
    /\ Depart(c)
    /\ UNCHANGED <<opened, openLeft, streak>>
    /\ Refusing(0)

\* admit after the cooldown: the half-open state and its one probe.
AdmitProbe(c) ==
    /\ pc[c] = "idle"
    /\ ~Blocked
    /\ opened
    /\ opened' = FALSE
    /\ failures' = Threshold - 1
    /\ probeLeft' = Probe
    /\ probeToken' = c
    /\ holds' = holds \cup {c}
    /\ Depart(c)
    /\ UNCHANGED <<openLeft, streak>>
    /\ Refusing(0)

\* Mutant of AdmitRefused: a refusal restarts the cooldown (a sliding window).
RefusalRestartsCooldown(c) ==
    /\ pc[c] = "idle"
    /\ Blocked
    /\ openLeft' = IF openLeft > 0 THEN Cooldown ELSE openLeft
    /\ UNCHANGED <<failures, opened, probeLeft, probeToken, callers, streak>>
    /\ Refusing(0)

\* admit refuses: the caller is told the seconds left and touches nothing.
AdmitRefused(c) ==
    /\ pc[c] = "idle"
    /\ Blocked
    /\ UNCHANGED vars

\* A transport failure, or a worker's deadline (TimeoutError is transient).
CallFails(c) ==
    /\ pc[c] = "flying"
    /\ RecordTransientFailure
    /\ pc' = [pc EXCEPT ![c] = "recorded"]
    /\ UNCHANGED <<holds, age>>
    /\ Refusing(0)

\* The provider answered with an error that is not transport, or (a worker) with a result.
CallAnswers(c) ==
    /\ pc[c] = "flying"
    /\ RecordSuccess
    /\ pc' = [pc EXCEPT ![c] = "recorded"]
    /\ UNCHANGED <<holds, age>>
    /\ Refusing(0)

\* `finally`, after the outcome has been recorded.
Finish(c) ==
    /\ pc[c] = "recorded"
    /\ ReleaseProbe(c)
    /\ pc' = [pc EXCEPT ![c] = "idle"]
    /\ UNCHANGED age
    /\ Refusing(0)

\* Cancellation, a worker's model_factory that raised, or an exit nobody foresaw:
\* `finally` runs and no outcome is recorded.
CallCancelled(c) ==
    /\ pc[c] = "flying"
    /\ ReleaseProbe(c)
    /\ pc' = [pc EXCEPT ![c] = "idle"]
    /\ UNCHANGED age
    /\ Refusing(0)

\* The lead and the metered model leave `finally` first and record the answer after it.
LeaveAnswered(c) ==
    /\ c \notin Workers
    /\ pc[c] = "flying"
    /\ ReleaseProbe(c)
    /\ pc' = [pc EXCEPT ![c] = "answered"]
    /\ UNCHANGED age
    /\ Refusing(0)

RecordAnswered(c) ==
    /\ pc[c] = "answered"
    /\ RecordSuccess
    /\ pc' = [pc EXCEPT ![c] = "idle"]
    /\ UNCHANGED <<holds, age>>
    /\ Refusing(0)

-------------------------------------------------------------------------------
(* Time.                                                                      *)

AtDeadline(c) == c \in Workers /\ pc[c] = "flying" /\ age[c] = WorkerTimeout

\* asyncio.wait_for ends a worker's call at its deadline.
WorkerTimesOut(c) == AtDeadline(c) /\ CallFails(c)

Tick ==
    /\ \A c \in Calls : ~AtDeadline(c)
    /\ openLeft' = IF openLeft > 0 THEN openLeft - 1 ELSE 0
    /\ probeLeft' = IF probeLeft > 0 THEN probeLeft - 1 ELSE 0
    /\ age' = [c \in Calls |->
                 IF c \in Workers /\ pc[c] = "flying" THEN age[c] + 1 ELSE age[c]]
    /\ UNCHANGED <<failures, opened, probeToken, pc, holds, streak>>
    /\ Refusing(1)

CallStep(c) ==
    \/ AdmitClosed(c)
    \/ AdmitProbe(c)
    \/ AdmitRefused(c)
    \/ CallFails(c)
    \/ CallAnswers(c)
    \/ Finish(c)
    \/ CallCancelled(c)
    \/ LeaveAnswered(c)
    \/ RecordAnswered(c)

Next == Tick \/ \E c \in Calls : CallStep(c)

Spec == Init /\ [][Next]_vars

\* The clock advances and wait_for fires.  Nothing obliges a provider to answer
\* the lead, whose stream has no deadline of its own.
Fairness == WF_vars(Tick) /\ \A c \in Calls : WF_vars(WorkerTimesOut(c))

FairSpec == Spec /\ Fairness

-------------------------------------------------------------------------------
(* Properties.                                                                *)

\* The probe mark that refuses everybody belongs to a call that is still under
\* way: a probe that was cancelled, timed out or failed never holds the profile
\* closed (the reason release_probe sits in every `finally`).
ProbeHasOwner == probeLeft > 0 => probeToken \in holds /\ pc[probeToken] = "flying"

\* The circuit is open only after Threshold transient failures with no success
\* in between, whatever calls, probes and cancellations were interleaved.
OpensOnlyAfterStreak == opened => streak = Threshold

\* No interleaving of late failures, probes and refusals keeps callers out for
\* as long as a probe window and a cooldown together.
RefusalBounded == refusedFor < Probe + Cooldown

\* The inductive strengthening of the three invariants above: a stamped opening
\* excludes a probe window, the count never exceeds the streak below the
\* threshold, what is left of a refusal plus what has passed of it is bounded.
BreakerInv ==
    /\ ProbeHasOwner
    /\ OpensOnlyAfterStreak
    /\ opened => probeLeft = 0
    /\ openLeft > 0 => opened
    /\ failures <= streak \/ streak = Threshold
    /\ openLeft > 0 => refusedFor + openLeft < Probe + Cooldown
    /\ probeLeft > 0 => refusedFor + probeLeft <= Probe
    /\ ~Blocked => refusedFor = 0
    /\ \A c \in holds : pc[c] \in {"flying", "recorded"}

\* The workers whose call was admitted as the probe and is still in flight.
ProbingWorkers == {c \in holds \cap Workers : pc[c] = "flying"}

\* A probe still in flight was admitted before the present opening, so it has been
\* running for as long as that opening.
ProbesAgeWithOpening ==
    opened => \A c \in ProbingWorkers : Cooldown <= openLeft + age[c]

\* What the promise of one probe comes to with the code's numbers: two worker probes may
\* be in flight together, but whatever late failures reopen the circuit, they began at
\* least a cooldown apart, and the older one has no more than the difference between its
\* deadline and the cooldown left.
ProbesApart ==
    \A c, d \in ProbingWorkers :
        c # d => age[c] + Cooldown <= age[d] \/ age[d] + Cooldown <= age[c]

\* Some call's outcome is written in this step, by itself or after its `finally`.
OutcomeRecorded ==
    \E c \in Calls :
        \/ pc[c] = "flying" /\ pc'[c] = "recorded"
        \/ pc[c] = "answered" /\ pc'[c] = "idle"

\* A running probe window ends by its own call leaving, by an outcome being
\* recorded or by the clock; the departure of a call from before the opening
\* does not let everybody in.
StrangersKeepProbe ==
    [][ probeLeft > 0 /\ probeLeft' = 0
        => \/ pc'[probeToken] # "flying"
           \/ OutcomeRecorded
           \/ probeLeft = 1 ]_vars

\* "exactly one probe call": two calls admitted as the probe are never in
\* flight together.
OneProbe == \A c, d \in holds : pc[c] = "flying" /\ pc[d] = "flying" => c = d

\* A refused caller is not refused for ever: the connection admits again.
Recovers == Blocked ~> ~Blocked

===============================================================================
