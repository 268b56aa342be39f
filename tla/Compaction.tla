------------------------------- MODULE Compaction -------------------------------
(***************************************************************************)
(* What of a long thread the model is shown (msty_compaction and its use   *)
(* in a model step): archived spans of old tool bundles with a summary     *)
(* each, and for one generation the oldest turns left out and large tool   *)
(* results clipped. The thread itself is never changed. A size is a number *)
(* of units; how many units a token takes, and so how much has to be       *)
(* freed, is chosen freely. What shortens the older results of the browser *)
(* while a request is assembled (clip_stale_browser_results) is left out:  *)
(* it changes the text of a result and nothing that is counted here.       *)
(***************************************************************************)
EXTENDS Integers, Sequences, FiniteSetsExt

CONSTANTS ResultSizes,     \* sizes of a tool's result
          Needs,           \* what has to be freed
          MaxLength,       \* bound: messages of the thread
          MaxSegments, MaxPasses, FitAttempts,
          PlanMin, SourceMax, MechanicalMin, ClippedSummary, ToolClip

ASSUME CompactionAssumption ==
    /\ ResultSizes \subseteq Nat \ {0} /\ Needs \subseteq Nat \ {0}
    /\ {MaxLength, MaxSegments, MaxPasses, FitAttempts, PlanMin, SourceMax, MechanicalMin,
        ClippedSummary, ToolClip} \subseteq Nat
    /\ MaxLength >= 2 /\ PlanMin >= 2 /\ MechanicalMin >= 2 /\ ClippedSummary >= 1

VARIABLES thread,    \* state.messages
          memory,    \* context_memory.segments, as the checkpoint has them
          passes,    \* compaction_round
          fitted,    \* the segments of this step, persisted if it publishes
          view,      \* the projection this step works on; <<>> when there is none
          fitting    \* attempts to fit the view; -1 outside of _fit_without_model

compactionVars == <<thread, memory, passes, fitted, view, fitting>>

Message(role, size) == [role |-> role, size |-> size]
\* An item of the projection and the messages of the thread it stands for.
Item(role, size, stands, whole) ==
    [role |-> role, size |-> size, stands |-> stands, whole |-> whole]

Size(messages) ==
    LET total[k \in 0..Len(messages)] == IF k = 0 THEN 0 ELSE total[k - 1] + messages[k].size
    IN total[Len(messages)]

CompactionInit ==
    /\ thread = <<Message("system", 1), Message("user", 1)>>
    /\ memory = <<>> /\ passes = 0
    /\ fitted = <<>> /\ view = <<>> /\ fitting = -1

-----------------------------------------------------------------------------
(* Bundles and spans; a span reaches from start up to, not including, end. *)

\* A call that has its result right behind it.
Bundles ==
    {[start |-> i, end |-> i + 2] :
        i \in {j \in 1..(Len(thread) - 1) : thread[j].role = "call" /\ thread[j + 1].role = "tool"}}

\* The latest two are kept as they are.
OldBundles == {b \in Bundles : Cardinality({c \in Bundles : c.start > b.start}) >= 2}

Overlap(a, b) == a.start < b.end /\ b.start < a.end
Free(segments) ==
    {b \in OldBundles : \A i \in DOMAIN segments : ~Overlap(b, segments[i])}

\* _complete_span: whole bundles, one after the other.
Complete(span, bundles) ==
    /\ span.start < span.end
    /\ \A i \in span.start..(span.end - 1) :
         \E b \in bundles : b.start <= i /\ i < b.end /\ span.start <= b.start /\ b.end <= span.end

Spans(bundles) ==
    {s \in {[start |-> p[1].start, end |-> p[2].end] : p \in bundles \X bundles} :
        Complete(s, bundles)}

Source(span) == SubSeq(thread, span.start, span.end - 1)
SummaryLimit(span) == Size(Source(span)) \div 2
Segment(span, size) == [start |-> span.start, end |-> span.end, summary |-> size]

\* _segments: what is accepted from a checkpoint.
Accepted(segments) ==
    /\ Len(segments) <= MaxSegments
    /\ \A i \in DOMAIN segments :
         /\ segments[i].summary > 0
         /\ segments[i].end <= Len(thread) + 1
         /\ Complete(segments[i], Bundles)
         /\ i > 1 => segments[i - 1].end <= segments[i].start

\* A new segment goes where the sort by start puts it.
Inserted(segments, s) ==
    LET p == CHOOSE p \in 0..Len(segments) :
                 \A i \in DOMAIN segments : i <= p <=> segments[i].start < s.start
    IN SubSeq(segments, 1, p) \o <<s>> \o SubSeq(segments, p + 1, Len(segments))

-----------------------------------------------------------------------------
(* make_plan and _commit: the paid pass *)

Plans == IF Len(memory) >= MaxSegments THEN {}
         ELSE {s \in Spans(Free(memory)) : Size(Source(s)) \in PlanMin..SourceMax}

\* The largest; of equal ones the first that the scan meets.
Best(s) == \A t \in Plans :
    \/ Size(Source(s)) > Size(Source(t))
    \/ /\ Size(Source(s)) = Size(Source(t))
       /\ s.start < t.start \/ (s.start = t.start /\ s.end <= t.end)

\* The summary is the model's, or the extract that replaces one that was not accepted.
PaidPass ==
    /\ fitting = -1 /\ passes < MaxPasses
    /\ \E s \in Plans : \E size \in 1..SummaryLimit(s) :
          Best(s) /\ memory' = Inserted(memory, Segment(s, size))
    /\ passes' = passes + 1
    /\ view' = <<>>
    /\ UNCHANGED <<thread, fitted, fitting>>

-----------------------------------------------------------------------------
(* mechanical_fit *)

\* _free_runs: what can be archived in one piece and not in a longer one.
FreeRuns == LET spans == Spans(Free(memory))
            IN {s \in spans : \A t \in spans : s # t => ~(t.start <= s.start /\ s.end <= t.end)}

\* Each run becomes a segment with an extract, oldest first, until enough is freed.
WithRun(acc, run, need) ==
    IF acc.saved >= need \/ Len(acc.segments) >= MaxSegments \/ Size(Source(run)) < MechanicalMin
    THEN acc
    ELSE [segments |-> Inserted(acc.segments, Segment(run, SummaryLimit(run))),
          saved |-> acc.saved + Size(Source(run)) - SummaryLimit(run)]

\* Then the oldest summaries are shortened.
Shortened(acc, i, need) ==
    LET size == acc.segments[i].summary
    IN IF acc.saved >= need \/ size <= ClippedSummary THEN acc
       ELSE [segments |-> [acc.segments EXCEPT ![i].summary = ClippedSummary],
             saved |-> acc.saved + size - ClippedSummary]

MechanicalFit(need) ==
    LET runs == FreeRuns
        archived[i \in 0..Len(thread)] ==
            IF i = 0 THEN [segments |-> memory, saved |-> 0]
            ELSE IF \E run \in runs : run.start = i
                 THEN WithRun(archived[i - 1], CHOOSE run \in runs : run.start = i, need)
                 ELSE archived[i - 1]
        all == archived[Len(thread)]
        shortened[i \in 0..Len(all.segments)] ==
            IF i = 0 THEN all ELSE Shortened(shortened[i - 1], i, need)
    IN shortened[Len(all.segments)].segments

-----------------------------------------------------------------------------
(* project_messages and fit_projection *)

\* What stands in the projection at a place of the thread: the message, or at its start
\* the summary of an archived span.
Archives(segments, i) ==
    {k \in DOMAIN segments : segments[k].start <= i /\ i < segments[k].end}
ItemsAt(segments, i) ==
    IF Archives(segments, i) = {} THEN <<Item(thread[i].role, thread[i].size, {i}, TRUE)>>
    ELSE LET s == segments[CHOOSE k \in Archives(segments, i) : TRUE]
         IN IF i = s.start THEN <<Item("memory", s.summary, s.start..(s.end - 1), FALSE)>>
            ELSE <<>>

Projection(segments) ==
    LET shown[i \in 0..Len(thread)] ==
            IF i = 0 THEN <<>> ELSE shown[i - 1] \o ItemsAt(segments, i)
    IN shown[Len(thread)]

Positions(v, role) == {i \in DOMAIN v : v[i].role = role}
\* All before a place but the system message, which is the first of a thread.
Older(v, cut) == SubSeq(v, 2, cut - 1)
LaterTurns(v) == Positions(v, "user") \ {Min(Positions(v, "user"))}

\* Mutant: the cut may fall on any message.
CutAnywhere(v, need) ==
    LET enough == {i \in 2..Max(Positions(v, "user")) : Size(Older(v, i)) >= need}
    IN IF enough # {} THEN Min(enough) ELSE Max(Positions(v, "user"))

\* The oldest turns, up to a message of the owner, the latest one at most.
Cut(v, need) ==
    LET enough == {i \in LaterTurns(v) : Size(Older(v, i)) >= need}
    IN IF enough # {} THEN Min(enough) ELSE Max(LaterTurns(v))

\* A note takes the place of what was left out.
LeftOut(v, cut) ==
    LET gone == Older(v, cut)
    IN IF gone = <<>> THEN v
       ELSE <<v[1], Item("note", 1, UNION {gone[i].stands : i \in DOMAIN gone}, FALSE)>>
            \o SubSeq(v, cut, Len(v))

\* One result clipped, the largest of those that still can be.
Clippable(v) == {i \in Positions(v, "tool") : v[i].size > ToolClip}
Largest(v) == CHOOSE i \in Clippable(v) : \A j \in Clippable(v) :
                  v[i].size > v[j].size \/ (v[i].size = v[j].size /\ i <= j)
Clipped(acc, need) ==
    IF acc.saved >= need \/ Clippable(acc.items) = {} THEN acc
    ELSE LET i == Largest(acc.items)
         IN [items |-> [acc.items EXCEPT ![i].size = ToolClip, ![i].whole = FALSE],
             saved |-> acc.saved + acc.items[i].size - ToolClip]

FitView(v, need) ==
    LET cut == IF LaterTurns(v) # {} THEN LeftOut(v, Cut(v, need)) ELSE v
        clipped[n \in 0..Len(cut)] ==
            IF n = 0 THEN [items |-> cut, saved |-> Size(v) - Size(cut)]
            ELSE Clipped(clipped[n - 1], need)
    IN clipped[Len(cut)].items

-----------------------------------------------------------------------------
(* The thread grows, and a model step shows it to the model *)

Grows(messages) ==
    /\ fitting = -1 /\ Len(thread) + Len(messages) <= MaxLength
    /\ thread' = thread \o messages
    /\ view' = <<>>
    /\ UNCHANGED <<memory, passes, fitted, fitting>>

OwnerWrites == Grows(<<Message("user", 1)>>)
ToolReturns == \E size \in ResultSizes : Grows(<<Message("call", 1), Message("tool", size)>>)
\* The owner writes past a call that is still pending.
CallAbandoned == Grows(<<Message("call", 1), Message("user", 1)>>)

\* A publication ends the request, and the count of paid passes with it, unless its calls
\* are native ones: those are executed within the request.
RoundAfter == {0, passes}

\* Below the trigger.
ShowAsIs ==
    /\ fitting = -1
    /\ view' = Projection(memory) /\ passes' \in RoundAfter
    /\ UNCHANGED <<thread, memory, fitted, fitting>>

\* Above it with no plan, or with the paid pass spent: what follows calls no model.
BeginFit ==
    /\ fitting = -1 /\ (Plans = {} \/ passes >= MaxPasses)
    /\ \E need \in Needs : fitted' = MechanicalFit(need)
    /\ view' = Projection(fitted')
    /\ fitting' = 0
    /\ UNCHANGED <<thread, memory, passes>>

\* Still above the limit: one more attempt, unless the last one freed nothing.
FitMore ==
    /\ fitting \in 0..(FitAttempts - 1)
    /\ \E need \in Needs : view' = FitView(view, need)
    /\ Size(view') < Size(view)
    /\ fitting' = fitting + 1
    /\ UNCHANGED <<thread, memory, passes, fitted>>

\* The generation is published, and with it the new segments.
ShowFitted ==
    /\ fitting >= 0
    /\ memory' = fitted /\ passes' \in RoundAfter
    /\ fitted' = <<>> /\ fitting' = -1
    /\ UNCHANGED <<thread, view>>

\* It does not fit, or it cannot be counted: the checkpoint keeps what it had.
FitRefused ==
    /\ fitting >= 0
    /\ fitted' = <<>> /\ view' = <<>> /\ fitting' = -1
    /\ UNCHANGED <<thread, memory, passes>>

CompactionNext ==
    \/ OwnerWrites \/ ToolReturns \/ CallAbandoned
    \/ ShowAsIs \/ PaidPass \/ BeginFit \/ FitMore \/ ShowFitted \/ FitRefused

CompactionSpec == CompactionInit /\ [][CompactionNext]_compactionVars

-----------------------------------------------------------------------------
(* Properties *)

CompactionTypeOK ==
    /\ Len(thread) \in 2..MaxLength
    /\ passes \in 0..MaxPasses /\ fitting \in -1..FitAttempts
    /\ Len(memory) <= MaxSegments /\ Len(fitted) <= MaxSegments

Shown(i) == {k \in DOMAIN view : i \in view[k].stands}
Latest(role) == Max({i \in DOMAIN thread : thread[i].role = role})

\* No step leaves segments behind that the next step would refuse as damaged.
MemoryAccepted == Accepted(memory) /\ Accepted(fitted)

\* Every message of the thread stands in the view exactly once and in order: as itself,
\* in one summary or under one note.
OnceInOrder ==
    /\ \A i \in DOMAIN thread : Cardinality(Shown(i)) = 1
    /\ \A i, j \in DOMAIN thread : i < j /\ thread[i].role # "system" =>
         \A k \in Shown(i), l \in Shown(j) : k <= l

\* A call and its result are shown together or are both in the same summary or note.
PairsTogether ==
    \A b \in Bundles : \A k \in Shown(b.start), l \in Shown(b.start + 1) :
        k = l \/ (view[k].role = "call" /\ view[l].role = "tool" /\ l = k + 1)

\* System messages, the owner's latest message and every message of the owner that is
\* shown are whole; the latest two bundles are never archived.
OwnerIsHeard ==
    /\ \A i \in DOMAIN thread : thread[i].role = "system" \/ i = Latest("user") =>
         \A k \in Shown(i) : view[k].stands = {i} /\ view[k].whole
    /\ \A k \in DOMAIN view : view[k].role = "user" => view[k].whole
    /\ \A b \in Bundles : Cardinality({c \in Bundles : c.start > b.start}) < 2 =>
         \A k \in Shown(b.start) : view[k].role # "memory"

\* What the model is shown of a thread is sound whatever was archived, left out and
\* clipped before, and the checkpoint is one the next step accepts.
ProjectionSound == MemoryAccepted /\ (view # <<>> => OnceInOrder /\ PairsTogether /\ OwnerIsHeard)
===============================================================================
