--------------------------- MODULE SemanticIndex ---------------------------
(***************************************************************************)
(* msty_semantic.py: one encoder and one index for the whole process,      *)
(* loaded on demand. Requests read both without the lock; the background   *)
(* thread and the deploy's warm-up fill them under it, and the lock stays  *)
(* theirs while the model is loaded. Each read, each wait for the lock and *)
(* each end of a long computation is an action.                            *)
(***************************************************************************)
EXTENDS Integers

CONSTANTS Requests,   \* calls of select() that may be under way at once
          Warmers,    \* callers of warmup()
          Background  \* the thread of _start_background

Loaders == Warmers \cup {Background}
Threads == Requests \cup Loaders
Nobody == "nobody"

ASSUME SemanticAssumption ==
    /\ Requests \cap Warmers = {}
    /\ Background \notin Requests \cup Warmers
    /\ Nobody \notin Threads

VARIABLES encoder,      \* _ENCODER: not tried, an object, or the reason it failed
          index,        \* _INDEX
          indexFailed,  \* _INDEX_FAILED
          lock,         \* the thread that holds _LOCK
          doing,        \* where each thread is
          told,         \* what each request was told last
          loads, builds \* history: how often the model was loaded, the index computed

semanticVars == <<encoder, index, indexFailed, lock, doing, told, loads, builds>>

To(t, place) == doing' = [doing EXCEPT ![t] = place]

SemanticInit ==
    /\ encoder = "untried" /\ index = "none" /\ indexFailed = FALSE
    /\ lock = Nobody
    /\ doing = [t \in Threads |-> "idle"]
    /\ told = [r \in Requests |-> "nothing"]
    /\ loads = 0 /\ builds = 0

-----------------------------------------------------------------------------
(* select() and _start_background() of a request. *)

\* With an index the request is answered with its hits: the encoder is read after the
\* index, and without the lock.
SelectHits(r) ==
    /\ doing[r] = "idle" /\ index # "none"
    /\ told' = [told EXCEPT ![r] = "hits"]
    /\ UNCHANGED <<encoder, index, indexFailed, lock, doing, loads, builds>>

SelectMisses(r) ==
    /\ doing[r] = "idle" /\ index = "none"
    /\ To(r, "asks")
    /\ UNCHANGED <<encoder, index, indexFailed, lock, loads, builds, told>>

\* The layer is off until the process ends: the request is told so.
AsksDisabled(r) ==
    /\ doing[r] = "asks" /\ (encoder = "failed" \/ indexFailed)
    /\ To(r, "idle")
    /\ told' = [told EXCEPT ![r] = "disabled"]
    /\ UNCHANGED <<encoder, index, indexFailed, lock, loads, builds>>

AsksForLock(r) ==
    /\ doing[r] = "asks" /\ encoder # "failed" /\ ~indexFailed
    /\ To(r, "waits")
    /\ UNCHANGED <<encoder, index, indexFailed, lock, loads, builds, told>>

\* Under the lock the first request starts the thread; each one is told "warming".
StartBackground(r) ==
    /\ doing[r] = "waits" /\ lock = Nobody
    /\ doing' = [doing EXCEPT ![r] = "idle",
                              ![Background] = IF @ = "idle" THEN "tests" ELSE @]
    /\ told' = [told EXCEPT ![r] = "warming"]
    /\ UNCHANGED <<encoder, index, indexFailed, lock, loads, builds>>

-----------------------------------------------------------------------------
(* _index(): the background thread and warmup(). *)

Warmup(w) ==
    /\ w \in Warmers /\ doing[w] = "idle"
    /\ To(w, "tests")
    /\ UNCHANGED <<encoder, index, indexFailed, lock, loads, builds, told>>

Settled == index # "none" \/ indexFailed

\* The test without the lock.
Tests(t) ==
    /\ doing[t] = "tests"
    /\ To(t, IF Settled THEN "ended" ELSE "locks")
    /\ UNCHANGED <<encoder, index, indexFailed, lock, loads, builds, told>>

\* Mutant: the index is not looked at again under the lock.
LocksAndBuilds(t) ==
    /\ doing[t] = "locks" /\ lock = Nobody
    /\ IF encoder = "failed"
         THEN To(t, "ended") /\ UNCHANGED lock
         ELSE To(t, IF encoder = "untried" THEN "loads" ELSE "builds") /\ lock' = t
    /\ UNCHANGED <<encoder, index, indexFailed, loads, builds, told>>

\* The test is repeated under it, and so is that of the encoder.
Locks(t) ==
    /\ doing[t] = "locks" /\ lock = Nobody
    /\ IF Settled \/ encoder = "failed"
         THEN To(t, "ended") /\ UNCHANGED lock
         ELSE To(t, IF encoder = "untried" THEN "loads" ELSE "builds") /\ lock' = t
    /\ UNCHANGED <<encoder, index, indexFailed, loads, builds, told>>

\* Mutant: a failed load leaves the lock taken.
FailureKeepsLock(t) ==
    /\ doing[t] = "loads"
    /\ loads' = loads + 1
    /\ \/ encoder' = "ready" /\ To(t, "builds") /\ UNCHANGED lock
       \/ encoder' = "failed" /\ To(t, "ended") /\ UNCHANGED lock
    /\ UNCHANGED <<index, indexFailed, builds, told>>

LoadEnds(t) ==
    /\ doing[t] = "loads"
    /\ loads' = loads + 1
    /\ \/ encoder' = "ready" /\ To(t, "builds") /\ UNCHANGED lock
       \/ encoder' = "failed" /\ To(t, "ended") /\ lock' = Nobody
    /\ UNCHANGED <<index, indexFailed, builds, told>>

BuildEnds(t) ==
    /\ doing[t] = "builds"
    /\ builds' = builds + 1
    /\ \/ index' = "ready" /\ UNCHANGED indexFailed
       \/ indexFailed' = TRUE /\ UNCHANGED index
    /\ To(t, "ended") /\ lock' = Nobody
    /\ UNCHANGED <<encoder, loads, told>>

RequestStep(r) ==
    SelectMisses(r) \/ AsksDisabled(r) \/ AsksForLock(r) \/ StartBackground(r)
LoaderStep(t) == Tests(t) \/ Locks(t) \/ LoadEnds(t) \/ BuildEnds(t)

SemanticNext ==
    \/ \E r \in Requests : RequestStep(r) \/ SelectHits(r)
    \/ \E t \in Loaders : LoaderStep(t) \/ Warmup(t)

\* The interpreter runs every thread, and loading a model ends, well or not; nobody has
\* to send a request or to warm up.
SemanticFairness ==
    /\ \A r \in Requests : WF_semanticVars(AsksDisabled(r) \/ AsksForLock(r))
                           /\ WF_semanticVars(StartBackground(r))
    /\ \A t \in Loaders : WF_semanticVars(LoaderStep(t))

SemanticSpec == SemanticInit /\ [][SemanticNext]_semanticVars /\ SemanticFairness

-----------------------------------------------------------------------------

SemanticTypeOK ==
    /\ encoder \in {"untried", "ready", "failed"}
    /\ index \in {"none", "ready"} /\ indexFailed \in BOOLEAN
    /\ lock \in Loaders \cup {Nobody}
    /\ told \in [Requests -> {"nothing", "hits", "warming", "disabled"}]
    /\ doing \in [Threads -> {"idle", "asks", "waits", "tests", "locks", "loads", "builds",
                              "ended"}]

\* Whoever asks, warms up or runs in the background at the same time, the model is loaded
\* once and the index computed once in the life of the process, failures included; a
\* failure switches the layer off for good; and a request that sees the index finds the
\* encoder it needs.
OneLoad ==
    /\ loads <= 1 /\ builds <= 1
    /\ indexFailed \/ encoder = "failed" => index = "none"
    /\ index # "none" => encoder = "ready"

\* A request that found no index is answered in the end.
RequestsAnswered == \A r \in Requests : doing[r] = "asks" ~> doing[r] = "idle"
=============================================================================
