---------------------------- MODULE SandboxCache ----------------------------
(***************************************************************************)
(* sandbox.py: get_or_create_sandbox for the requests of one thread.       *)
(* `_backends` is read before three awaits and written after them, and is  *)
(* never cleared.                                                          *)
(***************************************************************************)
EXTENDS Integers, FiniteSets

CONSTANTS Users,     \* requests of the thread that may be under way at once
          MaxBoxes   \* bound: sandboxes the service creates

ASSUME SandboxAssumption == MaxBoxes \in Nat

VARIABLES template,  \* does the service have the template
          boxes,     \* sandboxes the service has created, numbered
          cached,    \* _backends[thread_id], 0 if there is none
          user       \* where each request is, and its sandbox

sandboxVars == <<template, boxes, cached, user>>

Away == [at |-> "away", box |-> 0]
Moves(u, place) == user' = [user EXCEPT ![u].at = place]

SandboxInit ==
    /\ template \in BOOLEAN
    /\ boxes = 0 /\ cached = 0
    /\ user = [u \in Users |-> Away]

\* Mutant: the cache is not looked at.
EntersUncached(u) ==
    /\ user[u] = Away
    /\ user' = [user EXCEPT ![u] = [at |-> "template", box |-> 0]]
    /\ UNCHANGED <<template, boxes, cached>>

\* A request of the thread: the cached sandbox serves it at once.
Enters(u) ==
    /\ user[u] = Away
    /\ user' = [user EXCEPT ![u] = IF cached # 0 THEN [at |-> "works", box |-> cached]
                                                 ELSE [at |-> "template", box |-> 0]]
    /\ UNCHANGED <<template, boxes, cached>>

\* _ensure_template asks for the template ...
GetsTemplate(u) ==
    /\ user[u].at = "template"
    /\ Moves(u, IF template THEN "box" ELSE "noTemplate")
    /\ UNCHANGED <<template, boxes, cached>>

\* ... and creates it if it was missing. What the service says to a second creation is
\* not known: it may refuse it.
CreatesTemplate(u) ==
    /\ user[u].at = "noTemplate"
    /\ template' = TRUE
    /\ \/ Moves(u, "box")
       \/ template /\ user' = [user EXCEPT ![u] = Away]
    /\ UNCHANGED <<boxes, cached>>

\* The service creates the sandbox; the request hears of it later.
BoxCreated(u) ==
    /\ user[u].at = "box" /\ boxes < MaxBoxes
    /\ boxes' = boxes + 1
    /\ user' = [user EXCEPT ![u] = [at |-> "created", box |-> boxes + 1]]
    /\ UNCHANGED <<template, cached>>

Stores(u) ==
    /\ user[u].at = "created"
    /\ cached' = user[u].box
    /\ Moves(u, "works")
    /\ UNCHANGED <<template, boxes>>

\* An await raises or is cancelled: nothing is cached.
CreationFails(u) ==
    /\ user[u].at \in {"template", "noTemplate", "box", "created"}
    /\ user' = [user EXCEPT ![u] = Away]
    /\ UNCHANGED <<template, boxes, cached>>

Leaves(u) ==
    /\ user[u].at = "works"
    /\ user' = [user EXCEPT ![u] = Away]
    /\ UNCHANGED <<template, boxes, cached>>

SandboxNext ==
    \E u \in Users : \/ Enters(u) \/ GetsTemplate(u) \/ CreatesTemplate(u) \/ BoxCreated(u)
                     \/ Stores(u) \/ CreationFails(u) \/ Leaves(u)

SandboxSpec == SandboxInit /\ [][SandboxNext]_sandboxVars

-----------------------------------------------------------------------------

Creating == {u \in Users : user[u].at \notin {"away", "works"}}

SandboxTypeOK ==
    /\ template \in BOOLEAN
    /\ boxes \in 0..MaxBoxes /\ cached \in 0..boxes
    /\ user \in [Users -> [at : {"away", "template", "noTemplate", "box", "created", "works"},
                           box : 0..MaxBoxes]]

\* Two requests that overlap may work in two sandboxes. That ends with them: when no
\* creation is under way the thread keeps the sandbox it has, so that a later request
\* finds the files of the earlier ones.
ThreadKeepsSandbox ==
    [][cached # 0 /\ Creating = {} => cached' = cached /\ Creating' = {}]_sandboxVars

=============================================================================
