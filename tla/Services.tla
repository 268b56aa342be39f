-------------------------------- MODULE Services --------------------------------
(***************************************************************************)
(* The parts of the agent that keep state of their own beside the loop:    *)
(* the candidate inbox, the delegated run, the semantic index, the sandbox *)
(* cache, the compaction of the thread and an admitted swarm. They share   *)
(* no variable, so an interleaving of two of them shows nothing that       *)
(* either alone does not: every behaviour here moves one of them, the      *)
(* focus.                                                                  *)
(***************************************************************************)
EXTENDS CandidateInbox, Subagent, SemanticIndex, SandboxCache, Compaction, Swarm

VARIABLE focus

Parts == {"inbox", "subagent", "semantic", "sandbox", "compaction", "swarm"}

servicesVars == <<focus, inboxVars, subagentVars, semanticVars, sandboxVars, compactionVars, vars>>

\* A part out of focus starts in one of its initial states and stays there.
ServicesInit ==
    /\ focus \in Parts
    /\ InboxInit /\ SubagentInit /\ SemanticInit /\ SandboxInit /\ CompactionInit
    /\ Init                                         \* of the swarm, as are Next and vars
    /\ focus # "inbox" => kind = "kimi"
    /\ focus # "subagent" => role = "auditor" /\ budget = 1
    /\ focus # "sandbox" => template

InboxMoves ==
    /\ focus = "inbox" /\ InboxNext
    /\ UNCHANGED <<focus, subagentVars, semanticVars, sandboxVars, compactionVars, vars>>

SubagentMoves ==
    /\ focus = "subagent" /\ SubagentNext
    /\ UNCHANGED <<focus, inboxVars, semanticVars, sandboxVars, compactionVars, vars>>

SemanticMoves ==
    /\ focus = "semantic" /\ SemanticNext
    /\ UNCHANGED <<focus, inboxVars, subagentVars, sandboxVars, compactionVars, vars>>

SandboxMoves ==
    /\ focus = "sandbox" /\ SandboxNext
    /\ UNCHANGED <<focus, inboxVars, subagentVars, semanticVars, compactionVars, vars>>

CompactionMoves ==
    /\ focus = "compaction" /\ CompactionNext
    /\ UNCHANGED <<focus, inboxVars, subagentVars, semanticVars, sandboxVars, vars>>

SwarmMoves ==
    /\ focus = "swarm" /\ Next
    /\ UNCHANGED <<focus, inboxVars, subagentVars, semanticVars, sandboxVars, compactionVars>>

ServicesNext ==
    \/ InboxMoves \/ SubagentMoves \/ SemanticMoves
    \/ SandboxMoves \/ CompactionMoves \/ SwarmMoves

\* The fairness of the parts that have any.
ServicesSpec == ServicesInit /\ [][ServicesNext]_servicesVars
                /\ (focus = "semantic" => SemanticFairness)
                /\ (focus = "swarm" => SwarmFairness)

\* Every part keeps the types of its state.
ServicesTypeOK == /\ InboxTypeOK /\ SubagentTypeOK /\ SemanticTypeOK
                  /\ SandboxTypeOK /\ CompactionTypeOK /\ TypeOK

\* An admitted swarm ends, although no provider has to answer its workers.
SwarmEnds == focus = "swarm" ~> phase # "running"

===============================================================================
