------------------------------- MODULE LoopParts -------------------------------
(***************************************************************************)
(* The parts of one round of the durable loop: the tools the model is      *)
(* offered, the calls of the provider the step pays for, and the journal   *)
(* of the tools that failed. Each reads the thread's messages for itself   *)
(* and no part writes what another reads, so an interleaving of two of     *)
(* them shows nothing that either alone does not: every behaviour here     *)
(* moves one of them, the focus.                                           *)
(***************************************************************************)
EXTENDS Generation, ToolOffer, Recovery

VARIABLE focus

LoopSides == {"generation", "offer", "recovery"}

loopVars == <<focus, vars, offerVars, recoveryVars>>

\* A part out of focus starts in one of its initial states and stays there.
LoopInit ==
    /\ focus \in LoopSides
    /\ Init /\ OfferInit /\ RecoveryInit
    /\ focus # "generation" => ~lowered /\ held = 0 /\ toolsOff /\ streaming = "none"
    /\ focus # "offer" =>
          /\ desk
          /\ supplied = (CHOOSE c \in Catalogs : TRUE)
          /\ text = (CHOOSE t \in OwnerTexts : TRUE)
          /\ choice = (CHOOSE c \in ToolChoices : TRUE)

GenerationMoves ==
    focus = "generation" /\ Next /\ UNCHANGED <<focus, offerVars, recoveryVars>>

OfferMoves ==
    focus = "offer" /\ OfferNext /\ UNCHANGED <<focus, vars, recoveryVars>>

RecoveryMoves ==
    focus = "recovery" /\ RecoveryNext /\ UNCHANGED <<focus, vars, offerVars>>

LoopNext == GenerationMoves \/ OfferMoves \/ RecoveryMoves

LoopSpec == LoopInit /\ [][LoopNext]_loopVars

\* Every part keeps the types of its state.
LoopTypeOK == TypeOK /\ OfferTypeOK /\ RecoveryTypeOK
===============================================================================
