------------------------------- MODULE MCBreaker -------------------------------
(* Instances of Breaker for TLC.  One tick is 15 s, so COOLDOWN_SECONDS = 60   *)
(* is 4 ticks, PROBE_SECONDS = 150 is 10 and WORKER_TIMEOUT_SECONDS = 75 is 5. *)
EXTENDS Breaker, TLC

CONSTANTS w1, w2, lead

MCCalls == {w1, w2, lead}
MCWorkers == {w1, w2}

===============================================================================
