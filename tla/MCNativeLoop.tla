----------------------------- MODULE MCNativeLoop -----------------------------
(* NativeLoop with four actions, two owner turns and one batch of each kind.  *)
EXTENDS NativeLoop

Batch(n, t, w, e, c, ok) ==
    [native |-> n, todos |-> t, swarm |-> w, external |-> e, consult |-> c, planOk |-> ok]

MCShapes == {
    Batch(2, 0, 0, 0, 0, FALSE),    \* native calls
    Batch(1, 0, 0, 2, 0, FALSE),    \* a mixed batch
    Batch(0, 0, 0, 1, 1, FALSE),    \* external calls and a consultation
    Batch(0, 2, 0, 0, 0, FALSE),    \* two todo updates
    Batch(0, 1, 1, 0, 0, TRUE),     \* a swarm beside a todo update
    Batch(0, 0, 1, 0, 0, FALSE)}    \* a swarm whose plan does not parse

===============================================================================
