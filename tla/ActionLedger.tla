----------------------------- MODULE ActionLedger -----------------------------
(*****************************************************************************)
(* What the task loop promises about the actions the model asks for: a batch  *)
(* is charged to one common quota before anything of it runs, it is performed *)
(* only once permission for it was given, at most once, and a charge is never *)
(* given back.  (An external action is performed by the client: for this      *)
(* ledger it is performed when the graph consumes its result.)                *)
(*****************************************************************************)
EXTENDS Integers

CONSTANT MaxActions         \* msty_execution.MAX_ACTIONS

VARIABLES
    spent,      \* actions charged so far
    open,       \* actions of the batch that is charged and not performed
    granted,    \* permission to perform the open batch
    done        \* actions performed

ledger == <<spent, open, granted, done>>

Init ==
    /\ spent = 0
    /\ open = 0
    /\ granted = FALSE
    /\ done = 0

\* A batch is charged as a whole, or not at all.
Charge(n) ==
    /\ open = 0
    /\ spent + n <= MaxActions
    /\ spent' = spent + n
    /\ open' = n
    /\ UNCHANGED <<granted, done>>

Grant ==
    /\ open > 0
    /\ granted' = TRUE
    /\ UNCHANGED <<spent, open, done>>

\* The batch is performed, possibly in part: what is left of it is never performed.
Perform(n) ==
    /\ granted
    /\ done' = done + n
    /\ open' = 0
    /\ granted' = FALSE
    /\ UNCHANGED spent

\* Nobody will give the permission any more.
Abandon ==
    /\ ~granted
    /\ open' = 0
    /\ UNCHANGED <<spent, granted, done>>

Next ==
    \/ \E n \in 1..MaxActions : Charge(n)
    \/ Grant
    \/ \E n \in 0..open : Perform(n)
    \/ Abandon

Spec == Init /\ [][Next]_ledger

===============================================================================
