------------------------------ MODULE MCTaskGate ------------------------------
(* TaskGate with every kind of call, four kinds of owner messages and a quota *)
(* of four actions.                                                           *)
EXTENDS TaskGate

MCAsk(kind, choice) == [control |-> kind = "control", incident |-> kind = "incident",
                        question |-> kind = "question", choice |-> choice]
MCAsks == {MCAsk("question", "auto"), MCAsk("incident", "auto"), MCAsk("control", "auto"),
           MCAsk("plain", "none")}

Plan(tool, open) == [Call(tool) EXCEPT !.open = open]
MCBatches == {<<Call("status")>>, <<Call("plan")>>,
              <<Call("verify")>>, <<Call("plan"), Call("verify")>>,
              <<Plan("task_plan", TRUE)>>, <<Plan("todos", TRUE), Call("act")>>,
              <<Plan("todos", FALSE), Plan("todos", TRUE)>>,
              <<Call("act"), Plan("task_plan", FALSE)>>, <<Call("site_write")>>,
              <<Call("site_status")>>}
MCOffers == {External, {"plan", "act", "site_write", "task_plan"}}
===============================================================================
