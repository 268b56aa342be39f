CONSTANTS
    w1 = w1
    w2 = w2
    lead = lead
    NoToken = NoToken
    Calls <- MCCalls
    Workers <- MCWorkers
    Threshold = 3
    Cooldown = 4
    Probe = 10
    WorkerTimeout = 5
SPECIFICATION Spec
INVARIANT OneProbe
