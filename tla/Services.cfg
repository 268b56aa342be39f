CONSTANTS
    Importers = {i1, i2}
    Reviewers = {r1, r2}
    Texts = {"a"}
    MaxRecords = 1
    Batches <- MCBatches
    BudgetCap = 2
    AttemptBudget = 2
    Requests = {q1, q2}
    Warmers = {w1, w2}
    Background = bg
    Users = {u1, u2, u3}
    MaxBoxes = 4
    ResultSizes = {1, 4}
    Needs = {1, 4}
    MaxLength = 11
    MaxSegments = 2
    MaxPasses = 1
    FitAttempts = 3
    PlanMin = 3
    SourceMax = 7
    MechanicalMin = 2
    ClippedSummary = 1
    ToolClip = 2
    Subtasks <- MCSubtasks
    Slots = 3
    WorkerTimeout = 1
SPECIFICATION ServicesSpec
INVARIANTS ServicesTypeOK InOnePlaceUnlessContested MeterHonest WritesStayInScratch OneLoad ProjectionSound
           AccountingHonest ReportFollowsPlan WithinOneDeadline
PROPERTIES ThreadKeepsSandbox RequestsAnswered SwarmEnds
CHECK_DEADLOCK FALSE
