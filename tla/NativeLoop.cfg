SPECIFICATION FairSpec
CONSTANTS
    MaxActions = 4
    ConsultLimit = 1
    MaxCompactions = 1
    MaxTurns = 2
    Shapes <- MCShapes
INVARIANTS QuotaHolds OnePaidPass SwarmIsAdmitted
PROPERTIES TicketsAdvanceOnce EveryRunEnds LedgerSpec
CHECK_DEADLOCK FALSE
