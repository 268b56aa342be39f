CONSTANTS
    Graphs = {"native", "legacy"}
    Asks <- MCAsks
    Offers <- MCOffers
    Batches <- MCBatches
    MaxActions = 4
    GateLimit = 2
    MaxTurns = 2
SPECIFICATION TaskSpec


CHECK_DEADLOCK FALSE
PROPERTY GateIsBounded
