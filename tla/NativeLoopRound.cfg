SPECIFICATION FairSpec
CONSTANTS
    MaxActions = 4
    ConsultLimit = 1
    MaxCompactions = 1
    MaxTurns = 2
    Shapes <- MCShapes
INVARIANTS RequestStartsFromZero
CHECK_DEADLOCK FALSE
