CONSTANTS
    OutputLimit = 4
    Reserve = 1
    MinRetry = 1
    FallbackLimit = 3
    Tools <- MCTools
    Role <- MCRole
    Domain <- MCDomain
    Order <- MCOrder
    Alphabet <- MCAlphabet
    Twins = {"save"}
    Passthrough = "run"
    OwnerTexts <- MCTexts
    Catalogs <- MCCatalogs
    ToolChoices = {"auto", "none"}
    MaxSelected = 3
    MaxRequested = 1
    OfferBatch = 1
    OfferTurns = 2
    OfferSteps = 3
    edit = edit
    read = read
    remote = remote
    Calls <- MCCalls
    External <- MCExternal
    Idempotent <- MCIdempotent
    AttemptBudget = 2
    TransientRetries = 1
    LogLimit = 3
    MaxParallel = 2
    MaxMessages = 5
    MaxTurns = 2
SPECIFICATION LoopSpec
INVARIANTS BudgetPerCall
CHECK_DEADLOCK FALSE
