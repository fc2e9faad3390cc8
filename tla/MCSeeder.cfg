SPECIFICATION SeedSpec
CONSTANTS
    f = f
    Senders <- MCSenders
    Txs <- MCTxs
    Limit = 0
    SenderLimit = 2
    Frontier = {f}
    MempoolTaskBatch = 1
    TaskFailureLimit = 2
    QuarantineLimit = 1
    CrawlOutcomes = {"ok", "retry"}
    Ownerships <- MCOwnerships
    Branches <- MCBranches
    Seed = "a"
    PlanLength = 3
    BatchSize = 1
    WriteLimit = 1
    MaxLost = 1
CHECK_DEADLOCK FALSE
INVARIANTS
    OutstandingIsBounded
PROPERTIES
    SeedingEnds
    
