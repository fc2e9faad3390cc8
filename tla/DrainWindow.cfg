SPECIFICATION Spec
CONSTANTS
    Senders <- MCSenders
    Txs <- TasksOfOneNonce
    Limit = 0
    SenderLimit = 0
    Frontier = {}
    MempoolTaskBatch = 8
    TaskFailureLimit = 3
    QuarantineLimit = 2
    CrawlOutcomes = {"ok"}
    Ownerships <- OwnsTasksOfOneNonce
    Branches = {}
INVARIANT
    HeldNoncesAreNotGivenAgain
