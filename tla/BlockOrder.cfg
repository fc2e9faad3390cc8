SPECIFICATION Spec
CONSTANTS
    Senders <- MCSenders
    Txs <- TaskThenTransfer
    Limit = 0
    SenderLimit = 0
    Frontier = {}
    MempoolTaskBatch = 8
    TaskFailureLimit = 3
    QuarantineLimit = 2
    CrawlOutcomes = {"ok"}
    Ownerships <- OwnsTaskThenTransfer
    Branches = {}
INVARIANT
    BlockKeepsSenderOrder
