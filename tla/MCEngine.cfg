SPECIFICATION Spec
CONSTANTS
    Senders <- MCSenders
    Txs <- MCTxs
    Limit = 0
    SenderLimit = 0
    Frontier = {}
    MempoolTaskBatch = 2
    TaskFailureLimit = 2
    QuarantineLimit = 1
    CrawlOutcomes = {"ok", "retry", "terminal"}
    Ownerships <- MCOwnerships
    Branches <- MCBranches
INVARIANTS
    MinedTasksKeepSenderOrder
    BlockRespectsCutoffs
PROPERTY
    AcceptedWorkIsKeptUntilMined
