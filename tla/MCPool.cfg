SPECIFICATION Spec
CONSTANTS
    Senders <- MCSenders
    Txs <- MCTxs
    Limit = 3
    SenderLimit = 2
    Batches <- MCBatches
    DrainLimits <- MCDrainLimits
INVARIANTS
    IndexesMatchPending
PROPERTIES
    DrainKeepsSenderOrder
    ImplementsPendingQueue
