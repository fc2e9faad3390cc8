SPECIFICATION Spec
CONSTANTS
    Users = {"a", "b"}
    Miners = {"b"}
    Architect = "architect"
    Escrow = "escrow"
    Registry = "registry"
    SearchPrecompile = "precompile"
    Txs <- MCTxs
    Pages <- MCPages
    Terms = {"n"}
    HostOf <- MCHostOf
    Difficulty = 3
    Endowment <- MCEndowment
    MaxDepth = 2
    LinksPerProof = 2
    PendingTaskLimit = 2
INVARIANTS
    SupplyIsConserved
    EscrowCoversOpenTasks
    MentionsMatchIndex
    FrontierIsBounded
    BundlingEarnsNoWork
PROPERTY
    SettledIsFinal
CHECK_DEADLOCK FALSE
