SPECIFICATION SyncSpec
CONSTANTS
    Blocks <- MCBlocks
    Genesis = 0
    Parent <- MCParent
    Number <- MCNumber
    Total <- MCTotal
    Refusable = {2}
    gossip = gossip
    sync = sync
    Workers = {gossip, sync}
    p1 = p1
    p2 = p2
    Peers = {p1, p2}
    Starts <- MCStarts
    BatchLimit = 2
    MaxSyncs = 1
    MaxAccepts = 1
    MaxGossip = 2
INVARIANTS
    BufferMapsAgree
    NoChildLeftBehindInTurn
    HonestPeerIsNotBlamed
PROPERTIES
    ReceivedChainIsStored
    SyncReachesPeer
CHECK_DEADLOCK FALSE
