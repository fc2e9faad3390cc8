SPECIFICATION Spec
CONSTANTS
    Peers = {"p"}
    Loops = {"blocks", "sync"}
    Penalties = {30}
    Rewards = {10}
    BanDuration = 6
    RecoveryWindow = 2
    RecoveryStep = 5
    MaxDelay = 1
INVARIANTS
    LowScoreMeansBan
PROPERTIES
    BanRunsItsCourse
    PeerIsForgiven
