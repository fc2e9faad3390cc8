SPECIFICATION Spec
CONSTANTS
    Crawls <- MCCrawls
    Hosts = {"h"}
    GlobalLimit = 2
    PerHostLimit = 1
    Validators = {"v1", "v2", "v3"}
    Others = {"miner"}
    Fooled = {"v1"}
    Sectors = {1}
    Multipliers = {15000}
    BaseBounty = 100
    BaseDifficulty = 3
    Host = "h"
    Modes = {"strict", "sampled", "opportunistic"}
    SampleSize = 1
    MaxProofs = 2
    MaxForged = 1
    MaxChanges = 1
INVARIANTS
    SlotsMatchHolders
    ForgedProofIsRefused
    PriceWasInForce
PROPERTY
    ValidationEnds
