SPECIFICATION Spec
CONSTANTS
    Sectors = {"health"}
    Multipliers = {15000}
    Stakes = {1000}
    StartBlock = 1
    CirculatingSupply = 39
    OperatorVotingPower = 2
    ProposalBlocks = 1
    Buffer = 1
    SyncedBlocks = {1}
    MaxProposals = 3
    MaxVotes = 2
    MaxBlock = 3
INVARIANTS
    AcknowledgedIsSaved
    OneEventPerExecution
    RulesFollowEvents
PROPERTIES
    DecidedIsFinal
    RulesCatchUp
