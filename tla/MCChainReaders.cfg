SPECIFICATION ReaderSpec
CONSTANTS
    Hashes <- MCHashes
    Genesis <- MCGenesis
    NoHash = NoHash
    Works = {0, 1}
    Seeds = {seed}
    Carriers <- MCCarriers
    Limit = 2
INVARIANTS
    CanonicalIsAncestryOfTip
    NumberIndexIsCanonicalChain
    SnapshotIsOwnBranch
    AnswersMissNothingSettled
    PastCallSeesOneBranch
PROPERTIES
    ImplementsHeaviestTip
