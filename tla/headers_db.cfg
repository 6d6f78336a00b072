SPECIFICATION FairSpec
CONSTANTS
    g = g
    a1 = a1
    a2 = a2
    a3 = a3
    a4 = a4
    b2 = b2
    c2 = c2
    c3 = c3
    x3 = x3
    y4 = y4
    none = none
    Header <- MCHeader
    Genesis = g
    Parent <- MCParent
    Work <- MCWork
    Batches <- MCBatches
    InvalidBlockSets <- MCInvalidBlockSets
INVARIANTS
    TypeOK
    TreeMatchesHeaders
    LongestChainIsIndexed
    TipIsHeaviest
    PruneAssertions
    QueueReplaysToChain
    LevelDbHoldsAChain
PROPERTIES
    TipOnlyGetsHeavier
    CloseSavesTheChain
    ImplementsHeaviestChain
    CallReturns
    ChainIsSaved
