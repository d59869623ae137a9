CONSTANTS
    K = 1
    MAX_MERGESET_SIZE = 3
    BlockWork <- SomeWork
    KNOWN_SCORES_PRUNE_DEPTH = 2
    Hash = {1, 2, 3, 4, 5}
    Genesis = 2
    MaxDagParents = 3
SPECIFICATION Spec
INVARIANTS
    TypeOK
    ScoreAboveParents
    TipsAreLeaves
    TipIndexesAgree
    BestBlockIsMinedOn
    TopologicalOrderExact
    VirtualChainFromBest
CHECK_DEADLOCK FALSE
