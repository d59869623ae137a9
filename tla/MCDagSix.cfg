CONSTANTS
    K = 1
    MAX_MERGESET_SIZE = 1000
    BlockWork <- SomeWork
    KNOWN_SCORES_PRUNE_DEPTH = 2
    Hash = {1, 2, 3, 4, 5, 6}
    Genesis = 3
    MaxDagParents = 1
SPECIFICATION SpecExtremeHash
INVARIANTS
    
    MergesetExact
    
    TruncationExact
CHECK_DEADLOCK FALSE
