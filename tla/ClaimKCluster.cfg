SPECIFICATION SpecExtremeHash
CONSTANTS
    K = 1
    MAX_MERGESET_SIZE = 1000
    KNOWN_SCORES_PRUNE_DEPTH = 2
    MaxDagParents = 1
    Hash = {1,2,3,4,5,6}
    Genesis = 3
    BlockWork <- SomeWork
INVARIANT BlueAntiConeAtMostK
CHECK_DEADLOCK FALSE
