SPECIFICATION Spec
CONSTANTS
    K = 1
    MAX_MERGESET_SIZE = 1000
    KNOWN_SCORES_PRUNE_DEPTH = 2
    MaxDagParents = 1
    Hash = {1,2,3,4}
    Genesis = 2
    BlockWork <- SomeWork
INVARIANT BlueWorkIsAccumulated
CHECK_DEADLOCK FALSE
