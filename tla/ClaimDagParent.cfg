CONSTANTS
    K = 1
    MAX_MERGESET_SIZE = 1000
    BlockWork <- UnitWork
    KNOWN_SCORES_PRUNE_DEPTH = 2
    Hash = {1, 2, 3, 4}
    Genesis = 1
    Networks <- DagNetworks
    DAG_MERGESET_PRUNE_DEPTH = 2
    MaxCrashes = 0
    OperatorCalls = {"invalidateblock"}
    MaxOperatorCalls = 1
SPECIFICATION Spec
PROPERTIES
    NoInvalidDagParent
CHECK_DEADLOCK FALSE
