CONSTANTS
    K = 1
    MAX_MERGESET_SIZE = 1000
    BlockWork <- UnitWork
    KNOWN_SCORES_PRUNE_DEPTH = 2
    Hash = {1, 2, 3}
    Genesis = 1
    Networks <- Trees
    DAG_MERGESET_PRUNE_DEPTH = 2
    MaxCrashes = 0
    OperatorCalls = {}
    MaxOperatorCalls = 0
SPECIFICATION Spec
INVARIANTS
    TemplateParentsConcurrent
CHECK_DEADLOCK FALSE
