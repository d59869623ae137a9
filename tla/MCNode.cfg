CONSTANTS
    K = 1
    MAX_MERGESET_SIZE = 2
    BlockWork <- UnitWork
    KNOWN_SCORES_PRUNE_DEPTH = 2
    Hash = {1, 2, 3, 4}
    Genesis = 1
    Networks <- TreesAndDags
    DAG_MERGESET_PRUNE_DEPTH = 2
    MaxCrashes = 0
    OperatorCalls = {}
    MaxOperatorCalls = 0
SPECIFICATION Spec
INVARIANTS
    CandidatesExact
    UnlinkedExact
    QuiescentTipIsBest
    StoredParentsComplete
PROPERTIES
    SortKeysFixed
    NeverReleasedWorse
    CandidateResolved
CHECK_DEADLOCK FALSE
