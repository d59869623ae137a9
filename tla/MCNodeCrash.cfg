CONSTANTS
    K = 1
    MAX_MERGESET_SIZE = 1000
    BlockWork <- UnitWork
    KNOWN_SCORES_PRUNE_DEPTH = 2
    Hash = {1, 2, 3, 4}
    Genesis = 1
    Networks <- BadParentsAndDiamonds
    DAG_MERGESET_PRUNE_DEPTH = 2
    MaxCrashes = 1
    OperatorCalls = {}
    MaxOperatorCalls = 0
SPECIFICATION Spec
INVARIANTS
    TypeOK
    CandidatesExact
    UnlinkedExact
    StoredParentsComplete
    QuiescentTipIsBest
    StartsAgain

    
CHECK_DEADLOCK FALSE
