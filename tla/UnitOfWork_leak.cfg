\* startTransaction rejects outside the try block.
CONSTANTS
    NoCmd = NoCmd
    Cmd = {c1, c2}
    Isolated = {}
    Detached = {}
    PoolSize = 2
    HasDataSource = TRUE
    Faults = {"begin"}
SPECIFICATION Spec
INVARIANTS
    NoConnectionLeak
CHECK_DEADLOCK FALSE
