\* Two commands over one connection, one of them isolated, so that they may
\* wait for each other; drainWork waits for the other one.
CONSTANTS
    NoCmd = NoCmd
    Cmd = {c1, c2}
    Isolated = {c2}
    Detached = {}
    PoolSize = 1
    HasDataSource = TRUE
    Faults = {"connect", "begin", "statement", "commit", "commitReply", "rollback"}
    Drained = {c1}
    ShutdownFaults = {"drain", "destroy"}
SPECIFICATION ShutdownSpec
INVARIANTS
    DrainedAreSpared
    CutLeavesNothing
PROPERTIES
    ShutdownCompletes
