\* Three commands in every dispatch tree, one isolated and one not awaited.
\* One command may wait for a connection inside another, so two connections
\* are enough for everybody to settle. Connections that leak may empty the
\* pool: then the system really stops.
CONSTANTS
    NoCmd = NoCmd
    Cmd = {c1, c2, c3}
    Isolated = {c2}
    Detached = {c3}
    PoolSize = 2
    HasDataSource = TRUE
    Faults = {"connect", "begin", "statement", "commit", "commitReply", "rollback"}
SPECIFICATION FairSpec
INVARIANTS
    SuccessIsDurable
    FailureLeavesNothing
    RunnerOfUnit
    ConnectionLifecycle
    NeverStuck
PROPERTIES
    KeepsPromise
    EveryCommandSettles
CHECK_DEADLOCK FALSE
