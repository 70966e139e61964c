\* A caller without a lock (c3) may nest either of two locked commands.
CONSTANTS
    NoCmd = NoCmd
    Cmd = {c1, c2, c3}
    Key = {k1}
    Locked = {c1, c2}
    Ttl = 1
    AcquireTimeout = 1
    RetryDelay = 1
    LockFaults = {}
    Isolated = {}
    Detached = {}
    PoolSize = 2
    HasDataSource = TRUE
    Faults = {}
SPECIFICATION LockedSpec
INVARIANTS
    NoLostUpdateWhenNested
CHECK_DEADLOCK FALSE
