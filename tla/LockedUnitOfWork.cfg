\* Two locked commands on one key; either may call the other, c2 in a
\* transaction of its own and not awaited.
CONSTANTS
    NoCmd = NoCmd
    Cmd = {c1, c2}
    Key = {k1}
    Locked = {c1, c2}
    Ttl = 2
    AcquireTimeout = 2
    RetryDelay = 1
    LockFaults = {"release"}
    Isolated = {c2}
    Detached = {c2}
    PoolSize = 2
    HasDataSource = TRUE
    Faults = {"statement", "commitReply"}
SPECIFICATION LockedSpec
INVARIANTS
    NoLostUpdate
CHECK_DEADLOCK FALSE
