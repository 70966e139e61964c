\* Two commands contend for one key and a third needs none; the TTL is long
\* enough to cover a handler and short enough to run out under one.
CONSTANTS
    NoCmd = NoCmd
    Cmd = {c1, c2, c3}
    Key = {k1}
    Locked = {c1, c2}
    Ttl = 2
    AcquireTimeout = 2
    RetryDelay = 1
    Faults = {"resend", "set", "release", "crash"}
SPECIFICATION FairSpec
INVARIANTS
    MutexWithinLease
    NoOrphanLock
    ConflictOnlyAfterContention
PROPERTIES
    OnlyOwnerReleases
    EveryCommandSettles
