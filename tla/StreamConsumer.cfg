\* Two consumers of a group that end and restart, answers of up to two
\* entries, one of which is not for them; every call may fail.
CONSTANTS
    Last = 2
    Instance = {i1, i2}
    Count = 2
    Foreign = {1}
    Faults = {"handler", "ack", "ackReply", "read", "trim", "stop"}
SPECIFICATION FairSpec
INVARIANTS
    DuplicateOnlyAfterMishap
    PendingWithCause
    OrderKept
PROPERTIES
    KeepsPromise
    EveryEntryTakenUp
