\* One replica, two events, every fault, processes that end and restart.
CONSTANTS
    Event = {1, 2}
    Instance = {i1}
    BatchSize = 2
    MaxAttempts = 3
    HasRedis = TRUE
    Faults = {"xadd", "xaddReply", "save", "saveReply", "crash"}
SPECIFICATION FairSpec
INVARIANTS
    PublishedWasDelivered
    SettledWithCause
    FailedIsDeadLettered
    NoOvertaking
    DuplicateOnlyAfterFault
PROPERTIES
    KeepsPromise
    EventuallySettled
