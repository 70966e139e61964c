\* A flagged, validated and cached query, and a locked command for the workflow
\* engine, flagged, validated and cached as well, that is run here if the engine
\* fails and that the engine calls back for twice.
CONSTANTS
    Call = {q, w}
    Query = {q}
    Flagged = {q, w}
    Validated = {q, w}
    Workflow = {w}
    Cached = {q, w}
    Locked = {w}
    Skips = {w}
    Dispatch = {d1, d2}
    Ttl = 2
    MaxRuns = 3
    Faults = {"validator", "engine", "redis", "handler", "statement", "database"}
SPECIFICATION FairSpec
INVARIANTS
    ReplyTellsEffect
    RefusedGetsNothing
    RunHereOrHandedOver
    StaleWithinTtl
    MetricsTellReply
    PayloadIsMasked
PROPERTIES
    EveryCallIsAnswered
CHECK_DEADLOCK FALSE
