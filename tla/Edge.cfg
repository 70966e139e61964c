\* Two concurrent requests, one guarded, one public that may write its own
\* response; four saves over a pool of one connection.
CONSTANTS
    Request = {"first", "second"}
    Header <- MCHeader
    OrgHeader <- MCOrgHeader
    TokenOrg <- MCTokenOrg
    NoId = "noId"
    NoTenant = "noTenant"
    Public = {"second"}
    Guarded = {"first"}
    Direct = {"second"}
    ErrorType = {"NOT_FOUND", "CONFLICT", "VALIDATION_ERROR", "undefined"}
    Save = {"a", "b", "c", "d"}
    Saver <- MCSaver
    EntityOrg <- MCEntityOrg
    Uuid = {"org1", "org2", "org3"}
    Overlapping = {"second"}
    Connection = {"k"}
    NoConnection = "noConnection"
SPECIFICATION EdgeSpec
INVARIANTS
    StatusTellsOutcome
    OwnCorrelation
    UnderOwnTenant
    NothingInherited
PROPERTIES
    EveryRequestAnswered
