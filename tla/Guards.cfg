SPECIFICATION Spec

CONSTANTS
    EndpointRequests = {1, 2, 3}
    EndpointAsks <- ModelRequests
    WindowLimit = 2
    MaxWindows = 1
    Entities = {"ann"}
    SessionCalls = {1, 2}
    SessionFor = 2
    AccessFor = 1
    RefreshFor = 2
    MaxSessions = 1
    MaxPairs = 3
    MaxRevoked = 1
    MaxHalfSeconds = 3
    LimitList <- ModelLimits
    Scopes <- ModelScopes
    LimitCalls = {1, 2, 3}
    Resets = {1}
    QuotaRequests = {1, 2, 3}
    Uses <- ModelUses
    RateLimit = 2
    QuotaLimit = 2
    Procs = {1, 2}
    MaxAppended = 2
    Aggregates = {"a", "b"}
    Versions = {1, 2, 3}
    Clients = {1, 2}
    MaxRows = 4
    MaxBegun = 2
    Builders = {1, 2}
    BuilderAsks <- ModelAsks
    MaxAsked = 2

INVARIANTS
    TypeOK
    ToldHolds
    AdmittedWithinLimit


    

CHECK_DEADLOCK FALSE
