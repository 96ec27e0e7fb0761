SPECIFICATION MCSpec
CONSTANTS
    Service <- MCService
    Parsed = {"A", "B", "stale"}
    Agreeing = {"A", "B", "health", "reflection"}
    Builtin = {"reflection"}
    Method <- MCMethod
    OwnerOf <- MCOwnerOf
    KindOf <- MCKindOf
    Group <- MCGroup
    Connection <- MCConnection
    Offers <- MCOffers
    Pattern <- MCPattern
    Matches <- MCMatches
    EnvIncludes = {}
    EnvExcludes = {}
    Thread = {t1, t2}
    Configured = {"A.get"}
    Interceptor = {log}
    DefaultCap = 2
    MaxCap = 2
    MaxChain = 1
    NoThread = NoThread
    NoGroup = NoGroup
    Projection = {"http", "mcp", "cli"}
    Kind <- MCKind
    MaxCalls = 2
INVARIANTS
    CallsWhole
    ProjectionFollowsFilters
    CauseReported
    CallsFinished
PROPERTIES
    ConstantOnceServing
    FreezeReturns
    ShutsDown
