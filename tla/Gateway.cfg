SPECIFICATION GatewaySpec
CONSTANTS
    x1 = x1
    x2 = x2
    b1 = b1
    b2 = b2
    b3 = b3
    b4 = b4
    Routers = {l1}
    Targets = {x1, x2}
    Endpoints = {chat}
    Providers = {x1, x2}
    ProviderOf <- MCProviderOf
    KindOf <- MCKindOf
    ChangeCap = 2
    EventCap = 1
    Flappers = {x1, x2}
    Limiters <- MCLimiters
    DispatcherMayFail = TRUE
    NoKey = NoKey
    Processes = {x1, x2}
    Clients = {c1, c2}
    MaxArrivals = 3
    IpLimit = 1
    IpWindow = 2
    MaxTracked = 1
    MaxTime = 3
    MaxSeen = 3
    IdLimit = 1
    IdSeconds = 2
    TicksPerSecond = 2
    LockWait = 1
    MaxTicks = 7
    WsRequests = {w1, w2, w3, w4}
    ToolIndexes = {t1, t2}
    MaxChunks = 3
    OutputItems = {b1, b2, b3, b4}
    ItemKind <- MCItemKind
    MaxEvents = 5
    LogRequests = {x1, x2}
    LogKinds <- MCLogKinds
    CountThreads = {x1, x2}
    Buckets = 2
    MaxBuckets = 4
    MaxIncrs = 3
INVARIANTS
    GatewayTypeOK
    ProvidersKept IpLimitHolds IdentityLimitHolds CountAccounted
    EventsInOrder ChunksTrue RecordsAgree CountsTrue
PROPERTIES WindowNotExtended
SYMMETRY MCSymmetry
CHECK_DEADLOCK FALSE
