SPECIFICATION RequestsSpec
CONSTANTS
    g1 = g1
    g2 = g2
    r1 = r1
    r2 = r2
    r3 = r3
    Gateways = {g1, g2}
    Requests = {r1, r2, r3}
    Home <- MCHome
    Max = 1
    MayErr = TRUE
    MayBreak = TRUE
    MayCancel = TRUE
    MayCrash = TRUE
    Dispatches = {d1, d2}
    RequestKinds <- MCKinds
    MaxRetries = 1
    BucketSize = 1
    BodyLen = 2
    MaxReconnects = 1
    p1 = p1
    m1 = m1
    m2 = m2
    Routers = {l1}
    Targets = {m1, m2}
    Endpoints = {chat}
    Providers = {p1}
    ProviderOf <- MCModelProviderOf
    KindOf <- MCKindOf
    ChangeCap = 2
    EventCap = 1
    Flappers = {p1}
    Limiters <- MCLimiters
    DispatcherMayFail = TRUE
    NoKey = NoKey
    Purchases = {q1, q2}
    Signatures = {s1, s2}
    NoSig = NoSig
    Nobody = Nobody
    ToolCalls = {t1, t2}
    Workspaces = {w1}
    WorkspaceOf <- MCWorkspaceOf
    ToolTargets <- MCTargets
    Limit = 1
    k1 = k1
    k2 = k2
    ModelCalls = {k1, k2}
    IndexOf <- MCIndexOf
    IdOf <- MCIdOf
    NameOf <- MCNameOf
    Absent = "none"
    MaxDrafts = 2
    MaxChars = 2
    MaxFrames = 2
    MaxDeltas = 3
INVARIANTS
    RequestsTypeOK
    SlotsAccounted CacheIsTrue NoKeyLost PaymentsBalance ToolCallsBalance CallsPutTogether
PROPERTIES RejectedOnlyWhenFull NotReplayed KeepsPromise
SYMMETRY MCSymmetry
CHECK_DEADLOCK FALSE
