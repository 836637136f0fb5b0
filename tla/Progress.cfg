SPECIFICATION ProgressSpec
CONSTANTS
    Purchases = {q1}
    Signatures = {s1}
    NoSig = NoSig
    Nobody = Nobody
    ToolCalls = {t1}
    Workspaces = {w1}
    WorkspaceOf <- MCWorkspaceOf
    ToolTargets <- MCTargets
    Limit = 1
    Dispatches = {d1}
    RequestKinds <- MCKinds
    MaxRetries = 2
    BucketSize = 1
    BodyLen = 2
    MaxReconnects = 1
    MaxVersion = 4
    g1 = g1
    Gateways = {g1}
    Requests = {r1, r2}
    Home <- MCHomeOne
    Max = 2
    MayErr = TRUE
    MayBreak = TRUE
    MayCancel = TRUE
    MayCrash = TRUE
PROPERTIES
    RequestAnswered ToolCallEnds DispatchCompletes SlotsComeBack
    CatalogNeverRegresses CatalogCatchesUp
CHECK_DEADLOCK FALSE
