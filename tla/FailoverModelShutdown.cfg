CONSTANTS
    p1 = p1
    p2 = p2
    m1 = m1
    m2 = m2
    Routers = {r1}
    Targets <- MCModelTargets
    Endpoints = {chat}
    Providers <- MCOneTarget
    ProviderOf <- MCModelProviderOf
    KindOf <- MCModelWeighted
    ChangeCap = 2
    EventCap = 1
    Flappers <- MCOneTarget
    Limiters <- MCLimiters
    DispatcherMayFail = FALSE
    NoKey = NoKey
SPECIFICATION Spec
INVARIANTS RateLimitKeepsGatewayUp
