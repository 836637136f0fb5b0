CONSTANTS
    p1 = p1
    p2 = p2
    m1 = m1
    m2 = m2
    Routers = {r1}
    Targets <- MCProviderTargets
    Endpoints = {chat}
    Providers <- MCProviderTargets
    ProviderOf <- MCProviderOf
    KindOf <- MCProviderWeighted
    ChangeCap = 2
    EventCap = 1
    Flappers <- MCProviderTargets
    Limiters <- MCLimiters
    DispatcherMayFail = TRUE
    NoKey = NoKey
SPECIFICATION Spec
INVARIANTS LimitedProviderIsOut
