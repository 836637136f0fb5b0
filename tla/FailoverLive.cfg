CONSTANTS
    p1 = p1
    p2 = p2
    m1 = m1
    m2 = m2
    Routers = {r1, r2}
    Targets <- MCOneTarget
    Endpoints = {chat}
    Providers <- MCOneTarget
    ProviderOf <- MCOneProviderOf
    KindOf <- MCMixed
    ChangeCap = 1
    EventCap = 1
    Flappers <- MCOneTarget
    Limiters <- MCOneLimited
    DispatcherMayFail = TRUE
    NoKey = NoKey
SPECIFICATION LiveSpec
PROPERTIES RequestServed BusyRouterIsChecked LimitedKeyReturns
