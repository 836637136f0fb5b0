SPECIFICATION InFlightLiveSpec
CONSTANTS
    g1 = g1
    Gateways = {g1}
    Requests = {r1, r2, r3}
    Home <- MCHomeOne
    Max = 1
    MayErr = FALSE
    MayBreak = FALSE
    MayCancel = TRUE
    MayCrash = FALSE
PROPERTIES FullGatewayRecovers
