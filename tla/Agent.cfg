SPECIFICATION AgentLiveSpec
CONSTANTS
    None = None
    Calls = {c1, c2}
    Gateways = {g1}
    GatewayOf <- MCGatewayOf
    MaxSessions = 2
    b1 = b1
    b2 = b2
    Batches = {b1, b2}
    EventsOf <- MCEventsOf
    StepIds = {1, 2}
    NoStep = 0
    Prints = {"p", "q"}
    NoPrint = "no"
INVARIANTS AgentTypeOK McpCallsTrue OneInitializer BatchesAgree
PROPERTIES McpCallEnds BatchEnds
CHECK_DEADLOCK FALSE
