CONSTANTS
    VirtualKeys = {v1}
    MasterKeys = {}
    Allowlist = Allowlist
    MasterCap = 1
    MayFail = FALSE
    MaxClock = 3
SPECIFICATION Spec
INVARIANTS PollUpdateSeen
