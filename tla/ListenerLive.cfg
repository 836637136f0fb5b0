CONSTANTS
    VirtualKeys = {v1}
    MasterKeys = {m1}
    Allowlist = Allowlist
    MasterCap = 1
    MayFail = TRUE
    MaxClock = 3
SPECIFICATION LiveSpec
PROPERTIES RevokedKeyForgotten
