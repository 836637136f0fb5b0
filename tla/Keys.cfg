SPECIFICATION KeysSpec
CONSTANTS
    VirtualKeys = {v1}
    MasterKeys = {m1, m2}
    Allowlist = Allowlist
    MasterCap = 1
    MayFail = TRUE
    MaxClock = 3
    Models <- MCModels
    NoModel = NoModel
    Prefix <- MCPrefix
    Bare <- MCBare
    AccessLists <- MCLists
    Proxied = {"openai", "anthropic"}
    MaxChanges = 1
INVARIANTS QuietUpdateSeen AllowlistUpdateSeen SentIsAdmitted
SYMMETRY MCSymmetry
CHECK_DEADLOCK FALSE
