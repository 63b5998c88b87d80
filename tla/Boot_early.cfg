SPECIFICATION Spec
CONSTANTS
    MaxVer = 5
    BootLimit = 2
    MaxCnt = 3
    Fallback = {0}
    EarlyReset = TRUE
INVARIANTS
    Bootable
