SPECIFICATION Spec
CONSTANTS
    k1 = k1  k2 = k2  v1 = v1  v2 = v2  v3 = v3  v4 = v4
    Keys = {k1, k2}
    Vals = {v1, v2}
    NoKey = NoKey
    NoVal = NoVal
    N = 3
    BlockSize = 6
    ScanLimit = 5
    NodeMax = 3
    MaxVer = 3
    ValSize <- MCValSize
    RoNodes <- MCRoNodes
    RoText <- MCRoText
    LossOverRemains = TRUE
    Layout = "room"
    WriteFaults = FALSE
INVARIANTS
    FactoryKept
