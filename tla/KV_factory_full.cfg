SPECIFICATION Spec
CONSTANTS
    k1 = k1  k2 = k2  v1 = v1  v2 = v2  v3 = v3  v4 = v4
    Keys = {k1, k2}
    Vals = {v1, v3, v4}
    NoKey = NoKey
    NoVal = NoVal
    N = 3
    BlockSize = 5
    ScanLimit = 2
    NodeMax = 3
    MaxVer = 3
    ValSize <- MCValSize
    RoNodes <- MCRoNodes
    RoText <- MCRoText
    LossOverRemains = FALSE
    Layout = "full"
    WriteFaults = TRUE
INVARIANTS
    TypeOK
    CopiesOrdered
    LookupComplete
    CountersAgree
    StoreInv
    FactoryKept
    ValuesInv
PROPERTIES
    CallsEnd
    NeverOverwritten
    PowerSafe
