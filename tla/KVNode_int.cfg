SPECIFICATION Spec
CONSTANTS
    Size = 76
    Scan = 76
    MaxTorn = 2
    KeyLen = 3
    ValLen = 4
    Key <- MCKey
    Other <- MCOther
    Values <- MCValues
INVARIANTS
    TypeOK
    OldOrNew
    WritesBlank
    NodeInv
    FindsWhole
