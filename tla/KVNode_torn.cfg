SPECIFICATION Spec
CONSTANTS
    Size = 80
    Scan = 80
    MaxTorn = 1
    KeyLen = 1
    ValLen = 5
    Key <- MCKey
    Other <- MCOther
    Values <- MCValues
INVARIANTS
    OldOrNew
