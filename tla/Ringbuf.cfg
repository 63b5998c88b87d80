SPECIFICATION Spec
CONSTANTS
    Size = 4
    Byte = {0, 1}
    MaxCall = 4
INVARIANTS
    TypeOK
    WholeWrite
    WholeRead
PROPERTIES
    IsFifo
