SPECIFICATION Spec
CONSTANTS
    t1 = t1  t2 = t2  t3 = t3  s1 = s1  s2 = s2  s3 = s3
    Callers = {t1, t2, t3}
    Service = {s1, s2, s3}
    Late <- MCLate
    Job <- MCLink
    BLOCK_SIZE = 3
    QueueLen = 1
    None = None
INVARIANTS
    TypeOK
    BlockKept
    Intact
    InOrder
    LinkInv
    PipeInv
CHECK_DEADLOCK FALSE
PROPERTIES
    NeverLost
    Delivered
