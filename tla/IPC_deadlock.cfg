SPECIFICATION Spec
CONSTANTS
    t1 = t1  t2 = t2  t3 = t3  s1 = s1  s2 = s2  s3 = s3
    Callers = {t1, t2}
    Service = {s1}
    Late = {}
    Job <- MCBoth
    BLOCK_SIZE = 4
    QueueLen = 1
    None = None
CHECK_DEADLOCK FALSE
PROPERTIES
    CallsReturn
