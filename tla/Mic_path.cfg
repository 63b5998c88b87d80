SPECIFICATION Spec
CONSTANTS
    QueueLen = 2
    MaxCommands = 1
    PcmRing = 3
    AudioRing = 2
    PCM_CHANNELS = 3
    SemMax = 2
    Faults = FALSE
INVARIANTS
    TypeOK
    EventPending
    StopIsFinal
PROPERTIES
    Heard
    Stops
\* abort() stops the core.
CHECK_DEADLOCK FALSE
