CONSTANTS
    Capacity = 4
    DrainMax = 2
    MaxSample = 10
    Drains = TRUE
SPECIFICATION Spec
INVARIANTS
    InOrder
    NoLostWakeup
PROPERTIES
    ImplementsQueue
    RingDrained
CHECK_DEADLOCK FALSE
