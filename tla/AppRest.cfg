CONSTANTS
    MaxStarts = 2
    I2cMax = 1
    PowerOn = 1
    MeasWait = 2
    PollStep = 2
    BusyTimeout = 5
    Interval = 2
    Capacity = 1
    WordMod = 65536
    Readings <- MCReadings
    BurstErrors <- MCBurstErrors
    StartsOnce = FALSE
    StopsAtRest = TRUE
SPECIFICATION Spec
INVARIANTS
    NoUseAfterFree
    NothingLeaks
    
    PollBounded
PROPERTIES
    CycleEnds
CHECK_DEADLOCK FALSE
