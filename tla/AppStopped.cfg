CONSTANTS
    MaxStarts = 2
    I2cMax = 1
    PowerOn = 1
    MeasWait = 2
    PollStep = 2
    BusyTimeout = 5
    Interval = 2
    Capacity = 2
    WordMod = 65536
    Readings <- MCReadings
    BurstErrors <- MCBurstErrors
    StartsOnce = TRUE
    StopsAtRest = FALSE
SPECIFICATION Spec
INVARIANTS StoppedClean
CHECK_DEADLOCK FALSE
