CONSTANTS
    MaxRetry = 3
    MaxEvents = 3
    Serial = TRUE
    StartFails = FALSE
SPECIFICATION Spec
INVARIANT TypeOK
INVARIANT NeverStranded
INVARIANT ToldTheTruth
PROPERTY GivesUpForGood
 
