CONSTANTS
    MaxRoutes = 9
    MaxFailures = 1
    TerminateEnabled = FALSE
    RequestEnabled = TRUE
    MaxStarts = 3
    StopsWhenReady = TRUE
    MaxResets = 1
SPECIFICATION Spec
INVARIANTS
    HandlersReady
    EndpointsReached
    StopReleasesAll
    CredentialsKept
PROPERTIES
    StartServes
CHECK_DEADLOCK FALSE
