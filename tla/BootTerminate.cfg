CONSTANTS
    MaxRoutes = 9
    MaxFailures = 1
    TerminateEnabled = TRUE
    RequestEnabled = TRUE
    MaxStarts = 1
    StopsWhenReady = TRUE
    MaxResets = 0
SPECIFICATION Spec
INVARIANT EndpointsReached
CHECK_DEADLOCK FALSE
