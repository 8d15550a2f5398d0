\* A request is answered between the save and the sleep.
CONSTANTS
    p1 = p1
    p2 = p2
    NoPid = NoPid
    Pid <- MCPid
    UriId <- MCUriId
    NegMax = 2
    XferMax = 1
    TerminateRouted = TRUE
    LateRequests = TRUE
SPECIFICATION Spec
INVARIANT AnswersStand
