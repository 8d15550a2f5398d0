\* Requests at any time, the save included; one identifier.
CONSTANTS
    p1 = p1
    p2 = p1
    NoPid = NoPid
    Pid <- MCPid
    UriId <- MCUriId
    NegMax = 2
    XferMax = 1
    TerminateRouted = FALSE
    LateRequests = TRUE
SPECIFICATION Spec
INVARIANTS
    ImageNotAhead

    
