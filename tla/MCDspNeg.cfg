CONSTANTS
    p1 = p1
    p2 = p2
    p3 = p3
    NoPid = NoPid
    Pid <- MCPid
    UriId <- MCUriId
    NegMax = 3
    TerminateRouted = TRUE
SPECIFICATION NegSpec
INVARIANTS
    NegAnswersStand
PROPERTIES
    NegSlotsKept
