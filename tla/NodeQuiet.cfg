\* Consumers are quiet while the node goes to sleep.
CONSTANTS
    p1 = p1
    p2 = p2
    NoPid = NoPid
    Pid <- MCPid
    UriId <- MCUriId
    NegMax = 2
    XferMax = 2
    TerminateRouted = TRUE
    LateRequests = FALSE
SPECIFICATION Spec
SYMMETRY MCSymmetry
INVARIANTS
    AnswersStand
    NoTornSlot
    TransferAgreed
PROPERTIES
    ImplementsService
