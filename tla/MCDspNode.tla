----------------------------- MODULE MCDspNode -----------------------------
EXTENDS DspService, TLC

CONSTANTS p1, p2

MCPid == {p1, p2}
MCUriId == [p \in MCPid |-> p]

MCSymmetry == Permutations(MCPid)
=============================================================================
