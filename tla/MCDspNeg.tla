------------------------------ MODULE MCDspNeg ------------------------------
(* Three slots, two identifiers that paths carry unchanged and one with a  *)
(* "/" that a path cuts down to another's.                                 *)
EXTENDS DspNeg

CONSTANTS p1, p2, p3

MCPid == {p1, p2, p3}
MCUriId == [p \in MCPid |-> IF p = p3 THEN p1 ELSE p]
=============================================================================
