--------------------------- MODULE MCDspApplication ---------------------------
(***************************************************************************)
(* A reading with full humidity, whose bits share a byte with those of a   *)
(* temperature below zero, and bursts of one to eight bits.                *)
(***************************************************************************)
EXTENDS DspApplication

MCReadings == {[h |-> 1048575, t |-> 150001]}
MCBurstErrors == {1, 3, 129, 255, 178}

ASSUME MCDamageDetected == DamageDetected
=============================================================================
