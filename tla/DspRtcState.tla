------------------------------ MODULE DspRtcState ------------------------------
(***************************************************************************)
(* The image of both slot tables in RTC slow memory                        *)
(* (components/dsp_rtc_state): dsp_rtc_state_save, which the power manager *)
(* runs slot by slot while the server task may still change the tables     *)
(* (no lock is shared), and dsp_rtc_state_restore.                         *)
(*                                                                         *)
(* The CRC32 of the data is represented by the data it was computed over,  *)
(* so that it matches exactly the data it was computed from.               *)
(***************************************************************************)
EXTENDS DspXfer

VARIABLES
    rtcMagic,   \* s_store.magic = DSP_RTC_MAGIC
    rtcCrc,     \* s_store.crc32: <<>> (matches nothing) or <<neg, xfer>>
    rtcNeg,     \* s_store.neg
    rtcXfer,    \* s_store.xfer
    power       \* the power manager: program counter and slot it works on

rtcVars == <<rtcMagic, rtcCrc, rtcNeg, rtcXfer>>

PowerAt(pc) == power.pc = pc
PowerGoto(pc) == power' = [pc |-> pc, slot |-> 0]

(* After slot i of a table of max slots: the next slot, or the next loop.  *)
NextSlot(pc, i, max, then) ==
    power' = IF i + 1 < max THEN [pc |-> pc, slot |-> i + 1]
             ELSE [pc |-> then, slot |-> 0]

-----------------------------------------------------------------------------
(* dsp_rtc_state_save.  magic and crc32 keep their old values until the    *)
(* end.                                                                    *)

SaveBegin_NoMemset ==
    /\ PowerGoto("neg")
    /\ UNCHANGED <<rtcNeg, rtcXfer, rtcMagic, rtcCrc>>

SaveBegin ==
    /\ rtcNeg' = NegZero
    /\ rtcXfer' = XferZero
    /\ PowerGoto("neg")
    /\ UNCHANGED <<rtcMagic, rtcCrc>>

(* is_active and get_state of a slot; nothing is copied from an inactive   *)
(* one.  Reading both at once loses no outcome: a slot becomes active in   *)
(* one store and never inactive.                                           *)
SaveNegState ==
    /\ PowerAt("neg")
    /\ LET i == power.slot IN
         IF negTable[i].active
         THEN /\ rtcNeg' = [rtcNeg EXCEPT ![i].active = TRUE,
                                          ![i].state = negTable[i].state]
              /\ power' = [power EXCEPT !.pc = "neg_pid"]
         ELSE NextSlot("neg", i, NegMax, "xfer") /\ UNCHANGED rtcNeg
    /\ UNCHANGED <<rtcMagic, rtcCrc, rtcXfer>>

SaveNegPid_Skipped ==
    /\ PowerAt("neg_pid")
    /\ NextSlot("neg", power.slot, NegMax, "xfer")
    /\ UNCHANGED <<rtcNeg, rtcMagic, rtcCrc, rtcXfer>>

(* get_consumer_pid: a copy taken while the identifier is being written is *)
(* represented by the empty one.                                           *)
SaveNegPid ==
    /\ PowerAt("neg_pid")
    /\ rtcNeg' = [rtcNeg EXCEPT ![power.slot].cpid = negTable[power.slot].cpid]
    /\ NextSlot("neg", power.slot, NegMax, "xfer")
    /\ UNCHANGED <<rtcMagic, rtcCrc, rtcXfer>>

SaveXferState ==
    /\ PowerAt("xfer")
    /\ LET i == power.slot IN
         IF xferTable[i].active
         THEN /\ rtcXfer' = [rtcXfer EXCEPT ![i].active = TRUE,
                                            ![i].state = xferTable[i].state]
              /\ power' = [power EXCEPT !.pc = "xfer_pid"]
         ELSE NextSlot("xfer", i, XferMax, "seal") /\ UNCHANGED rtcXfer
    /\ UNCHANGED <<rtcMagic, rtcCrc, rtcNeg>>

SaveXferPid ==
    /\ PowerAt("xfer_pid")
    /\ rtcXfer' = [rtcXfer EXCEPT ![power.slot].pid = xferTable[power.slot].pid]
    /\ NextSlot("xfer", power.slot, XferMax, "seal")
    /\ UNCHANGED <<rtcMagic, rtcCrc, rtcNeg>>

SaveSeal ==
    /\ PowerAt("seal")
    /\ rtcCrc' = <<rtcNeg, rtcXfer>>
    /\ rtcMagic' = TRUE
    /\ PowerGoto("stop")
    /\ UNCHANGED <<rtcNeg, rtcXfer>>

SaveStep == SaveNegState \/ SaveNegPid \/ SaveXferState \/ SaveXferPid \/ SaveSeal

-----------------------------------------------------------------------------
(* dsp_rtc_state_restore *)

(* dsp_rtc_state_is_valid: what restore checks before it touches a table.  *)
RtcValid == rtcMagic /\ rtcCrc = <<rtcNeg, rtcXfer>>

LoadSlots_NegOnly ==
    /\ negTable' = [i \in NegSlot |-> IF rtcNeg[i].active /\ negReady
                                      THEN rtcNeg[i] ELSE negTable[i]]
    /\ UNCHANGED <<xferTable, negReady, xferReady>>

(* load_slot overwrites the slots that the image holds, and is refused     *)
(* (unnoticed) by a module that has not been initialised.                  *)
LoadSlots ==
    /\ negTable' = [i \in NegSlot |-> IF rtcNeg[i].active /\ negReady
                                      THEN rtcNeg[i] ELSE negTable[i]]
    /\ xferTable' = [i \in XferSlot |-> IF rtcXfer[i].active /\ xferReady
                                        THEN rtcXfer[i] ELSE xferTable[i]]
    /\ UNCHANGED <<negReady, xferReady>>
=============================================================================
