------------------------------ MODULE DspService ------------------------------
(***************************************************************************)
(* The node implements ContractService when it is left in peace while it   *)
(* goes to sleep: deep sleep, wake and restore are invisible to consumers. *)
(***************************************************************************)
EXTENDS DspPower

(* Where the protocol state is: in RAM while the node is awake, in the RTC *)
(* image while it sleeps and until a boot that will restore it, nowhere    *)
(* when there is no image to restore.                                      *)
InRam == power.pc \notin {"asleep", "boot", "wake"}

InRtc == \/ PowerAt("asleep") /\ RtcValid
         \/ power.pc \in {"boot", "wake"} /\ Restorable

NegHeld == IF InRam THEN negTable ELSE IF InRtc THEN rtcNeg ELSE NegZero
XferHeld == IF InRam THEN xferTable ELSE IF InRtc THEN rtcXfer ELSE XferZero

(* A slot that its handler has not finished counts for nothing yet.        *)
ContractOf == [INITIAL |-> "None", REQUESTED |-> "None", OFFERED |-> "Offered",
               AGREED |-> "Agreed", VERIFIED |-> "Agreed",
               FINALIZED |-> "Agreed", TERMINATED |-> "Terminated"]

TransferOf == [INITIAL |-> "None", TRANSFERRING |-> "Transferring",
               COMPLETED |-> "Completed", FAILED |-> "Completed"]

ContractView ==
    [p \in Pid |->
       IF \E i \in NegSlot : FirstNeg(NegHeld, p, i)
       THEN ContractOf[NegHeld[CHOOSE i \in NegSlot : FirstNeg(NegHeld, p, i)].state]
       ELSE "None"]

TransferView ==
    [p \in Pid |->
       IF \E i \in XferSlot : FirstXfer(XferHeld, p, i)
       THEN TransferOf[XferHeld[CHOOSE i \in XferSlot : FirstXfer(XferHeld, p, i)].state]
       ELSE "None"]

Service == INSTANCE ContractService WITH contract <- ContractView,
                                         transfer <- TransferView

(* Every step of the node is a step of the service as a consumer sees it,  *)
(* or none: a negotiation is offered, agreed and terminated in order, a    *)
(* transfer starts only under an agreed contract, and a sleep changes      *)
(* nothing (dsp_power_enter_deep_sleep to dsp_power_handle_wakeup).        *)
ImplementsService == Service!ServiceSpec
=============================================================================
