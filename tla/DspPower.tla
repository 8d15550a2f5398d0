------------------------------- MODULE DspPower -------------------------------
(***************************************************************************)
(* The node across deep sleep (components/dsp_power): the power manager    *)
(* runs dsp_power_enter_deep_sleep against the server task, RAM is lost,   *)
(* and dsp_power_handle_wakeup brings the tables back.  Composes DspHttp,  *)
(* DspNeg, DspXfer and DspRtcState.                                        *)
(*                                                                         *)
(* Who calls the two functions is left to the firmware integrator (the     *)
(* header names "typical call sites"; app_main calls neither).  Here the   *)
(* first may be called whenever the node is up, the second at every boot   *)
(* once the two modules are initialised, as its header asks.               *)
(***************************************************************************)
EXTENDS DspRtcState

CONSTANT
    LateRequests  \* TRUE: consumers keep sending requests while the node
                  \* prepares to sleep, as the code allows.  FALSE: the caller
                  \* of enter_deep_sleep has made sure that none is running
                  \* and none arrives.

ASSUME PowerAssumption == LateRequests \in BOOLEAN

VARIABLE cause    \* esp_sleep_get_wakeup_cause: "TIMER", "OTHER", "UNDEFINED"

vars == <<server, httpd, told, negVars, xferVars, rtcVars, power, cause>>

httpVars == <<server, httpd, told>>

Init == /\ server = "off" /\ httpd = Idle /\ told = {}
        /\ negTable = NegZero /\ negReady = FALSE
        /\ xferTable = XferZero /\ xferReady = FALSE
        /\ rtcMagic = FALSE /\ rtcCrc = <<>>
        /\ rtcNeg = NegZero /\ rtcXfer = XferZero
        /\ power = [pc |-> "boot", slot |-> 0]
        /\ cause = "UNDEFINED"

-----------------------------------------------------------------------------
(* The server task *)

Serve == /\ PowerAt("up") \/ LateRequests
         /\ Request
         /\ UNCHANGED <<rtcVars, power, cause>>

ServeOn == Continue /\ UNCHANGED <<rtcVars, power, cause>>

(* protocol_init starts the server when no wake-up has done so.            *)
StartServer == /\ PowerAt("up")
               /\ HttpStart
               /\ UNCHANGED <<negVars, xferVars, rtcVars, power, cause>>

-----------------------------------------------------------------------------
(* dsp_power_enter_deep_sleep: save, stop the server, sleep. *)

EnterDeepSleep == /\ PowerAt("up")
                  /\ LateRequests \/ httpd = Idle
                  /\ SaveBegin
                  /\ UNCHANGED <<httpVars, negVars, xferVars, cause>>

Save == SaveStep /\ UNCHANGED <<httpVars, negVars, xferVars, cause>>

StopServer == /\ PowerAt("stop")
              /\ HttpStopRequest
              /\ UNCHANGED <<negVars, xferVars, rtcVars, power, cause>>

ServerStopped == /\ HttpStopped
                 /\ UNCHANGED <<negVars, xferVars, rtcVars, power, cause>>

(* RAM loses its contents; RTC slow memory keeps them.                     *)
LoseRam == /\ server' = "off" /\ httpd' = Idle
           /\ negTable' = NegZero /\ negReady' = FALSE
           /\ xferTable' = XferZero /\ xferReady' = FALSE

Sleep == /\ PowerAt("stop")
         /\ server = "off"
         /\ LoseRam
         /\ PowerGoto("asleep")
         /\ UNCHANGED <<told, rtcVars, cause>>

-----------------------------------------------------------------------------
(* Boot *)

Wake == /\ PowerAt("asleep")
        /\ cause' \in {"TIMER", "OTHER"}
        /\ PowerGoto("boot")
        /\ UNCHANGED <<httpVars, negVars, xferVars, rtcVars>>

InitModules == /\ PowerAt("boot")
               /\ dsp_neg_init
               /\ dsp_xfer_init
               /\ PowerGoto("wake")
               /\ UNCHANGED <<httpVars, rtcVars, cause>>

(* dsp_power_handle_wakeup: on a timer wake with a valid image, restore    *)
(* the tables and go on to the server.                                     *)
Restorable == cause = "TIMER" /\ RtcValid

RestoreTables == /\ PowerAt("wake")
                 /\ Restorable
                 /\ LoadSlots
                 /\ PowerGoto("serve")
                 /\ UNCHANGED <<httpVars, rtcVars, cause>>

SkipRestore_OtherCauseOnly ==
    /\ PowerAt("wake")
    /\ cause # "TIMER"
    /\ told' = {}
    /\ PowerGoto("up")
    /\ UNCHANGED <<server, httpd, negVars, xferVars, rtcVars, cause>>

(* Any other wake returns an error: the node starts afresh, as the header  *)
(* says, and what consumers were told is void.                             *)
SkipRestore == /\ PowerAt("wake")
               /\ ~Restorable
               /\ told' = {}
               /\ PowerGoto("up")
               /\ UNCHANGED <<server, httpd, negVars, xferVars, rtcVars, cause>>

(* dsp_http_start after the restore; its failure is logged only.           *)
ResumeServer == /\ PowerAt("serve")
                /\ HttpStart \/ UNCHANGED httpVars
                /\ PowerGoto("up")
                /\ UNCHANGED <<negVars, xferVars, rtcVars, cause>>

-----------------------------------------------------------------------------
(* Faults *)

(* RTC memory is damaged during sleep: the CRC no longer matches.          *)
Corrupt == /\ PowerAt("asleep")
           /\ rtcCrc' = <<>>
           /\ UNCHANGED <<httpVars, negVars, xferVars, rtcMagic, rtcNeg, rtcXfer,
                          power, cause>>

(* A reset other than deep sleep (power loss, watchdog panic) at any       *)
(* moment; the start-up code loads the initial value of RTC data again.    *)
Reset == /\ LoseRam
         /\ told' = {}
         /\ rtcMagic' = FALSE /\ rtcCrc' = <<>>
         /\ rtcNeg' = NegZero /\ rtcXfer' = XferZero
         /\ PowerGoto("boot")
         /\ cause' = "UNDEFINED"

-----------------------------------------------------------------------------
ServerNext == Serve \/ ServeOn \/ StartServer \/ ServerStopped

PowerNext == \/ EnterDeepSleep \/ Save \/ StopServer \/ Sleep
             \/ InitModules \/ RestoreTables \/ SkipRestore \/ ResumeServer

Next == ServerNext \/ PowerNext \/ Wake \/ Corrupt \/ Reset

(* The scheduler runs a task that is ready; a begun sleep or boot and a    *)
(* begun request go on.  Nobody has to send a request, to call             *)
(* enter_deep_sleep, or to suffer a fault; the RTC timer does fire.        *)
Fairness == /\ WF_vars(ServeOn) /\ WF_vars(ServerStopped)
            /\ WF_vars(Save) /\ WF_vars(StopServer) /\ WF_vars(Sleep)
            /\ WF_vars(InitModules) /\ WF_vars(RestoreTables \/ SkipRestore)
            /\ WF_vars(ResumeServer) /\ WF_vars(Wake)

Spec == Init /\ [][Next]_vars /\ Fairness

-----------------------------------------------------------------------------
(* Properties *)

PowerPc == {"up", "neg", "neg_pid", "xfer", "xfer_pid", "seal", "stop",
            "asleep", "boot", "wake", "serve"}

HandlerPc == {"idle", "offer_state", "offer_pid", "offer_apply", "start_pid",
              "start_apply"}

(* Every variable stays in its type.                                       *)
TypeOK == /\ server \in {"off", "on", "stopping"}
          /\ httpd \in [pc: HandlerPc, pid: PidOrNone, slot: NegSlot \cup XferSlot]
          /\ told \in SUBSET (Pid \X (NegState \cup XferState))
          /\ negTable \in [NegSlot -> NegEntry]
          /\ negReady \in BOOLEAN
          /\ xferTable \in [XferSlot -> XferEntry]
          /\ xferReady \in BOOLEAN
          /\ rtcMagic \in BOOLEAN
          /\ rtcCrc \in {<<>>} \cup ([NegSlot -> NegEntry] \X [XferSlot -> XferEntry])
          /\ rtcNeg \in [NegSlot -> NegEntry]
          /\ rtcXfer \in [XferSlot -> XferEntry]
          /\ power \in [pc: PowerPc, slot: NegSlot \cup XferSlot]
          /\ cause \in {"TIMER", "OTHER", "UNDEFINED"}

(* While the node is up, every 2xx answer since the last documented loss   *)
(* of state stands, across any number of sleeps.                           *)
AnswersStand == PowerAt("up") => NegAnswersStand /\ XferAnswersStand

(* Between two requests of an awake node no slot is half written: an       *)
(* active slot has an identifier, and a state that a completed handler     *)
(* leaves.                                                                 *)
NoTornSlot ==
    PowerAt("up") /\ httpd = Idle =>
        /\ \A i \in NegSlot : negTable[i].active =>
              negTable[i].cpid # NoPid /\ negTable[i].state \notin {"INITIAL", "REQUESTED"}
        /\ \A i \in XferSlot : xferTable[i].active =>
              xferTable[i].pid # NoPid /\ xferTable[i].state # "INITIAL"

(* Whatever requests run during the save, the image never claims more than *)
(* the tables: each slot it holds is a slot of the table, in a state that  *)
(* the slot has had, under that slot's identifier or none.                 *)
ImageNotAhead ==
    power.pc \in {"neg", "neg_pid", "xfer", "xfer_pid", "seal", "stop"} =>
        /\ \A i \in NegSlot : rtcNeg[i].active =>
              /\ negTable[i].active
              /\ negTable[i].state \in NegLater[rtcNeg[i].state]
              /\ rtcNeg[i].cpid \in {NoPid, negTable[i].cpid}
        /\ \A i \in XferSlot : rtcXfer[i].active =>
              /\ xferTable[i].active
              /\ xferTable[i].state \in XferLater[rtcXfer[i].state]
              /\ rtcXfer[i].pid \in {NoPid, xferTable[i].pid}

(* If resets stop, a sleep once begun ends in a node that is up again: the *)
(* save, the server shutdown, the wake and the restore all terminate.      *)
SleepEnds == <>[][~Reset]_vars => (PowerAt("neg") ~> PowerAt("up"))
=============================================================================
