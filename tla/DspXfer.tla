-------------------------------- MODULE DspXfer --------------------------------
(***************************************************************************)
(* Data transfer (components/dsp_xfer): the state machine, the slot table, *)
(* and the HTTP handlers, which consult the negotiation table.             *)
(*                                                                         *)
(* The notify hook of dsp_xfer_apply has no counterpart: nothing under     *)
(* components/ or main/ installs one, so it is always NULL.                *)
(***************************************************************************)
EXTENDS DspNeg

CONSTANT XferMax     \* DSP_XFER_MAX, the number of slots

ASSUME XferAssumption == XferMax \in Nat \ {0}

VARIABLES
    xferTable,       \* s_table
    xferReady        \* s_initialized

xferVars == <<xferTable, xferReady>>

XferSlot == 0 .. XferMax - 1

-----------------------------------------------------------------------------
(* State machine *)

XferState == {"INITIAL", "TRANSFERRING", "COMPLETED", "FAILED"}

XferTarget == [START |-> "TRANSFERRING", COMPLETE |-> "COMPLETED", FAIL |-> "FAILED"]

XferTaken == [INITIAL      |-> {"START"},
              TRANSFERRING |-> {"COMPLETE", "FAIL"},
              COMPLETED    |-> {},
              FAILED       |-> {}]

dsp_xfer_sm_next(s, e) == IF e \in XferTaken[s] THEN XferTarget[e] ELSE s

(* XferLater[s]: the states a transfer in s may be in afterwards, s too.   *)
XferLater == [INITIAL      |-> XferState,
              TRANSFERRING |-> XferState \ {"INITIAL"},
              COMPLETED    |-> {"COMPLETED"},
              FAILED       |-> {"FAILED"}]

-----------------------------------------------------------------------------
(* Slot table *)

XferEntry == [active: BOOLEAN, state: XferState, pid: PidOrNone]

XferZero == [i \in XferSlot |-> [active |-> FALSE, state |-> "INITIAL",
                                 pid |-> NoPid]]

FreeXfer_ReuseCompleted(i) == ~xferTable[i].active \/ xferTable[i].state = "COMPLETED"

(* dsp_xfer_create takes the first inactive slot.                          *)
FreeXfer(i) == /\ ~xferTable[i].active
               /\ \A j \in XferSlot : j < i => xferTable[j].active

(* dsp_xfer_find_by_pid(p) = i: the first active slot that holds p.        *)
FirstXfer(table, p, i) ==
    /\ table[i].active /\ table[i].pid = p
    /\ \A j \in XferSlot : j < i => ~(table[j].active /\ table[j].pid = p)

FoundXfer(p, i) == FirstXfer(xferTable, p, i)

XferByPath(p, i) == UriId[p] # NoPid /\ FoundXfer(UriId[p], i)

dsp_xfer_apply(i, e) ==
    xferTable' = [xferTable EXCEPT ![i].state = dsp_xfer_sm_next(@, e)]

dsp_xfer_init == /\ ~xferReady
                 /\ xferTable' = XferZero
                 /\ xferReady' = TRUE

dsp_xfer_deinit == /\ xferTable' = XferZero
                   /\ xferReady' = FALSE

-----------------------------------------------------------------------------
(* Handlers; as in DspNeg, an answer other than 2xx is no step.            *)

Startable_Offered(p) ==
    \E n \in NegSlot : FoundNeg(p, n) /\ negTable[n].state \in {"OFFERED", "AGREED"}

(* The negotiation that a transfer request for p names is AGREED now.      *)
Startable(p) == \E n \in NegSlot : FoundNeg(p, n) /\ negTable[n].state = "AGREED"

(* POST /transfers/start: check the negotiation, claim a slot, ...         *)
StartClaim(p) ==
    /\ Ready
    /\ Startable(p)
    /\ \E i \in XferSlot :
          /\ FreeXfer(i)
          /\ xferTable' = [xferTable EXCEPT ![i].active = TRUE,
                                            ![i].state = "INITIAL"]
          /\ httpd' = [pc |-> "start_pid", pid |-> p, slot |-> i]
    /\ UNCHANGED <<server, told, negVars, xferReady>>

(* ... write the identifier, ...                                           *)
StartPid ==
    /\ At("start_pid")
    /\ xferTable' = [xferTable EXCEPT ![httpd.slot].pid = httpd.pid]
    /\ Goto("start_apply")
    /\ UNCHANGED <<server, told, negVars, xferReady>>

(* ... apply START and answer with a TransferStartMessage.                 *)
StartApply ==
    /\ At("start_apply")
    /\ dsp_xfer_apply(httpd.slot, "START")
    /\ Tell(httpd.pid, "TRANSFERRING")
    /\ UNCHANGED <<server, negVars, xferReady>>

(* POST /transfers/{id}/complete: only the first transfer of the           *)
(* identifier is looked at, and refused (400) unless it is TRANSFERRING.   *)
Complete(p) ==
    /\ Ready
    /\ \E i \in XferSlot : /\ XferByPath(p, i)
                           /\ xferTable[i].state = "TRANSFERRING"
                           /\ dsp_xfer_apply(i, "COMPLETE")
    /\ Tell(UriId[p], "COMPLETED")
    /\ UNCHANGED <<server, negVars, xferReady>>

(* GET /transfers/{id}: INITIAL is reported as in progress.                *)
XferReported(i) == IF xferTable[i].state = "INITIAL" THEN "TRANSFERRING"
                   ELSE xferTable[i].state

XferGet(p) ==
    /\ Ready
    /\ \E i \in XferSlot : XferByPath(p, i) /\ Tell(UriId[p], XferReported(i))
    /\ UNCHANGED <<server, negVars, xferVars>>

XferRequest == \E p \in Pid : StartClaim(p) \/ Complete(p) \/ XferGet(p)

XferContinue == StartPid \/ StartApply

(* The handlers of both components, on all their variables.                *)
Request == (NegRequest /\ UNCHANGED xferVars) \/ XferRequest

Continue == (NegContinue /\ UNCHANGED xferVars) \/ XferContinue

-----------------------------------------------------------------------------
(* Properties *)

(* The states from which a negotiation has been AGREED.                    *)
WasAgreed == {"AGREED", "VERIFIED", "FINALIZED", "TERMINATED"}

(* A transfer that runs or has run belongs to a negotiation that the node  *)
(* still holds and that was agreed: no data flows, and none is reported,   *)
(* for a contract the tables do not show.                                  *)
TransferAgreed ==
    \A x \in XferSlot :
        xferTable[x].active /\ xferTable[x].state # "INITIAL" =>
            \E n \in NegSlot : /\ negTable[n].active
                               /\ negTable[n].cpid = xferTable[x].pid
                               /\ negTable[n].state \in WasAgreed

(* A 2xx answer about a transfer stands: a lookup of its identifier still  *)
(* finds a transfer in the state told or in a later one.                   *)
XferAnswersStand ==
    \A a \in told : a[2] \in XferState =>
        \E i \in XferSlot : /\ FoundXfer(a[1], i)
                            /\ xferTable[i].state \in XferLater[a[2]]
=============================================================================
