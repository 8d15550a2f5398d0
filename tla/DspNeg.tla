-------------------------------- MODULE DspNeg --------------------------------
(***************************************************************************)
(* Contract negotiation (components/dsp_neg): the state machine, the slot  *)
(* table, and the HTTP handlers that drive it.                             *)
(***************************************************************************)
EXTENDS DspHttp

CONSTANTS
    NegMax,          \* DSP_NEG_MAX, the number of slots
    TerminateRouted  \* POST /negotiations/terminate reaches its handler:
                     \* DSP_ENABLE_NEGOTIATE_TERMINATE is 1 and the route was
                     \* accepted.  TRUE only adds behaviours.

ASSUME NegAssumption == NegMax \in Nat \ {0} /\ TerminateRouted \in BOOLEAN

VARIABLES
    negTable,        \* s_table
    negReady         \* s_initialized

negVars == <<negTable, negReady>>

NegSlot == 0 .. NegMax - 1

-----------------------------------------------------------------------------
(* State machine *)

NegState == {"INITIAL", "REQUESTED", "OFFERED", "AGREED", "VERIFIED",
             "FINALIZED", "TERMINATED"}

(* Every event has one target; what depends on the state is whether the    *)
(* event is taken.                                                         *)
NegTarget == [OFFER |-> "OFFERED", AGREE |-> "AGREED", VERIFY |-> "VERIFIED",
              FINALIZE |-> "FINALIZED", TERMINATE |-> "TERMINATED"]

NegEvent == DOMAIN NegTarget

NegTaken == [INITIAL    |-> {},
             REQUESTED  |-> {"OFFER", "AGREE", "TERMINATE"},
             OFFERED    |-> {"AGREE", "TERMINATE"},
             AGREED     |-> {"VERIFY", "TERMINATE"},
             VERIFIED   |-> {"FINALIZE", "TERMINATE"},
             FINALIZED  |-> {},
             TERMINATED |-> {}]

dsp_neg_sm_next(s, e) == IF e \in NegTaken[s] THEN NegTarget[e] ELSE s

(* Later(s): the states a negotiation in s may be in afterwards, s too.    *)
NegLater == [INITIAL    |-> NegState,
             REQUESTED  |-> NegState \ {"INITIAL"},
             OFFERED    |-> {"OFFERED", "AGREED", "VERIFIED", "FINALIZED",
                             "TERMINATED"},
             AGREED     |-> {"AGREED", "VERIFIED", "FINALIZED", "TERMINATED"},
             VERIFIED   |-> {"VERIFIED", "FINALIZED", "TERMINATED"},
             FINALIZED  |-> {"FINALIZED"},
             TERMINATED |-> {"TERMINATED"}]

-----------------------------------------------------------------------------
(* Slot table *)

NegEntry == [active: BOOLEAN, state: NegState, cpid: PidOrNone]

NegZero == [i \in NegSlot |-> [active |-> FALSE, state |-> "INITIAL",
                               cpid |-> NoPid]]

FreeNeg_ReuseTerminated(i) == \/ ~negTable[i].active
                              \/ negTable[i].state = "TERMINATED"

(* dsp_neg_create takes the first inactive slot.                           *)
FreeNeg(i) == /\ ~negTable[i].active
              /\ \A j \in NegSlot : j < i => negTable[j].active

FoundNeg_Last(p, i) ==
    /\ negTable[i].active /\ negTable[i].cpid = p
    /\ \A j \in NegSlot : j > i => ~(negTable[j].active /\ negTable[j].cpid = p)

(* dsp_neg_find_by_cpid(p) = i: the first active slot that holds p.        *)
FirstNeg(table, p, i) ==
    /\ table[i].active /\ table[i].cpid = p
    /\ \A j \in NegSlot : j < i => ~(table[j].active /\ table[j].cpid = p)

FoundNeg(p, i) == FirstNeg(negTable, p, i)

(* FoundByPath(p, i): the slot that a path holding p addresses.            *)
FoundByPath(p, i) == UriId[p] # NoPid /\ FoundNeg(UriId[p], i)

(* dsp_neg_apply on an active slot.                                        *)
dsp_neg_apply(i, e) ==
    negTable' = [negTable EXCEPT ![i].state = dsp_neg_sm_next(@, e)]

dsp_neg_init == /\ ~negReady
                /\ negTable' = NegZero
                /\ negReady' = TRUE

dsp_neg_deinit == /\ negTable' = NegZero
                  /\ negReady' = FALSE

-----------------------------------------------------------------------------
(* Handlers.  An answer other than 2xx changes nothing and is no step: an  *)
(* empty or malformed body, a catalog request, a missing identifier (400), *)
(* no negotiation of that identifier (404), a full table (500).            *)

(* POST /negotiations/offers: claim a slot (500 when there is none), ...   *)
OfferClaim(p) ==
    /\ Ready
    /\ \E i \in NegSlot :
          /\ FreeNeg(i)
          /\ negTable' = [negTable EXCEPT ![i].active = TRUE]
          /\ httpd' = [pc |-> "offer_state", pid |-> p, slot |-> i]
    /\ UNCHANGED <<server, told, negReady>>

(* ... fill it in, ...                                                     *)
OfferState ==
    /\ At("offer_state")
    /\ negTable' = [negTable EXCEPT ![httpd.slot].state = "REQUESTED"]
    /\ Goto("offer_pid")
    /\ UNCHANGED <<server, told, negReady>>

OfferPid ==
    /\ At("offer_pid")
    /\ negTable' = [negTable EXCEPT ![httpd.slot].cpid = httpd.pid]
    /\ Goto("offer_apply")
    /\ UNCHANGED <<server, told, negReady>>

(* ... apply OFFER, and answer 201 with OFFERED whatever apply returned.   *)
OfferApply ==
    /\ At("offer_apply")
    /\ dsp_neg_apply(httpd.slot, "OFFER")
    /\ Tell(httpd.pid, "OFFERED")
    /\ UNCHANGED <<server, negReady>>

(* POST /negotiations/{id}/agree answers 200 when the state after AGREE is *)
(* AGREED, and 400 otherwise.                                              *)
AgreeAnswers200(i) == dsp_neg_sm_next(negTable[i].state, "AGREE") = "AGREED"

Agree(p) ==
    /\ Ready
    /\ \E i \in NegSlot :
          /\ FoundByPath(p, i)
          /\ dsp_neg_apply(i, "AGREE")
          /\ IF AgreeAnswers200(i) THEN Tell(UriId[p], "AGREED")
                                   ELSE UNCHANGED <<httpd, told>>
    /\ UNCHANGED <<server, negReady>>

(* POST /negotiations/terminate names the negotiation in its body.         *)
Terminate(p) ==
    /\ TerminateRouted
    /\ Ready
    /\ \E i \in NegSlot : FoundNeg(p, i) /\ dsp_neg_apply(i, "TERMINATE")
    /\ Tell(p, "TERMINATED")
    /\ UNCHANGED <<server, negReady>>

(* GET /negotiations/{id}: a state with no name of its own is reported as  *)
(* REQUESTED.                                                              *)
NegReported(i) == IF negTable[i].state = "INITIAL" THEN "REQUESTED"
                  ELSE negTable[i].state

NegGet(p) ==
    /\ Ready
    /\ \E i \in NegSlot : /\ FoundByPath(p, i)
                          /\ Tell(UriId[p], NegReported(i))
    /\ UNCHANGED <<server, negVars>>

NegRequest == \E p \in Pid : OfferClaim(p) \/ Agree(p) \/ Terminate(p) \/ NegGet(p)

NegContinue == OfferState \/ OfferPid \/ OfferApply

-----------------------------------------------------------------------------
(* Negotiation alone: the server and the protocol task that starts the     *)
(* module before the server and clears it after (dsp_protocol).            *)

NegAllVars == <<server, httpd, told, negVars>>

NegInit == /\ server = "off" /\ httpd = Idle /\ told = {}
           /\ negTable = NegZero /\ negReady = FALSE

NegSetup == dsp_neg_init /\ UNCHANGED <<server, httpd, told>>

(* protocol_stop clears the table once the server is off; what consumers   *)
(* were told is void from then on.                                         *)
NegTeardown == /\ server = "off" /\ negReady
               /\ dsp_neg_deinit
               /\ told' = {}
               /\ UNCHANGED <<server, httpd>>

NegServerStep == /\ negReady
                 /\ HttpStart \/ HttpStopRequest \/ HttpStopped
                 /\ UNCHANGED negVars

NegNext == NegSetup \/ NegTeardown \/ NegServerStep \/ NegRequest \/ NegContinue

NegSpec == /\ NegInit /\ [][NegNext]_NegAllVars
           /\ WF_NegAllVars(NegContinue)
           /\ WF_NegAllVars(HttpStopped /\ UNCHANGED negVars)

-----------------------------------------------------------------------------
(* Properties *)

(* A 2xx answer stands: whatever a consumer was told of a negotiation, a   *)
(* lookup of its identifier (dsp_neg_find_by_cpid) still finds one, in that*)
(* state or in a later one.  A repeated offer must not shadow the first.   *)
NegAnswersStand ==
    \A a \in told : a[2] \in NegState =>
        \E i \in NegSlot : /\ FoundNeg(a[1], i)
                           /\ negTable[i].state \in NegLater[a[2]]

(* Until the table is cleared, a slot is never taken from its negotiation: *)
(* it stays active, keeps its identifier once written, and its state only  *)
(* moves forward.                                                          *)
NegSlotsKept ==
    [][negReady' => \A i \in NegSlot : negTable[i].active =>
          /\ negTable'[i].active
          /\ negTable[i].cpid # NoPid => negTable'[i].cpid = negTable[i].cpid
          /\ negTable'[i].state \in NegLater[negTable[i].state]]_NegAllVars
=============================================================================
